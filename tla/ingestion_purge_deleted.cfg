\* A DELETE and one run of one document, no fault.
SPECIFICATION FairSpec
CONSTANTS
  Docs = {d1}
  Users = {u1}
  u1 = u1
  Owner <- OneUser
  Contents = {text}
  scan = scan
  NoContent = NoContent
  Workers = {w1}
  Chunks = {x}
  ChunksOf <- MCChunksOf
  BadContents = {}
  MaxTries = 1
  Faults = {}
  Expirable = {}
  NoDoc = NoDoc
PROPERTIES
  DeletedIsPurged
