\* Two users upload files with the same text, no fault.
SPECIFICATION Spec
CONSTANTS
  Docs = {d1, d2}
  Users = {d1, d2}
  u1 = u1
  Owner <- OwnUser
  Contents = {text}
  scan = scan
  NoContent = NoContent
  Workers = {w1}
  Chunks = {x}
  ChunksOf <- MCChunksOf
  BadContents = {}
  MaxTries = 1
  Faults = {}
  Expirable = {}
  NoDoc = NoDoc
INVARIANTS
  ReadyIsSearchable
