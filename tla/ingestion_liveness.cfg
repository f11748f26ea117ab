\* One document, its job may be cancelled, redelivered, dropped or lost.
SPECIFICATION FairSpec
CONSTANTS
  Docs = {d1}
  Users = {u1}
  u1 = u1
  Owner <- OneUser
  Contents = {text}
  scan = scan
  NoContent = NoContent
  Workers = {w1}
  Chunks = {x}
  ChunksOf <- MCChunksOf
  BadContents = {}
  MaxTries = 2
  Faults = {"cleanup", "timeout", "interrupt", "evict"}
  Expirable = {"pending", "processing", "failed"}
  NoDoc = NoDoc
PROPERTIES
  ProcessingEnds
  PendingEnds
  FailedEnds
