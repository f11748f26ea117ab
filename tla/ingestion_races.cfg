\* One document under every age threshold and every fault but a lost job key or an API restart.
SPECIFICATION Spec
CONSTANTS
  Docs = {d1}
  Users = {u1}
  u1 = u1
  Owner <- OneUser
  Contents = {text, scan}
  scan = scan
  NoContent = NoContent
  Workers = {w1, w2}
  Chunks = {x}
  ChunksOf <- MCChunksOf
  BadContents = {scan}
  MaxTries = 2
  Faults = {"storage", "pipeline", "cleanup", "timeout", "interrupt", "queue"}
  Expirable = {"pending", "processing", "failed"}
  NoDoc = NoDoc
SYMMETRY Symmetric
INVARIANTS
  TypeOK
  RetryableKeepsObject
PROPERTIES
  NoTakeover
