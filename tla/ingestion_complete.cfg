\* One document of two chunks, no age threshold passes: attempts, batches and redeliveries.
SPECIFICATION Spec
CONSTANTS
  Docs = {d1}
  Users = {u1}
  u1 = u1
  Owner <- OneUser
  Contents = {text, scan}
  scan = scan
  NoContent = NoContent
  Workers = {w1, w2}
  Chunks = {x, y}
  ChunksOf <- MCChunksOf
  BadContents = {scan}
  MaxTries = 2
  Faults = {"storage", "pipeline", "cleanup", "timeout", "interrupt", "queue"}
  Expirable = {}
  NoDoc = NoDoc
SYMMETRY Symmetric
INVARIANTS
  ReadyIsComplete
