\* Two uploads of the same file by one user, two job slots.
SPECIFICATION Spec
CONSTANTS
  Docs = {d1, d2}
  Users = {u1}
  u1 = u1
  Owner <- OneUser
  Contents = {text}
  scan = scan
  NoContent = NoContent
  Workers = {w1, w2}
  Chunks = {}
  ChunksOf <- MCChunksOf
  BadContents = {}
  MaxTries = 1
  Faults = {"timeout", "api"}
  Expirable = {"failed"}
  NoDoc = NoDoc
SYMMETRY Symmetric
INVARIANTS
  OneActiveCopy
PROPERTIES
  ImplementsLifecycle
