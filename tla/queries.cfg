SPECIFICATION QueriesSpec
CONSTANTS
  m1 = m1
  Requests = {r1, r2}
  PoolModels = {m1, m2}
  Spare = m3
  MaxAsks = 3
  Askers = {a1, a2}
  MaxClients = 4
  Executions = {e1, e2}
  MaxSubQueries = 2
  MaxConcurrent = 1
INVARIANTS
  QueriesTypeOK
  SingleFlight
  MainStoreUsable
  GivesUpWithoutChunks
PROPERTIES
  EveryQueryEnds
  ExecutionsEnd
CHECK_DEADLOCK FALSE
