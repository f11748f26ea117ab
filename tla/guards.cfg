SPECIFICATION GuardsSpec
CONSTANTS
  c1 = c1
  c2 = c2
  fast = fast
  both = both
  Callers = {c1, c2}
  RoleOf <- MCRoleOf
  FastPool <- MCFastPool
  StrongPool <- MCStrongPool
  Workers = {w1, w2}
  QueueMax = 1
  RpdLimit = 2
  RpdGuard = 1
  TpdLimit = 4
  TpdGuard = 1
  EstTokens = 1
  Costs = {1}
  MaxDay = 1
  MaxExpiries = 1
  None = None
  Tasks = {t1, t2, t3}
  MaxConcurrent = 2
  RpmCapacity = 1
  RpmPeriod = 2
  RpdCapacity = 3
  RpdPeriod = 3
  Credit = 2
  Burst = 2
  Clients = {p1, p2}
  Keys = {k1}
  Threshold = 2
  ResetTime = 2
  L1Max = 2
  MemoryKeys = {m1, m2, m3}
  MemoryTtls = {0, 1, 2}
INVARIANTS
  GuardsTypeOK
  DailyBudgetKept
  RateKept
  OutageCostBounded
PROPERTIES
  ImplementsService
  CooldownOutlivesSuccess
  EveryCallPasses
  CircuitRecovers
