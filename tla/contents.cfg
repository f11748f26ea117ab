SPECIFICATION ContentsSpec
CONSTANTS
  plain = plain
  agent = agent
  small = small
  middle = middle
  large = large
  L1Max = 1
  Lookers = {c1, c2}
  CacheKeys = {plain, agent}
  Topic <- MCTopic
  Prompted <- MCPrompted
  Ttl = 1
  DefaultTtl = 2
  NoKey = NoKey
  Chats = {a, b}
  MaxQuestions = 3
  Nobody = Nobody
  Runners = {u1, u2}
  MaxCommands = 5
  MaxPages = 4
  HeaderPages = 3
  MinChars = 2
  MaxChars = 2
  Texts = {small, middle, large}
  TokensOf <- MCTokensOf
  Boilerplate = {middle}
  Sparse = {small}
  ChunkSize = 4
  Overlap = 2
  MinTokens = 2
  GateTokens = 4
  PrefixTokens = 1
  Pages <- MCPages
  Stored = 4
  Sizes = {1, 3}
  Separator = 1
  Budget = 6
  TopK = 2
  CoarseK = 3
  MinContext = 2
  MaxFound = 2
INVARIANTS
  ServedAgeBounded
  PromptRespected
  InvalidatedStaysGone
  AnswersStayHome
  TurnsPaired
  SchemaMatchesRecord
  TextKept
  ChunksFit
  UnitsKept
  ContextSound
CHECK_DEADLOCK FALSE
