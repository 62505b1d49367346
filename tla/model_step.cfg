SPECIFICATION MCSpec
CONSTANTS
  Protocols = {"chat", "responses", "anthropic"}
  f = f
  g = g
  Asks <- MCAsks
  Registered <- MCRegistered
  Shared = {1}
  NoId = 0
  NoPath = NoPath
  Wide = Wide
  Stranger = 99
  BudgetChars = 10
  OutputReserveChars = 0
  ToolLimits = {4, 32}
  Sizes = {2, 5, 40}
  MaxMessages = 4
  MaxCalls = 3
  MaxEdges = 2
  Pieces = 3
INVARIANTS
  TypeOK
  ContextIsRecent
  EachCallRunsOnce
  GrantedEdgesHold
  NothingPartialRuns
PROPERTY ImplementsBatch
CHECK_DEADLOCK FALSE
