SPECIFICATION FairSpec
CONSTANTS
  Projects = {p1}
  Sessions = {s1}
  Turns = {t1}
  NoProject = NoProject
  NoSession = NoSession
  NoTurn = NoTurn
  MaxRounds = 1
  MaxCalls = 1
  ParallelTools = FALSE
  Mishaps = {}
  MaxMishaps = 0
PROPERTY LateCallsDropped
CHECK_DEADLOCK FALSE
