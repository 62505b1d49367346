SPECIFICATION Spec
CONSTANTS
  Projects = {p1}
  Sessions = {s1}
  Turns = {t1}
  NoProject = NoProject
  NoSession = NoSession
  NoTurn = NoTurn
  MaxRounds = 1
  MaxCalls = 1
  ParallelTools = FALSE
  Mishaps = {}
  MaxMishaps = 0
INVARIANT CancelledIsStored
CHECK_DEADLOCK FALSE
