SPECIFICATION FairSpec
CONSTANTS
  Projects = {p1}
  Sessions = {s1, s2}
  Turns = {t1, t2}
  NoProject = NoProject
  NoSession = NoSession
  NoTurn = NoTurn
  MaxRounds = 1
  MaxCalls = 2
  ParallelTools = TRUE
  Mishaps = {"crash"}
  MaxMishaps = 1
PROPERTY StopSettles
CHECK_DEADLOCK FALSE
