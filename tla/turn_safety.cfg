SPECIFICATION Spec
CONSTANTS
  Projects = {p1, p2}
  Sessions = {s1, s2}
  Turns = {t1, t2}
  NoProject = NoProject
  NoSession = NoSession
  NoTurn = NoTurn
  MaxRounds = 1
  MaxCalls = 1
  ParallelTools = FALSE
  Mishaps = {"move", "fault", "crash"}
  MaxMishaps = 1
SYMMETRY Symmetry
INVARIANTS
  TypeOK
  OneActiveTurn
  StopReachesAgent
  LockHeldByRunner
  SameProjectExcluded
  NoStrandedTurn
  FinishedIsCompleted
  SettledSessionShowsLatest
PROPERTIES
  StoppedNeverSucceeds
  ImplementsTurnRecord
CHECK_DEADLOCK FALSE
