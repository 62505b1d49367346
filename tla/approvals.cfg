SPECIFICATION MCSpec
CONSTANTS
  Turns = {"t1", "t2"}
  Calls = {"c1", "c2"}
  NoCall = "none"
INVARIANTS
  TypeOK
  FirstAnswerRules
  NoLostAnswer
  WaitingIsStored
PROPERTIES
  StoppedNeverStarts
  StopReleases
CHECK_DEADLOCK FALSE
