SPECIFICATION MCFairSpec
CONSTANTS
  Turns = {"t1", "t2"}
  Calls = {"c1", "c2"}
  NoCall = "none"
PROPERTY EveryRequestAnswered
CHECK_DEADLOCK FALSE
