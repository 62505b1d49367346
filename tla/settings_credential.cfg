SPECIFICATION WindowSpec
CONSTANTS
  Places = {"cloud"}
  Plain = {}
  Insecure = {}
  Models = {"m1", "m2"}
  Accounts = {"default", "work"}
  DefaultPlace = "cloud"
  None = None
  Contents <- MCContents
  HandWritten <- MCHandWritten
  Typed = {}
  Modes = {"manual"}
  Turns = {}
  MaxFaults = 0
INVARIANT ChosenCredentialIsUsed
CHECK_DEADLOCK FALSE
