SPECIFICATION MCSpec
CONSTANTS
  Places = {"cloud", "home"}
  Plain = {"home"}
  Insecure = {}
  Models = {"m1"}
  Accounts = {"default", "work"}
  DefaultPlace = "cloud"
  None = None
  Contents <- MCContents
  HandWritten <- MCHandWritten
  Modes = {"ask", "manual", "full"}
  Typed = {""}
  Turns = {t1}
  MaxFaults = 1
INVARIANTS
  TypeOK
  SettingsSurvive
  ActiveIsUsed
  KeysFit
  
  ProjectCannotLoosen
CHECK_DEADLOCK FALSE
