SPECIFICATION MCSpec
CONSTANTS
  Servers = {s1, s2}
  NewIds = {s1, s2}
  Versions = {v1, v2, bad}
  Invalid = {bad}
  Clients = {c1, c2}
  Sessions = {x1, x2}
  MaxFaults = 1
  MaxListed = 2
  None = None
SYMMETRY Interchangeable
INVARIANTS
  TypeOK
  OfferedIsOpen
  ConfigAgrees
  SoloConnectIsSound
CHECK_DEADLOCK FALSE
