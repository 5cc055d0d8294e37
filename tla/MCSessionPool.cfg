CONSTANTS
  Keys = {1, 2}
  Users = {u1, u2}
  Conns = {c1, c2}
  None = none
  MaxIdle = 1
  MaxRequests = 3
SPECIFICATION Spec
INVARIANTS
  IdleIsQuiet
  OwnResponse
  NoLeakOnCleanPath
  DriverOutlived
SYMMETRY Symmetry
CHECK_DEADLOCK FALSE
