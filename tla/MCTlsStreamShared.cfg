CONSTANTS
  Callers = {u1, u2}
  Readers = {u1}
  RecCells = 1
  BioCap = 2
  RecvMax = 2
  MaxWrites = 2
  MaxPeer = 1
SPECIFICATION Spec
INVARIANT WireInOrder
CHECK_DEADLOCK FALSE
