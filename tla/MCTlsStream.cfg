CONSTANTS
  Callers = {u1, u2}
  Readers = {u1}
  RecCells = 3
  BioCap = 2
  RecvMax = 2
  MaxWrites = 3
  MaxPeer = 3
SPECIFICATION FairSpec
INVARIANTS
  WireInOrderAlone
  ReturnedIsSent
  ReadInOrder
PROPERTIES
  FlushEnds
  ReaderServed
CHECK_DEADLOCK FALSE
