CONSTANTS
  Frames = {root, f1, f2, f3}
  Root = root
  MaxBlocks = 1
SPECIFICATION FairSpec
INVARIANTS
  SingleOwner
  ParentWaits
  DanglingAbandoned
PROPERTY AwaitReturns
CHECK_DEADLOCK FALSE
