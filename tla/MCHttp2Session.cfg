CONSTANTS
  Reqs = {r1, r2}
  Driver = driver
  MaxFrames = 2
  MaxInbox = 2
SPECIFICATION FairSpec
INVARIANTS
  WaitersRegistered
  BodyExact
  FailureHasCause
PROPERTIES
  EndResumesWaiters
  CloseReturns
CHECK_DEADLOCK FALSE
