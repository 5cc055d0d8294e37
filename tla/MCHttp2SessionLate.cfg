CONSTANTS
  Reqs = {r1, r2}
  Driver = driver
  MaxFrames = 1
  MaxInbox = 3
SPECIFICATION Spec
INVARIANT AnsweredSucceeds
CHECK_DEADLOCK FALSE
