CONSTANTS
  Delays <- MCDelays
  NotANumber = NaN
  LongMax = 7
  NsPerMs = 2
  MaxId = 2
  MaxTime = 6
SPECIFICATION FairSpec
INVARIANTS
  KeyPerTimer
PROPERTIES
  TickEnds
  LoopReturns
  ClearIsFinal
  DeadlineOrder
CHECK_DEADLOCK FALSE
