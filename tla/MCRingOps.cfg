CONSTANTS
  Ops = {o1, o2}
  Buffers = {b1}
  Entries = 2
  None = none
SPECIFICATION FairSpec
INVARIANTS
  NoReferenceAfterResume
  ResultIsOutcome
  BufferOwnership
PROPERTIES
  LostOnlyToTimeout
  TimeoutResumes
CHECK_DEADLOCK FALSE
