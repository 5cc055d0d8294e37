CONSTANTS
  Ops = {o1, o2}
  Buffers = {b1}
  Entries = 3
  None = none
SPECIFICATION Spec
INVARIANT TwoCompletionsToCome
CHECK_DEADLOCK FALSE
