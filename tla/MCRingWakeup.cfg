CONSTANTS
  Workers = {w1, w2}
  Handles = {h1, h2}
  Root = h1
  Loop = loop
  Ev = ev
  MayAgain = TRUE
SPECIFICATION FairSpec
INVARIANTS
  TypeOK
  NoLostWakeup
  EvReadArmedOnce
  QueuedOnce
PROPERTIES
  PostedIsResumed
  ImplementsResumeQueue
CHECK_DEADLOCK FALSE
