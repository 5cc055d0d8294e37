CONSTANTS
  Workers = {w1, w2}
  Handles = {h1, h2}
  Root = h1
  Loop = loop
  Ev = ev
  MayAgain = FALSE
SPECIFICATION Spec
SYMMETRY Symmetry
INVARIANT RingOutlivesPosts
CHECK_DEADLOCK FALSE
