CONSTANTS
  N = 3
  Sizes = {2, 5, 7}
  Cap = 5
  Hdr = 2
  MaxPrivate = 5
  CCMod = 4
  MaxLoss = 0
SPECIFICATION Spec
INVARIANTS NothingThatFitsMissed
CHECK_DEADLOCK FALSE
