CONSTANTS
  MuxPids = {1, 2}
  Optional = {2}
  Sizes = {3, 6, 7}
  Cap = 4
  Hdr = 2
  MaxPrivate = 9
  CCMod = 3
  MaxPackets = 7
  None = None
SPECIFICATION Spec
INVARIANTS MissedOnlyAsRepetition
PROPERTIES SplicedOnlyBlind
CHECK_DEADLOCK FALSE
