CONSTANTS
  N = 3
  Sizes = {2, 3, 9, 10}
  Cap = 5
  Hdr = 2
  MaxPrivate = 9
  CCMod = 4
  MaxLoss = 2
SPECIFICATION FairSpec
INVARIANTS InBounds OutIsGenuine NothingMissed
PROPERTIES PipeSpec PacketHandled
CHECK_DEADLOCK FALSE
