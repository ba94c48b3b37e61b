CONSTANTS
  Width = 64
  LongLength = 128
  NumberWidth = 4
  MaxEntries = 4
  None = None
SPECIFICATION FairLoopSpec
INVARIANTS
  AcceptedIsRead
PROPERTIES
  ListSpec
  WalkEnds
CHECK_DEADLOCK FALSE
