CONSTANTS
  Sids = {0, 1, 2}
  Pids = {1, 2, 3}
  FixedPids = {3}
  EitNums = {0}
  MaxChanges = 2
  MaxSlots = 5
  NULL = NULL
  Airs <- AllAirs
SPECIFICATION MCSpec
INVARIANTS AnnouncedKnown
PROPERTIES RefsExact ReceiverFollows ClockFound
CHECK_DEADLOCK FALSE
