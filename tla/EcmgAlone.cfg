CONSTANTS
  StreamIds = {0, 1, 2, 3}
  Requests <- MCRequests
  NULL = NULL
  Wanted = 3
  Periods = {1, 2, 3}
  Channel = 7
  Answers <- MCAnswers
  MaxLag = 3
SPECIFICATION AloneSpec
INVARIANTS ArrayBounded KeepsPace
PROPERTIES ServiceSpec
CHECK_DEADLOCK FALSE
