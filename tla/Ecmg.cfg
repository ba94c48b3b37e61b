CONSTANTS
  StreamIds = {0, 1, 2, 3}
  Requests <- Requested
  Wanted = 3
  Periods = {3, 6}
  Channel = 7
  Answers = {}
  MaxLag = 1
  Patience = 5
  Capacity = 2
  NULL = NULL
SPECIFICATION EcmgSpec
INVARIANTS Agreed NoComplaint NoStandoff NotReset
PROPERTIES EcmsKeepComing EndsTogether
CHECK_DEADLOCK FALSE
