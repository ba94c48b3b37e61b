CONSTANTS
  Described <- AllStructures
  MaxCalls = 2
SPECIFICATION GSpec
INVARIANTS
  TypeOK
  ActsAsRecord
  NothingStale
  LengthsAgree
  KindIsWellMade
  GeneratedWhole
CHECK_DEADLOCK FALSE
