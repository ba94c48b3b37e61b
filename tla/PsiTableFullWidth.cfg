CONSTANTS
  MaxSections = 2
  Width = 2
  MaxLast = 1
  Versions = {0, 1}
  Exts = {e1}
  Keys = {k1, k2}
  Corrupt = Corrupt
  NULL = NULL
SPECIFICATION FairSpec
PROPERTIES HandlerReturns
