CONSTANTS
  MaxSections = 3
  Width = 3
  MaxLast = 1
  Versions = {0, 1}
  Exts = {e1}
  Keys = {k1, k2}
  Corrupt = Corrupt
  NULL = NULL
SPECIFICATION FairSpec
INVARIANTS CurrentWhole NextPartial NoLeak
PROPERTIES SwitchIsNews HandlerReturns
