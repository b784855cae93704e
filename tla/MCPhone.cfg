CONSTANTS
  t1 = t1
  t2 = t2
  NoTab = NoTab
  Tabs = {t1, t2}
  MaxActions = 2
  MaxGeneration = 2
  MaxFaults = 1
  MaxWork = 2
  MaxDrafts = 1
  MaxStarts = 1
SPECIFICATION PhoneSpec
INVARIANTS
  NothingVanishes
  AcceptedAsShown
  QuietWhenLeaving
  PreparedStart
SYMMETRY MCSymmetry
CHECK_DEADLOCK FALSE
