CONSTANTS
  t1 = t1
  t2 = t2
  NoTab = NoTab
  Tabs = {t1}
  MaxActions = 2
  MaxGeneration = 2
  MaxFaults = 1
SPECIFICATION JournalSpec
PROPERTY
  EventuallyConfirmed
CHECK_DEADLOCK FALSE
