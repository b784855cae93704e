CONSTANTS
  Tasks = {t1, t2}
  Devices = {d1, d2}
  NoDevice = NoDevice
  Rounds = {1, 2}
  Days = {1, 2}
  MaxAttempts = 2
  Capacity = 2
  MaxGeneration = 3
  MaxRevision = 4
  MaxViews = 2
  MaxStarting = 1
SPECIFICATION ExecutionSpec
INVARIANTS
  OneActivity
  AttemptsSettleOnce
  CapacityKept
  WorkIsAdmitted
  DayCoversRound
  DriverReadsAgree
  OffersAccepted
PROPERTIES
  ClosedIsFrozen
  NothingFromBeforeTakeover
SYMMETRY MCSymmetry
CHECK_DEADLOCK FALSE
