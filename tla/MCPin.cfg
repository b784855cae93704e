CONSTANTS
  NoCourier = NoCourier
  Shipments = {t1, t2}
  Couriers = {d1, d2}
  StopLimit = 1
SPECIFICATION IntakeSpec
INVARIANT
  PinnedWorkJoins
CHECK_DEADLOCK FALSE
