CONSTANTS
  u = u
  o = o
  d1 = d1
  d2 = d2
  NoTask = NoTask
  NoPlan = NoPlan
  NoJob = NoJob
  Unavailable = Unavailable
  Broken = Broken
  NoOutcome = NoOutcome
  NoVisit = NoVisit
  NoEvidence = NoEvidence
  NoCourier = NoCourier
  Tasks = {u, o}
  Urgent = {u}
  Capacity = 2
  Planners = {w1}
  MaxRevision = 4
  MaxAttempts = 2
  MaxPlanFaults = 1
  ShipmentPieces = 2
  ShippingDue = 1
  LateKinds = {"full"}
  MaxCycles = 3
  MaxReports = 2
  MaxRetries = 1
  MaxOffers = 2
  Shipments = {t1, t2}
  Couriers = {d1, d2}
  StopLimit = 1
  Reconcilers = {w1, w2}
  Logins = {s1}
  Wanted <- MCWanted
  MaxRotations = 2
  MaxIdFaults = 1
  Senders = {w1, w2}
  Records = {r1}
  Clerks = {k1, k2}
  MaxCommands = 3
  MaxLaneFaults = 2
  Reads = {q1, q2}
  MaxChanges = 3
  MaxRevisions = 3
  MaxEpochs = 2
  OwnTasks = {t1}
  Pages = {e1, e2}
  TaskRevisions = 3
  Confirmations = 3
  Sources = {a1, a2}
  NoSource = NoSource
  Subjects = {x1}
  Grants = {monitor_read}
  MaxOrders = 4
  Owners = {x1}
  Views = {v1, v2}
  Exporters = {v1}
  MaxReady = 1
  MaxRecords = 1
  MaxContent = 1
  MaxFiles = 2
SPECIFICATION ServicesSpec
INVARIANTS
  CustodyConserved
  OffersHonoured
  NewestIsQueued
  IntakeSound
  AccessSound
  LaneInOrder
  ViewsNeverRegress
  DepartsAtItsAddress
  AuthorityStays
  ExportsAsAuthorized
PROPERTIES
  PlansAdvance
  WorkersCatchUp
CHECK_DEADLOCK FALSE
