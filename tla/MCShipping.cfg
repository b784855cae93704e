CONSTANTS
  NoOutcome = NoOutcome
  NoVisit = NoVisit
  NoEvidence = NoEvidence
  ShipmentPieces = 2
  ShippingDue = 1
  LateKinds = {"full"}
  MaxCycles = 3
  MaxReports = 3
  MaxRetries = 1
  MaxOffers = 2
SPECIFICATION CustodySpec
INVARIANT
  ShippingChargedOnce
CHECK_DEADLOCK FALSE
