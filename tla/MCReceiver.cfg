CONSTANTS
  task = task
  request = request
  NoJob = NoJob
  NoReport = NoReport
  Streams <- MCStreams
  Agents = {g1, g2}
  MaxSequence = 3
  PageLimit = 1
  MaxUnproductive = 2
  MaxCrashes = 2
  Requires <- MCRequires
  Poison <- MCPoison
  Losable <- MCLosable
SPECIFICATION ReceiverSpec
INVARIANTS
  ProjectionExact
  HistoryHonest
  ReportsSound
PROPERTY
  ProjectionAdvances
SYMMETRY MCSymmetry
CHECK_DEADLOCK FALSE
