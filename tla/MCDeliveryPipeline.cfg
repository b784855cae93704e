CONSTANTS
  i1 = i1
  task = task
  NoClaim = NoClaim
  NoEndpoint = NoEndpoint
  NoJob = NoJob
  NoReport = NoReport
  Integrations = {i1}
  Streams <- MCStreams
  Recipient <- MCRecipient
  Workers = {w1}
  Agents = {g1}
  Unsupported <- MCNothing
  Requires <- MCRequires
  Poison <- MCNothing
  Losable <- MCLosable
  ApiClockAhead = TRUE
  MaxSequence = 2
  MaxAttempts = 2
  MaxFaults = 1
  MaxRevision = 1
  MaxKey = 1
  PageLimit = 2
  MaxUnproductive = 0
  MaxCrashes = 1
SPECIFICATION PipelineSpec
PROPERTY
  KeepsPromise
CHECK_DEADLOCK FALSE
