CONSTANTS
  i1 = i1
  task = task
  trip = trip
  NoClaim = NoClaim
  NoEndpoint = NoEndpoint
  Integrations = {i1}
  Streams <- MCStreams
  Recipient <- MCRecipient
  Workers = {w1, w2}
  Unsupported <- MCUnsupported
  Losable <- MCLosable
  ApiClockAhead = TRUE
  MaxSequence = 2
  MaxAttempts = 2
  MaxFaults = 2
  MaxRevision = 1
  MaxKey = 1
SPECIFICATION OutboxSpec
INVARIANT
  HeadOfLine
PROPERTY
  OutcomesFinal
CHECK_DEADLOCK FALSE
SYMMETRY MCSymmetry
