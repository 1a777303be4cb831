SPECIFICATION Spec
CONSTANTS
  Deliveries = {d1}
  MaxAttempts = 2
  Delays <- Ladder
  MaxDelay = 2
  StaleAfter = 1
  SweepBatch = 2
  Threshold = 2
  MaxRetries = 1
  MaxFaults = 0
INVARIANTS
  TypeOK
  SucceededIsAcknowledged
  ExhaustedIsSpent
  FailingEndpointIsStopped
