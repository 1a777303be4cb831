SPECIFICATION FairSpec
CONSTANTS
  Deliveries = {d1}
  MaxAttempts = 1
  Delays <- Ladder
  MaxDelay = 1
  StaleAfter = 1
  SweepBatch = 2
  Threshold = 2
  MaxRetries = 0
  MaxFaults = 0
PROPERTIES
  ResumesWhenEnabled
