SPECIFICATION FairSpec
CONSTANTS
  NumRows = 1
  Workers = {w1, w2}
  Tokens = {t1, t2, t3}
  Nobody = Nobody
  Events = {e1, e2}
  BatchSize = 1
  MaxAttempts = 3
  StaleAfter = 1
  BackoffCap = 3
  Backoff <- CappedDoubling
  SweepAge = 1
  MaxCrashes = 1
PROPERTIES
  EveryRowSettles
  AttemptsCountFailures
