SPECIFICATION Spec
CONSTANTS
  Devices = {d1, d2}
  Workers = {w1, w2}
  Requests = {r1, r2}
  None = None
  MaxAttempts = 2
  MaxRetries = 1
  MaxCrashes = 1
  MaxChanges = 0
SYMMETRY Symmetry
INVARIANTS
  OneClaimant
  AcceptedOnce
  ParentTells
PROPERTIES
  FinishedStays
CHECK_DEADLOCK FALSE
