SPECIFICATION FairSpec
CONSTANTS
  Devices = {d1}
  Workers = {w1, w2}
  Requests = {r1, r2}
  None = None
  MaxAttempts = 2
  MaxRetries = 2
  MaxCrashes = 1
  MaxChanges = 2
INVARIANTS
  TypeOK
  OneSendPerKey
PROPERTIES
  EveryDeliverySettles
CHECK_DEADLOCK FALSE
