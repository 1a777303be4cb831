SPECIFICATION Spec
CONSTANTS
  NumRows = 2
  Workers = {w1, w2}
  Tokens = {t1, t2, t3}
  Nobody = Nobody
  Events = {e1}
  BatchSize = 1
  MaxAttempts = 2
  StaleAfter = 1
  BackoffCap = 1
  Backoff <- CappedDoubling
  SweepAge = 1
  MaxCrashes = 1
SYMMETRY Symmetry
INVARIANTS
  TypeOK
  ClaimsAreBacked
  PublishedIsDelivered
PROPERTIES
  OnlyTheClaimantSettles
  SweepSparesCorruptRows
  ImplementsOutbox
