SPECIFICATION FairSpec
CONSTANTS
  Providers = {"stripe", "app-store"}
  Events <- Pair
  Original <- OfTheFirst
  Sweeps = {s1}
  Workflows = {w1}
  MaxAttempts = 2
  MaxChanges = 3
  MaxFaults = 1
  MaxAged = 1
INVARIANTS
  TypeOK
  NothingIsLost
PROPERTIES
  ReadyIsReplayed
