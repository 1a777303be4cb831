CONSTANTS
  coded = coded
  edited = edited
  home = home
  offer = offer
  test = test
  oldDoc = oldDoc
  newDoc = newDoc
  r1 = r1
  r2 = r2
  r3 = r3
  None = None
  Requests <- MCRequests
  Paywalls <- MCPaywalls
  Locations <- MCLocations
  Experiments <- MCExperiments
  Contents <- MCContents
  Calls <- MCCalls
  Starts <- MCStarts
  MaxVersion = 4
  MaxOverlap = 3
SYMMETRY Symmetry
SPECIFICATION Spec
INVARIANTS TypeOK ActiveRelease OneShowing CodeFollows ConcludedLetsGo
CHECK_DEADLOCK FALSE
