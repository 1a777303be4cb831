SPECIFICATION Spec
CONSTANTS
  Ids = {1, 2, 3, 4, 5}
  Anonymous = {1, 2}
  Workers = {w1, w2, w3}
  Events = {1, 2, 3, 4}
  Stories <- AllStories
  None = None
  MaxRuns = 2
SYMMETRY Symmetry
INVARIANTS
  TypeOK
  BornOnce
  NothingStitchedUnasserted
  TraitsAreFolded
  LeadsToElder
  RebuildAgrees
CHECK_DEADLOCK FALSE
