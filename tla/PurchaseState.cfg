SPECIFICATION Spec
CONSTANTS
  Notices = {1, 2, 3, 4}
  Persons = {"p1", "p2"}
  Products = {"A", "B"}
  Series = {"s1", "s2"}
  Charges = {"c1"}
  Txns = {"t1", "t2"}
  None = None
  Horizon = 6
  Workers = {w1, w2}
  Stories <- AllStories
  Buyer <- FirstBuyer
  MaxAborts = 1
SYMMETRY Symmetry
INVARIANTS
  TypeOK
  OneRowPerSeries
  OpeningIsAnnouncedOnce
  NewestDecides
  PerksFollowRows
PROPERTIES
  ImplementsSerial
