SPECIFICATION Spec
CONSTANTS
  Notices = {1, 2, 3}
  Persons = {"p1", "p2"}
  Products = {"A", "B"}
  Series = {"s1", "s2"}
  Charges = {"c1"}
  Txns = {"t1", "t2"}
  None = None
  Horizon = 6
  Workers = {w1, w2}
  Stories <- Pairs
  Buyer <- FirstBuyer
  MaxAborts = 0
SYMMETRY Symmetry
INVARIANTS
  PerksAlwaysFollow
