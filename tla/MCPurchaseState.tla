--------------------------- MODULE MCPurchaseState ---------------------------
(* Small instances of PurchaseState for TLC: the stories a run may tell.   *)
EXTENDS PurchaseState, TLC

Note(kind, subject, product, txn, at, date) ==
  [kind |-> kind, subject |-> subject, product |-> product, txn |-> txn, at |-> at,
   date |-> date, next |-> product, owner |-> "p2", mode |-> "toNewOwner"]

(* One series under two products: two further events of any kind, in any   *)
(* order.                                                                  *)
LaterEvents(at) ==
  {Note(k, "s1", "A", "t1", at, at + 2) : k \in {"start", "renew"}}
    \cup {Note(k, "s1", "B", "t2", at, at + 2) : k \in {"start", "renew"}}
    \cup {Note(k, "s1", "A", "t1", at, at) : k \in KnownKinds}
    \cup {Note(k, "s1", "A", "t1", at, at + 3) : k \in MutationKinds}
Lifecycles ==
  {<<Note(k, "s1", "A", "t1", 1, 3), x, y>> :
     k \in {"start", "renew"}, x \in LaterEvents(2), y \in LaterEvents(3)}

(* Two subjects of one person.                                             *)
Pairs ==
  {<<Note("start", "s1", "A", "t1", 1, 4), Note("purchase", "c1", "B", "t2", 2, 0), z>> :
     z \in {Note("expire", "s1", "A", "t1", 3, 3), Note("refund", "c1", "B", "t2", 3, 3),
            Note("revokePurchase", "c1", "B", "t2", 3, 3)}}

(* The SDK and the store report one purchase under two keys.               *)
Reports ==
  {<<Note("purchase", "c1", "A", "t1", 1, 0), Note("purchase", "c1", "A", "t1", 2, 0), z>> :
     z \in {Note("refund", "c1", "A", "t1", 3, 3),
            Note("revokePurchase", "c1", "A", "t1", 3, 3)}}

(* A refund, the expiry it causes, and its reversal.                       *)
Reversals ==
  {<<Note("start", "s1", "A", "t1", 1, 6), Note("refund", "s1", "A", "t1", 2, 3),
     Note("expire", "s1", "A", "t1", 3, 3), Note("reverse", "s1", "A", "t1", 4, d)>> : d \in {0, 4, 6}}
  \cup
  {<<Note("purchase", "c1", "A", "t1", 1, 0), Note("refund", "c1", "A", "t1", 2, 2),
     Note("reverse", "c1", "A", "t1", 3, 0)>>}

Restore(subject, at, mode) ==
  [Note("transfer", subject, "A", "t1", at, 0) EXCEPT !.mode = mode]

Transfers ==
  {<<Note("start", "s1", "A", "t1", 1, 4), Restore("s1", 2, m), z>> :
     m \in TransferModes,
     z \in {Note("expire", "s1", "A", "t1", 3, 3), Note("start", "s2", "A", "t2", 3, 5)}}
  \cup {<<Note("start", "s1", "A", "t1", 1, 4), Restore("s1", 2, "toNewOwner"),
           [Restore("s1", 2, "toNewOwner") EXCEPT !.owner = "p1"]>>}
  \cup {<<Note("purchase", "c1", "A", "t1", 1, 0), Restore("c1", 2, m),
          Note("refund", "c1", "A", "t1", 3, 3)>> : m \in TransferModes}

AllStories == Lifecycles \cup Pairs \cup Reports \cup Reversals \cup Transfers

FirstBuyer == [s \in Subjects |-> IF s = "s2" THEN "p2" ELSE "p1"]

Symmetry == Permutations(Workers)
=============================================================================
