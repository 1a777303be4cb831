--------------------------- MODULE MCPersonIdentity ---------------------------
(* Small instances of PersonIdentity for TLC: the stories a run may tell.  *)
EXTENDS PersonIdentity, TLC

\* 1 and 2 are anonymous device ids, the others are users.
Event(kind, prev, id, ts, write) ==
  [kind |-> kind, prev |-> prev, id |-> id, ts |-> ts, write |-> write]
Resolves(id, ts, write) == Event("resolve", id, id, ts, write)
Identifies(prev, id, ts, write) == Event("identify", prev, id, ts, write)
Rebuilds == Event("rebuild", 1, 1, 0, "none")

Symmetry == Permutations(Workers)

\* A device is seen, its user is seen, and the device is identified.
Logins ==
  {<<Resolves(1, t[1], v[1]), Resolves(3, t[2], v[2]), Identifies(1, 3, t[3], v[3])>> :
     t \in [1..3 -> 1..2], v \in [1..3 -> {"set", "setOnce"}]}

\* Two devices of one user, one of them unknown until it is identified.
Devices ==
  {<<Identifies(1, 3, t[1], "set"), Identifies(2, 3, t[2], "setOnce"), z>> :
     t \in [1..2 -> 1..2],
     z \in {Resolves(2, 1, "set"), Resolves(1, 2, "none"), Rebuilds}}

\* A device passes from one user to another, and users are identified in chains.
Chains ==
  {<<Identifies(1, 3, t[1], "setOnce"), Identifies(1, 4, t[2], "set"), z>> :
     t \in [1..2 -> 1..2],
     z \in {Resolves(4, 1, "set"), Identifies(3, 4, 2, "none"), Identifies(2, 3, 1, "set"),
            Identifies(2, 4, 2, "set"), Rebuilds}}

\* Two devices of one user pass to two others at once; a rebuild runs meanwhile.
Partings ==
  {<<Identifies(1, 3, t, "set"), Identifies(2, 3, 1, "setOnce"), Identifies(1, 4, 2, "set"), z>> :
     t \in 1..2, z \in {Identifies(2, 5, 1, "setOnce"), Rebuilds}}

AllStories == Logins \cup Devices \cup Chains \cup Partings
=============================================================================
