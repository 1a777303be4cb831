------------------------- MODULE PersonIdentityProofs -------------------------
(***************************************************************************)
(* The invariants of person identity, for any number of workers, distinct  *)
(* ids and events, redelivered any number of times.                        *)
(*                                                                         *)
(* IInv: a distinct id creates one person, by its advisory lock.           *)
(* KInv: the tables and the open transactions have their types, and what   *)
(* is stitched together is connected by the assertion log.                 *)
(* RInv: what is mapped stays mapped, and a reader that has found no       *)
(* mapping still finds none when it commits.                               *)
(* WInv: until a commit overwrites what another one has changed, connected *)
(* distinct ids are mapped to one live person, merges lead to older        *)
(* persons, and a person's cell is the winner of its writes.               *)
(* Each one needs those before it, and each is kept by every step.         *)
(*                                                                         *)
(* The model computes a component and a chain of merges by recursion.  The *)
(* first lemmas replace the recursion: a component is the least set closed *)
(* under the assertions, and a chain that leads to ever older persons      *)
(* ends.  Both go by the least counterexample.                             *)
(***************************************************************************)
EXTENDS PersonIdentity, FiniteSetTheorems, WellFoundedInduction, TLAPS

(***************************************************************************)
(* The invariant of the locks, IInv, and who creates a person.             *)
(***************************************************************************)
Reading == {"aimed", "sighted"}
Rebuilding == {"listed", "planned"}

(* The tables the argument is about are functions of their keys.           *)
Shapes ==
  /\ story \in Stories
  /\ mapping = [x \in Ids |-> mapping[x]]
  /\ born = [x \in Ids |-> born[x]]
  /\ tx = [w \in Workers |-> tx[w]]

(* A transaction that is to create a person holds the lock of a distinct   *)
(* id that has created none.                                               *)
ReaderOK(t) ==
  /\ t.ev \in DOMAIN story /\ story[t.ev].kind # "rebuild"
  /\ t.target \in Ids
  /\ t.fresh => t.target = story[t.ev].id /\ born[t.target] = 0

ReadersOK == \A w \in Workers : tx[w].phase \in Reading => ReaderOK(tx[w])

SourcesOK ==
  \A w \in Workers : tx[w].phase = "sighted" => tx[w].source \in Ids \cup {None}

(* No transaction unmaps a distinct id, so what a rebuild has listed is    *)
(* mapped when it writes.                                                  *)
ListedOK ==
  \A w \in Workers : tx[w].phase \in Rebuilding =>
    \A x \in Ids : tx[w].rows[x] # None => mapping[x] # None

LocksOK ==
  \A v, w \in Workers :
    (v # w /\ tx[v].phase \in Reading /\ tx[w].phase \in Reading) =>
      Touched(tx[v].ev) \cap Touched(tx[w].ev) = {}

BornIsMapped ==
  \A x \in Ids : born[x] = 0 \/ (born[x] = 1 /\ mapping[x] # None)

IInv == Shapes /\ ReadersOK /\ SourcesOK /\ ListedOK /\ LocksOK /\ BornIsMapped

-----------------------------------------------------------------------------
LEMMA StoryFacts ==
  ASSUME IInv, NEW e \in DOMAIN story
  PROVE  /\ story[e].id \in Ids
         /\ story[e].prev \in Ids
         /\ story[e].kind # "rebuild" => story[e].id \in Touched(e)
         /\ None \notin Ids
<1>1. story[e] \in EventType /\ None \notin Ids
  BY IdentityAssumption DEF IInv, Shapes
<1>2. story[e].id \in Ids /\ story[e].prev \in Ids /\ story[e].kind \in Kinds
  BY <1>1 DEF EventType
<1> QED BY <1>1, <1>2 DEF Touched, Pair, Kinds

LEMMA InitIInv == Init => IInv
<1> SUFFICES ASSUME Init PROVE IInv
  OBVIOUS
<1>1. Shapes
  BY DEF Init, Shapes
<1>2. \A w \in Workers : tx[w].phase = "idle"
  BY DEF Init, Idle
<1>3. BornIsMapped
  BY DEF Init, BornIsMapped
<1> QED BY <1>1, <1>2, <1>3
        DEF IInv, ReadersOK, SourcesOK, ListedOK, LocksOK, Reading, Rebuilding

(* A step that only opens, moves on or closes one transaction.             *)
LEMMA TxStep ==
  ASSUME IInv, NEW w \in Workers, NEW t,
         tx' = [tx EXCEPT ![w] = t], UNCHANGED <<story, mapping, born>>,
         t.phase \in Reading => /\ ReaderOK(t)
                                /\ \A v \in Workers \ {w} : tx[v].phase \in Reading =>
                                     Touched(t.ev) \cap Touched(tx[v].ev) = {},
         t.phase = "sighted" => t.source \in Ids \cup {None},
         t.phase \in Rebuilding => \A x \in Ids : t.rows[x] # None => mapping[x] # None
  PROVE  IInv'
<1>1. /\ Shapes'
      /\ tx'[w] = t
      /\ \A v \in Workers \ {w} : tx'[v] = tx[v]
  BY DEF IInv, Shapes
<1>2. \A u : ReaderOK(u)' <=> ReaderOK(u)
  BY DEF ReaderOK
<1>3. \A e : Touched(e)' = Touched(e)
  BY DEF Touched, Pair
<1>4. ReadersOK'
  BY <1>1, <1>2 DEF IInv, ReadersOK
<1>5. SourcesOK'
  BY <1>1 DEF IInv, SourcesOK
<1>6. ListedOK'
  BY <1>1 DEF IInv, ListedOK
<1>7. LocksOK'
  BY <1>1, <1>3 DEF IInv, LocksOK
<1>8. BornIsMapped'
  BY DEF IInv, BornIsMapped
<1> QED BY <1>1, <1>4, <1>5, <1>6, <1>7, <1>8 DEF IInv

(* The lock guard, for one other reader.                                   *)
LEMMA GuardSeparates ==
  ASSUME NEW w \in Workers, NEW e, Touched(e) \cap LockedByOthers(w) = {},
         NEW v \in Workers \ {w}, tx[v].phase \in Reading
  PROVE  Touched(e) \cap Touched(tx[v].ev) = {}
<1>1. tx[v] # Idle
  BY DEF Idle, Reading
<1>2. Touched(tx[v].ev) \subseteq LockedByOthers(w)
  BY <1>1 DEF LockedByOthers
<1> QED BY <1>2

(* Opening a transaction: its advisory locks exclude the other readers.    *)
LEMMA OpenIInv ==
  ASSUME IInv, NEW w \in Workers, NEW e \in DOMAIN story, Aim(w, e) \/ List(w, e)
  PROVE  IInv'
<1>1. CASE Aim(w, e)
  <2> DEFINE x == story[e].id
  <2>1. PICK p \in IF mapping[x] = None THEN {x} ELSE Ends(mapping[x]) :
          tx' = [tx EXCEPT ![w] =
            [phase |-> "aimed", ev |-> e, fresh |-> mapping[x] = None, target |-> p,
             row |-> IF mapping[x] = None THEN NewRow(e) ELSE persons[p]]]
    BY <1>1 DEF Aim
  <2> DEFINE t == [phase |-> "aimed", ev |-> e, fresh |-> mapping[x] = None, target |-> p,
                   row |-> IF mapping[x] = None THEN NewRow(e) ELSE persons[p]]
  <2>2. x \in Ids
    BY StoryFacts
  <2>3. p \in Ids /\ (mapping[x] = None => p = x /\ born[x] = 0)
    BY <2>1, <2>2 DEF Ends, IInv, BornIsMapped
  <2>4. ReaderOK(t)
    BY <1>1, <2>3 DEF Aim, ReaderOK
  <2>5. \A v \in Workers \ {w} : tx[v].phase \in Reading =>
          Touched(t.ev) \cap Touched(tx[v].ev) = {}
    BY <1>1, GuardSeparates DEF Aim
  <2>6. t.phase = "aimed" /\ tx' = [tx EXCEPT ![w] = t] /\ UNCHANGED <<story, mapping, born>>
    BY <1>1, <2>1 DEF Aim, tables
  <2> HIDE DEF t
  <2> QED BY <2>4, <2>5, <2>6, TxStep DEF Rebuilding
<1>2. CASE List(w, e)
  <2> DEFINE t == [phase |-> "listed", ev |-> e, rows |-> mapping]
  <2>1. tx' = [tx EXCEPT ![w] = t] /\ UNCHANGED <<story, mapping, born>>
    BY <1>2 DEF List, tables
  <2>2. t.phase = "listed" /\ t.rows = mapping
    OBVIOUS
  <2> HIDE DEF t
  <2> QED BY <2>1, <2>2, TxStep DEF Reading
<1> QED BY <1>1, <1>2

LEMMA MoveIInv ==
  ASSUME IInv, NEW w \in Workers, Sight(w) \/ Plan(w) \/ Abort(w)
  PROVE  IInv'
<1>1. CASE Sight(w)
  <2> DEFINE t == tx[w]
             x == story[t.ev].prev
             own == t.fresh /\ x = t.target
  <2>1. PICK p \in IF own THEN {x} ELSE IF mapping[x] = None THEN {None} ELSE Ends(mapping[x]) :
          tx' = [tx EXCEPT ![w] =
            [phase |-> "sighted", ev |-> t.ev, fresh |-> t.fresh, target |-> t.target,
             row |-> t.row, source |-> p,
             srow |-> IF own THEN t.row ELSE IF p = None THEN None ELSE persons[p]]]
    BY <1>1 DEF Sight
  <2> DEFINE s == [phase |-> "sighted", ev |-> t.ev, fresh |-> t.fresh, target |-> t.target,
                   row |-> t.row, source |-> p,
                   srow |-> IF own THEN t.row ELSE IF p = None THEN None ELSE persons[p]]
  <2>2. t.phase \in Reading /\ UNCHANGED <<story, mapping, born>>
    BY <1>1 DEF Sight, tables, Reading
  <2>3. ReaderOK(t)
    BY <2>2 DEF IInv, ReadersOK
  <2>4. x \in Ids
    BY <2>3, StoryFacts DEF ReaderOK
  <2>5. p \in Ids \cup {None}
    BY <2>1, <2>4 DEF Ends
  <2>6. s.phase = "sighted" /\ s.source = p /\ s.ev = t.ev
        /\ s.fresh = t.fresh /\ s.target = t.target
    OBVIOUS
  <2>7. tx' = [tx EXCEPT ![w] = s]
    BY <2>1
  <2> HIDE DEF s
  <2>8. ReaderOK(s)
    BY <2>3, <2>6 DEF ReaderOK
  <2>9. \A v \in Workers \ {w} : tx[v].phase \in Reading =>
          Touched(s.ev) \cap Touched(tx[v].ev) = {}
    BY <2>2, <2>6 DEF IInv, LocksOK
  <2> QED BY <2>2, <2>5, <2>6, <2>7, <2>8, <2>9, TxStep DEF Rebuilding
<1>2. CASE Plan(w)
  <2> DEFINE t == [phase |-> "planned", ev |-> tx[w].ev, rows |-> tx[w].rows,
                   people |-> persons, asserted |-> log]
  <2>1. tx' = [tx EXCEPT ![w] = t] /\ UNCHANGED <<story, mapping, born>>
    BY <1>2 DEF Plan, tables
  <2>2. t.phase = "planned" /\ t.rows = tx[w].rows
    OBVIOUS
  <2>3. \A x \in Ids : tx[w].rows[x] # None => mapping[x] # None
    BY <1>2 DEF Plan, IInv, ListedOK, Rebuilding
  <2> HIDE DEF t
  <2> QED BY <2>1, <2>2, <2>3, TxStep DEF Reading
<1>3. CASE Abort(w)
  BY <1>3, TxStep DEF Abort, tables, Idle, Reading, Rebuilding
<1> QED BY <1>1, <1>2, <1>3

-----------------------------------------------------------------------------
(* A commit unmaps no distinct id, and maps the one it created a person    *)
(* for.                                                                    *)
LEMMA CommitStep ==
  ASSUME IInv, NEW w \in Workers, tx[w].phase \in Reading, Close(w, tx[w]),
         mapping' = [x \in Ids |-> mapping'[x]],
         \A x \in Ids : mapping[x] # None => mapping'[x] # None,
         tx[w].fresh => mapping'[tx[w].target] # None
  PROVE  IInv'
<1> DEFINE t == tx[w]
<1>1. story' = story
  BY DEF Close
<1>2. /\ tx' = [v \in Workers |-> tx'[v]]
      /\ tx'[w] = Idle
      /\ \A v \in Workers \ {w} : tx'[v] = tx[v]
  BY DEF Close, IInv, Shapes
<1>3. Idle.phase = "idle"
  BY DEF Idle
<1>4. ReaderOK(t) /\ t.target \in Ids
  BY DEF IInv, ReadersOK, ReaderOK
<1>5. born' = [x \in Ids |-> IF t.fresh /\ x = t.target THEN born[x] + 1 ELSE born[x]]
  <2>1. CASE t.fresh
    BY <2>1, <1>4 DEF Close, IInv, Shapes
  <2>2. CASE ~t.fresh
    BY <2>2 DEF Close, IInv, Shapes
  <2> QED BY <2>1, <2>2
<1>6. Shapes'
  BY <1>1, <1>2, <1>5 DEF IInv, Shapes
<1>7. \A e : Touched(e)' = Touched(e)
  BY <1>1 DEF Touched, Pair
<1>8. ReadersOK'
  <2> SUFFICES ASSUME NEW v \in Workers, tx'[v].phase \in Reading
               PROVE  ReaderOK(tx[v])' /\ tx'[v] = tx[v]
    BY DEF ReadersOK, ReaderOK
  <2>1. v # w /\ tx'[v] = tx[v]
    BY <1>2, <1>3 DEF Reading
  <2>2. ReaderOK(tx[v])
    BY <2>1 DEF IInv, ReadersOK
  <2>3. ASSUME tx[v].fresh PROVE born'[tx[v].target] = born[tx[v].target]
    <3>1. CASE t.fresh
      <4>1. t.target \in Touched(t.ev)
        BY <3>1, <1>4, StoryFacts DEF ReaderOK
      <4>2. tx[v].target \in Touched(tx[v].ev)
        BY <2>2, <2>3, StoryFacts DEF ReaderOK
      <4>3. Touched(t.ev) \cap Touched(tx[v].ev) = {}
        BY <2>1 DEF IInv, LocksOK
      <4>4. tx[v].target # t.target /\ tx[v].target \in Ids
        BY <4>1, <4>2, <4>3, <2>2 DEF ReaderOK
      <4> QED BY <4>4, <1>5
    <3>2. CASE ~t.fresh
      BY <3>2, <1>5, <2>2 DEF ReaderOK
    <3> QED BY <3>1, <3>2
  <2> QED BY <1>1, <2>1, <2>2, <2>3 DEF ReaderOK
<1>9. SourcesOK'
  BY <1>2, <1>3 DEF IInv, SourcesOK
<1>10. ListedOK'
  BY <1>2, <1>3 DEF IInv, ListedOK, Rebuilding
<1>11. LocksOK'
  BY <1>2, <1>3, <1>7 DEF IInv, LocksOK, Reading
<1>12. BornIsMapped'
  <2> SUFFICES ASSUME NEW x \in Ids
               PROVE  born'[x] = 0 \/ (born'[x] = 1 /\ mapping'[x] # None)
    BY DEF BornIsMapped
  <2>1. CASE t.fresh /\ x = t.target
    BY <2>1, <1>4, <1>5 DEF ReaderOK
  <2>2. CASE ~(t.fresh /\ x = t.target)
    BY <2>2, <1>5 DEF IInv, BornIsMapped
  <2> QED BY <2>1, <2>2
<1> QED BY <1>6, <1>8, <1>9, <1>10, <1>11, <1>12 DEF IInv

LEMMA TargetMapped ==
  ASSUME IInv, NEW w \in Workers, tx[w].phase \in Reading
  PROVE  /\ MappedTarget(tx[w]) = [x \in Ids |-> MappedTarget(tx[w])[x]]
         /\ \A x \in Ids : mapping[x] # None => MappedTarget(tx[w])[x] # None
         /\ tx[w].fresh => MappedTarget(tx[w])[tx[w].target] # None
         /\ tx[w].target \in Ids /\ None \notin Ids
<1>1. ReaderOK(tx[w]) /\ None \notin Ids
  BY IdentityAssumption DEF IInv, ReadersOK
<1>2. tx[w].target \in Ids
  BY <1>1 DEF ReaderOK
<1>3. CASE tx[w].fresh
  <2>1. MappedTarget(tx[w]) = [x \in Ids |-> IF x = tx[w].target THEN x ELSE mapping[x]]
    BY <1>2, <1>3 DEF MappedTarget, IInv, Shapes
  <2> QED BY <2>1, <1>1, <1>2
<1>4. CASE ~tx[w].fresh
  BY <1>1, <1>2, <1>4 DEF MappedTarget, IInv, Shapes
<1> QED BY <1>3, <1>4

(* Committing a resolve or an identify: a fresh target is created and      *)
(* mapped in one step, under its lock.                                     *)
LEMMA CommitIInv ==
  ASSUME IInv, NEW w \in Workers, Resolve(w) \/ Merge(w) \/ UpdateTarget(w)
  PROVE  IInv'
<1> DEFINE t == tx[w]
           m == MappedTarget(t)
<1>1. t.phase \in Reading /\ Close(w, t)
  BY DEF Resolve, Merge, UpdateTarget, Reading
<1>2. /\ m = [x \in Ids |-> m[x]]
      /\ \A x \in Ids : mapping[x] # None => m[x] # None
      /\ t.fresh => m[t.target] # None
      /\ t.target \in Ids /\ None \notin Ids
  BY <1>1, TargetMapped
<1>3. CASE Resolve(w)
  <2>1. mapping' = m
    BY <1>3 DEF Resolve
  <2> HIDE DEF m
  <2> QED BY <1>1, <1>2, <2>1, CommitStep
<1>4. CASE Merge(w)
  <2> DEFINE winner == IF SourceWins(t) THEN t.source ELSE t.target
             loser == IF SourceWins(t) THEN t.target ELSE t.source
             named == IF SourceWins(t) THEN story[t.ev].id ELSE story[t.ev].prev
             moved == Moved(t, loser, named)
  <2>1. mapping' = [x \in Ids |-> IF x \in moved THEN winner ELSE m[x]]
    BY <1>4 DEF Merge
  <2>2. winner # None
    BY <1>2, <1>4 DEF Merge, RealMerge
  <2> HIDE DEF m, winner, moved
  <2>3. \A x \in Ids : m[x] # None => mapping'[x] # None
    BY <2>1, <2>2
  <2> QED BY <1>1, <1>2, <2>1, <2>3, CommitStep
<1>5. CASE UpdateTarget(w)
  <2>1. CASE Stitches(t)
    <3>1. mapping' = [m EXCEPT ![story[t.ev].prev] = t.target]
      BY <1>5, <2>1 DEF UpdateTarget
    <3> HIDE DEF m
    <3>2. mapping' = [x \in Ids |-> IF x = story[t.ev].prev THEN t.target ELSE m[x]]
      BY <1>2, <3>1
    <3>3. \A x \in Ids : m[x] # None => mapping'[x] # None
      BY <1>2, <3>2
    <3> QED BY <1>1, <1>2, <3>2, <3>3, CommitStep
  <2>2. CASE ~Stitches(t)
    <3>1. mapping' = m
      BY <1>5, <2>2 DEF UpdateTarget
    <3> HIDE DEF m
    <3> QED BY <1>1, <1>2, <3>1, CommitStep
  <2> QED BY <2>1, <2>2
<1> QED BY <1>3, <1>4, <1>5

(* A rebuild repoints mapped distinct ids only, and to some person.        *)
LEMMA RebuildIInv ==
  ASSUME IInv, NEW w \in Workers, Rebuild(w)
  PROVE  IInv'
<1> DEFINE t == tx[w]
           ids == Repointed(t.rows, t.people, t.asserted)
           to(x) == PlannedPerson(t.rows, t.people, t.asserted, x)
<1>1. mapping' = [x \in Ids |-> IF x \in ids THEN to(x) ELSE mapping[x]]
  BY DEF Rebuild
<1>2. \A x \in ids : to(x) # None
  BY DEF Repointed
<1> HIDE DEF ids, to
<1>3. \A x \in Ids : mapping[x] # None => mapping'[x] # None
  BY <1>1, <1>2
<1>4. mapping' = [x \in Ids |-> mapping'[x]] /\ tx' = [tx EXCEPT ![w] = Idle]
      /\ story' = story /\ born' = born
  BY <1>1 DEF Rebuild
<1>5. /\ Shapes'
      /\ tx'[w] = Idle
      /\ \A v \in Workers \ {w} : tx'[v] = tx[v]
  BY <1>4 DEF IInv, Shapes
<1>6. Idle.phase = "idle"
  BY DEF Idle
<1>7. (\A u : ReaderOK(u)' <=> ReaderOK(u)) /\ (\A e : Touched(e)' = Touched(e))
  BY <1>4 DEF ReaderOK, Touched, Pair
<1>8. ReadersOK' /\ SourcesOK'
  BY <1>5, <1>6, <1>7 DEF IInv, ReadersOK, SourcesOK, Reading
<1>9. ListedOK'
  BY <1>3, <1>5, <1>6 DEF IInv, ListedOK, Rebuilding
<1>10. LocksOK'
  BY <1>5, <1>6, <1>7 DEF IInv, LocksOK, Reading
<1>11. BornIsMapped'
  BY <1>3, <1>4 DEF IInv, BornIsMapped
<1> QED BY <1>5, <1>8, <1>9, <1>10, <1>11 DEF IInv

LEMMA NextIInv == IInv /\ [Next]_vars => IInv'
<1> SUFFICES ASSUME IInv, [Next]_vars PROVE IInv'
  OBVIOUS
<1>1. CASE Next
  BY <1>1, OpenIInv, MoveIInv, CommitIInv, RebuildIInv DEF Next
<1>2. CASE UNCHANGED vars
  <2>1. UNCHANGED <<story, mapping, born, tx>>
    BY <1>2 DEF vars, tables
  <2>2. ReadersOK'
    BY <2>1 DEF IInv, ReadersOK, ReaderOK
  <2>3. LocksOK'
    <3>1. \A e : Touched(e)' = Touched(e)
      BY <2>1 DEF Touched, Pair
    <3> QED BY <2>1, <3>1 DEF IInv, LocksOK
  <2>4. Shapes' /\ SourcesOK' /\ ListedOK' /\ BornIsMapped'
    BY <2>1 DEF IInv, Shapes, SourcesOK, ListedOK, BornIsMapped
  <2> QED BY <2>2, <2>3, <2>4 DEF IInv
<1> QED BY <1>1, <1>2

(* Concurrent and repeated first events of a distinct id create one        *)
(* person: the advisory lock of the id separates those who find no         *)
(* mapping, and no commit, merge or rebuild ever unmaps it again.          *)
THEOREM OnePersonPerDistinctId == Spec => []BornOnce
<1>1. IInv => BornOnce
  BY DEF IInv, BornIsMapped, BornOnce
<1> QED BY <1>1, InitIInv, NextIInv, PTL DEF Spec

(* The least element of a set of numbers, which induction is made from.    *)
LEMMA LeastNat ==
  ASSUME NEW S, S \subseteq Nat, S # {}
  PROVE  \E m \in S : \A k \in S : m <= k
<1>1. PICK m \in S : \A k \in S : ~ (<<k, m>> \in OpToRel(<, Nat))
  BY NatLessThanWellFounded, WFMin
<1>2. \A k \in S : ~ (k < m)
  BY <1>1 DEF OpToRel
<1> QED BY <1>2

(* Induction up to a bound, over the set of the numbers that satisfy a     *)
(* formula.                                                                *)
LEMMA UpTo ==
  ASSUME NEW N \in Nat, NEW S, 0 \in S, \A k \in 0..(N - 1) : k \in S => k + 1 \in S
  PROVE  0..N \subseteq S
<1> DEFINE bad == {k \in 0..N : k \notin S}
<1> SUFFICES ASSUME bad # {} PROVE FALSE
  OBVIOUS
<1>1. PICK m \in bad : \A k \in bad : m <= k
  <2>1. bad \subseteq Nat
    OBVIOUS
  <2> HIDE DEF bad
  <2> QED BY <2>1, LeastNat
<1>2. m \in 1..N /\ m - 1 \notin bad
  BY <1>1
<1>3. m - 1 \in 0..(N - 1) /\ m - 1 \in S
  BY <1>2
<1> QED BY <1>1, <1>3

IdCount == Cardinality(Ids)

LEMMA CountIsNat == IdCount \in Nat
BY FS_CardinalityType, IdentityAssumption DEF IdCount

(***************************************************************************)
(* A component: the least set that contains its distinct id and is closed  *)
(* under the assertions.                                                   *)
(***************************************************************************)
Rounds(f, asserted, x, k) ==
  f = [n \in 0..k |-> IF n = 0 THEN {x} ELSE Neighbours(asserted, f[n - 1])]

(* The recursive function that Component chooses exists.                   *)
LEMMA RoundsExist ==
  ASSUME NEW asserted, NEW x
  PROVE  \E f : Rounds(f, asserted, x, IdCount)
<1> DEFINE S == {k \in 0..IdCount : \E f : Rounds(f, asserted, x, k)}
<1>1. 0 \in S
  <2>1. Rounds([n \in 0..0 |-> {x}], asserted, x, 0)
    BY DEF Rounds
  <2> QED BY <2>1, CountIsNat
<1>2. ASSUME NEW k \in 0..(IdCount - 1), k \in S PROVE k + 1 \in S
  <2>1. PICK f : Rounds(f, asserted, x, k)
    BY <1>2
  <2> DEFINE g == [n \in 0..(k + 1) |-> IF n = 0 THEN {x} ELSE Neighbours(asserted, f[n - 1])]
  <2>2. \A n \in 0..k : g[n] = f[n]
    <3>1. \A n \in 0..k : f[n] = IF n = 0 THEN {x} ELSE Neighbours(asserted, f[n - 1])
      BY <2>1 DEF Rounds
    <3>2. \A n \in 0..k : n \in 0..(k + 1)
      BY CountIsNat
    <3> QED BY <3>1, <3>2
  <2>3. \A n \in 0..(k + 1) : n # 0 => n - 1 \in 0..k
    BY CountIsNat
  <2>4. \A n \in 0..(k + 1) :
          g[n] = IF n = 0 THEN {x} ELSE Neighbours(asserted, g[n - 1])
    BY <2>2, <2>3
  <2>5. Rounds(g, asserted, x, k + 1)
    BY <2>4 DEF Rounds
  <2> QED BY <2>5, CountIsNat
<1> HIDE DEF S
<1>3. 0..IdCount \subseteq S
  BY <1>1, <1>2, UpTo, CountIsNat
<1> QED BY <1>3, CountIsNat DEF S

(* Each round keeps what the rounds before it have found.                  *)
LEMMA ComponentGrows ==
  ASSUME NEW asserted, NEW x
  PROVE  \E g : /\ \A n \in 0..IdCount :
                     g[n] = IF n = 0 THEN {x} ELSE Neighbours(asserted, g[n - 1])
                /\ Component(asserted, x) = g[IdCount]
<1> DEFINE g == CHOOSE f : Rounds(f, asserted, x, IdCount)
<1>1. Rounds(g, asserted, x, IdCount)
  BY RoundsExist
<1>2. Component(asserted, x) = g[IdCount]
  BY DEF Component, Rounds, IdCount
<1>3. \A n \in 0..IdCount : g[n] = IF n = 0 THEN {x} ELSE Neighbours(asserted, g[n - 1])
  BY <1>1 DEF Rounds
<1> QED BY <1>2, <1>3

Closed(asserted, ids) == \A e \in asserted : Pair(e) \cap ids # {} => Pair(e) \subseteq ids

LEMMA PairInIds ==
  ASSUME story \in Stories, NEW e \in DOMAIN story
  PROVE  Pair(e) \subseteq Ids /\ story[e].id \in Ids /\ story[e].prev \in Ids
BY IdentityAssumption DEF EventType, Pair

(* A component is the least set that holds its distinct id and every       *)
(* assertion it meets. The rounds stop growing before their number runs    *)
(* out, since each one that grows adds a distinct id.                      *)
LEMMA ComponentIsLeastClosed ==
  ASSUME story \in Stories, NEW asserted, asserted \subseteq DOMAIN story, NEW x \in Ids
  PROVE  /\ x \in Component(asserted, x)
         /\ Component(asserted, x) \subseteq Ids
         /\ Closed(asserted, Component(asserted, x))
         /\ \A ids : x \in ids /\ Closed(asserted, ids) => Component(asserted, x) \subseteq ids
<1> DEFINE next(ids) == Neighbours(asserted, ids)
           N == IdCount
<1>0. N \in Nat
  BY CountIsNat
<1> HIDE DEF N
<1>1. PICK g : /\ \A n \in 0..N : g[n] = IF n = 0 THEN {x} ELSE next(g[n - 1])
               /\ Component(asserted, x) = g[N]
  BY ComponentGrows DEF N
<1>2. \A ids : ids \subseteq next(ids)
  BY DEF Neighbours
<1>3. \A ids : ids \subseteq Ids => next(ids) \subseteq Ids
  BY PairInIds DEF Neighbours
<1>4. \A ids : next(ids) = ids => Closed(asserted, ids)
  BY DEF Neighbours, Closed
<1>5. \A ids, more : Closed(asserted, more) /\ ids \subseteq more => next(ids) \subseteq more
  BY DEF Neighbours, Closed
<1> HIDE DEF next
<1>6. \A k \in 0..(N - 1) : g[k + 1] = next(g[k])
  BY <1>0, <1>1
<1>7. g[0] = {x}
  BY <1>0, <1>1
<1>8. x \in g[N] /\ g[N] \subseteq Ids
  <2> DEFINE S == {k \in 0..N : x \in g[k] /\ g[k] \subseteq Ids}
  <2>1. 0 \in S
    BY <1>0, <1>7
  <2>2. \A k \in 0..(N - 1) : k \in S => k + 1 \in S
    BY <1>0, <1>2, <1>3, <1>6
  <2> HIDE DEF S
  <2>3. 0..N \subseteq S
    BY <2>1, <2>2, <1>0, UpTo
  <2> QED BY <2>3, <1>0 DEF S
<1>9. ASSUME NEW ids, x \in ids, Closed(asserted, ids) PROVE g[N] \subseteq ids
  <2> DEFINE S == {k \in 0..N : g[k] \subseteq ids}
  <2>1. 0 \in S
    BY <1>0, <1>7, <1>9
  <2>2. \A k \in 0..(N - 1) : k \in S => k + 1 \in S
    BY <1>0, <1>5, <1>6, <1>9
  <2> HIDE DEF S
  <2>3. 0..N \subseteq S
    BY <2>1, <2>2, <1>0, UpTo
  <2> QED BY <2>3, <1>0 DEF S
<1>10. next(g[N]) = g[N]
  <2> DEFINE S == {k \in 0..N : /\ g[k] \subseteq Ids
                                /\ next(g[k]) = g[k] \/ Cardinality(g[k]) >= k + 1}
  <2>1. 0 \in S
    BY <1>0, <1>7, FS_Singleton
  <2>2. ASSUME NEW k \in 0..(N - 1), k \in S PROVE k + 1 \in S
    <3>1. k + 1 \in 0..N /\ g[k + 1] = next(g[k]) /\ g[k + 1] \subseteq Ids
      BY <1>0, <1>3, <1>6, <2>2
    <3>2. CASE next(g[k]) = g[k]
      BY <3>1, <3>2
    <3>3. CASE next(g[k]) # g[k] /\ Cardinality(g[k]) >= k + 1
      <4>1. IsFiniteSet(g[k + 1]) /\ g[k] \in SUBSET g[k + 1] /\ g[k] # g[k + 1]
        BY <3>1, <3>3, <1>2, FS_Subset, IdentityAssumption
      <4>2. Cardinality(g[k]) <= Cardinality(g[k + 1])
            /\ Cardinality(g[k]) # Cardinality(g[k + 1])
        BY <4>1, FS_Subset
      <4>3. IsFiniteSet(g[k]) /\ Cardinality(g[k]) \in Nat /\ Cardinality(g[k + 1]) \in Nat
        BY <4>1, FS_Subset, FS_CardinalityType
      <4>4. Cardinality(g[k + 1]) >= k + 2
        BY <4>2, <4>3, <3>3
      <4> QED BY <3>1, <4>4
    <3> QED BY <3>2, <3>3, <2>2
  <2> HIDE DEF S
  <2>3. 0..N \subseteq S
    BY <2>1, <2>2, <1>0, UpTo
  <2>4. next(g[N]) = g[N] \/ Cardinality(g[N]) >= N + 1
    BY <2>3, <1>0 DEF S
  <2>5. Cardinality(g[N]) <= N /\ Cardinality(g[N]) \in Nat
    BY <1>8, FS_Subset, FS_CardinalityType, IdentityAssumption DEF N, IdCount
  <2> QED BY <2>4, <2>5, <1>0
<1> QED BY <1>1, <1>4, <1>8, <1>9, <1>10

(* What a step that keeps the story keeps.                                 *)
LEMMA StorySteady ==
  ASSUME story' = story
  PROVE  /\ \A e : Pair(e)' = Pair(e)
         /\ \A asserted, x : Component(asserted, x)' = Component(asserted, x)
         /\ \A a, b : Later(a, b)' = Later(a, b)
<1>1. \A e : Pair(e)' = Pair(e)
  BY DEF Pair
<1>2. \A asserted, ids : Neighbours(asserted, ids)' = Neighbours(asserted, ids)
  BY <1>1 DEF Neighbours, Pair
<1>3. \A asserted, x : Component(asserted, x)' = Component(asserted, x)
  BY <1>2 DEF Component, Neighbours, Pair
<1>4. \A a, b : Later(a, b)' = Later(a, b)
  BY DEF Later
<1> QED BY <1>1, <1>3, <1>4

LEMMA ClosedComplement ==
  ASSUME NEW asserted, NEW ids, Closed(asserted, ids), \A e \in asserted : Pair(e) \subseteq Ids
  PROVE  Closed(asserted, Ids \ ids)
BY DEF Closed, Pair

(* Components are classes: two of them are the same or share nothing.      *)
LEMMA ComponentsAreClasses ==
  ASSUME story \in Stories, NEW asserted, asserted \subseteq DOMAIN story,
         NEW x \in Ids, NEW y \in Ids, y \in Component(asserted, x)
  PROVE  Component(asserted, x) = Component(asserted, y)
<1> DEFINE C(z) == Component(asserted, z)
<1>1. ASSUME NEW u \in Ids, NEW v \in Ids, v \in C(u) PROVE C(v) \subseteq C(u)
  BY <1>1, ComponentIsLeastClosed
<1>2. x \in C(y)
  <2> SUFFICES ASSUME x \notin C(y) PROVE FALSE
    OBVIOUS
  <2>1. Closed(asserted, Ids \ C(y))
    BY ComponentIsLeastClosed, ClosedComplement, PairInIds
  <2>2. C(x) \subseteq Ids \ C(y)
    BY <2>1, ComponentIsLeastClosed
  <2>3. y \in C(y)
    BY ComponentIsLeastClosed
  <2> QED BY <2>2, <2>3
<1> QED BY <1>1, <1>2

(* More assertions connect more.                                           *)
LEMMA ComponentsOnlyGrow ==
  ASSUME story \in Stories, NEW more, more \subseteq DOMAIN story,
         NEW asserted, asserted \subseteq more, NEW x \in Ids
  PROVE  Component(asserted, x) \subseteq Component(more, x)
<1>1. Closed(asserted, Component(more, x)) /\ x \in Component(more, x)
  BY ComponentIsLeastClosed DEF Closed
<1> QED BY <1>1, ComponentIsLeastClosed

(* An assertion connects the two distinct ids it names.                    *)
LEMMA AssertionConnects ==
  ASSUME story \in Stories, NEW asserted, asserted \subseteq DOMAIN story, NEW e \in asserted
  PROVE  /\ story[e].prev \in Component(asserted, story[e].id)
         /\ story[e].id \in Component(asserted, story[e].prev)
<1>1. story[e].id \in Ids /\ story[e].prev \in Ids
  BY PairInIds
<1>2. Closed(asserted, Component(asserted, story[e].id))
      /\ story[e].id \in Component(asserted, story[e].id)
  BY <1>1, ComponentIsLeastClosed
<1>3. story[e].prev \in Component(asserted, story[e].id)
  BY <1>2 DEF Closed, Pair
<1> QED BY <1>1, <1>3, <1>2, ComponentsAreClasses

(* and nothing else.                                                       *)
LEMMA AssertionJoinsTwo ==
  ASSUME story \in Stories, NEW asserted, asserted \subseteq DOMAIN story,
         NEW e \in DOMAIN story, NEW x \in Ids,
         Component(asserted, x) \cap Pair(e) = {}
  PROVE  Component(asserted \cup {e}, x) = Component(asserted, x)
<1>1. Closed(asserted \cup {e}, Component(asserted, x)) /\ x \in Component(asserted, x)
  BY ComponentIsLeastClosed DEF Closed
<1>2. asserted \cup {e} \subseteq DOMAIN story
  OBVIOUS
<1>3. Component(asserted \cup {e}, x) \subseteq Component(asserted, x)
  BY <1>1, <1>2, ComponentIsLeastClosed
<1>4. Component(asserted, x) \subseteq Component(asserted \cup {e}, x)
  BY <1>2, ComponentsOnlyGrow
<1> QED BY <1>3, <1>4

LEMMA AssertionJoins ==
  ASSUME story \in Stories, NEW asserted, asserted \subseteq DOMAIN story,
         NEW e \in DOMAIN story
  PROVE  Component(asserted \cup {e}, story[e].id)
           = Component(asserted, story[e].id) \cup Component(asserted, story[e].prev)
<1> DEFINE C(z) == Component(asserted, z)
           more == asserted \cup {e}
           both == C(story[e].id) \cup C(story[e].prev)
<1>1. story[e].id \in Ids /\ story[e].prev \in Ids /\ more \subseteq DOMAIN story
  BY PairInIds
<1>2. Closed(more, both)
  <2>1. Pair(e) \subseteq both
    BY <1>1, ComponentIsLeastClosed DEF Pair
  <2>2. Closed(asserted, C(story[e].id)) /\ Closed(asserted, C(story[e].prev))
    BY <1>1, ComponentIsLeastClosed
  <2> HIDE DEF C
  <2> QED BY <2>1, <2>2 DEF Closed
<1>3. Component(more, story[e].id) \subseteq both
  BY <1>1, <1>2, ComponentIsLeastClosed
<1>4. e \in more /\ asserted \subseteq more
  OBVIOUS
<1> HIDE DEF more
<1>5. Component(more, story[e].id) = Component(more, story[e].prev)
  BY <1>1, <1>4, AssertionConnects, ComponentsAreClasses
<1>6. both \subseteq Component(more, story[e].id)
  BY <1>1, <1>4, <1>5, ComponentsOnlyGrow
<1> QED BY <1>3, <1>6 DEF more

(***************************************************************************)
(* The chain of merges.                                                    *)
(***************************************************************************)
Hops(f, p, k) == f = [n \in 0..k |-> IF n = 0 THEN p ELSE MergedTo(f[n - 1])]

(* The recursive function that followMerge iterates exists.                *)
LEMMA HopsExist ==
  ASSUME NEW p
  PROVE  \E f : Hops(f, p, IdCount)
<1> DEFINE S == {k \in 0..IdCount : \E f : Hops(f, p, k)}
<1>1. 0 \in S
  <2>1. Hops([n \in 0..0 |-> p], p, 0)
    BY DEF Hops
  <2> QED BY <2>1, CountIsNat
<1>2. ASSUME NEW k \in 0..(IdCount - 1), k \in S PROVE k + 1 \in S
  <2>1. PICK f : Hops(f, p, k)
    BY <1>2
  <2> DEFINE g == [n \in 0..(k + 1) |-> IF n = 0 THEN p ELSE MergedTo(f[n - 1])]
  <2>2. \A n \in 0..k : g[n] = f[n]
    <3>1. \A n \in 0..k : f[n] = IF n = 0 THEN p ELSE MergedTo(f[n - 1])
      BY <2>1 DEF Hops
    <3>2. \A n \in 0..k : n \in 0..(k + 1)
      BY CountIsNat
    <3> QED BY <3>1, <3>2
  <2>3. \A n \in 0..(k + 1) : n # 0 => n - 1 \in 0..k
    BY CountIsNat
  <2>4. \A n \in 0..(k + 1) : g[n] = IF n = 0 THEN p ELSE MergedTo(g[n - 1])
    BY <2>2, <2>3
  <2>5. Hops(g, p, k + 1)
    BY <2>4 DEF Hops
  <2> QED BY <2>5, CountIsNat
<1> HIDE DEF S
<1>3. 0..IdCount \subseteq S
  BY <1>1, <1>2, UpTo, CountIsNat
<1> QED BY <1>3, CountIsNat DEF S

(* A chain of merges, hop by hop.                                          *)
LEMMA CanonicalHops ==
  ASSUME NEW p
  PROVE  \E g : /\ g[0] = p
                /\ \A n \in 0..(IdCount - 1) : g[n + 1] = MergedTo(g[n])
                /\ Canonical(p) = g[IdCount]
<1> DEFINE g == CHOOSE f : Hops(f, p, IdCount)
<1>1. Hops(g, p, IdCount)
  BY HopsExist
<1>2. Canonical(p) = g[IdCount]
  BY DEF Canonical, Follow, Hops, IdCount
<1>3. \A n \in 0..IdCount : g[n] = IF n = 0 THEN p ELSE MergedTo(g[n - 1])
  BY <1>1 DEF Hops
<1> HIDE DEF g
<1>4. g[0] = p
  BY <1>3, CountIsNat
<1>5. \A n \in 0..(IdCount - 1) : g[n + 1] = MergedTo(g[n])
  BY <1>3, CountIsNat
<1> QED BY <1>2, <1>4, <1>5

(* What a merge leads to from within a set, a chain of merges does too.    *)
LEMMA CanonicalStaysIn ==
  ASSUME NEW ids, \A q \in ids : MergedTo(q) \in ids, NEW p \in ids
  PROVE  Canonical(p) \in ids
<1>1. PICK g : /\ g[0] = p
               /\ \A n \in 0..(IdCount - 1) : g[n + 1] = MergedTo(g[n])
               /\ Canonical(p) = g[IdCount]
  BY CanonicalHops
<1> DEFINE S == {k \in 0..IdCount : g[k] \in ids}
<1>2. 0 \in S
  BY <1>1, CountIsNat
<1>3. \A k \in 0..(IdCount - 1) : k \in S => k + 1 \in S
  BY <1>1, CountIsNat
<1> HIDE DEF S
<1>4. 0..IdCount \subseteq S
  BY <1>2, <1>3, UpTo, CountIsNat
<1> QED BY <1>1, <1>4, CountIsNat DEF S

(***************************************************************************)
(* The order of persons.  An older person has fewer persons that are as    *)
(* old as it: that number is what a choice of the oldest, and a chain of   *)
(* merges, brings down.                                                    *)
(***************************************************************************)
AsOld(people, S, p) == {q \in S : Older(people, q, p)}

(* comparePersonForMerge is a total order of the persons.                  *)
LEMMA OlderIsAnOrder ==
  ASSUME NEW people, NEW S, S \subseteq Ids, \A p \in S : people[p].seen \in Nat
  PROVE  /\ \A p \in S : Older(people, p, p)
         /\ \A p, q \in S : Older(people, p, q) \/ Older(people, q, p)
         /\ \A p, q \in S : Older(people, p, q) /\ Older(people, q, p) => p = q
         /\ \A p, q, r \in S : Older(people, p, q) /\ Older(people, q, r) => Older(people, p, r)
<1>1. S \subseteq Int
  BY IdentityAssumption
<1> QED BY <1>1 DEF Older

LEMMA AsOldShrinks ==
  ASSUME NEW people, NEW S, S \subseteq Ids, \A p \in S : people[p].seen \in Nat
  PROVE  /\ \A p \in S : Cardinality(AsOld(people, S, p)) \in 1..IdCount
         /\ \A p, q \in S : Older(people, q, p) /\ p # q =>
              Cardinality(AsOld(people, S, q)) < Cardinality(AsOld(people, S, p))
<1>1. \A p \in S : /\ IsFiniteSet(AsOld(people, S, p))
                   /\ Cardinality(AsOld(people, S, p)) \in Nat
                   /\ Cardinality(AsOld(people, S, p)) <= IdCount
  <2> TAKE p \in S
  <2>1. AsOld(people, S, p) \in SUBSET Ids
    BY DEF AsOld
  <2> QED BY <2>1, FS_Subset, FS_CardinalityType, IdentityAssumption DEF IdCount
<1>2. ASSUME NEW p \in S PROVE Cardinality(AsOld(people, S, p)) # 0
  <2>1. p \in AsOld(people, S, p)
    BY OlderIsAnOrder DEF AsOld
  <2> QED BY <2>1, <1>1, FS_EmptySet
<1>3. ASSUME NEW p \in S, NEW q \in S, Older(people, q, p), p # q
      PROVE  Cardinality(AsOld(people, S, q)) < Cardinality(AsOld(people, S, p))
  <2>1. AsOld(people, S, q) \in SUBSET AsOld(people, S, p)
    BY <1>3, OlderIsAnOrder DEF AsOld
  <2>2. p \in AsOld(people, S, p) /\ p \notin AsOld(people, S, q)
    BY <1>3, OlderIsAnOrder DEF AsOld
  <2>3. Cardinality(AsOld(people, S, q)) <= Cardinality(AsOld(people, S, p))
        /\ Cardinality(AsOld(people, S, q)) # Cardinality(AsOld(people, S, p))
    BY <2>1, <2>2, <1>1, FS_Subset
  <2> QED BY <2>3, <1>1
<1> QED BY <1>1, <1>2, <1>3, CountIsNat

(* A set of persons has an oldest one.                                     *)
LEMMA OldestExists ==
  ASSUME NEW people, NEW S, S \subseteq Ids, S # {}, \A p \in S : people[p].seen \in Nat
  PROVE  \E p \in S : \A q \in S : Older(people, p, q)
<1> DEFINE rank(p) == Cardinality(AsOld(people, S, p))
<1>1. \A p \in S : rank(p) \in Nat
  BY AsOldShrinks, CountIsNat
<1>2. \A p, q \in S : Older(people, q, p) /\ p # q => rank(q) < rank(p)
  BY AsOldShrinks
<1> HIDE DEF rank
<1>3. PICK m \in {rank(p) : p \in S} : \A k \in {rank(p) : p \in S} : m <= k
  <2>1. {rank(p) : p \in S} \subseteq Nat /\ {rank(p) : p \in S} # {}
    BY <1>1
  <2> QED BY <2>1, LeastNat
<1>4. PICK p \in S : m = rank(p)
  OBVIOUS
<1>5. ASSUME NEW q \in S PROVE Older(people, p, q)
  <2>1. CASE p = q
    BY <2>1, OlderIsAnOrder
  <2>2. CASE p # q
    <3>1. ~ Older(people, q, p)
      BY <2>2, <1>1, <1>2, <1>3, <1>4
    <3> QED BY <3>1, OlderIsAnOrder
  <2> QED BY <2>1, <2>2
<1> QED BY <1>5

(* The plan of a rebuild: the oldest of the persons it has found.          *)
LEMMA PlannedIsOldest ==
  ASSUME NEW rows, NEW people, NEW asserted, NEW x,
         NEW found, found = {rows[y] : y \in Component(asserted, x)} \ {None},
         found \subseteq Ids, \A p \in found : people[p].seen \in Nat, None \notin Ids
  PROVE  /\ found = {} => PlannedPerson(rows, people, asserted, x) = None
         /\ found # {} => /\ PlannedPerson(rows, people, asserted, x) \in found
                          /\ \A q \in found :
                               Older(people, PlannedPerson(rows, people, asserted, x), q)
<1>1. PlannedPerson(rows, people, asserted, x) =
        IF found = {} THEN None ELSE CHOOSE p \in found : \A q \in found : Older(people, p, q)
  BY DEF PlannedPerson
<1>2. CASE found # {}
  <2>1. \E p \in found : \A q \in found : Older(people, p, q)
    BY <1>2, OldestExists
  <2> QED BY <1>1, <1>2, <2>1
<1> QED BY <1>1, <1>2

(***************************************************************************)
(* Chains of merges that lead to older persons end at a live one.          *)
(***************************************************************************)
Existing == {p \in Ids : persons[p] # None}

Ancestry ==
  /\ \A p \in Existing : persons[p].seen \in Nat
  /\ \A p \in Existing : persons[p].into # None =>
       /\ persons[p].into \in Existing \ {p}
       /\ Older(persons, persons[p].into, p)

(* When merges lead to older persons, a chain of as many hops as there are *)
(* distinct ids ends at a live person: each hop leaves fewer persons that  *)
(* are as old.                                                             *)
LEMMA ChainsEnd ==
  Ancestry => \A p \in Existing : Canonical(p) \in Existing /\ persons[Canonical(p)].into = None
<1> SUFFICES ASSUME Ancestry, NEW p \in Existing
             PROVE  Canonical(p) \in Existing /\ persons[Canonical(p)].into = None
  OBVIOUS
<1>1. \A q \in Existing : MergedTo(q) \in Existing
  BY DEF Ancestry, MergedTo
<1>2. Canonical(p) \in Existing
  BY <1>1, CanonicalStaysIn
<1>3. PICK g : /\ g[0] = p
               /\ \A n \in 0..(IdCount - 1) : g[n + 1] = MergedTo(g[n])
               /\ Canonical(p) = g[IdCount]
  BY CanonicalHops
<1> DEFINE rank(q) == Cardinality(AsOld(persons, Existing, q))
           N == IdCount
           S == {k \in 0..N : /\ g[k] \in Existing
                              /\ persons[g[k]].into = None \/ rank(g[k]) <= N - k}
<1>4. N \in Nat /\ Existing \subseteq Ids
  BY CountIsNat DEF Existing
<1>5. \A q \in Existing : rank(q) \in 1..N
  BY <1>4, AsOldShrinks DEF Ancestry
<1>6. \A q \in Existing : persons[q].into # None => rank(persons[q].into) < rank(q)
  <2> TAKE q \in Existing
  <2> HAVE persons[q].into # None
  <2>1. persons[q].into \in Existing \ {q} /\ Older(persons, persons[q].into, q)
    BY DEF Ancestry
  <2> QED BY <2>1, <1>4, AsOldShrinks DEF Ancestry
<1>7. \A q \in Existing : MergedTo(q) = IF persons[q].into = None THEN q ELSE persons[q].into
  BY DEF MergedTo
<1> HIDE DEF rank
<1>8. 0 \in S
  BY <1>3, <1>4, <1>5
<1>9. ASSUME NEW k \in 0..(N - 1), k \in S PROVE k + 1 \in S
  <2>1. k + 1 \in 0..N /\ g[k + 1] = MergedTo(g[k]) /\ g[k] \in Existing
    BY <1>3, <1>4, <1>9
  <2>2. g[k + 1] \in Existing
    BY <2>1, <1>1
  <2>3. CASE persons[g[k]].into = None
    BY <2>1, <2>2, <2>3, <1>7
  <2>4. CASE persons[g[k]].into # None
    <3>1. g[k + 1] = persons[g[k]].into /\ rank(g[k]) <= N - k
      BY <2>1, <2>4, <1>7, <1>9
    <3>2. rank(g[k + 1]) < rank(g[k]) /\ rank(g[k]) \in 1..N /\ rank(g[k + 1]) \in 1..N
      BY <3>1, <2>1, <2>2, <2>4, <1>5, <1>6
    <3>3. rank(g[k + 1]) <= N - (k + 1)
      BY <3>1, <3>2, <1>4
    <3> QED BY <2>1, <2>2, <3>3
  <2> QED BY <2>3, <2>4
<1> HIDE DEF S
<1>10. 0..N \subseteq S
  BY <1>4, <1>8, <1>9, UpTo
<1>11. persons[g[N]].into = None \/ rank(g[N]) <= N - N
  BY <1>4, <1>10 DEF S
<1>12. rank(g[N]) \in 1..N
  BY <1>2, <1>3, <1>5
<1>13. persons[g[N]].into = None
  BY <1>4, <1>11, <1>12
<1> QED BY <1>2, <1>3, <1>13

(***************************************************************************)
(* What the tables and the transactions know of one another.               *)
(***************************************************************************)
(* A distinct id is mapped to a person of its component.                   *)
MappedIn(map, people, asserted) ==
  \A x \in Ids : map[x] # None => people[map[x]] # None /\ map[x] \in Component(asserted, x)

(* A person is merged into another person of its component.                *)
MergedIn(people, asserted) ==
  \A p \in Ids : people[p] # None /\ people[p].into # None =>
    /\ people[people[p].into] # None
    /\ people[p].into \in Component(asserted, p) \ {p}

CreatedIn(people, births) == \A p \in Ids : people[p] # None => births[p] # 0

(* A reader has seen a live person of the component of each distinct id.   *)
TargetKnown(t) ==
  /\ t.fresh \/ persons[t.target] # None
  /\ t.row.into = None
  /\ t.target \in Component(log, story[t.ev].id)

SourceKnown(t) ==
  t.source # None =>
    /\ t.srow \in PersonRow /\ t.srow.into = None
    /\ persons[t.source] # None \/ (t.fresh /\ t.source = t.target)
    /\ t.source \in Component(log, story[t.ev].prev)

(* A rebuild has listed persons that exist, of their components.           *)
ListKnown(t) ==
  \A x \in Ids : t.rows[x] # None =>
    /\ persons[t.rows[x]] # None
    /\ t.phase = "listed" => t.rows[x] \in Component(log, x)

PlanKnown(t) ==
  /\ t.asserted \subseteq log
  /\ \A x \in Ids : t.rows[x] # None =>
       t.people[t.rows[x]] # None /\ t.rows[x] \in Component(t.asserted, x)

TxKnown(t) ==
  /\ t.phase \in Reading => TargetKnown(t)
  /\ t.phase = "sighted" => SourceKnown(t)
  /\ t.phase \in Rebuilding => ListKnown(t)
  /\ t.phase = "planned" => PlanKnown(t)

TablesKnown ==
  /\ log \subseteq DOMAIN story
  /\ MappedIn(mapping, persons, log)
  /\ MergedIn(persons, log)
  /\ CreatedIn(persons, born)

KInv == TypeOK /\ TablesKnown /\ \A w \in Workers : TxKnown(tx[w])

-----------------------------------------------------------------------------
LEMMA TxFields ==
  ASSUME NEW t \in TxType
  PROVE  /\ t.phase \in Reading => /\ t.ev \in Events /\ t.fresh \in BOOLEAN
                                   /\ t.target \in Ids /\ t.row \in PersonRow
         /\ t.phase = "sighted" => /\ t.source \in Ids \cup {None}
                                   /\ t.srow \in PersonRow \cup {None}
         /\ t.phase \in Rebuilding => t.ev \in Events /\ t.rows \in [Ids -> Ids \cup {None}]
         /\ t.phase = "planned" => /\ t.people \in [Ids -> PersonRow \cup {None}]
                                   /\ t.asserted \subseteq Events
BY DEF TxType, Idle, Reading, Rebuilding

LEMMA StoryTypes ==
  ASSUME story \in Stories, NEW e \in DOMAIN story
  PROVE  /\ e \in Events /\ story[e] \in EventType
         /\ story[e].id \in Ids /\ story[e].prev \in Ids /\ story[e].ts \in Nat
         /\ Pair(e) \subseteq Ids
         /\ None \notin Ids
BY IdentityAssumption, PairInIds DEF EventType

LEMMA InitKInv == Init => KInv
<1> SUFFICES ASSUME Init PROVE KInv
  OBVIOUS
<1>1. TypeOK
  <2>1. persons \in [Ids -> PersonRow \cup {None}] /\ mapping \in [Ids -> Ids \cup {None}]
    BY DEF Init
  <2>2. tx \in [Workers -> TxType]
    BY DEF Init, TxType
  <2>3. runs \in [Events -> 0..MaxRuns]
    BY IdentityAssumption DEF Init
  <2> QED BY <2>1, <2>2, <2>3 DEF Init, TypeOK
<1>2. TablesKnown
  BY DEF Init, TablesKnown, MappedIn, MergedIn, CreatedIn
<1>3. \A w \in Workers : tx[w].phase = "idle"
  BY DEF Init, Idle
<1> QED BY <1>1, <1>2, <1>3 DEF KInv, TxKnown, Reading, Rebuilding

(* What a transaction has seen stays true while persons are only added and *)
(* the log only grows.                                                     *)
LEMMA SeenStaysTrue ==
  ASSUME story \in Stories, story' = story, log \subseteq log', log' \subseteq DOMAIN story,
         NEW t \in TxType, t.phase \in Reading => t.ev \in DOMAIN story,
         \A p \in Ids : persons[p] # None => persons'[p] # None,
         TxKnown(t)
  PROVE  TxKnown(t)'
<1>1. \A asserted, x : Component(asserted, x)' = Component(asserted, x)
  BY StorySteady
<1>2. \A x \in Ids : Component(log, x) \subseteq Component(log', x)
  BY ComponentsOnlyGrow
<1>3. ASSUME t.phase \in Reading PROVE TargetKnown(t)'
  <2>1. t.target \in Ids /\ story[t.ev].id \in Ids /\ TargetKnown(t)
    BY <1>3, TxFields, StoryTypes DEF TxKnown
  <2> QED BY <2>1, <1>1, <1>2 DEF TargetKnown
<1>4. ASSUME t.phase = "sighted" PROVE SourceKnown(t)'
  <2>1. t.source \in Ids \cup {None} /\ story[t.ev].prev \in Ids /\ SourceKnown(t)
    BY <1>4, TxFields, StoryTypes DEF TxKnown, Reading
  <2> QED BY <2>1, <1>1, <1>2 DEF SourceKnown
<1>5. ASSUME t.phase \in Rebuilding PROVE ListKnown(t)'
  <2>1. ListKnown(t) /\ \A x \in Ids : t.rows[x] \in Ids \cup {None}
    BY <1>5, TxFields DEF TxKnown
  <2> QED BY <2>1, <1>1, <1>2 DEF ListKnown
<1>6. ASSUME t.phase = "planned" PROVE PlanKnown(t)'
  <2>1. PlanKnown(t)
    BY <1>6 DEF TxKnown
  <2> QED BY <2>1, <1>1 DEF PlanKnown
<1> QED BY <1>3, <1>4, <1>5, <1>6 DEF TxKnown

(* A step that writes tables and moves one transaction on, or closes it.   *)
LEMMA KnownStep ==
  ASSUME IInv, KInv, NEW w \in Workers, NEW t, t \in TxType, tx' = [tx EXCEPT ![w] = t],
         story' = story, log \subseteq log', log' \subseteq DOMAIN story,
         persons' \in [Ids -> PersonRow \cup {None}],
         \A p \in Ids : persons[p] # None => persons'[p] # None,
         mapping' \in [Ids -> Ids \cup {None}],
         token' \in [Ids -> Ids \cup {None}],
         runs' \in [Events -> 0..MaxRuns],
         born' \in [Ids -> Nat],
         wrote' \in [Events -> Ids \cup {None}],
         torn' \in BOOLEAN,
         MappedIn(mapping', persons', log'),
         MergedIn(persons', log'),
         CreatedIn(persons', born'),
         t.phase \in Reading => t.ev \in DOMAIN story,
         TxKnown(t)
  PROVE  KInv'
<1>0. story \in Stories /\ tx \in [Workers -> TxType]
  BY DEF KInv, TypeOK
<1>1. \A asserted, x : Component(asserted, x)' = Component(asserted, x)
  BY StorySteady
<1>2. DOMAIN story \subseteq Events
  BY <1>0, StoryTypes
<1>3. TablesKnown'
  BY <1>1 DEF TablesKnown, MappedIn, MergedIn, CreatedIn
<1>4. \A p \in Ids : persons'[p] # None => persons'[p].into # p
  BY IdentityAssumption DEF MergedIn
<1>5. tx' \in [Workers -> TxType]
  BY <1>0
<1>6. TypeOK'
  BY <1>0, <1>2, <1>4, <1>5 DEF TypeOK
<1>7. ASSUME NEW v \in Workers PROVE TxKnown(tx[v])'
  <2>1. CASE v = w
    <3>1. tx'[v] = t
      BY <1>0, <2>1
    <3>2. TxKnown(t)'
      BY <1>0, SeenStaysTrue
    <3> QED BY <3>1, <3>2 DEF TxKnown, TargetKnown, SourceKnown, ListKnown, PlanKnown
  <2>2. CASE v # w
    <3>1. tx'[v] = tx[v] /\ tx[v] \in TxType /\ TxKnown(tx[v])
      BY <1>0, <2>2 DEF KInv
    <3>2. tx[v].phase \in Reading => tx[v].ev \in DOMAIN story
      BY DEF IInv, ReadersOK, ReaderOK
    <3> DEFINE u == tx[v]
    <3>3. u \in TxType /\ TxKnown(u) /\ (u.phase \in Reading => u.ev \in DOMAIN story)
      BY <3>1, <3>2
    <3> HIDE DEF u
    <3>4. \A s \in {u} : TxKnown(s)'
      BY <3>3, <1>0, SeenStaysTrue
    <3> QED BY <3>1, <3>4 DEF u, TxKnown, TargetKnown, SourceKnown, ListKnown, PlanKnown
  <2> QED BY <2>1, <2>2
<1> QED BY <1>3, <1>6, <1>7 DEF KInv

(* followMerge: the person a mapping leads to is one of its component.     *)
LEMMA EndsKnown ==
  ASSUME KInv, NEW x \in Ids, mapping[x] # None, NEW q \in Ends(mapping[x])
  PROVE  /\ q \in Ids /\ persons[q] \in PersonRow /\ persons[q] # None
         /\ persons[q].into = None
         /\ q \in Component(log, x)
<1> DEFINE C(z) == Component(log, z)
           ids == {p \in Ids : persons[p] # None /\ p \in C(x)}
<1>1. story \in Stories /\ log \subseteq DOMAIN story /\ None \notin Ids
  BY IdentityAssumption DEF KInv, TypeOK, TablesKnown
<1>2. mapping[x] \in ids
  BY DEF KInv, TypeOK, TablesKnown, MappedIn
<1>3. ASSUME NEW p \in ids PROVE MergedTo(p) \in ids
  <2>1. CASE persons[p].into = None
    BY <2>1 DEF MergedTo
  <2>2. CASE persons[p].into # None
    <3>1. persons[p] \in PersonRow /\ persons[persons[p].into] # None /\ persons[p].into \in C(p)
      BY <2>2 DEF KInv, TypeOK, TablesKnown, MergedIn
    <3>2. C(p) = C(x)
      BY <1>1, ComponentsAreClasses
    <3>3. persons[p].into \in Ids
      BY <3>1, <2>2 DEF PersonRow
    <3> QED BY <3>1, <3>2, <3>3, <2>2 DEF MergedTo
  <2> QED BY <2>1, <2>2
<1> HIDE DEF ids
<1>4. Canonical(mapping[x]) \in ids
  BY <1>2, <1>3, CanonicalStaysIn
<1>5. q \in ids /\ persons[q].into = None
  BY <1>4 DEF Ends
<1> QED BY <1>5 DEF ids, KInv, TypeOK

(* A step that only opens, moves on or closes a transaction.               *)
LEMMA KnownMove ==
  ASSUME IInv, KInv, NEW w \in Workers, NEW t, t \in TxType, tx' = [tx EXCEPT ![w] = t],
         UNCHANGED <<story, tables>>, runs' \in [Events -> 0..MaxRuns],
         t.phase \in Reading => t.ev \in DOMAIN story,
         TxKnown(t)
  PROVE  KInv'
<1>1. UNCHANGED <<story, persons, mapping, token, log, born, wrote, torn>>
  BY DEF tables
<1>2. TypeOK /\ TablesKnown
  BY DEF KInv
<1>3. /\ persons' \in [Ids -> PersonRow \cup {None}]
      /\ mapping' \in [Ids -> Ids \cup {None}]
      /\ token' \in [Ids -> Ids \cup {None}]
      /\ born' \in [Ids -> Nat]
      /\ wrote' \in [Events -> Ids \cup {None}]
      /\ torn' \in BOOLEAN
  BY <1>1, <1>2 DEF TypeOK
<1>4. /\ MappedIn(mapping', persons', log')
      /\ MergedIn(persons', log')
      /\ CreatedIn(persons', born')
      /\ log \subseteq log' /\ log' \subseteq DOMAIN story
  BY <1>1, <1>2 DEF TablesKnown
<1> QED BY <1>1, <1>3, <1>4, KnownStep

LEMMA TakenRuns ==
  ASSUME KInv, NEW e \in DOMAIN story, Take(e)
  PROVE  runs' \in [Events -> 0..MaxRuns]
<1>1. story \in Stories /\ runs \in [Events -> 0..MaxRuns]
  BY DEF KInv, TypeOK
<1>2. e \in Events /\ MaxRuns \in Nat
  BY <1>1, StoryTypes, IdentityAssumption
<1>3. runs[e] + 1 \in 0..MaxRuns
  BY <1>1, <1>2 DEF Take
<1> QED BY <1>1, <1>2, <1>3 DEF Take

LEMMA NewRowType ==
  ASSUME story \in Stories, NEW e \in DOMAIN story
  PROVE  NewRow(e) \in PersonRow /\ NewRow(e).into = None
<1>1. e \in Events /\ story[e].ts \in Nat
  BY StoryTypes
<1>2. ApplyWrite(0, e) \in Cells
  BY <1>1 DEF ApplyWrite, Cells
<1> QED BY <1>1, <1>2 DEF NewRow, PersonRow, Cells

(* Opening a transaction: the target it reads is live and of the component *)
(* of its distinct id, or does not exist yet.                              *)
LEMMA AimKnown ==
  ASSUME IInv, KInv, NEW w \in Workers, NEW e \in DOMAIN story, Aim(w, e)
  PROVE  KInv'
<1> DEFINE x == story[e].id
           fresh == mapping[x] = None
<1>0. story \in Stories /\ log \subseteq DOMAIN story
  BY DEF KInv, TypeOK, TablesKnown
<1>1. PICK p \in IF fresh THEN {x} ELSE Ends(mapping[x]) :
        tx' = [tx EXCEPT ![w] =
          [phase |-> "aimed", ev |-> e, fresh |-> fresh, target |-> p,
           row |-> IF fresh THEN NewRow(e) ELSE persons[p]]]
  BY DEF Aim
<1> DEFINE row == IF fresh THEN NewRow(e) ELSE persons[p]
           t == [phase |-> "aimed", ev |-> e, fresh |-> fresh, target |-> p, row |-> row]
<1>2. x \in Ids /\ e \in Events
  BY <1>0, StoryTypes
<1>3. /\ p \in Ids /\ row \in PersonRow /\ row.into = None
      /\ fresh \/ persons[p] # None
      /\ p \in Component(log, x)
  <2>1. CASE fresh
    BY <2>1, <1>0, <1>1, <1>2, NewRowType, ComponentIsLeastClosed
  <2>2. CASE ~fresh
    BY <2>2, <1>1, <1>2, EndsKnown
  <2> QED BY <2>1, <2>2
<1>4. fresh \in BOOLEAN
  OBVIOUS
<1> HIDE DEF row, fresh
<1>5. t \in TxType
  BY <1>2, <1>3, <1>4 DEF TxType
<1>6. t.phase = "aimed" /\ t.fresh = fresh /\ t.target = p /\ t.row = row /\ t.ev = e
  OBVIOUS
<1>7. tx' = [tx EXCEPT ![w] = t]
  BY <1>1 DEF row, fresh
<1> HIDE DEF t
<1>8. TxKnown(t)
  BY <1>3, <1>6 DEF TxKnown, TargetKnown, Reading, Rebuilding
<1>9. UNCHANGED <<story, tables>> /\ Take(e)
  BY DEF Aim
<1> QED BY <1>5, <1>6, <1>7, <1>8, <1>9, KnownMove, TakenRuns

(* Reading the person of the previous distinct id, likewise.               *)
LEMMA SightKnown ==
  ASSUME IInv, KInv, NEW w \in Workers, Sight(w)
  PROVE  KInv'
<1> DEFINE u == tx[w]
           x == story[u.ev].prev
           own == u.fresh /\ x = u.target
<1>0. story \in Stories /\ log \subseteq DOMAIN story /\ u \in TxType /\ TxKnown(u)
      /\ runs \in [Events -> 0..MaxRuns] /\ None \notin Ids
  BY IdentityAssumption DEF KInv, TypeOK, TablesKnown
<1>1. PICK p \in IF own THEN {x} ELSE IF mapping[x] = None THEN {None} ELSE Ends(mapping[x]) :
        tx' = [tx EXCEPT ![w] =
          [phase |-> "sighted", ev |-> u.ev, fresh |-> u.fresh, target |-> u.target,
           row |-> u.row, source |-> p,
           srow |-> IF own THEN u.row ELSE IF p = None THEN None ELSE persons[p]]]
  BY DEF Sight
<1> DEFINE srow == IF own THEN u.row ELSE IF p = None THEN None ELSE persons[p]
           t == [phase |-> "sighted", ev |-> u.ev, fresh |-> u.fresh, target |-> u.target,
                 row |-> u.row, source |-> p, srow |-> srow]
<1>2. u.phase = "aimed" /\ UNCHANGED <<story, tables>> /\ runs' = runs
  BY DEF Sight
<1>3. u.ev \in DOMAIN story
  BY <1>2 DEF IInv, ReadersOK, ReaderOK, Reading
<1>4. /\ u.ev \in Events /\ u.fresh \in BOOLEAN /\ u.target \in Ids /\ u.row \in PersonRow
      /\ x \in Ids
  BY <1>0, <1>2, <1>3, TxFields, StoryTypes DEF Reading
<1>5. TargetKnown(u)
  BY <1>0, <1>2 DEF TxKnown, Reading
<1>6. /\ p \in Ids \cup {None} /\ srow \in PersonRow \cup {None}
      /\ p # None => /\ srow \in PersonRow /\ srow.into = None
                     /\ persons[p] # None \/ (u.fresh /\ p = u.target)
                     /\ p \in Component(log, x)
  <2>1. CASE own
    BY <2>1, <1>0, <1>1, <1>4, <1>5, ComponentIsLeastClosed DEF TargetKnown
  <2>2. CASE ~own /\ mapping[x] = None
    BY <2>2, <1>1
  <2>3. CASE ~own /\ mapping[x] # None
    <3>1. p \in Ends(mapping[x])
      BY <2>3, <1>1
    <3>2. /\ p \in Ids /\ persons[p] \in PersonRow /\ persons[p] # None
          /\ persons[p].into = None
          /\ p \in Component(log, x)
      BY <2>3, <3>1, <1>4, EndsKnown
    <3> QED BY <2>3, <3>2, <1>0
  <2> QED BY <2>1, <2>2, <2>3
<1> HIDE DEF srow
<1>7. t \in TxType
  BY <1>4, <1>6 DEF TxType
<1>8. /\ t.phase = "sighted" /\ t.fresh = u.fresh /\ t.target = u.target /\ t.row = u.row
      /\ t.ev = u.ev /\ t.source = p /\ t.srow = srow
  OBVIOUS
<1>9. tx' = [tx EXCEPT ![w] = t]
  BY <1>1 DEF srow
<1> HIDE DEF t
<1>10. TargetKnown(t)
  BY <1>5, <1>8 DEF TargetKnown
<1>11. SourceKnown(t)
  BY <1>6, <1>8 DEF SourceKnown
<1>12. TxKnown(t)
  BY <1>8, <1>10, <1>11 DEF TxKnown, Rebuilding
<1> QED BY <1>0, <1>2, <1>3, <1>7, <1>8, <1>9, <1>12, KnownMove

LEMMA ListKnownStep ==
  ASSUME IInv, KInv, NEW w \in Workers, NEW e \in DOMAIN story, List(w, e)
  PROVE  KInv'
<1> DEFINE t == [phase |-> "listed", ev |-> e, rows |-> mapping]
<1>0. story \in Stories /\ mapping \in [Ids -> Ids \cup {None}]
      /\ MappedIn(mapping, persons, log)
  BY DEF KInv, TypeOK, TablesKnown
<1>1. tx' = [tx EXCEPT ![w] = t] /\ UNCHANGED <<story, tables>> /\ Take(e)
  BY DEF List
<1>2. t \in TxType
  BY <1>0, StoryTypes DEF TxType
<1>3. t.phase = "listed" /\ t.rows = mapping
  OBVIOUS
<1> HIDE DEF t
<1>4. TxKnown(t)
  BY <1>0, <1>3 DEF TxKnown, Reading, ListKnown, MappedIn
<1> QED BY <1>1, <1>2, <1>3, <1>4, TakenRuns, KnownMove DEF Reading

LEMMA PlanKnownStep ==
  ASSUME IInv, KInv, NEW w \in Workers, Plan(w)
  PROVE  KInv'
<1> DEFINE u == tx[w]
           t == [phase |-> "planned", ev |-> u.ev, rows |-> u.rows,
                 people |-> persons, asserted |-> log]
<1>0. /\ story \in Stories /\ persons \in [Ids -> PersonRow \cup {None}]
      /\ log \subseteq Events /\ u \in TxType /\ TxKnown(u) /\ runs \in [Events -> 0..MaxRuns]
  BY DEF KInv, TypeOK
<1>1. u.phase = "listed" /\ tx' = [tx EXCEPT ![w] = t] /\ UNCHANGED <<story, tables, runs>>
  BY DEF Plan
<1>2. u.ev \in Events /\ u.rows \in [Ids -> Ids \cup {None}] /\ ListKnown(u)
  BY <1>0, <1>1, TxFields DEF TxKnown, Rebuilding
<1>3. t \in TxType
  BY <1>0, <1>2 DEF TxType
<1>4. t.phase = "planned" /\ t.rows = u.rows /\ t.people = persons /\ t.asserted = log
  OBVIOUS
<1> HIDE DEF t
<1>5. TxKnown(t)
  BY <1>1, <1>2, <1>4 DEF TxKnown, Reading, ListKnown, PlanKnown
<1> QED BY <1>0, <1>1, <1>3, <1>4, <1>5, KnownMove DEF Reading

LEMMA AbortKnown ==
  ASSUME IInv, KInv, NEW w \in Workers, Abort(w)
  PROVE  KInv'
<1>1. tx' = [tx EXCEPT ![w] = Idle] /\ UNCHANGED <<story, tables, runs>>
  BY DEF Abort
<1>2. Idle \in TxType /\ Idle.phase = "idle" /\ runs \in [Events -> 0..MaxRuns]
  BY DEF KInv, TypeOK, TxType, Idle
<1>3. TxKnown(Idle)
  BY <1>2 DEF TxKnown, Reading, Rebuilding
<1> QED BY <1>1, <1>2, <1>3, KnownMove DEF Reading

(* Traits fold to an event or to nothing.                                  *)
LEMMA CellTypes ==
  /\ \A c \in Cells, e \in Events : ApplyWrite(c, e) \in Cells
  /\ \A l, r \in Cells : CombineCells(l, r) \in Cells
BY DEF ApplyWrite, CombineCells, Cells

(* updatePersonProfile changes what a person shows, not where it leads.    *)
LEMMA ProfileWrites ==
  ASSUME NEW people \in [Ids -> PersonRow \cup {None}], NEW p \in Ids, people[p] # None,
         NEW row \in PersonRow, story \in Stories, NEW e \in DOMAIN story
  PROVE  /\ Profile(people, p, row, e) \in [Ids -> PersonRow \cup {None}]
         /\ Profile(people, p, row, e)[p].seen = Min2(row.seen, story[e].ts)
         /\ Profile(people, p, row, e)[p].cell = ApplyWrite(row.cell, e)
         /\ Profile(people, p, row, e)[p].into = people[p].into
         /\ \A q \in Ids : q # p => Profile(people, p, row, e)[q] = people[q]
         /\ Profile(people, p, row, e)[p] \in PersonRow
<1> DEFINE seen == Min2(row.seen, story[e].ts)
           cell == ApplyWrite(row.cell, e)
<1>1. people[p] \in PersonRow
  OBVIOUS
<1>2. e \in Events /\ story[e].ts \in Nat
  BY StoryTypes
<1>3. seen \in Nat /\ cell \in Cells
  BY <1>2, CellTypes DEF Min2, PersonRow
<1>4. Profile(people, p, row, e) = [people EXCEPT ![p].seen = seen, ![p].cell = cell]
  BY DEF Profile
<1> HIDE DEF seen, cell
<1>5. people[p] = [seen |-> people[p].seen, cell |-> people[p].cell, into |-> people[p].into]
      /\ people[p].into \in Ids \cup {None}
  BY <1>1 DEF PersonRow
<1> DEFINE new == [seen |-> seen, cell |-> cell, into |-> people[p].into]
<1>6. new \in PersonRow
  BY <1>3, <1>5 DEF PersonRow
<1>7. Profile(people, p, row, e)[p] = new
  BY <1>1, <1>4, <1>5 DEF PersonRow
<1>8. Profile(people, p, row, e) = [people EXCEPT ![p] = Profile(people, p, row, e)[p]]
  BY <1>4
<1> HIDE DEF new
<1>9. Profile(people, p, row, e) \in [Ids -> PersonRow \cup {None}]
  BY <1>6, <1>7, <1>8
<1>10. \A q \in Ids : q # p => Profile(people, p, row, e)[q] = people[q]
  BY <1>8
<1> QED BY <1>6, <1>7, <1>9, <1>10 DEF new, seen, cell

(* What a transaction that has read its target writes first.               *)
LEMMA TargetOpened ==
  ASSUME IInv, KInv, NEW w \in Workers, tx[w].phase \in Reading
  PROVE  LET t == tx[w]
             people == WithTarget(t)
             map == MappedTarget(t)
         IN /\ t.ev \in DOMAIN story /\ t.ev \in Events /\ t.target \in Ids
            /\ t.fresh \in BOOLEAN /\ t.row \in PersonRow /\ t.row.into = None
            /\ t.fresh => persons[t.target] = None /\ t.target = story[t.ev].id
            /\ people \in [Ids -> PersonRow \cup {None}]
            /\ people[t.target] # None
            /\ t.fresh => people[t.target] = t.row
            /\ \A p \in Ids : persons[p] # None => people[p] = persons[p]
            /\ \A p \in Ids : people[p] # None => persons[p] # None \/ (t.fresh /\ p = t.target)
            /\ map \in [Ids -> Ids \cup {None}]
            /\ MappedIn(map, people, log)
            /\ MergedIn(people, log)
            /\ t.target \in Component(log, story[t.ev].id)
<1> DEFINE t == tx[w]
           people == WithTarget(t)
           map == MappedTarget(t)
<1>0. /\ story \in Stories /\ log \subseteq DOMAIN story
      /\ persons \in [Ids -> PersonRow \cup {None}] /\ mapping \in [Ids -> Ids \cup {None}]
      /\ t \in TxType /\ TxKnown(t) /\ ReaderOK(t)
      /\ MappedIn(mapping, persons, log) /\ MergedIn(persons, log) /\ CreatedIn(persons, born)
      /\ None \notin Ids
  BY IdentityAssumption DEF KInv, TypeOK, TablesKnown, IInv, ReadersOK
<1>1. /\ t.ev \in DOMAIN story /\ t.ev \in Events /\ t.target \in Ids
      /\ t.fresh \in BOOLEAN /\ t.row \in PersonRow /\ TargetKnown(t)
  BY <1>0, TxFields DEF ReaderOK, TxKnown
<1>2. t.row.into = None /\ t.target \in Component(log, story[t.ev].id)
      /\ (t.fresh \/ persons[t.target] # None)
  BY <1>1 DEF TargetKnown
<1>3. t.fresh => persons[t.target] = None /\ t.target = story[t.ev].id
  BY <1>0, <1>1 DEF ReaderOK, CreatedIn
<1>4. CASE ~t.fresh
  <2>1. people = persons /\ map = mapping
    BY <1>4 DEF WithTarget, MappedTarget
  <2> HIDE DEF people, map
  <2> QED BY <2>1, <1>0, <1>1, <1>2, <1>3, <1>4 DEF people, map
<1>5. CASE t.fresh
  <2>1. people = [persons EXCEPT ![t.target] = t.row]
        /\ map = [mapping EXCEPT ![t.target] = t.target]
    BY <1>5 DEF WithTarget, MappedTarget
  <2>2. t.row # None
    BY <1>1, IdentityAssumption
  <2> HIDE DEF people, map
  <2>3. /\ people \in [Ids -> PersonRow \cup {None}]
        /\ people[t.target] = t.row
        /\ \A p \in Ids : p # t.target => people[p] = persons[p]
        /\ map \in [Ids -> Ids \cup {None}]
        /\ map[t.target] = t.target
        /\ \A p \in Ids : p # t.target => map[p] = mapping[p]
    BY <2>1, <1>0, <1>1
  <2>4. \A p \in Ids : persons[p] # None => people[p] = persons[p]
    BY <2>3, <1>3, <1>5
  <2>5. MappedIn(map, people, log)
    <3> SUFFICES ASSUME NEW x \in Ids, map[x] # None
                 PROVE  people[map[x]] # None /\ map[x] \in Component(log, x)
      BY DEF MappedIn
    <3>1. CASE x = t.target
      BY <3>1, <2>2, <2>3, <1>0, <1>1, ComponentIsLeastClosed
    <3>2. CASE x # t.target
      BY <3>2, <2>3, <2>4, <1>0 DEF MappedIn
    <3> QED BY <3>1, <3>2
  <2>6. MergedIn(people, log)
    <3> SUFFICES ASSUME NEW p \in Ids, people[p] # None, people[p].into # None
                 PROVE  /\ people[people[p].into] # None
                        /\ people[p].into \in Component(log, p) \ {p}
      BY DEF MergedIn
    <3>1. p # t.target /\ people[p] = persons[p]
      BY <2>3, <1>2
    <3>2. persons[persons[p].into] # None /\ persons[p].into \in Component(log, p) \ {p}
      BY <3>1, <1>0 DEF MergedIn
    <3>3. persons[p].into \in Ids
      BY <3>2, <1>0, ComponentIsLeastClosed
    <3> QED BY <3>1, <3>2, <3>3, <2>4
  <2> QED BY <2>2, <2>3, <2>4, <2>5, <2>6, <1>1, <1>2, <1>3, <1>5 DEF people, map
<1> QED BY <1>4, <1>5

(* A commit: the tables as a reader leaves them.                           *)
LEMMA KnownCommit ==
  ASSUME IInv, KInv, NEW w \in Workers, tx[w].phase \in Reading, Close(w, tx[w]),
         log \subseteq log', log' \subseteq DOMAIN story,
         persons' \in [Ids -> PersonRow \cup {None}],
         \A p \in Ids : persons'[p] # None <=> WithTarget(tx[w])[p] # None,
         mapping' \in [Ids -> Ids \cup {None}],
         token' \in [Ids -> Ids \cup {None}],
         wrote' \in [Events -> Ids \cup {None}],
         torn' \in BOOLEAN,
         MappedIn(mapping', persons', log'),
         MergedIn(persons', log')
  PROVE  KInv'
<1> DEFINE t == tx[w]
           people == WithTarget(t)
<1>1. /\ t.target \in Ids /\ t.fresh \in BOOLEAN
      /\ \A p \in Ids : persons[p] # None => people[p] = persons[p]
      /\ \A p \in Ids : people[p] # None => persons[p] # None \/ (t.fresh /\ p = t.target)
  BY TargetOpened
<1>2. born \in [Ids -> Nat] /\ runs \in [Events -> 0..MaxRuns] /\ CreatedIn(persons, born)
  BY DEF KInv, TypeOK, TablesKnown
<1>3. tx' = [tx EXCEPT ![w] = Idle] /\ story' = story /\ runs' = runs
      /\ born' = IF t.fresh THEN [born EXCEPT ![t.target] = @ + 1] ELSE born
  BY DEF Close
<1>4. Idle \in TxType /\ Idle.phase = "idle"
  BY DEF TxType, Idle
<1>5. TxKnown(Idle)
  BY <1>4 DEF TxKnown, Reading, Rebuilding
<1> HIDE DEF people
<1>6. born' \in [Ids -> Nat] /\ CreatedIn(persons', born')
  <2>1. CASE t.fresh
    <3>1. /\ born' \in [Ids -> Nat]
          /\ born'[t.target] = born[t.target] + 1
          /\ \A p \in Ids : p # t.target => born'[p] = born[p]
      BY <2>1, <1>1, <1>2, <1>3
    <3>2. born'[t.target] # 0
      BY <3>1, <1>1, <1>2
    <3> QED BY <3>1, <3>2, <1>1, <1>2 DEF CreatedIn, people
  <2>2. CASE ~t.fresh
    BY <2>2, <1>1, <1>2, <1>3 DEF CreatedIn, people
  <2> QED BY <2>1, <2>2
<1>7. \A p \in Ids : persons[p] # None => persons'[p] # None
  BY <1>1 DEF people
<1> QED BY <1>2, <1>3, <1>4, <1>5, <1>6, <1>7, KnownStep DEF Reading

LEMMA RecordType ==
  ASSUME KInv, NEW e \in Events, NEW p \in Ids, Record(e, p)
  PROVE  wrote' \in [Events -> Ids \cup {None}]
BY DEF Record, KInv, TypeOK

(* Committing a resolve.                                                   *)
LEMMA ResolveKnown ==
  ASSUME IInv, KInv, NEW w \in Workers, Resolve(w)
  PROVE  KInv'
<1> DEFINE t == tx[w]
           people == WithTarget(t)
           map == MappedTarget(t)
<1>0. /\ story \in Stories /\ token \in [Ids -> Ids \cup {None}] /\ log \subseteq DOMAIN story
      /\ persons \in [Ids -> PersonRow \cup {None}] /\ None \notin PersonRow
  BY IdentityAssumption DEF KInv, TypeOK, TablesKnown
<1>1. t.phase \in Reading
  BY DEF Resolve, Reading
<1>2. /\ persons' = IF t.fresh THEN people ELSE Profile(persons, t.target, t.row, t.ev)
      /\ mapping' = map
      /\ token' = IF t.fresh THEN [token EXCEPT ![t.target] = t.target] ELSE token
      /\ torn' = (torn \/ (~t.fresh /\ Stale(t.target, t.row)))
      /\ Record(t.ev, t.target)
      /\ Close(w, t)
      /\ log' = log
  BY DEF Resolve
<1>3. /\ t.ev \in DOMAIN story /\ t.ev \in Events /\ t.target \in Ids
      /\ t.fresh \in BOOLEAN /\ t.row \in PersonRow
      /\ people \in [Ids -> PersonRow \cup {None}]
      /\ people[t.target] # None
      /\ map \in [Ids -> Ids \cup {None}]
      /\ MappedIn(map, people, log)
      /\ MergedIn(people, log)
  BY <1>1, TargetOpened
<1>4. /\ persons' \in [Ids -> PersonRow \cup {None}]
      /\ \A p \in Ids : persons'[p] # None <=> people[p] # None
      /\ \A p \in Ids : people[p] # None => persons'[p].into = people[p].into
  <2>1. CASE t.fresh
    <3>1. persons' = people
      BY <2>1, <1>2
    <3> HIDE DEF people
    <3> QED BY <3>1, <1>3
  <2>2. CASE ~t.fresh
    <3>1. people = persons
      BY <2>2 DEF WithTarget
    <3>2. persons' = Profile(people, t.target, t.row, t.ev)
      BY <1>2, <2>2, <3>1
    <3> HIDE DEF people
    <3>3. /\ Profile(people, t.target, t.row, t.ev) \in [Ids -> PersonRow \cup {None}]
          /\ Profile(people, t.target, t.row, t.ev)[t.target].into = people[t.target].into
          /\ Profile(people, t.target, t.row, t.ev)[t.target] \in PersonRow
          /\ \A q \in Ids : q # t.target => Profile(people, t.target, t.row, t.ev)[q] = people[q]
    BY <1>0, <1>3, ProfileWrites
    <3> QED BY <3>3, <1>0, <3>2, <1>3
  <2> QED BY <2>1, <2>2
<1> HIDE DEF people, map
<1>5. MappedIn(mapping', persons', log') /\ MergedIn(persons', log')
  <2>1. MappedIn(mapping', persons', log')
    BY <1>2, <1>3, <1>4 DEF MappedIn
  <2>2. MergedIn(persons', log')
    <3> SUFFICES ASSUME NEW p \in Ids, persons'[p] # None, persons'[p].into # None
                 PROVE  /\ persons'[persons'[p].into] # None
                        /\ persons'[p].into \in Component(log, p) \ {p}
      BY <1>2 DEF MergedIn
    <3>1. persons'[p].into = people[p].into /\ people[p] # None /\ people[p].into # None
      BY <1>4
    <3>2. people[people[p].into] # None /\ people[p].into \in Component(log, p) \ {p}
      BY <3>1, <1>3 DEF MergedIn
    <3>3. people[p].into \in Ids
      BY <3>2, <1>0, ComponentIsLeastClosed
    <3> QED BY <3>1, <3>2, <3>3, <1>4
  <2> QED BY <2>1, <2>2
<1>6. torn' \in BOOLEAN /\ token' \in [Ids -> Ids \cup {None}]
  BY <1>0, <1>2, <1>3
<1>7. wrote' \in [Events -> Ids \cup {None}]
  BY <1>2, <1>3, RecordType
<1> QED BY <1>0, <1>1, <1>2, <1>3, <1>4, <1>5, <1>6, <1>7, KnownCommit DEF people

(* Both distinct ids are bound to the survivor.                            *)
LEMMA BindingsType ==
  ASSUME KInv, NEW t, NEW p \in Ids
  PROVE  Bindings(t, p) \in [Ids -> Ids \cup {None}]
BY DEF Bindings, KInv, TypeOK

(* The event of an identify, once it may be in the log.                    *)
LEMMA AssertedLog ==
  ASSUME KInv, NEW e \in DOMAIN story, log' = log \/ log' = log \cup {e}
  PROVE  /\ log \subseteq log' /\ log' \subseteq DOMAIN story
         /\ \A x \in Ids : Component(log, x) \subseteq Component(log', x)
         /\ \A x \in Ids : x \in Component(log', x) /\ Component(log', x) \subseteq Ids
         /\ \A x, y \in Ids : y \in Component(log', x) => Component(log', x) = Component(log', y)
         /\ e \in log' => Component(log', story[e].id) = Component(log', story[e].prev)
         /\ story[e].id \in Ids /\ story[e].prev \in Ids
<1>1. story \in Stories /\ log \subseteq DOMAIN story
  BY DEF KInv, TypeOK, TablesKnown
<1> DEFINE more == log'
<1>2. log \subseteq more /\ more \subseteq DOMAIN story
  BY <1>1
<1> HIDE DEF more
<1>3. story[e].id \in Ids /\ story[e].prev \in Ids
  BY <1>1, StoryTypes
<1>4. \A x \in Ids : Component(log, x) \subseteq Component(more, x)
  BY <1>1, <1>2, ComponentsOnlyGrow
<1>5. \A x \in Ids : x \in Component(more, x) /\ Component(more, x) \subseteq Ids
  BY <1>1, <1>2, ComponentIsLeastClosed
<1>6. \A x, y \in Ids : y \in Component(more, x) => Component(more, x) = Component(more, y)
  BY <1>1, <1>2, ComponentsAreClasses
<1>7. e \in more => Component(more, story[e].id) = Component(more, story[e].prev)
  BY <1>1, <1>2, <1>3, <1>6, AssertionConnects
<1> QED BY <1>2, <1>3, <1>4, <1>5, <1>6, <1>7 DEF more

(* Committing an identify that merges nobody; a stitch asserts what it     *)
(* maps.                                                                   *)
LEMMA UpdateTargetKnown ==
  ASSUME IInv, KInv, NEW w \in Workers, UpdateTarget(w)
  PROVE  KInv'
<1> DEFINE t == tx[w]
           people == WithTarget(t)
           map == MappedTarget(t)
           prev == story[t.ev].prev
<1>0. /\ story \in Stories /\ log \subseteq DOMAIN story /\ None \notin PersonRow /\ None \notin Ids
  BY IdentityAssumption DEF KInv, TypeOK, TablesKnown
<1>1. t.phase \in Reading
  BY DEF UpdateTarget, Reading
<1>2. /\ persons' = Profile(people, t.target, t.row, t.ev)
      /\ mapping' = IF Stitches(t) THEN [map EXCEPT ![prev] = t.target] ELSE map
      /\ token' = Bindings(t, t.target)
      /\ log' = IF Asserts(t) THEN log \cup {t.ev} ELSE log
      /\ torn' = (torn \/ Outdated(t))
      /\ Record(t.ev, t.target)
      /\ Close(w, t)
  BY DEF UpdateTarget
<1>3. /\ t.ev \in DOMAIN story /\ t.ev \in Events /\ t.target \in Ids
      /\ t.fresh \in BOOLEAN /\ t.row \in PersonRow
      /\ people \in [Ids -> PersonRow \cup {None}]
      /\ people[t.target] # None
      /\ map \in [Ids -> Ids \cup {None}]
      /\ MappedIn(map, people, log)
      /\ MergedIn(people, log)
      /\ t.target \in Component(log, story[t.ev].id)
  BY <1>1, TargetOpened
<1> HIDE DEF people, map
<1>4. /\ persons' \in [Ids -> PersonRow \cup {None}]
      /\ \A p \in Ids : persons'[p] # None <=> people[p] # None
      /\ \A p \in Ids : people[p] # None => persons'[p].into = people[p].into
  <2>1. /\ Profile(people, t.target, t.row, t.ev) \in [Ids -> PersonRow \cup {None}]
        /\ Profile(people, t.target, t.row, t.ev)[t.target].into = people[t.target].into
        /\ Profile(people, t.target, t.row, t.ev)[t.target] \in PersonRow
        /\ \A q \in Ids : q # t.target => Profile(people, t.target, t.row, t.ev)[q] = people[q]
    BY <1>0, <1>3, ProfileWrites
  <2> QED BY <2>1, <1>0, <1>2, <1>3
<1>5. /\ log \subseteq log' /\ log' \subseteq DOMAIN story
      /\ \A x \in Ids : Component(log, x) \subseteq Component(log', x)
      /\ t.ev \in log' => Component(log', story[t.ev].id) = Component(log', prev)
      /\ story[t.ev].id \in Ids /\ prev \in Ids
      /\ \A x \in Ids : Component(log', x) \subseteq Ids
  BY <1>2, <1>3, AssertedLog
<1>6. MergedIn(persons', log')
  <2> SUFFICES ASSUME NEW p \in Ids, persons'[p] # None, persons'[p].into # None
               PROVE  /\ persons'[persons'[p].into] # None
                      /\ persons'[p].into \in Component(log', p) \ {p}
    BY DEF MergedIn
  <2>1. persons'[p].into = people[p].into /\ people[p] # None /\ people[p].into # None
    BY <1>4
  <2>2. people[people[p].into] # None /\ people[p].into \in Component(log, p) \ {p}
    BY <2>1, <1>3 DEF MergedIn
  <2>3. people[p].into \in Component(log', p) /\ people[p].into \in Ids
    BY <2>2, <1>5
  <2> QED BY <2>1, <2>2, <2>3, <1>4
<1>7. mapping' \in [Ids -> Ids \cup {None}] /\ MappedIn(mapping', persons', log')
  <2>1. MappedIn(map, persons', log')
    BY <1>3, <1>4, <1>5 DEF MappedIn
  <2>2. CASE Stitches(t)
    <3>1. mapping' = [map EXCEPT ![prev] = t.target]
      BY <2>2, <1>2
    <3>2. Asserts(t)
      BY <2>2 DEF Asserts
    <3>3. t.target \in Component(log', prev)
      BY <3>2, <1>2, <1>3, <1>5
    <3>4. /\ mapping' \in [Ids -> Ids \cup {None}] /\ mapping'[prev] = t.target
          /\ \A x \in Ids : x # prev => mapping'[x] = map[x]
      BY <3>1, <1>3, <1>5
    <3> QED BY <3>3, <3>4, <2>1, <1>3, <1>4 DEF MappedIn
  <2>3. CASE ~Stitches(t)
    BY <2>3, <2>1, <1>2, <1>3
  <2> QED BY <2>2, <2>3
<1>8. torn' \in BOOLEAN
  BY <1>2 DEF KInv, TypeOK, Outdated
<1>9. wrote' \in [Events -> Ids \cup {None}] /\ token' \in [Ids -> Ids \cup {None}]
  BY <1>2, <1>3, RecordType, BindingsType
<1> QED BY <1>1, <1>2, <1>4, <1>5, <1>6, <1>7, <1>8, <1>9, KnownCommit DEF people

(* The two sides of a merge.                                               *)
Winner(t) == IF SourceWins(t) THEN t.source ELSE t.target
Loser(t) == IF SourceWins(t) THEN t.target ELSE t.source
WinnerRow(t) == IF SourceWins(t) THEN t.srow ELSE t.row
LoserRow(t) == IF SourceWins(t) THEN t.row ELSE t.srow
Named(t) == IF SourceWins(t) THEN story[t.ev].id ELSE story[t.ev].prev
MergedRow(t) == [WinnerRow(t) EXCEPT !.cell = CombineCells(WinnerRow(t).cell, LoserRow(t).cell)]

(* A merge, by its winner and its loser.                                   *)
LEMMA MergeSteps ==
  ASSUME NEW w, Merge(w)
  PROVE  LET t == tx[w]
             moved == Moved(t, Loser(t), Named(t))
         IN /\ tx[w].phase = "sighted" /\ RealMerge(t)
            /\ moved \cap HeldRows(w) = {}
            /\ persons' = [Profile(WithTarget(t), Winner(t), MergedRow(t), t.ev)
                             EXCEPT ![Loser(t)].into = Winner(t)]
            /\ mapping' = [x \in Ids |-> IF x \in moved THEN Winner(t) ELSE MappedTarget(t)[x]]
            /\ token' = Bindings(t, Winner(t))
            /\ log' = log \cup {t.ev}
            /\ torn' = (torn \/ Outdated(t))
            /\ Record(t.ev, Winner(t))
            /\ Close(w, t)
BY DEF Merge, Winner, Loser, WinnerRow, LoserRow, Named, MergedRow, Asserts

(* The two persons of a merge: distinct, existing, live in the copies that *)
(* were read, and of the components of the two distinct ids.               *)
LEMMA MergeSides ==
  ASSUME IInv, KInv, NEW w \in Workers, tx[w].phase = "sighted", RealMerge(tx[w])
  PROVE  LET t == tx[w]
             people == WithTarget(t)
         IN /\ t.source \in Ids /\ t.target \in Ids /\ t.source # t.target
            /\ persons[t.source] # None /\ people[t.source] = persons[t.source]
            /\ people[t.target] # None
            /\ t.row \in PersonRow /\ t.srow \in PersonRow
            /\ t.row.into = None /\ t.srow.into = None
            /\ Winner(t) \in Ids /\ Loser(t) \in Ids /\ Winner(t) # Loser(t)
            /\ {Winner(t), Loser(t)} = {t.source, t.target}
            /\ MergedRow(t) \in PersonRow
            /\ MergedRow(t).seen = WinnerRow(t).seen
            /\ MergedRow(t).cell = CombineCells(WinnerRow(t).cell, LoserRow(t).cell)
            /\ t.source \in Component(log, story[t.ev].prev)
            /\ t.target \in Component(log, story[t.ev].id)
            /\ Named(t) \in {story[t.ev].id, story[t.ev].prev}
<1> DEFINE t == tx[w]
           people == WithTarget(t)
<1>1. t \in TxType /\ TxKnown(t) /\ t.phase \in Reading
  BY DEF KInv, TypeOK, Reading
<1>2. t.source \in Ids /\ t.source # t.target /\ t.source # None
  BY <1>1, TxFields DEF RealMerge
<1>3. /\ t.srow \in PersonRow /\ t.srow.into = None
      /\ persons[t.source] # None
      /\ t.source \in Component(log, story[t.ev].prev)
  BY <1>1, <1>2 DEF TxKnown, SourceKnown
<1>4. /\ t.target \in Ids /\ people[t.target] # None /\ people[t.source] = persons[t.source]
      /\ t.row \in PersonRow /\ t.row.into = None
      /\ t.target \in Component(log, story[t.ev].id)
  BY <1>1, <1>2, <1>3, TargetOpened
<1>5. /\ Winner(t) \in Ids /\ Loser(t) \in Ids /\ Winner(t) # Loser(t)
      /\ {Winner(t), Loser(t)} = {t.source, t.target}
      /\ WinnerRow(t) \in PersonRow /\ LoserRow(t) \in PersonRow
      /\ Named(t) \in {story[t.ev].id, story[t.ev].prev}
  BY <1>2, <1>3, <1>4 DEF Winner, Loser, WinnerRow, LoserRow, Named
<1>6. CombineCells(WinnerRow(t).cell, LoserRow(t).cell) \in Cells
  BY <1>5, CellTypes DEF PersonRow
<1>7. /\ MergedRow(t) \in PersonRow
      /\ MergedRow(t).seen = WinnerRow(t).seen
      /\ MergedRow(t).cell = CombineCells(WinnerRow(t).cell, LoserRow(t).cell)
  BY <1>5, <1>6 DEF MergedRow, PersonRow
<1> QED BY <1>2, <1>3, <1>4, <1>5, <1>7

(* The rows a merge leaves.                                                *)
LEMMA MergeRows ==
  ASSUME IInv, KInv, NEW w \in Workers, Merge(w)
  PROVE  LET t == tx[w]
             people == WithTarget(t)
         IN /\ persons' \in [Ids -> PersonRow \cup {None}]
            /\ \A p \in Ids : persons'[p] # None <=> people[p] # None
            /\ \A p \in Ids \ {Winner(t), Loser(t)} : persons'[p] = people[p]
            /\ persons'[Winner(t)].into = people[Winner(t)].into
            /\ persons'[Winner(t)].seen = Min2(WinnerRow(t).seen, story[t.ev].ts)
            /\ persons'[Winner(t)].cell =
                 ApplyWrite(CombineCells(WinnerRow(t).cell, LoserRow(t).cell), t.ev)
            /\ persons'[Loser(t)].into = Winner(t)
            /\ persons'[Loser(t)].seen = people[Loser(t)].seen
<1> DEFINE t == tx[w]
           people == WithTarget(t)
           win == Winner(t)
           lose == Loser(t)
           prof == Profile(people, win, MergedRow(t), t.ev)
<1>1. t.phase = "sighted" /\ RealMerge(t) /\ t.phase \in Reading
  BY MergeSteps DEF Reading
<1>2. /\ win \in Ids /\ lose \in Ids /\ win # lose
      /\ people[win] # None /\ people[lose] # None
      /\ MergedRow(t) \in PersonRow
      /\ MergedRow(t).seen = WinnerRow(t).seen
      /\ MergedRow(t).cell = CombineCells(WinnerRow(t).cell, LoserRow(t).cell)
  BY <1>1, MergeSides
<1>3. /\ people \in [Ids -> PersonRow \cup {None}] /\ t.ev \in DOMAIN story
      /\ story \in Stories /\ None \notin PersonRow
  BY <1>1, TargetOpened, IdentityAssumption DEF KInv, TypeOK
<1>4. persons' = [prof EXCEPT ![lose].into = win]
  BY MergeSteps
<1> HIDE DEF people, win, lose
<1>5. /\ prof \in [Ids -> PersonRow \cup {None}]
      /\ prof[win].seen = Min2(MergedRow(t).seen, story[t.ev].ts)
      /\ prof[win].cell = ApplyWrite(MergedRow(t).cell, t.ev)
      /\ prof[win].into = people[win].into
      /\ \A q \in Ids : q # win => prof[q] = people[q]
      /\ prof[win] \in PersonRow
  BY <1>2, <1>3, ProfileWrites
<1> HIDE DEF prof
<1>6. prof[lose] = people[lose] /\ prof[lose] \in PersonRow
  BY <1>2, <1>3, <1>5
<1>7. /\ persons'[lose] \in PersonRow
      /\ persons'[lose].into = win
      /\ persons'[lose].seen = people[lose].seen
  BY <1>2, <1>4, <1>5, <1>6 DEF PersonRow
<1>8. \A q \in Ids : q # lose => persons'[q] = prof[q]
  BY <1>4, <1>5
<1>9. persons' = [prof EXCEPT ![lose] = persons'[lose]]
  BY <1>4
<1>10. persons' \in [Ids -> PersonRow \cup {None}]
  BY <1>5, <1>7, <1>9
<1>11. \A p \in Ids : persons'[p] # None <=> people[p] # None
  BY <1>2, <1>3, <1>5, <1>7, <1>8
<1>12. \A p \in Ids \ {win, lose} : persons'[p] = people[p]
  BY <1>5, <1>8
<1> QED BY <1>2, <1>5, <1>7, <1>8, <1>10, <1>11, <1>12 DEF people, win, lose

(* Committing a merge: its assertion joins the two components before       *)
(* anything in them is stitched.                                           *)
LEMMA MergeKnown ==
  ASSUME IInv, KInv, NEW w \in Workers, Merge(w)
  PROVE  KInv'
<1> DEFINE t == tx[w]
           people == WithTarget(t)
           map == MappedTarget(t)
           win == Winner(t)
           lose == Loser(t)
           named == Named(t)
           moved == Moved(t, lose, named)
           C(x) == Component(log', x)
           K == C(story[t.ev].id)
<1>1. t.phase = "sighted" /\ t.phase \in Reading /\ RealMerge(t)
  BY MergeSteps DEF Reading
<1>2. /\ mapping' = [x \in Ids |-> IF x \in moved THEN win ELSE map[x]]
      /\ token' = Bindings(t, win) /\ log' = log \cup {t.ev}
      /\ torn' = (torn \/ Outdated(t)) /\ Record(t.ev, win) /\ Close(w, t)
  BY MergeSteps
<1>3. /\ win \in Ids /\ lose \in Ids /\ win # lose /\ {win, lose} = {t.source, t.target}
      /\ t.source \in Component(log, story[t.ev].prev)
      /\ people[win] # None
      /\ named \in {story[t.ev].id, story[t.ev].prev}
  BY <1>1, MergeSides
<1>4. /\ t.ev \in DOMAIN story /\ t.ev \in Events
      /\ map \in [Ids -> Ids \cup {None}]
      /\ MappedIn(map, people, log) /\ MergedIn(people, log)
      /\ t.target \in Component(log, story[t.ev].id)
  BY <1>1, TargetOpened
<1>5. /\ log \subseteq log' /\ log' \subseteq DOMAIN story
      /\ \A x \in Ids : Component(log, x) \subseteq C(x)
      /\ \A x \in Ids : x \in C(x) /\ C(x) \subseteq Ids
      /\ \A x, y \in Ids : y \in C(x) => C(x) = C(y)
      /\ K = C(story[t.ev].prev)
      /\ story[t.ev].id \in Ids /\ story[t.ev].prev \in Ids
  BY <1>2, <1>4, AssertedLog
<1>6. /\ persons' \in [Ids -> PersonRow \cup {None}]
      /\ \A p \in Ids : persons'[p] # None <=> people[p] # None
      /\ \A p \in Ids \ {win, lose} : persons'[p] = people[p]
      /\ persons'[win].into = people[win].into
      /\ persons'[lose].into = win
  BY MergeRows
<1>7. moved = {x \in Ids : map[x] = lose} \cup {named}
  BY DEF Moved
<1> HIDE DEF people, map, win, lose, named, moved, C
<1>8. win \in K /\ lose \in K /\ C(named) = K /\ C(win) = K /\ C(lose) = K
  BY <1>3, <1>4, <1>5
<1> HIDE DEF K
<1>9. mapping' \in [Ids -> Ids \cup {None}] /\ MappedIn(mapping', persons', log')
  <2>1. mapping' \in [Ids -> Ids \cup {None}]
    BY <1>2, <1>3, <1>4
  <2> SUFFICES ASSUME NEW x \in Ids, mapping'[x] # None
               PROVE  persons'[mapping'[x]] # None /\ mapping'[x] \in C(x)
    BY <2>1 DEF MappedIn, C
  <2>2. CASE x \in moved
    <3>1. mapping'[x] = win /\ persons'[win] # None
      BY <2>2, <1>2, <1>3, <1>6
    <3>2. C(x) = K
      <4>1. CASE x = named
        BY <4>1, <1>8
      <4>2. CASE map[x] = lose
        <5>1. lose \in Component(log, x)
          BY <4>2, <1>3, <1>4, IdentityAssumption DEF MappedIn
        <5> QED BY <5>1, <1>3, <1>5, <1>8
      <4> QED BY <2>2, <4>1, <4>2, <1>7
    <3> QED BY <3>1, <3>2, <1>8
  <2>3. CASE x \notin moved
    BY <2>3, <1>2, <1>4, <1>5, <1>6 DEF MappedIn
  <2> QED BY <2>2, <2>3
<1>10. MergedIn(persons', log')
  <2> SUFFICES ASSUME NEW p \in Ids, persons'[p] # None, persons'[p].into # None
               PROVE  /\ persons'[persons'[p].into] # None
                      /\ persons'[p].into \in C(p) \ {p}
    BY DEF MergedIn, C
  <2>1. CASE p = lose
    BY <2>1, <1>3, <1>6, <1>8
  <2>2. CASE p # lose
    <3>1. persons'[p].into = people[p].into /\ people[p] # None
      BY <2>2, <1>6
    <3>2. people[people[p].into] # None /\ people[p].into \in Component(log, p) \ {p}
      BY <3>1, <1>4 DEF MergedIn
    <3>3. people[p].into \in C(p) /\ people[p].into \in Ids
      BY <3>2, <1>5
    <3> QED BY <3>1, <3>2, <3>3, <1>6
  <2> QED BY <2>1, <2>2
<1>11. torn' \in BOOLEAN
  BY <1>2 DEF KInv, TypeOK, Outdated
<1>12. wrote' \in [Events -> Ids \cup {None}] /\ token' \in [Ids -> Ids \cup {None}]
  BY <1>2, <1>3, <1>4, RecordType, BindingsType
<1> QED BY <1>1, <1>2, <1>5, <1>6, <1>9, <1>10, <1>11, <1>12, KnownCommit DEF people

-----------------------------------------------------------------------------
LEMMA SameComponentSamePlan ==
  ASSUME NEW rows, NEW people, NEW asserted, NEW x, NEW y,
         Component(asserted, x) = Component(asserted, y)
  PROVE  PlannedPerson(rows, people, asserted, x) = PlannedPerson(rows, people, asserted, y)
<1> DEFINE found(z) == {rows[u] : u \in Component(asserted, z)} \ {None}
           oldest(S) == CHOOSE p \in S : \A q \in S : Older(people, p, q)
<1>1. \A z : PlannedPerson(rows, people, asserted, z) =
               IF found(z) = {} THEN None ELSE oldest(found(z))
  BY DEF PlannedPerson
<1>2. found(x) = found(y)
  OBVIOUS
<1> HIDE DEF found, oldest
<1> QED BY <1>1, <1>2

(* A rebuild plans persons of the component it plans for.                  *)
LEMMA PlannedKnown ==
  ASSUME KInv, NEW t \in TxType, t.phase = "planned", TxKnown(t), NEW x \in Ids
  PROVE  LET planned == PlannedPerson(t.rows, t.people, t.asserted, x)
         IN /\ \A y \in Ids : y \in Component(t.asserted, x) =>
                 PlannedPerson(t.rows, t.people, t.asserted, y) = planned
            /\ t.rows[x] # None => planned # None
            /\ planned # None =>
                 /\ planned \in Ids /\ persons[planned] # None
                 /\ planned \in Component(t.asserted, x)
                 /\ \E y \in Component(t.asserted, x) : t.rows[y] = planned
                 /\ \A y \in Component(t.asserted, x) : t.rows[y] # None =>
                      Older(t.people, planned, t.rows[y])
<1> DEFINE C(y) == Component(t.asserted, y)
           planned == PlannedPerson(t.rows, t.people, t.asserted, x)
           found == {t.rows[y] : y \in C(x)} \ {None}
<1>1. story \in Stories /\ t.asserted \subseteq DOMAIN story /\ None \notin Ids /\ None \notin PersonRow
      /\ TablesKnown
  BY IdentityAssumption DEF KInv, TypeOK, TablesKnown, TxKnown, PlanKnown
<1>2. /\ t.rows \in [Ids -> Ids \cup {None}] /\ t.people \in [Ids -> PersonRow \cup {None}]
      /\ PlanKnown(t) /\ ListKnown(t)
  BY TxFields DEF TxKnown, Rebuilding
<1>3. x \in C(x) /\ C(x) \subseteq Ids /\ \A y \in C(x) : C(y) = C(x)
  BY <1>1, ComponentIsLeastClosed, ComponentsAreClasses
<1>4. found \subseteq Ids /\ \A p \in found : t.people[p].seen \in Nat
  BY <1>2, <1>3 DEF PlanKnown, PersonRow
<1>5. /\ found = {} => planned = None
      /\ found # {} => planned \in found /\ \A q \in found : Older(t.people, planned, q)
  BY <1>1, <1>4, PlannedIsOldest
<1>6. \A y \in C(x) : PlannedPerson(t.rows, t.people, t.asserted, y) = planned
  BY <1>3, SameComponentSamePlan
<1> HIDE DEF planned
<1>7. t.rows[x] # None => planned # None
  BY <1>1, <1>3, <1>4, <1>5
<1>8. ASSUME planned # None
      PROVE  /\ planned \in Ids /\ persons[planned] # None /\ planned \in C(x)
             /\ \E y \in C(x) : t.rows[y] = planned
             /\ \A y \in C(x) : t.rows[y] # None => Older(t.people, planned, t.rows[y])
  <2>1. PICK y \in C(x) : t.rows[y] = planned
    BY <1>5, <1>8
  <2>2. planned \in Ids /\ persons[planned] # None /\ planned \in C(y)
    BY <2>1, <1>2, <1>3, <1>8 DEF PlanKnown, ListKnown
  <2> QED BY <2>1, <2>2, <1>3, <1>5, <1>8
<1> QED BY <1>6, <1>7, <1>8 DEF planned

(* The persons a rebuild marks, and where to.                              *)
LEMMA RebuildSteps ==
  ASSUME IInv, KInv, NEW w \in Workers, Rebuild(w)
  PROVE  LET t == tx[w]
             ids == Repointed(t.rows, t.people, t.asserted)
             gone == Remerged(t.rows, t.people, t.asserted)
         IN /\ t \in TxType /\ TxKnown(t) /\ t.phase = "planned"
            /\ \A x \in Ids : mapping'[x] =
                 IF x \in ids THEN PlannedPerson(t.rows, t.people, t.asserted, x) ELSE mapping[x]
            /\ mapping' \in [Ids -> Ids \cup {None}]
            /\ persons' \in [Ids -> PersonRow \cup {None}]
            /\ \A p \in Ids : persons'[p] # None <=> persons[p] # None
            /\ \A p \in Ids \ gone : persons'[p] = persons[p]
            /\ \A p \in gone : /\ \E x \in Ids : /\ t.rows[x] = p
                                                 /\ persons'[p].into =
                                                      PlannedPerson(t.rows, t.people, t.asserted, x)
                                                 /\ persons'[p].into # None /\ persons'[p].into # p
                               /\ persons'[p].seen = persons[p].seen
                               /\ persons'[p].cell = persons[p].cell
            /\ torn' = (torn \/ (ids \cup gone # {}
                              /\ <<t.rows, t.people, t.asserted>> # <<mapping, persons, log>>))
            /\ tx' = [tx EXCEPT ![w] = Idle]
            /\ UNCHANGED <<story, token, log, runs, born, wrote>>
<1> DEFINE t == tx[w]
           P(x) == PlannedPerson(t.rows, t.people, t.asserted, x)
           ids == Repointed(t.rows, t.people, t.asserted)
           gone == Remerged(t.rows, t.people, t.asserted)
           Heir(p) == P(CHOOSE x \in Ids : t.rows[x] = p)
<1>1. /\ t \in TxType /\ TxKnown(t) /\ t.phase = "planned"
      /\ story \in Stories /\ mapping \in [Ids -> Ids \cup {None}]
      /\ persons \in [Ids -> PersonRow \cup {None}]
      /\ None \notin Ids /\ None \notin PersonRow /\ log \subseteq DOMAIN story
  BY IdentityAssumption DEF Rebuild, KInv, TypeOK, TablesKnown
<1>2. /\ mapping' = [x \in Ids |-> IF x \in ids THEN P(x) ELSE mapping[x]]
      /\ persons' = [p \in Ids |-> IF p \in gone THEN [persons[p] EXCEPT !.into = Heir(p)]
                                   ELSE persons[p]]
      /\ torn' = (torn \/ (ids \cup gone # {}
                              /\ <<t.rows, t.people, t.asserted>> # <<mapping, persons, log>>))
      /\ tx' = [tx EXCEPT ![w] = Idle]
      /\ UNCHANGED <<story, token, log, runs, born, wrote>>
  BY DEF Rebuild
<1>3. /\ \A x \in ids : x \in Ids /\ t.rows[x] # None
      /\ \A p \in gone : p \in Ids /\ \E x \in Ids : t.rows[x] = p /\ P(x) \notin {p, None}
  BY DEF Repointed, Remerged
<1>4. \A x \in Ids : /\ P(x) # None => P(x) \in Ids
                     /\ t.rows[x] # None => P(x) # None
                     /\ \A y \in Ids : y \in Component(t.asserted, x) => P(y) = P(x)
  BY <1>1, PlannedKnown
<1>5. /\ t.rows \in [Ids -> Ids \cup {None}] /\ t.asserted \subseteq DOMAIN story
      /\ \A x \in Ids : t.rows[x] # None =>
           t.rows[x] \in Component(t.asserted, x) /\ persons[t.rows[x]] # None
  BY <1>1, TxFields DEF TxKnown, PlanKnown, ListKnown, Rebuilding
<1> HIDE DEF P, ids, gone
<1>6. ASSUME NEW p \in gone
      PROVE  /\ persons[p] \in PersonRow
             /\ \E x \in Ids : t.rows[x] = p /\ Heir(p) = P(x)
             /\ Heir(p) \in Ids /\ Heir(p) # p
  <2>1. PICK x \in Ids : t.rows[x] = p /\ P(x) \notin {p, None}
    BY <1>3
  <2> DEFINE y == CHOOSE z \in Ids : t.rows[z] = p
  <2>2. y \in Ids /\ t.rows[y] = p
    BY <2>1
  <2>3. p \in Ids /\ p # None
    BY <1>1, <1>3
  <2>4. p \in Component(t.asserted, x) /\ p \in Component(t.asserted, y) /\ persons[p] # None
    BY <2>1, <2>2, <2>3, <1>5
  <2> HIDE DEF y
  <2>5. P(x) = P(p) /\ P(y) = P(p)
    BY <2>1, <2>2, <2>3, <2>4, <1>4
  <2>6. Heir(p) = P(y)
    BY DEF y
  <2> QED BY <2>1, <2>2, <2>3, <2>4, <2>5, <2>6, <1>1, <1>4
<1> HIDE DEF Heir
<1>7. ASSUME NEW p \in gone
      PROVE  /\ persons'[p] \in PersonRow /\ persons'[p].into = Heir(p)
             /\ persons'[p].seen = persons[p].seen
             /\ persons'[p].cell = persons[p].cell
  <2>1. persons'[p] = [persons[p] EXCEPT !.into = Heir(p)]
    BY <1>2, <1>3
  <2> QED BY <2>1, <1>6 DEF PersonRow
<1>8. \A p \in Ids \ gone : persons'[p] = persons[p]
  BY <1>2
<1>9. persons' \in [Ids -> PersonRow \cup {None}]
  <2>1. persons' = [p \in Ids |-> persons'[p]]
    BY <1>2
  <2> QED BY <2>1, <1>1, <1>7, <1>8
<1>10. mapping' \in [Ids -> Ids \cup {None}]
  BY <1>1, <1>2, <1>3, <1>4
<1>11. \A p \in Ids : persons'[p] # None <=> persons[p] # None
  BY <1>1, <1>6, <1>7, <1>8
<1>12. \A p \in gone : /\ \E x \in Ids : /\ t.rows[x] = p
                                         /\ persons'[p].into = P(x)
                                         /\ persons'[p].into # None /\ persons'[p].into # p
                       /\ persons'[p].seen = persons[p].seen
                       /\ persons'[p].cell = persons[p].cell
  BY <1>1, <1>6, <1>7
<1>13. \A x \in Ids : mapping'[x] = IF x \in ids THEN P(x) ELSE mapping[x]
  BY <1>2
<1> QED BY <1>1, <1>2, <1>8, <1>9, <1>10, <1>11, <1>12, <1>13 DEF ids, gone, P

(* Committing a rebuild: it moves rows only within components of the       *)
(* assertions it has read, which are asserted still.                       *)
LEMMA RebuildKnown ==
  ASSUME IInv, KInv, NEW w \in Workers, Rebuild(w)
  PROVE  KInv'
<1> DEFINE t == tx[w]
           P(x) == PlannedPerson(t.rows, t.people, t.asserted, x)
           ids == Repointed(t.rows, t.people, t.asserted)
           gone == Remerged(t.rows, t.people, t.asserted)
<1>1. /\ t \in TxType /\ TxKnown(t) /\ t.phase = "planned"
      /\ \A x \in Ids : mapping'[x] = IF x \in ids THEN P(x) ELSE mapping[x]
      /\ mapping' \in [Ids -> Ids \cup {None}]
      /\ persons' \in [Ids -> PersonRow \cup {None}]
      /\ \A p \in Ids : persons'[p] # None <=> persons[p] # None
      /\ \A p \in Ids \ gone : persons'[p] = persons[p]
      /\ \A p \in gone : \E x \in Ids : /\ t.rows[x] = p
                                        /\ persons'[p].into = P(x)
                                        /\ persons'[p].into # None /\ persons'[p].into # p
      /\ torn' = (torn \/ (ids \cup gone # {}
                        /\ <<t.rows, t.people, t.asserted>> # <<mapping, persons, log>>))
      /\ tx' = [tx EXCEPT ![w] = Idle]
      /\ UNCHANGED <<story, token, log, runs, born, wrote>>
  BY RebuildSteps
<1>2. /\ story \in Stories /\ log \subseteq DOMAIN story /\ t.asserted \subseteq log
      /\ t.rows \in [Ids -> Ids \cup {None}] /\ None \notin Ids
      /\ TypeOK /\ MappedIn(mapping, persons, log) /\ MergedIn(persons, log)
      /\ CreatedIn(persons, born) /\ PlanKnown(t)
  BY <1>1, TxFields, IdentityAssumption
     DEF KInv, TypeOK, TablesKnown, TxKnown, PlanKnown, Rebuilding
<1>3. \A x \in Ids : P(x) # None => /\ P(x) \in Ids /\ persons[P(x)] # None
                                    /\ P(x) \in Component(t.asserted, x)
  BY <1>1, PlannedKnown
<1>4. \A x \in Ids : Component(t.asserted, x) \subseteq Component(log, x)
  BY <1>2, ComponentsOnlyGrow
<1>5. \A x \in ids : t.rows[x] # None /\ P(x) # None
  BY DEF Repointed
<1> HIDE DEF P, ids, gone
<1>6. MappedIn(mapping', persons', log')
  <2> SUFFICES ASSUME NEW x \in Ids, mapping'[x] # None
               PROVE  persons'[mapping'[x]] # None /\ mapping'[x] \in Component(log, x)
    BY <1>1 DEF MappedIn
  <2>1. CASE x \in ids
    BY <2>1, <1>1, <1>3, <1>4, <1>5
  <2>2. CASE x \notin ids
    BY <2>2, <1>1, <1>2 DEF MappedIn, TypeOK
  <2> QED BY <2>1, <2>2
<1>7. MergedIn(persons', log')
  <2> SUFFICES ASSUME NEW p \in Ids, persons'[p] # None, persons'[p].into # None
               PROVE  /\ persons'[persons'[p].into] # None
                      /\ persons'[p].into \in Component(log, p) \ {p}
    BY <1>1 DEF MergedIn
  <2>1. CASE p \in gone
    <3>1. PICK x \in Ids : t.rows[x] = p /\ persons'[p].into = P(x) /\ P(x) # p
      BY <2>1, <1>1
    <3>2. P(x) \in Ids /\ persons'[P(x)] # None /\ P(x) \in Component(log, x)
      BY <3>1, <1>1, <1>3, <1>4
    <3>3. p \in Component(log, x)
      BY <3>1, <1>2, <1>4 DEF PlanKnown
    <3>4. Component(log, x) = Component(log, p)
      BY <3>3, <1>2, ComponentsAreClasses
    <3> QED BY <3>1, <3>2, <3>4
  <2>2. CASE p \notin gone
    <3>1. persons[p] # None /\ persons'[p].into = persons[p].into
      BY <2>2, <1>1
    <3>2. persons[persons[p].into] # None /\ persons[p].into \in Component(log, p) \ {p}
      BY <3>1, <1>2 DEF MergedIn
    <3>3. persons[p].into \in Ids
      BY <3>2, <1>2, ComponentIsLeastClosed
    <3> QED BY <3>1, <3>2, <3>3, <1>1
  <2> QED BY <2>1, <2>2
<1>8. CreatedIn(persons', born')
  BY <1>1, <1>2 DEF CreatedIn
<1>9. torn' \in BOOLEAN
  BY <1>1, <1>2 DEF TypeOK
<1>10. Idle \in TxType /\ Idle.phase = "idle"
  BY DEF TxType, Idle
<1>11. TxKnown(Idle)
  BY <1>10 DEF TxKnown, Reading, Rebuilding
<1>12. /\ token' \in [Ids -> Ids \cup {None}] /\ runs' \in [Events -> 0..MaxRuns]
       /\ born' \in [Ids -> Nat] /\ wrote' \in [Events -> Ids \cup {None}]
       /\ log \subseteq log' /\ log' \subseteq DOMAIN story /\ story' = story
  BY <1>1, <1>2 DEF TypeOK
<1> QED BY <1>1, <1>6, <1>7, <1>8, <1>9, <1>10, <1>11, <1>12, KnownStep DEF Reading

LEMMA NextKInv == IInv /\ KInv /\ [Next]_vars => KInv'
<1> SUFFICES ASSUME IInv, KInv, [Next]_vars PROVE KInv'
  OBVIOUS
<1>1. CASE Next
  BY <1>1, AimKnown, SightKnown, ListKnownStep, PlanKnownStep, AbortKnown, ResolveKnown,
     MergeKnown, UpdateTargetKnown, RebuildKnown DEF Next
<1>2. CASE UNCHANGED vars
  <2>1. UNCHANGED <<story, persons, mapping, token, log, born, wrote, torn, tx, runs>>
    BY <1>2 DEF vars, tables
  <2>2. \A asserted, x : Component(asserted, x)' = Component(asserted, x)
    BY <2>1, StorySteady
  <2>3. TypeOK'
    BY <2>1 DEF KInv, TypeOK
  <2>4. TablesKnown'
    BY <2>1, <2>2 DEF KInv, TablesKnown, MappedIn, MergedIn, CreatedIn
  <2>5. ASSUME NEW w \in Workers PROVE TxKnown(tx[w])'
    <3>1. TxKnown(tx[w])
      BY DEF KInv
    <3> QED BY <3>1, <2>1, <2>2 DEF TxKnown, TargetKnown, SourceKnown, ListKnown, PlanKnown
  <2> QED BY <2>3, <2>4, <2>5 DEF KInv
<1> QED BY <1>1, <1>2

(* Every variable keeps its type, and no person is merged into itself.     *)
THEOREM IdentityTypes == Spec => []TypeOK
<1>1. KInv => TypeOK
  BY DEF KInv
<1> QED BY <1>1, InitIInv, NextIInv, InitKInv, NextKInv, PTL DEF Spec

(* Two distinct ids of one person are connected through the person, which  *)
(* is of the component of each.                                            *)
LEMMA StitchedIsAsserted == KInv => NothingStitchedUnasserted
<1> SUFFICES ASSUME KInv, NEW x \in Ids
             PROVE  /\ \A y \in Ids : (mapping[x] # None /\ mapping[x] = mapping[y]) =>
                         y \in Component(log, x)
                    /\ (persons[x] # None /\ persons[x].into # None) =>
                         persons[x].into \in Component(log, x)
  BY DEF NothingStitchedUnasserted
<1>1. /\ story \in Stories /\ log \subseteq DOMAIN story
      /\ MappedIn(mapping, persons, log) /\ MergedIn(persons, log)
  BY DEF KInv, TypeOK, TablesKnown
<1>2. ASSUME NEW y \in Ids, mapping[x] # None, mapping[x] = mapping[y]
      PROVE  y \in Component(log, x)
  <2>1. mapping[x] \in Component(log, x) /\ mapping[x] \in Component(log, y)
    BY <1>1, <1>2 DEF MappedIn
  <2>2. mapping[x] \in Ids
    BY <2>1, <1>1, ComponentIsLeastClosed
  <2>3. Component(log, x) = Component(log, y)
    BY <1>1, <2>1, <2>2, ComponentsAreClasses
  <2> QED BY <2>3, <1>1, ComponentIsLeastClosed
<1> QED BY <1>1, <1>2 DEF MergedIn

(* Two distinct ids name one person, and a person is merged into another,  *)
(* only where the assertion log connects them: also after stale copies are *)
(* written back, racing merges and a rebuild from an old plan.             *)
THEOREM OnlyAssertionsStitch == Spec => []NothingStitchedUnasserted
BY StitchedIsAsserted, InitIInv, NextIInv, InitKInv, NextKInv, PTL DEF Spec

(***************************************************************************)
(* What is mapped stays mapped, and what a reader has found unmapped stays *)
(* so under its locks.                                                     *)
(***************************************************************************)
LoggedMapped(asserted, map) ==
  \A e \in asserted : map[story[e].id] # None /\ map[story[e].prev] # None

(* An account token leads to a person of its distinct id's component.      *)
TokensKnown(tokens, map, people, asserted) ==
  \A x \in Ids : tokens[x] # None =>
    map[x] # None /\ people[tokens[x]] # None /\ tokens[x] \in Component(asserted, x)

(* A trait write went to a person of the component of its distinct id.     *)
WritesKnown(writes, map, people, asserted) ==
  \A e \in Events : writes[e] # None =>
    /\ e \in DOMAIN story /\ story[e].write # "none"
    /\ map[story[e].id] # None /\ people[writes[e]] # None
    /\ writes[e] \in Component(asserted, story[e].id)

Own(t) == t.fresh /\ story[t.ev].prev = story[t.ev].id

ReaderMapped(t) ==
  /\ t.phase \in Reading => /\ t.fresh <=> mapping[story[t.ev].id] = None
                            /\ t.fresh => t.row = NewRow(t.ev)
  /\ t.phase = "sighted" =>
       /\ story[t.ev].kind = "identify"
       /\ Own(t) => t.source = t.target /\ t.srow = t.row
       /\ ~Own(t) => (t.source = None <=> mapping[story[t.ev].prev] = None)

RInv ==
  /\ LoggedMapped(log, mapping)
  /\ TokensKnown(token, mapping, persons, log)
  /\ WritesKnown(wrote, mapping, persons, log)
  /\ \A w \in Workers : ReaderMapped(tx[w])

LEMMA InitRInv == Init => RInv
BY DEF Init, RInv, LoggedMapped, TokensKnown, WritesKnown, ReaderMapped, Idle, Reading

(* A step of one transaction maps only distinct ids it has locked.         *)
LEMMA MappedStep ==
  ASSUME IInv, KInv, RInv, NEW w \in Workers, NEW t, tx' = [tx EXCEPT ![w] = t],
         story' = story,
         \A x \in Ids : mapping[x] # None => mapping'[x] # None,
         \A x \in Ids : mapping[x] = None /\ mapping'[x] # None =>
           tx[w].phase \in Reading /\ x \in Touched(tx[w].ev),
         LoggedMapped(log', mapping'),
         TokensKnown(token', mapping', persons', log'),
         WritesKnown(wrote', mapping', persons', log'),
         t.phase \in Reading => t.ev \in DOMAIN story /\ UNCHANGED mapping,
         ReaderMapped(t)
  PROVE  RInv'
<1>0. story \in Stories /\ tx \in [Workers -> TxType]
  BY DEF KInv, TypeOK
<1>1. \A asserted, x : Component(asserted, x)' = Component(asserted, x)
  BY StorySteady
<1>2. \A e : NewRow(e)' = NewRow(e)
  BY DEF NewRow, ApplyWrite, WriteWins, Later
<1>3. /\ LoggedMapped(log, mapping)'
      /\ TokensKnown(token, mapping, persons, log)'
      /\ WritesKnown(wrote, mapping, persons, log)'
  BY <1>1 DEF LoggedMapped, TokensKnown, WritesKnown
<1>4. ASSUME NEW v \in Workers PROVE ReaderMapped(tx[v])'
  <2>1. CASE v = w
    <3>1. tx'[v] = t
      BY <1>0, <2>1
    <3> QED BY <3>1, <1>2 DEF ReaderMapped, Reading, Own
  <2>2. CASE v # w
    <3>1. tx'[v] = tx[v] /\ ReaderMapped(tx[v])
      BY <1>0, <2>2 DEF RInv
    <3>2. CASE tx[v].phase \in Reading
      <4>1. tx[v].ev \in DOMAIN story /\ story[tx[v].ev].kind # "rebuild"
        BY <3>2 DEF IInv, ReadersOK, ReaderOK
      <4>2. story[tx[v].ev].id \in Ids /\ story[tx[v].ev].prev \in Ids
        BY <4>1, <1>0, StoryTypes
      <4>3. \A x \in Touched(tx[v].ev) : x \in Ids => (mapping'[x] = None <=> mapping[x] = None)
        BY <2>2, <3>2 DEF IInv, LocksOK
      <4>4. story[tx[v].ev].id \in Touched(tx[v].ev)
        BY <4>1, StoryFacts
      <4>5. story[tx[v].ev].kind = "identify" => story[tx[v].ev].prev \in Touched(tx[v].ev)
        BY DEF Touched, Pair
      <4> QED BY <3>1, <3>2, <4>2, <4>3, <4>4, <4>5, <1>2 DEF ReaderMapped, Own
    <3>3. CASE tx[v].phase \notin Reading
      BY <3>1, <3>3 DEF ReaderMapped, Reading
    <3> QED BY <3>2, <3>3
  <2> QED BY <2>1, <2>2
<1> QED BY <1>3, <1>4 DEF RInv

(* A step that reads leaves every mapping as it is.                        *)
LEMMA MappedMove ==
  ASSUME IInv, KInv, RInv, NEW w \in Workers, NEW t, tx' = [tx EXCEPT ![w] = t],
         UNCHANGED <<story, tables>>,
         t.phase \in Reading => t.ev \in DOMAIN story,
         ReaderMapped(t)
  PROVE  RInv'
<1>1. UNCHANGED <<story, mapping, log, token, wrote, persons>>
  BY DEF tables
<1>2. /\ LoggedMapped(log', mapping')
      /\ TokensKnown(token', mapping', persons', log')
      /\ WritesKnown(wrote', mapping', persons', log')
  BY <1>1 DEF RInv
<1> QED BY <1>1, <1>2, MappedStep

(* Opening a transaction: fresh says whether its distinct id is unmapped.  *)
LEMMA AimMapped ==
  ASSUME IInv, KInv, RInv, NEW w \in Workers, NEW e \in DOMAIN story, Aim(w, e)
  PROVE  RInv'
<1> DEFINE x == story[e].id
           fresh == mapping[x] = None
<1>1. PICK p \in IF fresh THEN {x} ELSE Ends(mapping[x]) :
        tx' = [tx EXCEPT ![w] =
          [phase |-> "aimed", ev |-> e, fresh |-> fresh, target |-> p,
           row |-> IF fresh THEN NewRow(e) ELSE persons[p]]]
  BY DEF Aim
<1> DEFINE row == IF fresh THEN NewRow(e) ELSE persons[p]
           t == [phase |-> "aimed", ev |-> e, fresh |-> fresh, target |-> p, row |-> row]
<1>2. UNCHANGED <<story, tables>>
  BY DEF Aim
<1>3. t.phase = "aimed" /\ t.fresh = fresh /\ t.target = p /\ t.row = row /\ t.ev = e
      /\ tx' = [tx EXCEPT ![w] = t]
  BY <1>1
<1> HIDE DEF t
<1>4. ReaderMapped(t)
  BY <1>3 DEF ReaderMapped
<1> QED BY <1>2, <1>3, <1>4, MappedMove

(* Reading the person of the previous distinct id, likewise.               *)
LEMMA SightMapped ==
  ASSUME IInv, KInv, RInv, NEW w \in Workers, Sight(w)
  PROVE  RInv'
<1> DEFINE u == tx[w]
           x == story[u.ev].prev
           own == u.fresh /\ x = u.target
<1>1. PICK p \in IF own THEN {x} ELSE IF mapping[x] = None THEN {None} ELSE Ends(mapping[x]) :
        tx' = [tx EXCEPT ![w] =
          [phase |-> "sighted", ev |-> u.ev, fresh |-> u.fresh, target |-> u.target,
           row |-> u.row, source |-> p,
           srow |-> IF own THEN u.row ELSE IF p = None THEN None ELSE persons[p]]]
  BY DEF Sight
<1> DEFINE srow == IF own THEN u.row ELSE IF p = None THEN None ELSE persons[p]
           t == [phase |-> "sighted", ev |-> u.ev, fresh |-> u.fresh, target |-> u.target,
                 row |-> u.row, source |-> p, srow |-> srow]
<1>2. u.phase = "aimed" /\ story[u.ev].kind = "identify" /\ UNCHANGED <<story, tables>>
  BY DEF Sight
<1>3. ReaderOK(u) /\ u.ev \in DOMAIN story /\ ReaderMapped(u) /\ None \notin Ids
  BY <1>2, IdentityAssumption DEF IInv, ReadersOK, ReaderOK, Reading, RInv
<1>4. own <=> Own(u)
  BY <1>3 DEF Own, ReaderOK
<1>5. ~own => (p = None <=> mapping[x] = None)
  BY <1>1, <1>3 DEF Ends
<1>6. own => p = u.target /\ srow = u.row
  BY <1>1
<1>7. /\ t.phase = "sighted" /\ t.fresh = u.fresh /\ t.target = u.target /\ t.row = u.row
      /\ t.ev = u.ev /\ t.source = p /\ t.srow = srow
      /\ tx' = [tx EXCEPT ![w] = t]
  BY <1>1
<1> HIDE DEF t, srow, own
<1>8. Own(t) <=> own
  BY <1>4, <1>7 DEF Own
<1>9. ReaderMapped(t)
  BY <1>2, <1>3, <1>5, <1>6, <1>7, <1>8 DEF ReaderMapped, Reading
<1> QED BY <1>2, <1>3, <1>7, <1>9, MappedMove

LEMMA OtherMoveMapped ==
  ASSUME IInv, KInv, RInv, NEW w \in Workers,
         (\E e \in DOMAIN story : List(w, e)) \/ Plan(w) \/ Abort(w)
  PROVE  RInv'
<1>1. PICK t : t.phase \in {"listed", "planned", "idle"} /\ tx' = [tx EXCEPT ![w] = t]
  BY DEF List, Plan, Abort, Idle
<1>2. UNCHANGED <<story, tables>>
  BY DEF List, Plan, Abort
<1>3. ReaderMapped(t) /\ t.phase \notin Reading
  BY <1>1 DEF ReaderMapped, Reading
<1> QED BY <1>1, <1>2, <1>3, MappedMove

LEMMA RebuildMapped ==
  ASSUME IInv, KInv, RInv, NEW w \in Workers, Rebuild(w)
  PROVE  RInv'
<1> DEFINE t == tx[w]
           P(x) == PlannedPerson(t.rows, t.people, t.asserted, x)
           ids == Repointed(t.rows, t.people, t.asserted)
<1>1. /\ t.phase = "planned"
      /\ \A x \in Ids : mapping'[x] = IF x \in ids THEN P(x) ELSE mapping[x]
      /\ \A p \in Ids : persons'[p] # None <=> persons[p] # None
      /\ tx' = [tx EXCEPT ![w] = Idle]
      /\ UNCHANGED <<story, token, log, wrote>>
  BY RebuildSteps
<1>2. \A x \in ids : t.rows[x] # None /\ P(x) # None
  BY DEF Repointed
<1>3. \A x \in Ids : t.rows[x] # None => mapping[x] # None
  BY <1>1 DEF IInv, ListedOK, Rebuilding
<1> HIDE DEF ids, P
<1>4. \A x \in Ids : mapping'[x] # None <=> mapping[x] # None
  BY <1>1, <1>2, <1>3
<1>5. /\ story \in Stories /\ log \subseteq DOMAIN story
      /\ token \in [Ids -> Ids \cup {None}] /\ wrote \in [Events -> Ids \cup {None}]
  BY DEF KInv, TypeOK, TablesKnown
<1>6. LoggedMapped(log', mapping')
  BY <1>1, <1>4, <1>5, StoryTypes DEF RInv, LoggedMapped
<1>7. TokensKnown(token', mapping', persons', log')
  BY <1>1, <1>4, <1>5 DEF RInv, TokensKnown
<1>8. WritesKnown(wrote', mapping', persons', log')
  BY <1>1, <1>4, <1>5, StoryTypes DEF RInv, WritesKnown
<1>9. ReaderMapped(Idle) /\ Idle.phase \notin Reading
  BY DEF ReaderMapped, Idle, Reading
<1> QED BY <1>1, <1>4, <1>6, <1>7, <1>8, <1>9, MappedStep

(* The distinct id of the event is mapped once its target is open.         *)
LEMMA OpenedMap ==
  ASSUME IInv, KInv, RInv, NEW w \in Workers, tx[w].phase \in Reading
  PROVE  LET t == tx[w]
             map == MappedTarget(t)
         IN /\ map[story[t.ev].id] # None
            /\ \A x \in Ids : mapping[x] # None => map[x] = mapping[x]
            /\ \A x \in Ids : map[x] # None => mapping[x] # None
                                               \/ (t.fresh /\ x = t.target /\ map[x] = x)
            /\ t.fresh => map[t.target] = t.target /\ mapping[t.target] = None
            /\ story[t.ev].id \in Touched(t.ev)
<1> DEFINE t == tx[w]
           map == MappedTarget(t)
<1>1. ReaderOK(t) /\ ReaderMapped(t)
  BY DEF IInv, ReadersOK, RInv
<1>2. /\ story \in Stories /\ mapping \in [Ids -> Ids \cup {None}] /\ None \notin Ids
  BY IdentityAssumption DEF KInv, TypeOK
<1>3. /\ t.target \in Ids /\ t.fresh \in BOOLEAN /\ story[t.ev].id \in Ids
      /\ story[t.ev].id \in Touched(t.ev)
      /\ t.fresh => t.target = story[t.ev].id
  BY <1>1, <1>2, TargetOpened, StoryTypes, StoryFacts DEF ReaderOK
<1>4. t.fresh <=> mapping[story[t.ev].id] = None
  BY <1>1 DEF ReaderMapped
<1>5. CASE t.fresh
  <2>1. map = [mapping EXCEPT ![t.target] = t.target]
    BY <1>5 DEF MappedTarget
  <2>2. map[t.target] = t.target /\ \A x \in Ids : x # t.target => map[x] = mapping[x]
    BY <2>1, <1>2, <1>3
  <2> HIDE DEF map
  <2> QED BY <2>2, <1>2, <1>3, <1>4, <1>5 DEF map
<1>6. CASE ~t.fresh
  <2>1. map = mapping
    BY <1>6 DEF MappedTarget
  <2> HIDE DEF map
  <2> QED BY <2>1, <1>3, <1>4, <1>6 DEF map
<1> QED BY <1>5, <1>6

(* A commit maps only distinct ids whose locks it holds, so what the other *)
(* readers have found unmapped is still unmapped.                          *)
LEMMA MappedCommit ==
  ASSUME IInv, KInv, RInv, NEW w \in Workers, tx[w].phase \in Reading, Close(w, tx[w]),
         log' = log \/ log' = log \cup {tx[w].ev},
         \A p \in Ids : persons'[p] # None <=> WithTarget(tx[w])[p] # None,
         \A x \in Ids : MappedTarget(tx[w])[x] # None => mapping'[x] # None,
         \A x \in Ids : mapping'[x] # None =>
           MappedTarget(tx[w])[x] # None \/ x \in Touched(tx[w].ev),
         tx[w].ev \in log' => mapping'[story[tx[w].ev].prev] # None,
         TokensKnown(token', mapping', persons', log'),
         NEW s \in Ids, Record(tx[w].ev, s), WithTarget(tx[w])[s] # None,
         s \in Component(log', story[tx[w].ev].id)
  PROVE  RInv'
<1> DEFINE t == tx[w]
           people == WithTarget(t)
           map == MappedTarget(t)
<1>1. /\ t.ev \in DOMAIN story /\ t.ev \in Events /\ t.target \in Ids
      /\ \A p \in Ids : persons[p] # None => people[p] = persons[p]
  BY TargetOpened
<1>2. /\ map[story[t.ev].id] # None
      /\ \A x \in Ids : mapping[x] # None => map[x] = mapping[x]
      /\ \A x \in Ids : map[x] # None => mapping[x] # None \/ (t.fresh /\ x = t.target)
      /\ t.fresh => t.target \in Touched(t.ev)
  BY OpenedMap, TargetOpened
<1>3. tx' = [tx EXCEPT ![w] = Idle] /\ story' = story
  BY DEF Close
<1>4. /\ story \in Stories /\ log \subseteq DOMAIN story
      /\ wrote \in [Events -> Ids \cup {None}] /\ None \notin Ids
  BY IdentityAssumption DEF KInv, TypeOK, TablesKnown
<1>5. /\ \A x \in Ids : Component(log, x) \subseteq Component(log', x)
      /\ story[t.ev].id \in Ids
      /\ log' \subseteq DOMAIN story
  BY <1>1, AssertedLog
<1> HIDE DEF people, map
<1>6. \A x \in Ids : mapping[x] # None => mapping'[x] # None
  BY <1>2 DEF map
<1>7. \A x \in Ids : mapping[x] = None /\ mapping'[x] # None => x \in Touched(t.ev)
  BY <1>2 DEF map
<1>8. \A p \in Ids : persons[p] # None => persons'[p] # None
  BY <1>1 DEF people
<1>9. mapping'[story[t.ev].id] # None
  BY <1>2, <1>5 DEF map
<1>10. LoggedMapped(log', mapping')
  <2> SUFFICES ASSUME NEW e \in log'
               PROVE  mapping'[story[e].id] # None /\ mapping'[story[e].prev] # None
    BY DEF LoggedMapped
  <2>1. CASE e = t.ev
    BY <2>1, <1>9
  <2>2. CASE e # t.ev
    <3>1. e \in log /\ story[e].id \in Ids /\ story[e].prev \in Ids
      BY <2>2, <1>4, StoryTypes
    <3> QED BY <3>1, <1>6 DEF RInv, LoggedMapped
  <2> QED BY <2>1, <2>2
<1>11. WritesKnown(wrote', mapping', persons', log')
  <2> SUFFICES ASSUME NEW e \in Events, wrote'[e] # None
               PROVE  /\ e \in DOMAIN story /\ story[e].write # "none"
                      /\ mapping'[story[e].id] # None /\ persons'[wrote'[e]] # None
                      /\ wrote'[e] \in Component(log', story[e].id)
    BY DEF WritesKnown
  <2>1. CASE e = t.ev /\ story[e].write # "none"
    <3>1. wrote'[e] = s
      BY <2>1, <1>1, <1>4 DEF Record
    <3> QED BY <2>1, <3>1, <1>1, <1>9
  <2>2. CASE ~ (e = t.ev /\ story[e].write # "none")
    <3>1. wrote'[e] = wrote[e]
      BY <2>2, <1>1, <1>4 DEF Record
    <3>2. /\ e \in DOMAIN story /\ story[e].write # "none"
          /\ mapping[story[e].id] # None /\ persons[wrote[e]] # None
          /\ wrote[e] \in Component(log, story[e].id)
      BY <3>1 DEF RInv, WritesKnown
    <3>3. story[e].id \in Ids /\ wrote[e] \in Ids
      BY <3>1, <3>2, <1>4, StoryTypes
    <3> QED BY <3>1, <3>2, <3>3, <1>5, <1>6, <1>8
  <2> QED BY <2>1, <2>2
<1>12. ReaderMapped(Idle) /\ Idle.phase \notin Reading
  BY DEF ReaderMapped, Idle, Reading
<1> QED BY <1>3, <1>6, <1>7, <1>10, <1>11, <1>12, MappedStep

(* Tokens that stay, and those that the commit binds to the survivor.      *)
LEMMA TokensStay ==
  ASSUME IInv, KInv, RInv, NEW w \in Workers, tx[w].phase \in Reading,
         log' = log \/ log' = log \cup {tx[w].ev},
         \A p \in Ids : persons'[p] # None <=> WithTarget(tx[w])[p] # None,
         \A x \in Ids : MappedTarget(tx[w])[x] # None => mapping'[x] # None,
         NEW bound \in SUBSET Ids, NEW s \in Ids, WithTarget(tx[w])[s] # None,
         \A x \in bound : mapping'[x] # None /\ s \in Component(log', x),
         token' = [x \in Ids |-> IF x \in bound THEN s ELSE token[x]]
  PROVE  TokensKnown(token', mapping', persons', log')
<1> DEFINE t == tx[w]
           people == WithTarget(t)
           map == MappedTarget(t)
<1>1. \A p \in Ids : persons[p] # None => people[p] = persons[p]
  BY TargetOpened
<1>2. \A x \in Ids : mapping[x] # None => map[x] = mapping[x]
  BY OpenedMap
<1>3. t.ev \in DOMAIN story
  BY TargetOpened
<1>4. \A x \in Ids : Component(log, x) \subseteq Component(log', x)
  BY <1>3, AssertedLog
<1>5. token \in [Ids -> Ids \cup {None}] /\ TokensKnown(token, mapping, persons, log)
  BY DEF KInv, TypeOK, RInv
<1> HIDE DEF people, map
<1> SUFFICES ASSUME NEW x \in Ids, token'[x] # None
             PROVE  /\ mapping'[x] # None /\ persons'[token'[x]] # None
                    /\ token'[x] \in Component(log', x)
  BY DEF TokensKnown
<1>6. CASE x \in bound
  BY <1>6
<1>7. CASE x \notin bound
  <2>1. token'[x] = token[x]
    BY <1>7
  <2>2. mapping[x] # None /\ persons[token[x]] # None /\ token[x] \in Component(log, x)
        /\ token[x] \in Ids
    BY <2>1, <1>5 DEF TokensKnown
  <2> QED BY <2>1, <2>2, <1>1, <1>2, <1>4 DEF people, map
<1> QED BY <1>6, <1>7

LEMMA ResolveMapped ==
  ASSUME IInv, KInv, RInv, NEW w \in Workers, Resolve(w)
  PROVE  RInv'
<1> DEFINE t == tx[w]
           people == WithTarget(t)
           map == MappedTarget(t)
<1>1. t.phase \in Reading
  BY DEF Resolve, Reading
<1>2. /\ persons' = IF t.fresh THEN people ELSE Profile(persons, t.target, t.row, t.ev)
      /\ mapping' = map
      /\ token' = IF t.fresh THEN [token EXCEPT ![t.target] = t.target] ELSE token
      /\ Record(t.ev, t.target)
      /\ Close(w, t)
      /\ log' = log
  BY DEF Resolve
<1>3. /\ t.ev \in DOMAIN story /\ t.target \in Ids /\ t.row \in PersonRow
      /\ people[t.target] # None /\ t.fresh \in BOOLEAN
      /\ t.target \in Component(log, story[t.ev].id)
      /\ t.fresh => t.target = story[t.ev].id
      /\ people \in [Ids -> PersonRow \cup {None}]
  BY <1>1, TargetOpened
<1>4. map[story[t.ev].id] # None /\ (t.fresh => map[t.target] = t.target) /\ None \notin Ids
      /\ None \notin PersonRow
  BY <1>1, OpenedMap, IdentityAssumption
<1>5. /\ story \in Stories /\ persons \in [Ids -> PersonRow \cup {None}]
      /\ log \subseteq DOMAIN story /\ token \in [Ids -> Ids \cup {None}]
  BY DEF KInv, TypeOK, TablesKnown
<1>6. \A p \in Ids : persons'[p] # None <=> people[p] # None
  <2>1. CASE t.fresh
    BY <2>1, <1>2
  <2>2. CASE ~t.fresh
    <3>1. people = persons
      BY <2>2 DEF WithTarget
    <3>2. persons' = Profile(people, t.target, t.row, t.ev)
      BY <1>2, <2>2, <3>1
    <3> HIDE DEF people
    <3>3. /\ Profile(people, t.target, t.row, t.ev)[t.target] \in PersonRow
          /\ \A q \in Ids : q # t.target => Profile(people, t.target, t.row, t.ev)[q] = people[q]
      BY <1>3, <1>5, ProfileWrites
    <3> QED BY <3>2, <3>3, <1>3, <1>4
  <2> QED BY <2>1, <2>2
<1>7. TokensKnown(token', mapping', persons', log')
  <2> DEFINE bound == IF t.fresh THEN {t.target} ELSE {}
  <2>1. token' = [x \in Ids |-> IF x \in bound THEN t.target ELSE token[x]]
    <3>1. CASE t.fresh
      BY <3>1, <1>2, <1>3, <1>5
    <3>2. CASE ~t.fresh
      BY <3>2, <1>2, <1>5
    <3> QED BY <3>1, <3>2
  <2>2. \A x \in bound : mapping'[x] # None /\ t.target \in Component(log', x)
    BY <1>2, <1>3, <1>4
  <2>3. bound \in SUBSET Ids
    BY <1>3
  <2> HIDE DEF bound, people, map
  <2> QED BY <2>1, <2>2, <2>3, <1>1, <1>2, <1>3, <1>6, TokensStay DEF people, map
<1>8. t.ev \in log' => mapping'[story[t.ev].prev] # None
  <2>1. story[t.ev].prev \in Ids /\ (t.ev \in log => mapping[story[t.ev].prev] # None)
    BY <1>3, <1>5, StoryTypes DEF RInv, LoggedMapped
  <2>2. mapping[story[t.ev].prev] # None => map[story[t.ev].prev] # None
    BY <2>1, <1>1, OpenedMap
  <2> HIDE DEF map
  <2> QED BY <2>1, <2>2, <1>2
<1> HIDE DEF people, map
<1> QED BY <1>1, <1>2, <1>3, <1>4, <1>6, <1>7, <1>8, MappedCommit DEF people, map

(* Where an identify binds the previous distinct id as well.               *)
LEMMA UpdateTargetSource ==
  ASSUME IInv, KInv, RInv, NEW w \in Workers, UpdateTarget(w), ~Conflicting(tx[w])
  PROVE  LET t == tx[w]
         IN \/ Stitches(t)
            \/ story[t.ev].prev = story[t.ev].id
            \/ /\ t.source = t.target /\ mapping[story[t.ev].prev] # None
               /\ t.target \in Component(log, story[t.ev].prev)
<1> DEFINE t == tx[w]
<1>1. t.phase = "sighted" /\ ~RealMerge(t)
  BY DEF UpdateTarget
<1>2. t \in TxType /\ TxKnown(t) /\ ReaderMapped(t)
  BY DEF KInv, TypeOK, RInv
<1>3. t.source \in Ids \cup {None} /\ SourceKnown(t)
  BY <1>1, <1>2, TxFields DEF TxKnown
<1>4. CASE ~Stitches(t) /\ story[t.ev].prev # story[t.ev].id
  <2>1. t.source # None /\ t.source = t.target
    BY <1>1, <1>4 DEF Stitches, RealMerge
  <2>2. mapping[story[t.ev].prev] # None
    BY <1>1, <1>2, <1>4, <2>1 DEF ReaderMapped, Own
  <2> QED BY <2>1, <2>2, <1>3 DEF SourceKnown
<1> QED BY <1>4

(* Committing an identify that merges nobody.                              *)
LEMMA UpdateTargetMapped ==
  ASSUME IInv, KInv, RInv, NEW w \in Workers, UpdateTarget(w)
  PROVE  RInv'
<1> DEFINE t == tx[w]
           people == WithTarget(t)
           map == MappedTarget(t)
           id == story[t.ev].id
           prev == story[t.ev].prev
<1>1. t.phase \in Reading /\ t.phase = "sighted" /\ ~RealMerge(t)
  BY DEF UpdateTarget, Reading
<1>2. /\ persons' = Profile(people, t.target, t.row, t.ev)
      /\ mapping' = IF Stitches(t) THEN [map EXCEPT ![prev] = t.target] ELSE map
      /\ token' = Bindings(t, t.target)
      /\ log' = IF Asserts(t) THEN log \cup {t.ev} ELSE log
      /\ Record(t.ev, t.target)
      /\ Close(w, t)
  BY DEF UpdateTarget
<1>3. /\ t.ev \in DOMAIN story /\ t.target \in Ids /\ t.row \in PersonRow
      /\ people \in [Ids -> PersonRow \cup {None}] /\ people[t.target] # None
      /\ map \in [Ids -> Ids \cup {None}]
      /\ t.target \in Component(log, id)
  BY <1>1, TargetOpened
<1>4. /\ map[id] # None /\ id \in Touched(t.ev)
      /\ \A x \in Ids : mapping[x] # None => map[x] = mapping[x]
  BY <1>1, OpenedMap
<1>5. /\ story \in Stories /\ None \notin Ids /\ None \notin PersonRow
      /\ token \in [Ids -> Ids \cup {None}] /\ log \subseteq DOMAIN story
      /\ ReaderMapped(t) /\ LoggedMapped(log, mapping)
  BY IdentityAssumption DEF KInv, TypeOK, TablesKnown, RInv
<1>6. /\ id \in Ids /\ prev \in Ids
      /\ \A x \in Ids : Component(log, x) \subseteq Component(log', x)
      /\ \A x \in Ids : x \in Component(log', x)
      /\ t.ev \in log' => Component(log', id) = Component(log', prev)
  BY <1>2, <1>3, AssertedLog
<1>7. prev \in Touched(t.ev)
  BY <1>1, <1>5 DEF ReaderMapped, Touched, Pair
<1>8. ~Conflicting(t) => \/ Stitches(t) \/ prev = id
                         \/ /\ t.source = t.target /\ mapping[prev] # None
                            /\ t.target \in Component(log, prev)
  BY UpdateTargetSource
<1> HIDE DEF people, map, id, prev
<1>9. \A p \in Ids : persons'[p] # None <=> people[p] # None
  <2>1. /\ Profile(people, t.target, t.row, t.ev)[t.target] \in PersonRow
        /\ \A q \in Ids : q # t.target => Profile(people, t.target, t.row, t.ev)[q] = people[q]
    BY <1>3, <1>5, ProfileWrites
  <2> QED BY <2>1, <1>2, <1>3, <1>5
<1>10. \A x \in Ids : map[x] # None => mapping'[x] # None
  BY <1>2, <1>3, <1>5, <1>6
<1>11. \A x \in Ids : mapping'[x] # None => map[x] # None \/ x \in Touched(t.ev)
  BY <1>2, <1>3, <1>6, <1>7
<1>12. Stitches(t) => mapping'[prev] # None /\ t.ev \in log'
  BY <1>2, <1>3, <1>5, <1>6 DEF Asserts
<1>13. t.ev \in log' => mapping'[prev] # None
  <2>1. CASE Stitches(t)
    BY <2>1, <1>12
  <2>2. CASE ~Stitches(t)
    <3>1. log' = log
      BY <2>2, <1>1, <1>2 DEF Asserts
    <3> QED BY <3>1, <1>4, <1>5, <1>6, <1>10 DEF LoggedMapped, prev
  <2> QED BY <2>1, <2>2
<1>14. t.target \in Component(log', id)
  BY <1>3, <1>6
<1>15. TokensKnown(token', mapping', persons', log')
  <2> DEFINE bound == {id} \cup (IF Conflicting(t) THEN {} ELSE {prev})
  <2>1. token' = [x \in Ids |-> IF x \in bound THEN t.target ELSE token[x]]
    BY <1>2 DEF Bindings, id, prev
  <2>2. bound \in SUBSET Ids
    BY <1>6
  <2>3. mapping'[id] # None
    BY <1>4, <1>6, <1>10
  <2>4. ~Conflicting(t) => mapping'[prev] # None /\ t.target \in Component(log', prev)
    <3>1. CASE Stitches(t)
      BY <3>1, <1>6, <1>12, <1>14
    <3>2. CASE prev = id
      BY <3>2, <2>3, <1>14
    <3>3. CASE mapping[prev] # None /\ t.target \in Component(log, prev)
      BY <3>3, <1>4, <1>6, <1>10
    <3> QED BY <3>1, <3>2, <3>3, <1>8
  <2>5. \A x \in bound : mapping'[x] # None /\ t.target \in Component(log', x)
    BY <2>3, <2>4, <1>14
  <2> HIDE DEF bound
  <2> QED BY <2>1, <2>2, <2>5, <1>1, <1>2, <1>3, <1>9, <1>10, TokensStay DEF people, map
<1> QED BY <1>1, <1>2, <1>3, <1>9, <1>10, <1>11, <1>13, <1>14, <1>15, MappedCommit
        DEF people, map, id, prev

(* Committing a merge: both distinct ids end up mapped.                    *)
LEMMA MergeMapped ==
  ASSUME IInv, KInv, RInv, NEW w \in Workers, Merge(w)
  PROVE  RInv'
<1> DEFINE t == tx[w]
           people == WithTarget(t)
           map == MappedTarget(t)
           win == Winner(t)
           moved == Moved(t, Loser(t), Named(t))
           id == story[t.ev].id
           prev == story[t.ev].prev
<1>1. t.phase \in Reading /\ t.phase = "sighted" /\ RealMerge(t)
  BY MergeSteps DEF Reading
<1>2. /\ mapping' = [x \in Ids |-> IF x \in moved THEN win ELSE map[x]]
      /\ token' = Bindings(t, win)
      /\ log' = log \cup {t.ev}
      /\ Record(t.ev, win)
      /\ Close(w, t)
  BY MergeSteps
<1>3. /\ t.ev \in DOMAIN story
      /\ map \in [Ids -> Ids \cup {None}]
      /\ t.target \in Component(log, id)
  BY <1>1, TargetOpened
<1>4. /\ map[id] # None /\ id \in Touched(t.ev)
      /\ \A x \in Ids : mapping[x] # None => map[x] = mapping[x]
  BY <1>1, OpenedMap
<1>5. /\ win \in Ids /\ people[win] # None
      /\ {win, Loser(t)} = {t.source, t.target}
      /\ t.source \in Component(log, prev) /\ t.source \in Ids /\ t.source # t.target
      /\ Named(t) \in {id, prev}
  BY <1>1, MergeSides
<1>6. /\ None \notin Ids /\ ReaderMapped(t)
  BY IdentityAssumption DEF RInv
<1>7. /\ id \in Ids /\ prev \in Ids
      /\ \A x \in Ids : Component(log, x) \subseteq Component(log', x)
      /\ Component(log', id) = Component(log', prev)
  BY <1>2, <1>3, AssertedLog
<1>8. prev \in Touched(t.ev)
  BY <1>1, <1>6 DEF ReaderMapped, Touched, Pair
<1>9. \A p \in Ids : persons'[p] # None <=> people[p] # None
  BY MergeRows
<1>10. moved = {x \in Ids : map[x] = Loser(t)} \cup {Named(t)} /\ Loser(t) \in Ids
  BY <1>1, MergeSides DEF Moved
<1> HIDE DEF people, map, id, prev, win, moved
<1>11. \A x \in Ids : map[x] # None => mapping'[x] # None
  BY <1>2, <1>5, <1>6
<1>12. \A x \in Ids : mapping'[x] # None => map[x] # None \/ x \in Touched(t.ev)
  BY <1>2, <1>4, <1>5, <1>6, <1>8, <1>10
<1>13. mapping'[id] # None /\ mapping'[prev] # None
  <2>1. t.source # None /\ ~Own(t)
    BY <1>1, <1>5, <1>6 DEF ReaderMapped
  <2>2. mapping[prev] # None
    BY <2>1, <1>1, <1>6 DEF ReaderMapped, prev
  <2> QED BY <2>2, <1>4, <1>7, <1>11
<1>14. win \in Component(log', id) /\ win \in Component(log', prev)
  BY <1>3, <1>5, <1>7
<1>15. TokensKnown(token', mapping', persons', log')
  <2> DEFINE bound == {id} \cup (IF Conflicting(t) THEN {} ELSE {prev})
  <2>1. token' = [x \in Ids |-> IF x \in bound THEN win ELSE token[x]]
    BY <1>2 DEF Bindings, id, prev
  <2>2. bound \in SUBSET Ids
    BY <1>7
  <2>3. \A x \in bound : mapping'[x] # None /\ win \in Component(log', x)
    BY <1>13, <1>14
  <2> HIDE DEF bound
  <2> QED BY <2>1, <2>2, <2>3, <1>1, <1>2, <1>5, <1>9, <1>11, TokensStay DEF people, map
<1> QED BY <1>1, <1>2, <1>5, <1>9, <1>11, <1>12, <1>13, <1>14, <1>15, MappedCommit
        DEF people, map, id, prev

LEMMA NextRInv == IInv /\ KInv /\ RInv /\ [Next]_vars => RInv'
<1> SUFFICES ASSUME IInv, KInv, RInv, [Next]_vars PROVE RInv'
  OBVIOUS
<1>1. CASE Next
  BY <1>1, AimMapped, SightMapped, OtherMoveMapped, ResolveMapped, MergeMapped,
     UpdateTargetMapped, RebuildMapped DEF Next
<1>2. CASE UNCHANGED vars
  <2>1. UNCHANGED <<story, persons, mapping, token, log, wrote, tx>>
    BY <1>2 DEF vars, tables
  <2>2. \A asserted, x : Component(asserted, x)' = Component(asserted, x)
    BY <2>1, StorySteady
  <2>3. \A e : NewRow(e)' = NewRow(e)
    BY <2>1 DEF NewRow, ApplyWrite, WriteWins, Later
  <2>4. \A w \in Workers : ReaderMapped(tx[w])'
    BY <2>1, <2>3 DEF RInv, ReaderMapped, Own
  <2> QED BY <2>1, <2>2, <2>4 DEF RInv, LoggedMapped, TokensKnown, WritesKnown
<1> QED BY <1>1, <1>2

(***************************************************************************)
(* Traits: the winner of a set of writes.                                  *)
(***************************************************************************)
Writing(e) == e \in DOMAIN story /\ story[e].write # "none"

(* c holds the write that wins over every other one of W.                  *)
IsFold(W, c) ==
  IF W = {} THEN c = 0 ELSE c \in W /\ \A f \in W \ {c} : CellWins(c, f)

(* traitCellWins is a total order of the writes.                           *)
LEMMA CellsAreOrdered ==
  ASSUME story \in Stories
  PROVE  /\ \A a : Writing(a) => /\ a \in Int \ {0} /\ ~CellWins(a, a)
                                 /\ story[a].write \in {"set", "setOnce"}
         /\ \A a, b : Writing(a) /\ Writing(b) /\ a # b => (CellWins(a, b) <=> ~CellWins(b, a))
         /\ \A a, b, c : /\ Writing(a) /\ Writing(b) /\ Writing(c)
                         /\ CellWins(a, b) /\ CellWins(b, c)
                         => CellWins(a, c)
<1>1. \A a : Writing(a) => /\ a \in Int \ {0} /\ story[a].ts \in Nat
                           /\ story[a].write \in {"set", "setOnce"}
  BY StoryTypes, IdentityAssumption DEF Writing, EventType
<1>2. \A a, b, c : /\ Writing(a) /\ Writing(b) /\ Writing(c)
                   /\ CellWins(a, b) /\ CellWins(b, c)
                   => CellWins(a, c)
  <2> SUFFICES ASSUME NEW a, NEW b, NEW c, Writing(a), Writing(b), Writing(c),
                      CellWins(a, b), CellWins(b, c)
               PROVE  CellWins(a, c)
    OBVIOUS
  <2>1. /\ a \in Int /\ story[a].ts \in Nat /\ story[a].write \in {"set", "setOnce"}
        /\ b \in Int /\ story[b].ts \in Nat /\ story[b].write \in {"set", "setOnce"}
        /\ c \in Int /\ story[c].ts \in Nat /\ story[c].write \in {"set", "setOnce"}
    BY <1>1
  <2> QED BY <2>1 DEF CellWins, Later
<1>3. \A a, b : Writing(a) /\ Writing(b) /\ a # b => (CellWins(a, b) <=> ~CellWins(b, a))
  <2> SUFFICES ASSUME NEW a, NEW b, Writing(a), Writing(b), a # b
               PROVE  CellWins(a, b) <=> ~CellWins(b, a)
    OBVIOUS
  <2>1. /\ a \in Int /\ story[a].ts \in Nat /\ story[a].write \in {"set", "setOnce"}
        /\ b \in Int /\ story[b].ts \in Nat /\ story[b].write \in {"set", "setOnce"}
    BY <1>1
  <2> QED BY <2>1 DEF CellWins, Later
<1>4. \A a : Writing(a) => ~CellWins(a, a)
  BY <1>1 DEF CellWins, Later
<1> QED BY <1>1, <1>2, <1>3, <1>4

(* applyTraitWrite keeps the winner, and a repeated write changes nothing. *)
LEMMA FoldTakesWrite ==
  ASSUME story \in Stories, NEW W, \A f \in W : Writing(f), NEW c, IsFold(W, c),
         NEW e, Writing(e)
  PROVE  IsFold(W \cup {e}, ApplyWrite(c, e))
<1>1. CASE W = {}
  BY <1>1 DEF IsFold, ApplyWrite, WriteWins, Writing
<1>2. CASE W # {}
  <2>1. c \in W /\ Writing(c) /\ \A f \in W \ {c} : CellWins(c, f)
    BY <1>2 DEF IsFold
  <2>2. CASE e = c
    <3>1. ApplyWrite(c, e) = c
      BY <2>2 DEF ApplyWrite
    <3> QED BY <3>1, <2>1, <2>2 DEF IsFold
  <2>3. CASE e # c
    <3>1. WriteWins(e, c) <=> CellWins(e, c)
      <4>1. c # 0 /\ story[c].write \in {"set", "setOnce"} /\ story[e].write \in {"set", "setOnce"}
        BY <2>1, CellsAreOrdered
      <4> QED BY <4>1 DEF WriteWins, CellWins
    <3>2. CASE CellWins(e, c)
      <4>1. ApplyWrite(c, e) = e
        BY <3>1, <3>2 DEF ApplyWrite, Writing
      <4>2. \A f \in W \ {e} : CellWins(e, f)
        BY <2>1, <3>2, CellsAreOrdered
      <4> QED BY <4>1, <4>2 DEF IsFold
    <3>3. CASE ~CellWins(e, c)
      <4>1. ApplyWrite(c, e) = c
        BY <3>1, <3>3 DEF ApplyWrite
      <4>2. CellWins(c, e)
        BY <2>1, <2>3, <3>3, CellsAreOrdered
      <4> QED BY <4>1, <4>2, <2>1 DEF IsFold
    <3> QED BY <3>2, <3>3
  <2> QED BY <2>2, <2>3
<1> QED BY <1>1, <1>2

(* combineTraitCells keeps the winner of both sets.                        *)
LEMMA FoldCombines ==
  ASSUME story \in Stories, NEW U, NEW V, \A f \in U \cup V : Writing(f),
         NEW l, NEW r, IsFold(U, l), IsFold(V, r)
  PROVE  IsFold(U \cup V, CombineCells(l, r))
<1>1. CASE U = {}
  <2>1. l = 0 /\ U \cup V = V
    BY <1>1 DEF IsFold
  <2> QED BY <2>1 DEF CombineCells
<1>2. CASE U # {} /\ V = {}
  <2>1. r = 0 /\ U \cup V = U
    BY <1>2 DEF IsFold
  <2> QED BY <2>1 DEF CombineCells
<1>3. CASE U # {} /\ V # {}
  <2>1. /\ l \in U /\ \A f \in U \ {l} : CellWins(l, f)
        /\ r \in V /\ \A f \in V \ {r} : CellWins(r, f)
        /\ Writing(l) /\ Writing(r)
    BY <1>3 DEF IsFold
  <2>2. l # 0 /\ r # 0
    BY <2>1, CellsAreOrdered
  <2>3. CASE CellWins(l, r)
    <3>1. CombineCells(l, r) = l
      BY <2>2, <2>3 DEF CombineCells
    <3>2. \A f \in (U \cup V) \ {l} : CellWins(l, f)
      BY <2>1, <2>3, CellsAreOrdered
    <3> QED BY <3>1, <3>2, <2>1 DEF IsFold
  <2>4. CASE ~CellWins(l, r)
    <3>1. CombineCells(l, r) = r
      BY <2>2, <2>4 DEF CombineCells
    <3>2. \A f \in (U \cup V) \ {r} : CellWins(r, f)
      BY <2>1, <2>4, CellsAreOrdered
    <3> QED BY <3>1, <3>2, <2>1 DEF IsFold
  <2> QED BY <2>3, <2>4
<1> QED BY <1>1, <1>2, <1>3

(* The winner is what foldTraits makes of the whole set.                   *)
LEMMA FoldIsReference ==
  ASSUME story \in Stories, NEW W, \A f \in W : Writing(f), NEW c, IsFold(W, c)
  PROVE  Fold(W) = c
<1> DEFINE sets == {e \in W : story[e].write = "set"}
           onces == {e \in W : story[e].write = "setOnce"}
<1>0. Fold(W) = IF sets # {} THEN CHOOSE e \in sets : \A f \in sets \ {e} : Later(e, f)
                ELSE IF onces # {} THEN CHOOSE e \in onces : \A f \in onces \ {e} : Later(f, e)
                ELSE 0
  BY DEF Fold
<1>1. CASE W = {}
  BY <1>0, <1>1 DEF IsFold
<1>2. CASE W # {}
  <2>1. c \in W /\ \A f \in W \ {c} : CellWins(c, f)
    BY <1>2 DEF IsFold
  <2>2. \A f \in W : story[f].write \in {"set", "setOnce"}
    BY CellsAreOrdered
  <2>3. CASE sets # {}
    <3>1. c \in sets
      BY <2>1, <2>2, <2>3 DEF CellWins
    <3>2. \A f \in sets \ {c} : Later(c, f)
      BY <2>1, <3>1 DEF CellWins
    <3>3. \A e \in sets : (\A f \in sets \ {e} : Later(e, f)) => e = c
      <4> SUFFICES ASSUME NEW e \in sets, \A f \in sets \ {e} : Later(e, f), e # c
                   PROVE  FALSE
        OBVIOUS
      <4>1. CellWins(c, e) /\ CellWins(e, c)
        BY <2>1, <3>1 DEF CellWins
      <4> QED BY <4>1, <3>1, CellsAreOrdered
    <3> HIDE DEF sets
    <3> QED BY <1>0, <2>3, <3>1, <3>2, <3>3
  <2>4. CASE sets = {}
    <3>1. c \in onces
      BY <2>1, <2>2, <2>4
    <3>2. \A f \in onces \ {c} : Later(f, c)
      BY <2>1, <3>1 DEF CellWins
    <3>3. \A e \in onces : (\A f \in onces \ {e} : Later(f, e)) => e = c
      <4> SUFFICES ASSUME NEW e \in onces, \A f \in onces \ {e} : Later(f, e), e # c
                   PROVE  FALSE
        OBVIOUS
      <4>1. CellWins(c, e) /\ CellWins(e, c)
        BY <2>1, <3>1 DEF CellWins
      <4> QED BY <4>1, <3>1, CellsAreOrdered
    <3> HIDE DEF sets, onces
    <3> QED BY <1>0, <2>4, <3>1, <3>2, <3>3
  <2> QED BY <2>3, <2>4
<1> QED BY <1>1, <1>2

(***************************************************************************)
(* What holds of the tables until a commit overwrites what another one has *)
(* changed.                                                                *)
(***************************************************************************)
(* Connected distinct ids are mapped to one person.                        *)
Agree(map, asserted) ==
  \A x, y \in Ids : map[x] # None /\ map[y] # None /\ y \in Component(asserted, x) =>
    map[x] = map[y]

(* The person a distinct id was created for is live while the distinct id  *)
(* is mapped to it.                                                        *)
AtHome(people, map) ==
  \A p \in Ids : people[p] # None => (people[p].into = None <=> map[p] = p)

EldersLead(people) ==
  \A p \in Ids : people[p] # None /\ people[p].into # None => Older(people, people[p].into, p)

WritesTo(p, map, writes) == {e \in Events : writes[e] # None /\ map[writes[e]] = p}

TraitsFold(people, map, writes) ==
  \A p \in Ids : people[p] # None /\ people[p].into = None =>
    IsFold(WritesTo(p, map, writes), people[p].cell)

Whole ==
  /\ Agree(mapping, log)
  /\ AtHome(persons, mapping)
  /\ EldersLead(persons)
  /\ TraitsFold(persons, mapping, wrote)

WInv == ~torn => Whole

LEMMA InitWInv == Init => WInv
BY DEF Init, WInv, Whole, Agree, AtHome, EldersLead, TraitsFold

(* The distinct id a person was created for is mapped.                     *)
LEMMA PersonsAreMapped ==
  ASSUME IInv, KInv, NEW p \in Ids, persons[p] # None
  PROVE  mapping[p] # None
BY DEF IInv, BornIsMapped, KInv, TablesKnown, CreatedIn

(* A distinct id without a mapping is connected to no other.               *)
LEMMA UnmappedIsAlone ==
  ASSUME KInv, RInv, NEW x \in Ids, mapping[x] = None
  PROVE  Component(log, x) = {x}
<1>1. story \in Stories /\ log \subseteq DOMAIN story
  BY DEF KInv, TypeOK, TablesKnown
<1>2. Closed(log, {x})
  BY DEF Closed, Pair, RInv, LoggedMapped
<1> QED BY <1>1, <1>2, ComponentIsLeastClosed

(* The persons that writes went to are mapped as their distinct ids are.   *)
LEMMA WritesAreHome ==
  ASSUME IInv, KInv, RInv, WInv, ~torn, NEW e \in Events, wrote[e] # None
  PROVE  /\ wrote[e] \in Ids /\ persons[wrote[e]] # None
         /\ Writing(e) /\ story[e].id \in Ids
         /\ mapping[story[e].id] # None
         /\ mapping[wrote[e]] = mapping[story[e].id]
<1>1. /\ e \in DOMAIN story /\ story[e].write # "none"
      /\ mapping[story[e].id] # None /\ persons[wrote[e]] # None
      /\ wrote[e] \in Component(log, story[e].id)
  BY DEF RInv, WritesKnown
<1>2. story \in Stories /\ wrote[e] \in Ids /\ story[e].id \in Ids
  BY <1>1, StoryTypes DEF KInv, TypeOK
<1>3. mapping[wrote[e]] # None
  BY <1>1, <1>2, PersonsAreMapped
<1>4. Agree(mapping, log)
  BY DEF WInv, Whole
<1> QED BY <1>1, <1>2, <1>3, <1>4 DEF Agree, Writing

(* The tables with the target a reader has opened, while its copy is still *)
(* what the row says.                                                      *)
LEMMA OpenedWhole ==
  ASSUME IInv, KInv, RInv, WInv, ~torn, NEW w \in Workers, tx[w].phase \in Reading,
         tx[w].fresh \/ persons[tx[w].target] = tx[w].row
  PROVE  LET t == tx[w]
             people == WithTarget(t)
             map == MappedTarget(t)
         IN /\ Agree(map, log) /\ AtHome(people, map) /\ EldersLead(people)
            /\ map[story[t.ev].id] = t.target /\ map[t.target] = t.target
            /\ people[t.target] = t.row
            /\ \A p \in Ids : people[p] # None /\ people[p].into = None /\ p # t.target =>
                 IsFold(WritesTo(p, map, wrote), people[p].cell)
            /\ t.fresh => WritesTo(t.target, map, wrote) = {}
            /\ ~t.fresh => IsFold(WritesTo(t.target, map, wrote), t.row.cell)
            /\ \A e \in Events : wrote[e] # None => /\ Writing(e)
                                                    /\ wrote[e] \in Ids /\ people[wrote[e]] # None
                                                    /\ map[wrote[e]] = map[story[e].id]
            /\ \A p \in Ids : people[p] # None => map[p] # None
<1> DEFINE t == tx[w]
           people == WithTarget(t)
           map == MappedTarget(t)
           id == story[t.ev].id
<1>1. /\ t.ev \in DOMAIN story /\ t.target \in Ids /\ t.row \in PersonRow /\ t.row.into = None
      /\ t.fresh => persons[t.target] = None /\ t.target = id
      /\ t.fresh => people[t.target] = t.row
      /\ \A p \in Ids : persons[p] # None => people[p] = persons[p]
      /\ \A p \in Ids : people[p] # None => persons[p] # None \/ (t.fresh /\ p = t.target)
      /\ t.target \in Component(log, id)
      /\ people[t.target] # None
      /\ MergedIn(people, log)
  BY TargetOpened
<1>2. /\ map[id] # None
      /\ \A x \in Ids : mapping[x] # None => map[x] = mapping[x]
      /\ \A x \in Ids : map[x] # None => mapping[x] # None
                                               \/ (t.fresh /\ x = t.target /\ map[x] = x)
      /\ t.fresh => map[t.target] = t.target /\ mapping[t.target] = None
  BY OpenedMap
<1>3. /\ story \in Stories /\ log \subseteq DOMAIN story /\ None \notin Ids /\ None \notin PersonRow
      /\ id \in Ids
      /\ persons \in [Ids -> PersonRow \cup {None}]
      /\ Agree(mapping, log) /\ AtHome(persons, mapping) /\ EldersLead(persons)
      /\ TraitsFold(persons, mapping, wrote) /\ MergedIn(persons, log)
  BY <1>1, StoryTypes, IdentityAssumption DEF KInv, TypeOK, TablesKnown, WInv, Whole
<1>4. \A p \in Ids : persons[p] # None => mapping[p] # None
  BY PersonsAreMapped
<1>5. \A x, y \in Ids : mapping[x] = None /\ y \in Component(log, x) => y = x
  BY UnmappedIsAlone
<1>6. \A x, y \in Ids : y \in Component(log, x) => x \in Component(log, y)
  BY <1>3, ComponentsAreClasses, ComponentIsLeastClosed
<1>7. \A e \in Events : wrote[e] # None =>
        /\ wrote[e] \in Ids /\ persons[wrote[e]] # None
        /\ Writing(e) /\ story[e].id \in Ids
        /\ mapping[story[e].id] # None
        /\ mapping[wrote[e]] = mapping[story[e].id]
  BY WritesAreHome
<1> HIDE DEF people, map, id
<1>8. Agree(map, log)
  <2> SUFFICES ASSUME NEW x \in Ids, NEW y \in Ids, map[x] # None, map[y] # None,
                      y \in Component(log, x)
               PROVE  map[x] = map[y]
    BY DEF Agree
  <2>1. CASE mapping[x] = None \/ mapping[y] = None
    BY <2>1, <1>5, <1>6
  <2>2. CASE mapping[x] # None /\ mapping[y] # None
    BY <2>2, <1>2, <1>3 DEF Agree
  <2> QED BY <2>1, <2>2
<1>9. people[t.target] = t.row
  <2>1. CASE ~t.fresh
    BY <2>1, <1>1, <1>3
  <2> QED BY <2>1, <1>1
<1>10. map[t.target] = t.target
  <2>1. CASE ~t.fresh
    <3>1. persons[t.target] = t.row /\ persons[t.target] # None
      BY <2>1, <1>1, <1>3
    <3>2. mapping[t.target] = t.target
      BY <3>1, <1>1, <1>3 DEF AtHome
    <3> QED BY <3>1, <3>2, <1>1, <1>2, <1>4
  <2> QED BY <2>1, <1>2
<1>11. map[id] = t.target
  BY <1>1, <1>2, <1>3, <1>8, <1>10 DEF Agree
<1>12. AtHome(people, map)
  <2> SUFFICES ASSUME NEW p \in Ids, people[p] # None
               PROVE  people[p].into = None <=> map[p] = p
    BY DEF AtHome
  <2>1. CASE persons[p] # None
    BY <2>1, <1>1, <1>2, <1>3, <1>4 DEF AtHome
  <2>2. CASE persons[p] = None
    BY <2>2, <1>1, <1>10
  <2> QED BY <2>1, <2>2
<1>13. EldersLead(people)
  <2> SUFFICES ASSUME NEW p \in Ids, people[p] # None, people[p].into # None
               PROVE  Older(people, people[p].into, p)
    BY DEF EldersLead
  <2>1. persons[p] # None /\ people[p] = persons[p]
    BY <1>1
  <2>2. persons[persons[p].into] # None /\ persons[p].into \in Ids
        /\ Older(persons, persons[p].into, p)
    BY <2>1, <1>3, ComponentIsLeastClosed DEF MergedIn, EldersLead
  <2> QED BY <2>1, <2>2, <1>1 DEF Older
<1>14. \A p \in Ids : persons[p] # None => WritesTo(p, map, wrote) = WritesTo(p, mapping, wrote)
  BY <1>2, <1>4, <1>7 DEF WritesTo
<1>15. ASSUME NEW p \in Ids, persons[p] # None, people[p].into = None
       PROVE  IsFold(WritesTo(p, map, wrote), people[p].cell)
  BY <1>15, <1>1, <1>3, <1>14 DEF TraitsFold
<1>16. ASSUME t.fresh PROVE WritesTo(t.target, map, wrote) = {}
  <2> SUFFICES ASSUME NEW e \in Events, wrote[e] # None, map[wrote[e]] = t.target
               PROVE  FALSE
    BY DEF WritesTo
  <2>1. /\ wrote[e] \in Ids /\ persons[wrote[e]] # None
        /\ mapping[wrote[e]] = t.target /\ mapping[wrote[e]] # None
    BY <1>2, <1>4, <1>7
  <2>2. persons[mapping[wrote[e]]] # None
    BY <2>1 DEF KInv, TablesKnown, MappedIn
  <2> QED BY <2>1, <2>2, <1>1, <1>16
<1>17. ~t.fresh => IsFold(WritesTo(t.target, map, wrote), t.row.cell)
  BY <1>1, <1>9, <1>15
<1>18. \A e \in Events : wrote[e] # None => /\ Writing(e)
                                            /\ wrote[e] \in Ids /\ people[wrote[e]] # None
                                            /\ map[wrote[e]] = map[story[e].id]
  BY <1>1, <1>2, <1>4, <1>7
<1>19. \A p \in Ids : people[p] # None => map[p] # None
  BY <1>1, <1>2, <1>3, <1>4, <1>10
<1>20. \A p \in Ids : people[p] # None /\ people[p].into = None /\ p # t.target =>
         IsFold(WritesTo(p, map, wrote), people[p].cell)
  BY <1>1, <1>15
<1> QED BY <1>8, <1>9, <1>10, <1>11, <1>12, <1>13, <1>16, <1>17, <1>18, <1>19, <1>20
        DEF people, map, id

(* The trait write of a commit, on the set of writes that went to a person. *)
LEMMA WritesRecorded ==
  ASSUME KInv, NEW t, t.ev \in DOMAIN story, NEW s \in Ids, Record(t.ev, s),
         NEW map, NEW people,
         \A e \in Events : wrote[e] # None => wrote[e] \in Ids /\ people[wrote[e]] # None,
         NEW p, map[s] = p \/ wrote[t.ev] = None \/ map[wrote[t.ev]] # p
  PROVE  /\ map[s] = p /\ story[t.ev].write # "none" =>
              WritesTo(p, map, wrote') = WritesTo(p, map, wrote) \cup {t.ev}
         /\ map[s] # p \/ story[t.ev].write = "none" =>
              WritesTo(p, map, wrote') = WritesTo(p, map, wrote)
<1>1. wrote \in [Events -> Ids \cup {None}] /\ t.ev \in Events /\ None \notin Ids
  BY IdentityAssumption, StoryTypes DEF KInv, TypeOK
<1>2. CASE story[t.ev].write = "none"
  BY <1>2 DEF Record
<1>3. CASE story[t.ev].write # "none"
  <2>1. wrote' = [wrote EXCEPT ![t.ev] = s]
    BY <1>3 DEF Record
  <2>2. wrote'[t.ev] = s /\ \A e \in Events : e # t.ev => wrote'[e] = wrote[e]
    BY <2>1, <1>1
  <2>3. CASE map[s] = p
    BY <2>2, <2>3, <1>1, <1>3 DEF WritesTo
  <2>4. CASE map[s] # p
    BY <2>2, <2>4, <1>1, <1>3 DEF WritesTo
  <2> QED BY <2>3, <2>4
<1> QED BY <1>2, <1>3

(* The write of an event on a person's cell, and on the set of its writes.  *)
LEMMA FoldRecorded ==
  ASSUME story \in Stories, NEW W, \A f \in W : Writing(f), NEW c, IsFold(W, c),
         NEW e \in DOMAIN story, NEW after,
         story[e].write # "none" => after = W \cup {e},
         story[e].write = "none" => after = W
  PROVE  IsFold(after, ApplyWrite(c, e))
<1>1. CASE story[e].write = "none"
  BY <1>1 DEF ApplyWrite
<1>2. CASE story[e].write # "none"
  BY <1>2, FoldTakesWrite DEF Writing
<1> QED BY <1>1, <1>2

(* A step keeps the story, and so what the tables say of it.               *)
LEMMA WholeSteady ==
  ASSUME story' = story,
         Agree(mapping', log'), AtHome(persons', mapping'), EldersLead(persons'),
         TraitsFold(persons', mapping', wrote')
  PROVE  Whole'
<1>1. \A asserted, x : Component(asserted, x)' = Component(asserted, x)
  BY StorySteady
<1>2. \A p, map, writes : WritesTo(p, map, writes)' = WritesTo(p, map, writes)
  BY DEF WritesTo
<1>3. \A W, c : IsFold(W, c)' <=> IsFold(W, c)
  BY DEF IsFold, CellWins, Later
<1>4. TraitsFold(persons, mapping, wrote)'
  BY <1>2, <1>3 DEF TraitsFold, WritesTo
<1> QED BY <1>1, <1>4 DEF Whole, Agree, AtHome, EldersLead, Older

(* A commit that writes to its target and merges nobody.                   *)
LEMMA WholeAfterWrite ==
  ASSUME IInv, KInv, RInv, WInv, ~torn, NEW w \in Workers, tx[w].phase \in Reading,
         tx[w].fresh \/ persons[tx[w].target] = tx[w].row,
         story' = story, Record(tx[w].ev, tx[w].target),
         \A p \in Ids : persons'[p] # None <=> WithTarget(tx[w])[p] # None,
         \A p \in Ids : p # tx[w].target => persons'[p] = WithTarget(tx[w])[p],
         persons'[tx[w].target].into = None,
         persons'[tx[w].target].seen \in Nat,
         persons'[tx[w].target].seen <= tx[w].row.seen,
         NEW c, IsFold(WritesTo(tx[w].target, MappedTarget(tx[w]), wrote), c),
         persons'[tx[w].target].cell = ApplyWrite(c, tx[w].ev),
         \A p \in Ids : WithTarget(tx[w])[p] # None => mapping'[p] = MappedTarget(tx[w])[p],
         Agree(mapping', log')
  PROVE  Whole'
<1> DEFINE t == tx[w]
           people == WithTarget(t)
           map == MappedTarget(t)
           W(p) == WritesTo(p, map, wrote)
<1>1. /\ t.ev \in DOMAIN story /\ t.target \in Ids /\ t.row \in PersonRow /\ t.row.into = None
      /\ people[t.target] # None
      /\ people \in [Ids -> PersonRow \cup {None}]
      /\ MergedIn(people, log)
  BY TargetOpened
<1>2. /\ AtHome(people, map) /\ EldersLead(people)
      /\ map[story[t.ev].id] = t.target /\ map[t.target] = t.target
      /\ people[t.target] = t.row
      /\ \A p \in Ids : people[p] # None /\ people[p].into = None /\ p # t.target =>
           IsFold(W(p), people[p].cell)
      /\ \A e \in Events : wrote[e] # None => /\ Writing(e)
                                              /\ wrote[e] \in Ids /\ people[wrote[e]] # None
                                              /\ map[wrote[e]] = map[story[e].id]
  BY OpenedWhole
<1>3. story \in Stories /\ log \subseteq DOMAIN story /\ Ids \subseteq Int
      /\ wrote \in [Events -> Ids \cup {None}] /\ t.ev \in Events
  BY <1>1, IdentityAssumption, StoryTypes DEF KInv, TypeOK, TablesKnown
<1> HIDE DEF people, map, W
<1>4. AtHome(persons', mapping')
  BY <1>1, <1>2 DEF AtHome, people, map
<1>5. EldersLead(persons')
  <2> SUFFICES ASSUME NEW p \in Ids, persons'[p] # None, persons'[p].into # None
               PROVE  Older(persons', persons'[p].into, p)
    BY DEF EldersLead
  <2>1. p # t.target
    OBVIOUS
  <2>2. persons'[p] = people[p]
    BY <2>1 DEF people
  <2>3. people[p] # None
    BY DEF people
  <2>4. /\ people[people[p].into] # None /\ people[p].into \in Ids
        /\ Older(people, people[p].into, p)
    BY <2>2, <2>3, <1>1, <1>2, <1>3, ComponentIsLeastClosed DEF MergedIn, EldersLead
  <2>5. people[people[p].into].seen \in Nat /\ people[p].seen \in Nat
    BY <2>3, <2>4, <1>1 DEF PersonRow
  <2>6. persons'[people[p].into].seen <= people[people[p].into].seen
        /\ persons'[people[p].into].seen \in Nat
    <3>1. CASE people[p].into = t.target
      BY <3>1, <1>2
    <3>2. CASE people[p].into # t.target
      BY <3>2, <2>4, <2>5 DEF people
    <3> QED BY <3>1, <3>2
  <2> QED BY <2>2, <2>4, <2>5, <2>6, <1>3 DEF Older
<1>6. ASSUME NEW p \in Ids, persons'[p] # None, persons'[p].into = None
      PROVE  IsFold(WritesTo(p, mapping', wrote'), persons'[p].cell)
  <2>1. \A e \in Events : wrote'[e] # None => wrote'[e] \in Ids /\ people[wrote'[e]] # None
    BY <1>1, <1>2, <1>3 DEF Record
  <2>2. WritesTo(p, mapping', wrote') = WritesTo(p, map, wrote')
    BY <2>1 DEF WritesTo, people, map
  <2>3. map[t.target] = p \/ wrote[t.ev] = None \/ map[wrote[t.ev]] # p
    BY <1>2, <1>3
  <2>4. /\ p = t.target /\ story[t.ev].write # "none" =>
              WritesTo(p, map, wrote') = W(p) \cup {t.ev}
        /\ p # t.target \/ story[t.ev].write = "none" => WritesTo(p, map, wrote') = W(p)
    BY <2>3, <1>1, <1>2, WritesRecorded DEF W
  <2>5. \A f \in W(p) : Writing(f)
    BY <1>2 DEF W, WritesTo
  <2>6. CASE p = t.target
    <3>1. IsFold(W(p), c) /\ persons'[p].cell = ApplyWrite(c, t.ev)
      BY <2>6 DEF W, map
    <3> QED BY <2>2, <2>4, <2>5, <2>6, <3>1, <1>1, <1>3, FoldRecorded
  <2>7. CASE p # t.target
    <3>1. persons'[p] = people[p] /\ people[p] # None
      BY <2>7, <1>6 DEF people
    <3> QED BY <2>2, <2>4, <2>7, <3>1, <1>2, <1>6
  <2> QED BY <2>6, <2>7
<1>7. TraitsFold(persons', mapping', wrote')
  BY <1>6 DEF TraitsFold
<1> QED BY <1>4, <1>5, <1>7, WholeSteady

(* Committing a resolve whose copy is what the row says.                   *)
LEMMA ResolveWhole ==
  ASSUME IInv, KInv, RInv, WInv, NEW w \in Workers, Resolve(w)
  PROVE  WInv'
<1> DEFINE t == tx[w]
           people == WithTarget(t)
           map == MappedTarget(t)
<1>1. /\ t.phase \in Reading /\ story[t.ev].kind = "resolve"
      /\ persons' = IF t.fresh THEN people ELSE Profile(persons, t.target, t.row, t.ev)
      /\ mapping' = map /\ log' = log
      /\ torn' = (torn \/ (~t.fresh /\ Stale(t.target, t.row)))
      /\ Record(t.ev, t.target) /\ story' = story
  BY DEF Resolve, Reading, Close
<1>2. /\ t.ev \in DOMAIN story /\ t.target \in Ids /\ t.row \in PersonRow /\ t.row.into = None
      /\ people \in [Ids -> PersonRow \cup {None}] /\ people[t.target] # None
      /\ t.fresh => people[t.target] = t.row
  BY <1>1, TargetOpened
<1>3. story \in Stories /\ None \notin PersonRow /\ ReaderMapped(t)
  BY IdentityAssumption DEF KInv, TypeOK, RInv
<1> SUFFICES ASSUME ~torn' PROVE Whole'
  BY DEF WInv
<1>4. ~torn /\ (t.fresh \/ persons[t.target] = t.row)
  BY <1>1 DEF Stale
<1>5. /\ Agree(map, log)
      /\ t.fresh => WritesTo(t.target, map, wrote) = {}
      /\ ~t.fresh => IsFold(WritesTo(t.target, map, wrote), t.row.cell)
      /\ people[t.target] = t.row
  BY <1>1, <1>4, OpenedWhole
<1> DEFINE c == IF t.fresh THEN 0 ELSE t.row.cell
<1>6. IsFold(WritesTo(t.target, map, wrote), c)
  BY <1>5 DEF IsFold
<1>7. t.row.seen \in Nat
  BY <1>2 DEF PersonRow
<1> HIDE DEF people, map
<1>8. /\ \A p \in Ids : persons'[p] # None <=> people[p] # None
      /\ \A p \in Ids : p # t.target => persons'[p] = people[p]
      /\ persons'[t.target].into = None
      /\ persons'[t.target].seen \in Nat
      /\ persons'[t.target].seen <= t.row.seen
      /\ persons'[t.target].cell = ApplyWrite(c, t.ev)
  <2>1. CASE t.fresh
    <3>1. t.row = NewRow(t.ev)
      BY <2>1, <1>1, <1>3 DEF ReaderMapped
    <3>2. persons' = people /\ t.row.cell = ApplyWrite(0, t.ev)
      BY <2>1, <3>1, <1>1 DEF NewRow
    <3> QED BY <2>1, <3>2, <1>2, <1>7
  <2>2. CASE ~t.fresh
    <3>1. people = persons
      BY <2>2 DEF WithTarget, people
    <3>2. persons' = Profile(people, t.target, t.row, t.ev)
      BY <1>1, <2>2, <3>1
    <3>3. /\ persons'[t.target].seen = Min2(t.row.seen, story[t.ev].ts)
          /\ persons'[t.target].cell = ApplyWrite(t.row.cell, t.ev)
          /\ persons'[t.target].into = people[t.target].into
          /\ \A q \in Ids : q # t.target => persons'[q] = people[q]
          /\ persons'[t.target] \in PersonRow
      BY <3>2, <1>2, <1>3, ProfileWrites
    <3>4. story[t.ev].ts \in Nat
      BY <1>2, <1>3, StoryTypes
    <3> QED BY <2>2, <3>3, <3>4, <1>2, <1>3, <1>5, <1>7 DEF Min2
  <2> QED BY <2>1, <2>2
<1> HIDE DEF c
<1> QED BY <1>1, <1>4, <1>5, <1>6, <1>8, WholeAfterWrite DEF people, map

(* A stitch adds a distinct id that had no person to the component.        *)
LEMMA UpdateTargetWhole ==
  ASSUME IInv, KInv, RInv, WInv, NEW w \in Workers, UpdateTarget(w)
  PROVE  WInv'
<1> DEFINE t == tx[w]
           people == WithTarget(t)
           map == MappedTarget(t)
           id == story[t.ev].id
           prev == story[t.ev].prev
           c == t.row.cell
<1>1. /\ t.phase \in Reading /\ t.phase = "sighted" /\ ~RealMerge(t)
      /\ persons' = Profile(people, t.target, t.row, t.ev)
      /\ mapping' = IF Stitches(t) THEN [map EXCEPT ![prev] = t.target] ELSE map
      /\ log' = IF Asserts(t) THEN log \cup {t.ev} ELSE log
      /\ torn' = (torn \/ Outdated(t))
      /\ Record(t.ev, t.target) /\ story' = story
  BY DEF UpdateTarget, Reading, Close
<1>2. /\ t.ev \in DOMAIN story /\ t.target \in Ids /\ t.row \in PersonRow /\ t.row.into = None
      /\ people \in [Ids -> PersonRow \cup {None}] /\ people[t.target] # None
      /\ map \in [Ids -> Ids \cup {None}]
      /\ t.fresh => t.target = id
  BY <1>1, TargetOpened
<1>3. /\ story \in Stories /\ None \notin PersonRow /\ None \notin Ids
      /\ ReaderMapped(t) /\ log \subseteq DOMAIN story
      /\ id \in Ids /\ prev \in Ids /\ story[t.ev].ts \in Nat
  BY <1>2, IdentityAssumption, StoryTypes DEF KInv, TypeOK, RInv, TablesKnown
<1> SUFFICES ASSUME ~torn' PROVE Whole'
  BY DEF WInv
<1>4. ~torn /\ (t.fresh \/ persons[t.target] = t.row)
  BY <1>1 DEF Outdated, Stale
<1>5. /\ Agree(map, log)
      /\ map[id] = t.target /\ map[t.target] = t.target
      /\ t.fresh => WritesTo(t.target, map, wrote) = {}
      /\ ~t.fresh => IsFold(WritesTo(t.target, map, wrote), t.row.cell)
      /\ people[t.target] = t.row
      /\ \A p \in Ids : people[p] # None => map[p] # None
  BY <1>1, <1>4, OpenedWhole
<1>6. IsFold(WritesTo(t.target, map, wrote), c)
  <2>1. CASE t.fresh
    <3>1. c = 0
      BY <2>1, <1>1, <1>3 DEF ReaderMapped, NewRow
    <3> QED BY <2>1, <3>1, <1>5 DEF IsFold
  <2>2. CASE ~t.fresh
    BY <2>2, <1>5
  <2> QED BY <2>1, <2>2
<1>7. t.row.seen \in Nat
  BY <1>2 DEF PersonRow
<1>8. \A x \in Ids : map[x] # None => mapping[x] # None \/ (t.fresh /\ x = t.target)
  BY <1>1, OpenedMap
<1> HIDE DEF people, map, id, prev, c
<1>9. /\ \A p \in Ids : persons'[p] # None <=> people[p] # None
      /\ \A p \in Ids : p # t.target => persons'[p] = people[p]
      /\ persons'[t.target].into = None
      /\ persons'[t.target].seen \in Nat
      /\ persons'[t.target].seen <= t.row.seen
      /\ persons'[t.target].cell = ApplyWrite(c, t.ev)
  <2>1. /\ persons'[t.target].seen = Min2(t.row.seen, story[t.ev].ts)
        /\ persons'[t.target].cell = ApplyWrite(t.row.cell, t.ev)
        /\ persons'[t.target].into = people[t.target].into
        /\ \A q \in Ids : q # t.target => persons'[q] = people[q]
        /\ persons'[t.target] \in PersonRow
    BY <1>1, <1>2, <1>3, ProfileWrites
  <2> QED BY <2>1, <1>2, <1>3, <1>5, <1>7 DEF Min2, c
<1>10. Stitches(t) => map[prev] = None /\ prev # id
  <2> HAVE Stitches(t)
  <2>1. t.source = None /\ prev # id
    BY DEF Stitches, id, prev
  <2>2. mapping[prev] = None
    BY <2>1, <1>1, <1>3 DEF ReaderMapped, Own, id, prev
  <2> QED BY <2>1, <2>2, <1>2, <1>3, <1>8
<1>11. \A p \in Ids : people[p] # None => mapping'[p] = map[p]
  BY <1>1, <1>2, <1>3, <1>5, <1>10
<1>12. Agree(mapping', log')
  <2>1. CASE ~Stitches(t)
    BY <2>1, <1>1, <1>5 DEF Asserts
  <2>2. CASE Stitches(t)
    <3> DEFINE C(x) == Component(log, x)
               more == log \cup {t.ev}
               D(x) == Component(more, x)
    <3>1. log' = more /\ \A x \in Ids : mapping'[x] = IF x = prev THEN t.target ELSE map[x]
      BY <2>2, <1>1, <1>2, <1>3 DEF Asserts
    <3>2. C(prev) = {prev}
      <4>1. mapping[prev] = None
        BY <2>2, <1>1, <1>3 DEF ReaderMapped, Own, Stitches, prev
      <4> QED BY <4>1, <1>3, UnmappedIsAlone
    <3>3. D(id) = C(id) \cup {prev}
      BY <3>2, <1>2, <1>3, AssertionJoins DEF id, prev
    <3>4. more \subseteq DOMAIN story
      BY <1>2, <1>3
    <3>5. \A x \in Ids : /\ x \in D(id) => D(x) = D(id)
                         /\ x \notin D(id) => D(x) = C(x)
      <4> TAKE x \in Ids
      <4>1. x \in D(id) => D(x) = D(id)
        <5> HIDE DEF more
        <5> QED BY <3>4, <1>3, ComponentsAreClasses
      <4>2. ASSUME x \notin D(id) PROVE C(x) \cap Pair(t.ev) = {}
        <5>1. id \notin C(x)
          BY <4>2, <3>3, <1>3, ComponentsAreClasses, ComponentIsLeastClosed
        <5>2. prev \notin C(x)
          BY <4>2, <3>2, <3>3, <1>3, ComponentsAreClasses, ComponentIsLeastClosed
        <5> QED BY <5>1, <5>2 DEF Pair, id, prev
      <4>3. x \notin D(id) => D(x) = C(x)
        BY <4>2, <1>2, <1>3, AssertionJoinsTwo
      <4> QED BY <4>1, <4>3
    <3>6. id \in C(id)
      BY <1>3, ComponentIsLeastClosed
    <3>7. \A x \in Ids : x \in C(id) /\ map[x] # None => map[x] = t.target
      BY <3>6, <1>2, <1>3, <1>5 DEF Agree
    <3> HIDE DEF C, D, more
    <3> SUFFICES ASSUME NEW x \in Ids, NEW y \in Ids, mapping'[x] # None, mapping'[y] # None,
                        y \in D(x)
                 PROVE  mapping'[x] = mapping'[y]
      BY <3>1 DEF Agree, D
    <3>8. CASE x \in D(id)
      BY <3>1, <3>3, <3>5, <3>7, <3>8
    <3>9. CASE x \notin D(id)
      <4>1. y \in C(x) /\ y \notin D(id) /\ prev \in D(id)
        <5>1. y \in C(x) /\ prev \in D(id)
          BY <3>3, <3>5, <3>9
        <5>2. C(x) = C(y)
          BY <5>1, <1>3, ComponentsAreClasses DEF C
        <5>3. ASSUME y \in D(id) PROVE FALSE
          <6>1. x \in C(y) /\ D(y) = D(id)
            BY <5>2, <5>3, <3>5, <1>3, ComponentIsLeastClosed DEF C
          <6>2. C(y) \subseteq D(y)
            BY <3>4, <1>3, ComponentsOnlyGrow DEF C, D, more
          <6> QED BY <6>1, <6>2, <3>9
        <5> QED BY <5>1, <5>3
      <4>2. mapping'[x] = map[x] /\ mapping'[y] = map[y]
        BY <4>1, <3>1, <3>9
      <4> QED BY <4>1, <4>2, <1>5 DEF Agree, C
    <3> QED BY <3>8, <3>9
  <2> QED BY <2>1, <2>2
<1> QED BY <1>1, <1>4, <1>6, <1>9, <1>11, <1>12, WholeAfterWrite DEF people, map

(* Both sides of a merge whose copies are what the rows say are live.      *)
LEMMA MergedLive ==
  ASSUME IInv, KInv, RInv, WInv, ~torn, NEW w \in Workers, tx[w].phase = "sighted",
         RealMerge(tx[w]), ~Outdated(tx[w])
  PROVE  LET t == tx[w]
             people == WithTarget(t)
             map == MappedTarget(t)
         IN /\ map[story[t.ev].id] = t.target /\ map[t.target] = t.target
            /\ map[story[t.ev].prev] = t.source /\ map[t.source] = t.source
            /\ people[t.target] = t.row /\ people[t.source] = t.srow
            /\ people[Winner(t)] = WinnerRow(t) /\ people[Loser(t)] = LoserRow(t)
            /\ WinnerRow(t).into = None /\ LoserRow(t).into = None
            /\ map[Winner(t)] = Winner(t) /\ map[Loser(t)] = Loser(t)
            /\ map[Named(t)] = Loser(t)
            /\ IsFold(WritesTo(Winner(t), map, wrote), WinnerRow(t).cell)
            /\ IsFold(WritesTo(Loser(t), map, wrote), LoserRow(t).cell)
<1> DEFINE t == tx[w]
           people == WithTarget(t)
           map == MappedTarget(t)
           id == story[t.ev].id
           prev == story[t.ev].prev
<1>1. t.phase \in Reading /\ (t.fresh \/ persons[t.target] = t.row) /\ None \notin Ids
  BY IdentityAssumption DEF Reading, Outdated, Stale
<1>2. /\ t.source \in Ids /\ t.target \in Ids /\ t.source # t.target
      /\ persons[t.source] # None /\ people[t.source] = persons[t.source]
      /\ people[t.target] # None
      /\ t.row.into = None /\ t.srow.into = None
      /\ t.source \in Component(log, prev)
  BY MergeSides
<1>3. persons[t.source] = t.srow
  BY <1>1, <1>2 DEF Outdated, Stale
<1>4. /\ Agree(map, log) /\ AtHome(people, map)
      /\ map[id] = t.target /\ map[t.target] = t.target
      /\ people[t.target] = t.row
      /\ \A p \in Ids : people[p] # None /\ people[p].into = None /\ p # t.target =>
                 IsFold(WritesTo(p, map, wrote), people[p].cell)
      /\ t.fresh => WritesTo(t.target, map, wrote) = {}
      /\ ~t.fresh => IsFold(WritesTo(t.target, map, wrote), t.row.cell)
  BY <1>1, OpenedWhole
<1>5. /\ ReaderMapped(t) /\ story \in Stories /\ t.ev \in DOMAIN story /\ prev \in Ids
      /\ \A x \in Ids : mapping[x] # None => map[x] = mapping[x]
  BY <1>1, TargetOpened, OpenedMap, StoryTypes DEF RInv, KInv, TypeOK
<1>6. mapping[prev] # None
  <2>1. t.source # None /\ ~Own(t)
    BY <1>1, <1>2, <1>5 DEF ReaderMapped
  <2> QED BY <2>1, <1>5 DEF ReaderMapped
<1> HIDE DEF people, map, id, prev
<1>7. map[t.source] = t.source
  BY <1>2, <1>3, <1>4 DEF AtHome
<1>8. map[prev] = t.source
  BY <1>1, <1>2, <1>4, <1>5, <1>6, <1>7 DEF Agree
<1>9. IsFold(WritesTo(t.target, map, wrote), t.row.cell)
  <2>1. CASE t.fresh
    <3>1. story[t.ev].kind = "identify" /\ t.row = NewRow(t.ev)
      BY <2>1, <1>1, <1>5 DEF ReaderMapped
    <3>2. t.row.cell = 0
      BY <3>1 DEF NewRow
    <3> QED BY <2>1, <3>2, <1>4 DEF IsFold
  <2>2. CASE ~t.fresh
    BY <2>2, <1>4
  <2> QED BY <2>1, <2>2
<1>10. IsFold(WritesTo(t.source, map, wrote), t.srow.cell)
  BY <1>2, <1>3, <1>4
<1>11. CASE SourceWins(t)
  BY <1>2, <1>3, <1>4, <1>7, <1>8, <1>9, <1>10, <1>11
     DEF Winner, Loser, WinnerRow, LoserRow, Named, people, map, id, prev
<1>12. CASE ~SourceWins(t)
  BY <1>2, <1>3, <1>4, <1>7, <1>8, <1>9, <1>10, <1>12
     DEF Winner, Loser, WinnerRow, LoserRow, Named, people, map, id, prev
<1> QED BY <1>11, <1>12

(* Committing a merge whose copies are what the rows say: the winner is    *)
(* the older person, takes every distinct id of the loser, and the cell of *)
(* the winner is that of the writes of both.                               *)
LEMMA MergeWhole ==
  ASSUME IInv, KInv, RInv, WInv, NEW w \in Workers, Merge(w)
  PROVE  WInv'
<1> DEFINE t == tx[w]
           people == WithTarget(t)
           map == MappedTarget(t)
           id == story[t.ev].id
           prev == story[t.ev].prev
           win == Winner(t)
           lose == Loser(t)
           wrow == WinnerRow(t)
           lrow == LoserRow(t)
           moved == Moved(t, lose, Named(t))
           W(p) == WritesTo(p, map, wrote)
<1>1. /\ t.phase \in Reading /\ t.phase = "sighted" /\ RealMerge(t)
      /\ mapping' = [x \in Ids |-> IF x \in moved THEN win ELSE map[x]]
      /\ log' = log \cup {t.ev}
      /\ torn' = (torn \/ Outdated(t))
      /\ Record(t.ev, win) /\ story' = story
  BY MergeSteps DEF Reading, Close
<1> SUFFICES ASSUME ~torn' PROVE Whole'
  BY DEF WInv
<1>2. ~torn /\ ~Outdated(t) /\ (t.fresh \/ persons[t.target] = t.row)
  BY <1>1 DEF Outdated, Stale
<1>3. /\ map[id] = t.target /\ map[prev] = t.source
      /\ people[win] = wrow /\ people[lose] = lrow
      /\ wrow.into = None /\ lrow.into = None
      /\ map[win] = win /\ map[lose] = lose
      /\ map[Named(t)] = lose
      /\ IsFold(W(win), wrow.cell) /\ IsFold(W(lose), lrow.cell)
  BY <1>1, <1>2, MergedLive
<1>4. /\ win \in Ids /\ lose \in Ids /\ win # lose /\ {win, lose} = {t.source, t.target}
      /\ people[t.source] # None /\ people[t.target] # None
      /\ t.source \in Ids /\ t.target \in Ids
      /\ t.row \in PersonRow /\ t.srow \in PersonRow
      /\ Named(t) \in {id, prev}
  <2>1. people[t.source] # None
    BY <1>1, MergeSides
  <2> QED BY <2>1, <1>1, MergeSides
<1>5. /\ t.ev \in DOMAIN story /\ t.ev \in Events
      /\ people \in [Ids -> PersonRow \cup {None}]
      /\ map \in [Ids -> Ids \cup {None}]
      /\ MergedIn(people, log)
  BY <1>1, TargetOpened
<1>6. /\ Agree(map, log) /\ AtHome(people, map) /\ EldersLead(people)
      /\ \A p \in Ids : people[p] # None /\ people[p].into = None /\ p # t.target =>
                 IsFold(W(p), people[p].cell)
      /\ \A e \in Events : wrote[e] # None => /\ Writing(e)
                                              /\ wrote[e] \in Ids /\ people[wrote[e]] # None
                                              /\ map[wrote[e]] = map[story[e].id]
  BY <1>1, <1>2, OpenedWhole
<1>7. /\ story \in Stories /\ log \subseteq DOMAIN story /\ None \notin Ids /\ Ids \subseteq Int
      /\ id \in Ids /\ prev \in Ids /\ story[t.ev].ts \in Nat
      /\ wrote \in [Events -> Ids \cup {None}]
  BY <1>5, IdentityAssumption, StoryTypes DEF KInv, TypeOK, TablesKnown
<1>8. /\ \A p \in Ids : persons'[p] # None <=> people[p] # None
      /\ \A p \in Ids \ {win, lose} : persons'[p] = people[p]
      /\ persons'[win].into = people[win].into
      /\ persons'[win].seen = Min2(wrow.seen, story[t.ev].ts)
      /\ persons'[win].cell = ApplyWrite(CombineCells(wrow.cell, lrow.cell), t.ev)
      /\ persons'[lose].into = win
      /\ persons'[lose].seen = people[lose].seen
  BY MergeRows
<1>9. moved = {x \in Ids : map[x] = lose} \cup {Named(t)}
  BY DEF Moved
<1>10. /\ t.srow.seen \in Nat /\ t.row.seen \in Nat /\ wrow.seen \in Nat /\ lrow.seen \in Nat
       /\ wrow.seen < lrow.seen \/ (wrow.seen = lrow.seen /\ win <= lose)
  <2>1. t.srow.seen \in Nat /\ t.row.seen \in Nat /\ t.source \in Int /\ t.target \in Int
    BY <1>4, <1>7 DEF PersonRow
  <2>2. CASE SourceWins(t)
    BY <2>1, <2>2 DEF Winner, Loser, WinnerRow, LoserRow, SourceWins
  <2>3. CASE ~SourceWins(t)
    BY <2>1, <2>3 DEF Winner, Loser, WinnerRow, LoserRow, SourceWins
  <2> QED BY <2>1, <2>2, <2>3
<1> HIDE DEF people, map, id, prev, win, lose, wrow, lrow, moved, W
<1>11. \A x \in Ids : mapping'[x] = IF map[x] = lose THEN win ELSE map[x]
  BY <1>1, <1>3, <1>4, <1>7, <1>9
<1>12. Agree(mapping', log')
  <2> DEFINE C(x) == Component(log, x)
             more == log \cup {t.ev}
             D(x) == Component(more, x)
  <2>1. D(id) = C(id) \cup C(prev) /\ more \subseteq DOMAIN story
    BY <1>5, <1>7, AssertionJoins DEF id, prev
  <2>2. id \in C(id) /\ prev \in C(prev)
    BY <1>7, ComponentIsLeastClosed
  <2>3. \A x, y \in Ids : y \in C(x) => C(x) = C(y)
    BY <1>7, ComponentsAreClasses
  <2>4. \A x \in Ids : /\ x \in D(id) => D(x) = D(id)
                       /\ x \notin D(id) => D(x) = C(x)
    <3> TAKE x \in Ids
    <3>1. x \in D(id) => D(x) = D(id)
      <4> HIDE DEF more
      <4> QED BY <2>1, <1>7, ComponentsAreClasses
    <3>2. ASSUME x \notin D(id) PROVE C(x) \cap Pair(t.ev) = {}
      <4>1. x \in C(x)
        BY <1>7, ComponentIsLeastClosed
      <4>2. id \notin C(x) /\ prev \notin C(x)
        BY <3>2, <4>1, <2>1, <2>3, <1>7
      <4> QED BY <4>2 DEF Pair, id, prev
    <3>3. x \notin D(id) => D(x) = C(x)
      BY <3>2, <1>5, <1>7, AssertionJoinsTwo
    <3> QED BY <3>1, <3>3
  <2>5. \A x \in Ids : x \in D(id) /\ map[x] # None => map[x] \in {win, lose}
    <3> SUFFICES ASSUME NEW x \in Ids, x \in C(id) \/ x \in C(prev), map[x] # None
                 PROVE  map[x] \in {t.target, t.source}
      BY <2>1, <1>4
    <3>1. map[id] # None /\ map[prev] # None
      BY <1>3, <1>4, <1>7
    <3> QED BY <3>1, <1>3, <1>6, <1>7 DEF Agree
  <2> HIDE DEF C, D, more
  <2> SUFFICES ASSUME NEW x \in Ids, NEW y \in Ids, mapping'[x] # None, mapping'[y] # None,
                      y \in D(x)
               PROVE  mapping'[x] = mapping'[y]
    BY <1>1 DEF Agree, D, more
  <2>6. map[x] # None /\ map[y] # None
    BY <1>4, <1>7, <1>11
  <2>7. CASE x \in D(id)
    BY <2>4, <2>5, <2>6, <2>7, <1>11
  <2>8. CASE x \notin D(id)
    <3>1. map[x] = map[y]
      BY <2>4, <2>6, <2>8, <1>6 DEF Agree, C
    <3> QED BY <3>1, <1>11
  <2> QED BY <2>7, <2>8
<1>13. AtHome(persons', mapping')
  <2> SUFFICES ASSUME NEW p \in Ids, persons'[p] # None
               PROVE  persons'[p].into = None <=> mapping'[p] = p
    BY DEF AtHome
  <2>1. CASE p = lose
    BY <2>1, <1>3, <1>4, <1>7, <1>8, <1>11
  <2>2. CASE p = win
    BY <2>2, <1>3, <1>4, <1>8, <1>11
  <2>3. CASE p \notin {win, lose}
    BY <2>3, <1>6, <1>8, <1>11 DEF AtHome
  <2> QED BY <2>1, <2>2, <2>3
<1>14. persons'[win].seen \in Nat /\ persons'[win].seen <= wrow.seen
  BY <1>7, <1>8, <1>10 DEF Min2
<1>15. EldersLead(persons')
  <2> SUFFICES ASSUME NEW p \in Ids, persons'[p] # None, persons'[p].into # None
               PROVE  Older(persons', persons'[p].into, p)
    BY DEF EldersLead
  <2>1. CASE p = lose
    <3>1. persons'[p].into = win /\ persons'[p].seen = lrow.seen
      BY <2>1, <1>3, <1>8
    <3> QED BY <2>1, <3>1, <1>4, <1>7, <1>10, <1>14 DEF Older
  <2>2. CASE p # lose
    <3>1. p # win /\ persons'[p] = people[p] /\ people[p] # None /\ people[p].into # None
      BY <2>2, <1>3, <1>8
    <3> DEFINE q == people[p].into
    <3>2. people[q] # None /\ q \in Ids /\ Older(people, q, p)
      BY <3>1, <1>5, <1>6, <1>7, ComponentIsLeastClosed DEF MergedIn, EldersLead
    <3>3. people[q].seen \in Nat /\ people[p].seen \in Nat
      BY <3>1, <3>2, <1>5 DEF PersonRow
    <3> HIDE DEF q
    <3>4. persons'[q].seen \in Nat /\ persons'[q].seen <= people[q].seen
      <4>1. CASE q = win
        BY <4>1, <1>3, <1>14
      <4>2. CASE q = lose
        BY <4>2, <3>3, <1>8
      <4>3. CASE q \notin {win, lose}
        BY <4>3, <3>2, <3>3, <1>8
      <4> QED BY <4>1, <4>2, <4>3
    <3>5. Older(persons', q, p)
      BY <3>1, <3>2, <3>3, <3>4, <1>7 DEF Older
    <3> QED BY <3>1, <3>5 DEF q
  <2> QED BY <2>1, <2>2
<1>16. ASSUME NEW p \in Ids, persons'[p] # None, persons'[p].into = None
       PROVE  IsFold(WritesTo(p, mapping', wrote'), persons'[p].cell)
  <2>1. p # lose
    BY <1>4, <1>7, <1>8, <1>16
  <2>2. mapping'[win] = win
    BY <1>3, <1>4, <1>11
  <2>3. mapping'[win] = p \/ wrote[t.ev] = None \/ mapping'[wrote[t.ev]] # p
    <3>1. CASE p # win /\ wrote[t.ev] # None
      <4>1. map[wrote[t.ev]] \in {win, lose} /\ wrote[t.ev] \in Ids
        BY <3>1, <1>3, <1>4, <1>5, <1>6 DEF id
      <4> QED BY <3>1, <4>1, <1>11
    <3> QED BY <3>1, <2>2
  <2>4. /\ mapping'[win] = p /\ story[t.ev].write # "none" =>
             WritesTo(p, mapping', wrote') = WritesTo(p, mapping', wrote) \cup {t.ev}
        /\ mapping'[win] # p \/ story[t.ev].write = "none" =>
             WritesTo(p, mapping', wrote') = WritesTo(p, mapping', wrote)
    BY <2>3, <1>1, <1>4, <1>5, <1>6, WritesRecorded
  <2>5. CASE p = win
    <3>1. WritesTo(p, mapping', wrote) = W(win) \cup W(lose)
      BY <2>5, <1>4, <1>6, <1>11 DEF WritesTo, W
    <3>2. \A f \in W(win) \cup W(lose) : Writing(f)
      BY <1>6 DEF W, WritesTo
    <3>3. IsFold(W(win) \cup W(lose), CombineCells(wrow.cell, lrow.cell))
      BY <3>2, <1>3, <1>7, FoldCombines
    <3>4. persons'[p].cell = ApplyWrite(CombineCells(wrow.cell, lrow.cell), t.ev)
      BY <2>5, <1>8
    <3> QED BY <2>2, <2>4, <2>5, <3>1, <3>2, <3>3, <3>4, <1>5, <1>7, FoldRecorded
  <2>6. CASE p # win
    <3>1. persons'[p] = people[p] /\ people[p] # None
      BY <2>1, <2>6, <1>8, <1>16
    <3>2. WritesTo(p, mapping', wrote) = W(p)
      BY <2>1, <2>6, <1>6, <1>11 DEF WritesTo, W
    <3>3. IsFold(W(p), people[p].cell)
      BY <2>1, <2>6, <3>1, <1>4, <1>6, <1>16
    <3> QED BY <2>2, <2>4, <2>6, <3>1, <3>2, <3>3
  <2> QED BY <2>5, <2>6
<1>17. TraitsFold(persons', mapping', wrote')
  BY <1>16 DEF TraitsFold
<1> QED BY <1>1, <1>12, <1>13, <1>15, <1>17, WholeSteady

(***************************************************************************)
(* What whole tables give.                                                 *)
(***************************************************************************)
LEMMA WholeTypes ==
  ASSUME KInv
  PROVE  /\ story \in Stories /\ log \subseteq DOMAIN story
         /\ None \notin Ids /\ None \notin PersonRow
         /\ persons \in [Ids -> PersonRow \cup {None}]
         /\ mapping \in [Ids -> Ids \cup {None}]
         /\ token \in [Ids -> Ids \cup {None}]
         /\ MappedIn(mapping, persons, log) /\ MergedIn(persons, log)
         /\ \A x \in Ids : x \in Component(log, x) /\ Component(log, x) \subseteq Ids
BY IdentityAssumption, ComponentIsLeastClosed DEF KInv, TypeOK, TablesKnown

(* A mapping names its person directly: a live one, mapped to itself.      *)
LEMMA MappedIsLive ==
  ASSUME IInv, KInv, RInv, WInv, ~torn, NEW x \in Ids, mapping[x] # None
  PROVE  /\ mapping[x] \in Ids /\ persons[mapping[x]] # None
         /\ persons[mapping[x]].into = None
         /\ mapping[mapping[x]] = mapping[x]
<1> DEFINE p == mapping[x]
<1>1. p \in Ids /\ persons[p] # None /\ p \in Component(log, x)
  BY WholeTypes DEF MappedIn
<1>2. mapping[p] # None
  BY <1>1, PersonsAreMapped
<1>3. Agree(mapping, log) /\ AtHome(persons, mapping)
  BY DEF WInv, Whole
<1>4. mapping[p] = p
  BY <1>1, <1>2, <1>3 DEF Agree
<1>5. persons[p].into = None
  BY <1>1, <1>3, <1>4 DEF AtHome
<1> QED BY <1>1, <1>4, <1>5

(* A chain of merges ends at the person that the one it starts from is     *)
(* mapped to.                                                              *)
LEMMA ChainsLeadHome ==
  ASSUME IInv, KInv, RInv, WInv, ~torn, NEW p \in Ids, persons[p] # None
  PROVE  /\ Canonical(p) = mapping[p]
         /\ Canonical(p) \in Ids /\ persons[Canonical(p)].into = None
<1> DEFINE C == Component(log, p)
           kin == {q \in C : persons[q] # None}
<1>1. /\ Agree(mapping, log) /\ AtHome(persons, mapping) /\ EldersLead(persons)
  BY DEF WInv, Whole
<1>2. \A q \in C : q \in Ids /\ Component(log, q) = C
  BY WholeTypes, ComponentsAreClasses
<1>3. Ancestry
  <2>1. \A q \in Ids : persons[q] # None => persons[q] \in PersonRow
    BY WholeTypes
  <2>2. \A q \in Existing : persons[q].seen \in Nat
    BY <2>1 DEF Existing, PersonRow
  <2>3. \A q \in Existing : persons[q].into # None =>
          persons[q].into \in Existing \ {q} /\ Older(persons, persons[q].into, q)
    BY <1>1, WholeTypes DEF Existing, MergedIn, EldersLead
  <2> QED BY <2>2, <2>3 DEF Ancestry
<1>4. \A q \in kin : MergedTo(q) \in kin
  BY <1>2, WholeTypes DEF MergedTo, MergedIn
<1>5. p \in kin
  BY WholeTypes
<1>6. Canonical(p) \in kin
  BY <1>4, <1>5, CanonicalStaysIn
<1>7. persons[Canonical(p)].into = None
  BY <1>3, ChainsEnd DEF Existing
<1>8. mapping[Canonical(p)] = Canonical(p)
  BY <1>1, <1>2, <1>6, <1>7 DEF AtHome
<1>9. mapping[p] # None /\ mapping[Canonical(p)] # None
  BY <1>2, <1>6, PersonsAreMapped
<1>10. mapping[p] = mapping[Canonical(p)]
  BY <1>1, <1>2, <1>6, <1>9 DEF Agree
<1> QED BY <1>2, <1>6, <1>7, <1>8, <1>10

(* The plan of a rebuild over whole tables is what the tables say.         *)
LEMMA PlannedIsMapped ==
  ASSUME IInv, KInv, RInv, WInv, ~torn, NEW x \in Ids, mapping[x] # None
  PROVE  PlannedPerson(mapping, persons, log, x) = mapping[x]
<1> DEFINE found == {mapping[y] : y \in Component(log, x)} \ {None}
<1>1. Agree(mapping, log)
  BY DEF WInv, Whole
<1>2. found = {mapping[x]}
  BY <1>1, WholeTypes DEF Agree
<1>3. found \subseteq Ids /\ found # {}
  BY <1>2, MappedIsLive
<1>4. \A p \in found : persons[p].seen \in Nat
  <2>1. mapping[x] \in Ids /\ persons[mapping[x]] \in PersonRow
    BY MappedIsLive, WholeTypes
  <2> QED BY <1>2, <2>1 DEF PersonRow
<1> HIDE DEF found
<1>5. PlannedPerson(mapping, persons, log, x) \in found
  <2>1. found = {mapping[y] : y \in Component(log, x)} \ {None} /\ None \notin Ids
    BY WholeTypes DEF found
  <2> QED BY <2>1, <1>3, <1>4, PlannedIsOldest
<1> QED BY <1>2, <1>5

(* A rebuild of whole tables has nothing to write.                         *)
LEMMA NothingToRebuild ==
  ASSUME IInv, KInv, RInv, WInv, ~torn
  PROVE  /\ Repointed(mapping, persons, log) = {}
         /\ Remerged(mapping, persons, log) = {}
<1>1. Repointed(mapping, persons, log) = {}
  BY PlannedIsMapped DEF Repointed
<1>2. Remerged(mapping, persons, log) = {}
  <2> SUFFICES ASSUME NEW p \in Ids, NEW x \in Ids, mapping[x] = p
               PROVE  PlannedPerson(mapping, persons, log, x) = p
    BY DEF Remerged
  <2> QED BY WholeTypes, PlannedIsMapped
<1> QED BY <1>1, <1>2

-----------------------------------------------------------------------------
LEMMA SteadyWhole ==
  ASSUME WInv, UNCHANGED <<story, persons, mapping, log, wrote, torn>>
  PROVE  WInv'
<1> SUFFICES ASSUME ~torn' PROVE Whole'
  BY DEF WInv
<1>1. Whole
  BY DEF WInv
<1> QED BY <1>1, WholeSteady DEF Whole

(* A rebuild over the tables it has read changes nothing in whole ones.    *)
LEMMA RebuildWhole ==
  ASSUME IInv, KInv, RInv, WInv, NEW w \in Workers, Rebuild(w)
  PROVE  WInv'
<1> DEFINE t == tx[w]
           ids == Repointed(t.rows, t.people, t.asserted)
           gone == Remerged(t.rows, t.people, t.asserted)
<1>1. /\ \A x \in Ids : x \notin ids => mapping'[x] = mapping[x]
      /\ mapping' \in [Ids -> Ids \cup {None}]
      /\ persons' \in [Ids -> PersonRow \cup {None}]
      /\ \A p \in Ids \ gone : persons'[p] = persons[p]
      /\ torn' = (torn \/ (ids \cup gone # {}
                            /\ <<t.rows, t.people, t.asserted>> # <<mapping, persons, log>>))
      /\ UNCHANGED <<story, log, wrote>>
  BY RebuildSteps
<1> SUFFICES ASSUME ~torn' PROVE Whole'
  BY DEF WInv
<1> HIDE DEF ids, gone
<1>2. ~torn
  BY <1>1
<1>3. ids = {} /\ gone = {}
  <2>1. CASE ids \cup gone = {}
    BY <2>1
  <2>2. CASE t.rows = mapping /\ t.people = persons /\ t.asserted = log
    BY <2>2, <1>2, NothingToRebuild DEF ids, gone
  <2> QED BY <2>1, <2>2, <1>1
<1>4. mapping' = mapping /\ persons' = persons
  BY <1>1, <1>3, WholeTypes
<1> QED BY <1>1, <1>2, <1>4, WholeSteady DEF WInv, Whole

LEMMA NextWInv == IInv /\ KInv /\ RInv /\ WInv /\ [Next]_vars => WInv'
<1> SUFFICES ASSUME IInv, KInv, RInv, WInv, [Next]_vars PROVE WInv'
  OBVIOUS
<1>1. ASSUME UNCHANGED tables, story' = story PROVE WInv'
  BY <1>1, SteadyWhole DEF tables
<1>2. CASE Next
  <2>1. PICK w \in Workers :
          \/ \E e \in DOMAIN story : Aim(w, e) \/ List(w, e)
          \/ Sight(w) \/ Resolve(w) \/ Merge(w) \/ UpdateTarget(w)
          \/ Plan(w) \/ Rebuild(w) \/ Abort(w)
    BY <1>2 DEF Next
  <2>2. CASE \E e \in DOMAIN story : Aim(w, e) \/ List(w, e)
    BY <2>2, <1>1 DEF Aim, List
  <2>3. CASE Sight(w) \/ Plan(w) \/ Abort(w)
    BY <2>3, <1>1 DEF Sight, Plan, Abort
  <2>4. CASE Resolve(w)
    BY <2>4, ResolveWhole
  <2>5. CASE Merge(w)
    BY <2>5, MergeWhole
  <2>6. CASE UpdateTarget(w)
    BY <2>6, UpdateTargetWhole
  <2>7. CASE Rebuild(w)
    BY <2>7, RebuildWhole
  <2> QED BY <2>1, <2>2, <2>3, <2>4, <2>5, <2>6, <2>7
<1>3. CASE UNCHANGED vars
  BY <1>3, <1>1 DEF vars
<1> QED BY <1>2, <1>3

-----------------------------------------------------------------------------
LEMMA WholeLeadsToElder == IInv /\ KInv /\ RInv /\ WInv => LeadsToElder
<1> SUFFICES ASSUME IInv, KInv, RInv, WInv, ~torn, NEW p \in Ids,
                    persons[p] # None, persons[p].into # None
             PROVE  Older(persons, persons[p].into, p) /\ Ends(p) # {}
  BY DEF LeadsToElder
<1>1. Older(persons, persons[p].into, p)
  BY DEF WInv, Whole, EldersLead
<1>2. Canonical(p) \in Ends(p)
  BY ChainsLeadHome DEF Ends
<1> QED BY <1>1, <1>2

(* The writes whose chain ends at a live person are those of the distinct  *)
(* ids mapped to it.                                                       *)
LEMMA WholeIsFolded == IInv /\ KInv /\ RInv /\ WInv => TraitsAreFolded
<1> SUFFICES ASSUME IInv, KInv, RInv, WInv, ~torn, NEW p \in Ids,
                    persons[p] # None, persons[p].into = None
             PROVE  persons[p].cell =
                      Fold({e \in Events : wrote[e] # None /\ Canonical(wrote[e]) = p})
  BY DEF TraitsAreFolded
<1>1. \A e \in Events : wrote[e] # None =>
        Writing(e) /\ Canonical(wrote[e]) = mapping[wrote[e]]
  BY WritesAreHome, ChainsLeadHome
<1>2. {e \in Events : wrote[e] # None /\ Canonical(wrote[e]) = p} = WritesTo(p, mapping, wrote)
  BY <1>1 DEF WritesTo
<1>3. \A f \in WritesTo(p, mapping, wrote) : Writing(f)
  BY <1>1 DEF WritesTo
<1>4. IsFold(WritesTo(p, mapping, wrote), persons[p].cell)
  BY DEF WInv, Whole, TraitsFold
<1>5. Fold(WritesTo(p, mapping, wrote)) = persons[p].cell
  BY <1>3, <1>4, WholeTypes, FoldIsReference
<1> QED BY <1>2, <1>5

(* A token names a person of its distinct id's component, whose chain      *)
(* leads where the distinct id is mapped.                                  *)
LEMMA WholeAgrees == IInv /\ KInv /\ RInv /\ WInv => RebuildAgrees
<1> SUFFICES ASSUME IInv, KInv, RInv, WInv, ~torn
             PROVE  /\ Repointed(mapping, persons, log) = {}
                    /\ Remerged(mapping, persons, log) = {}
                    /\ \A x \in Ids :
                         /\ mapping[x] # None => persons[mapping[x]].into = None
                         /\ token[x] # None =>
                              mapping[x] # None /\ Canonical(token[x]) = Canonical(mapping[x])
  BY DEF RebuildAgrees
<1>1. ASSUME NEW x \in Ids, token[x] # None
      PROVE  mapping[x] # None /\ Canonical(token[x]) = Canonical(mapping[x])
  <2>1. /\ mapping[x] # None /\ persons[token[x]] # None
        /\ token[x] \in Component(log, x) /\ token[x] \in Ids
    BY <1>1, WholeTypes DEF RInv, TokensKnown
  <2>2. Canonical(token[x]) = mapping[token[x]] /\ mapping[token[x]] # None
    BY <2>1, ChainsLeadHome, PersonsAreMapped
  <2>3. mapping[token[x]] = mapping[x]
    BY <2>1, <2>2 DEF WInv, Whole, Agree
  <2>4. Canonical(mapping[x]) = mapping[x]
    BY <2>1, MappedIsLive, ChainsLeadHome
  <2> QED BY <2>1, <2>2, <2>3, <2>4
<1> QED BY <1>1, NothingToRebuild, MappedIsLive

(* A merge leads to an older person and every chain of merges ends at a    *)
(* live one, so followMerge returns, for any number of persons.            *)
THEOREM ChainsEndAtAnElder == Spec => []LeadsToElder
BY WholeLeadsToElder, InitIInv, NextIInv, InitKInv, NextKInv, InitRInv, NextRInv,
   InitWInv, NextWInv, PTL DEF Spec

(* A live person's trait is what foldTraits makes of every write that its  *)
(* distinct ids and the persons merged into it received.                   *)
THEOREM TraitsFoldEveryWrite == Spec => []TraitsAreFolded
BY WholeIsFolded, InitIInv, NextIInv, InitKInv, NextKInv, InitRInv, NextRInv,
   InitWInv, NextWInv, PTL DEF Spec

(* What the requests have projected is what rebuildProject would plan from *)
(* the assertion log, and an account token leads where its distinct id     *)
(* does.                                                                   *)
THEOREM RebuildFindsNothing == Spec => []RebuildAgrees
BY WholeAgrees, InitIInv, NextIInv, InitKInv, NextKInv, InitRInv, NextRInv,
   InitWInv, NextWInv, PTL DEF Spec
=============================================================================
