------------------------- MODULE PurchaseStateProofs -------------------------
(***************************************************************************)
(* The subscriptions table under concurrent purchase processing: every     *)
(* table and transaction keeps its types, a series has one row, and a row  *)
(* shows the newest event it has accepted, for any workers, notifications, *)
(* series and products.                                                    *)
(***************************************************************************)
EXTENDS PurchaseState, FiniteSetTheorems, TLAPS

TxFields == {"phase", "id", "person", "txn", "charge", "locks", "subs", "txns", "charges",
             "grants", "sync", "op", "announce", "changed", "decides", "crossed"}
RowFields == {"series", "product", "pending", "person", "status", "expires", "atEnd",
              "canceled", "latest", "mark"}
PatchKinds == SubscriptionKinds \cup {"transfer", "reverse"}

(* The tables the argument is about are functions of their keys.           *)
Shapes ==
  /\ story \in Stories
  /\ subs = [i \in Notices |-> subs[i]]
  /\ obeyed = [i \in Notices |-> obeyed[i]]
  /\ tx = [w \in Workers |-> tx[w]]
  /\ \A w \in Workers : DOMAIN tx[w] = TxFields
  /\ \A w \in Workers : tx[w].phase # "idle" => tx[w].id \in DOMAIN story
  /\ \A w \in Workers : tx[w].phase \in {"resolved", "claimed"} =>
       DOMAIN tx[w].subs = {} /\ tx[w].locks = {}

(* A row of the series of the notification that opened it.                 *)
SoundRow(i, row) ==
  /\ i \in DOMAIN story /\ DOMAIN row = RowFields
  /\ row.series = story[i].subject /\ row.series \in Series

Newest(i) ==
  \E k \in obeyed[i] : /\ \A j \in obeyed[i] : story[j].at <= story[k].at
                       /\ subs[i].mark = story[k].at
                       /\ Says(subs[i], story[k])

(* A committed row; a row that is absent has accepted nothing.             *)
Committed(i) ==
  /\ obeyed[i] \subseteq DOMAIN story
  /\ subs[i] = NoRow => obeyed[i] = {}
  /\ subs[i] # NoRow => SoundRow(i, subs[i]) /\ Newest(i)

(* What an open transaction may leave in row i: what its own notification  *)
(* says, over nothing newer; it opens a row only under the lock of a       *)
(* series that has none.                                                   *)
Writable(t, i) ==
  /\ i \in Notices
  /\ SoundRow(i, t.subs[i])
  /\ t.subs[i].mark = story[t.id].at
  /\ Says(t.subs[i], story[t.id])
  /\ subs[i] # NoRow => subs[i].mark <= story[t.id].at
  /\ subs[i] = NoRow => /\ story[i].subject \in t.locks
                        /\ RowsOf(subs, story[i].subject) = {}

Writing(t) ==
  /\ \A i \in DOMAIN t.subs : Writable(t, i)
  /\ \A i, j \in DOMAIN t.subs : i = j

Apart(t, u) == t.locks \cap u.locks = {} /\ DOMAIN t.subs \cap DOMAIN u.subs = {}

OneRowEach ==
  \A i, j \in Notices : subs[i] # NoRow /\ subs[j] # NoRow /\ subs[i].series = subs[j].series
                          => i = j

IInv ==
  /\ Shapes
  /\ \A i \in Notices : Committed(i)
  /\ OneRowEach
  /\ \A w \in Workers : tx[w].phase \in Written => Writing(tx[w])
  /\ \A v, w \in Workers : v # w /\ tx[v].phase \in Open /\ tx[w].phase \in Open =>
       Apart(tx[v], tx[w])

-----------------------------------------------------------------------------
(* A notification of a story names what its kind is about.                 *)
LEMMA StoryFacts ==
  ASSUME Shapes, NEW i \in DOMAIN story
  PROVE  /\ i \in Notices
         /\ story[i].subject \in Series \cup Charges
         /\ story[i].at \in Int
         /\ story[i].kind \in Kinds
         /\ story[i].kind \in SubscriptionKinds => story[i].subject \in Series
         /\ None \notin Series
<1>1. story[i] \in NoticeType /\ i \in Notices /\ None \notin Series
      /\ (story[i].kind \in SubscriptionKinds => story[i].subject \in Series)
  BY PurchaseAssumption DEF Shapes
<1>2. story[i].at \in 1..Horizon /\ Horizon \in Nat
  BY <1>1, PurchaseAssumption DEF NoticeType
<1>3. story[i].at \in Int
  BY <1>2
<1> QED BY <1>1, <1>3 DEF NoticeType

LEMMA IdleFacts ==
  DOMAIN Idle = TxFields /\ Idle.phase = "idle" /\ DOMAIN Idle.subs = {} /\ Idle.locks = {}
BY DEF Idle, TxFields, Nothing

LEMMA NoRowFacts == NoRow.series = None /\ DOMAIN NoRow = {"series"}
BY DEF NoRow

LEMMA OnlyFacts ==
  ASSUME NEW x, NEW v
  PROVE  DOMAIN Only(x, v) = {x} /\ Only(x, v)[x] = v
BY DEF Only

(* A lookup finds committed rows of the series, and finds one if it can.   *)
LEMMA FoundRows ==
  ASSUME IInv, NEW s \in Series, NEW p
  PROVE  /\ FindSeries(subs, s, p) \subseteq RowsOf(subs, s)
         /\ FindSeries(subs, s, p) = {} => RowsOf(subs, s) = {}
         /\ \A i \in RowsOf(subs, s) : /\ i \in Notices /\ subs[i] # NoRow
                                        /\ SoundRow(i, subs[i]) /\ subs[i].series = s
<1>1. Sibling(subs, s) \subseteq RowsOf(subs, s)
  BY DEF Sibling
<1>2. FindSeries(subs, s, p) \subseteq RowsOf(subs, s)
  BY <1>1 DEF FindSeries
<1>3. \A i \in RowsOf(subs, s) : i \in Notices /\ subs[i] # NoRow /\ subs[i].series = s
  BY PurchaseAssumption, NoRowFacts DEF RowsOf
<1>4. \A i \in RowsOf(subs, s) : SoundRow(i, subs[i]) /\ subs[i].mark \in Int
  <2> SUFFICES ASSUME NEW i \in RowsOf(subs, s)
               PROVE  SoundRow(i, subs[i]) /\ subs[i].mark \in Int
    OBVIOUS
  <2>1. SoundRow(i, subs[i]) /\ Newest(i) /\ obeyed[i] \subseteq DOMAIN story
    BY <1>3 DEF IInv, Committed
  <2>2. PICK k \in obeyed[i] : subs[i].mark = story[k].at
    BY <2>1 DEF Newest
  <2> QED BY <2>1, <2>2, StoryFacts DEF IInv
<1>5. ASSUME NEW i \in RowsOf(subs, s) PROVE i \in Sibling(subs, s)
  <2>1. \A j \in RowsOf(subs, s) : j = i
    BY <1>3 DEF IInv, OneRowEach
  <2>2. subs[i].mark <= subs[i].mark
    BY <1>4
  <2> QED BY <2>1, <2>2 DEF Sibling
<1>6. FindSeries(subs, s, p) = {} => RowsOf(subs, s) = {}
  BY <1>5 DEF FindSeries
<1> QED BY <1>2, <1>3, <1>4, <1>6

-----------------------------------------------------------------------------
(* A row and what the update of a notification makes of it.                *)
LEMMA PatchFacts ==
  ASSUME NEW row, DOMAIN row = RowFields, NEW n, n.kind \in PatchKinds
  PROVE  /\ DOMAIN Patch(row, n) = RowFields
         /\ Patch(row, n).series = row.series
         /\ Says(Patch(row, n), n)
<1> USE DEF RowFields
<1>1. CASE n.kind \in PaidKinds
  <2>1. Patch(row, n) = PaidPeriod(row, n)
    BY <1>1 DEF Patch, PaidKinds
  <2>2. /\ DOMAIN PaidPeriod(row, n) = RowFields
        /\ PaidPeriod(row, n).series = row.series
        /\ PaidPeriod(row, n).status = "Active"
        /\ PaidPeriod(row, n).expires = n.date
        /\ PaidPeriod(row, n).product = n.product
    BY DEF PaidPeriod
  <2> QED BY <1>1, <2>1, <2>2 DEF Says, PaidKinds
<1>2. CASE n.kind \in KnownKinds
  <2>1. CASE n.kind = "cancel"
    <3>1. Patch(row, n) = [row EXCEPT !.status = "Canceled", !.atEnd = FALSE, !.canceled = n.date]
      BY <2>1 DEF Patch, PaidKinds
    <3> QED BY <2>1, <3>1 DEF Says, PaidKinds
  <2>2. CASE n.kind = "cancelAtEnd"
    <3>1. Patch(row, n) = [row EXCEPT !.atEnd = TRUE, !.canceled = n.date]
      BY <2>2 DEF Patch, PaidKinds
    <3> QED BY <2>2, <3>1 DEF Says, PaidKinds
  <2>3. CASE n.kind = "expire"
    <3>1. Patch(row, n) = [row EXCEPT !.status = "Canceled", !.expires = n.date]
      BY <2>3 DEF Patch, PaidKinds
    <3> QED BY <2>3, <3>1 DEF Says, PaidKinds
  <2>4. CASE n.kind = "revoke"
    <3>1. Patch(row, n) = [row EXCEPT !.status = "Canceled", !.expires = n.date,
                                      !.canceled = n.date]
      BY <2>4 DEF Patch, PaidKinds
    <3> QED BY <2>4, <3>1 DEF Says, PaidKinds
  <2> QED BY <1>2, <2>1, <2>2, <2>3, <2>4 DEF KnownKinds
<1>3. CASE n.kind \in MutationKinds
  <2>1. Says(Patch(row, n), n)
    BY <1>3 DEF Says, PaidKinds, MutationKinds
  <2>2. CASE n.kind = "resume"
    <3>1. Patch(row, n) = [row EXCEPT !.atEnd = FALSE, !.canceled = 0,
                                !.status = IF StillRunning(row, n) THEN "Active" ELSE @]
      BY <2>2 DEF Patch, PaidKinds
    <3> QED BY <2>1, <3>1
  <2>3. CASE n.kind \in {"extend", "prefer", "touch"}
    BY <2>1, <2>3 DEF Patch, PaidKinds
  <2> QED BY <1>3, <2>2, <2>3 DEF MutationKinds
<1>4. CASE n.kind \in {"transfer", "reverse"}
  BY <1>4 DEF Patch, Says, PaidKinds
<1> QED BY <1>1, <1>2, <1>3, <1>4 DEF PatchKinds, SubscriptionKinds

LEMMA UpdatedFacts ==
  ASSUME NEW row, DOMAIN row = RowFields, NEW n, n.kind \in PatchKinds, Fresher(row, n)
  PROVE  /\ DOMAIN Updated(row, n) = RowFields
         /\ Updated(row, n).series = row.series
         /\ Updated(row, n).mark = n.at
         /\ Says(Updated(row, n), n)
<1> DEFINE q == Patch(row, n)
<1>1. DOMAIN q = RowFields /\ q.series = row.series /\ Says(q, n)
  BY PatchFacts
<1>2. Updated(row, n) = [q EXCEPT !.mark = n.at]
  BY DEF Updated
<1> HIDE DEF q
<1>3. /\ DOMAIN Updated(row, n) = RowFields
      /\ Updated(row, n).series = q.series
      /\ Updated(row, n).mark = n.at
      /\ \A f \in RowFields \ {"mark"} : Updated(row, n)[f] = q[f]
  BY <1>1, <1>2 DEF RowFields
<1>4. /\ Updated(row, n).status = q.status /\ Updated(row, n).expires = q.expires
      /\ Updated(row, n).product = q.product /\ Updated(row, n).person = q.person
  BY <1>3 DEF RowFields
<1> QED BY <1>1, <1>3, <1>4 DEF Says

LEMMA NewRowFacts ==
  ASSUME NEW n, n.kind \in PaidKinds, NEW p
  PROVE  /\ DOMAIN NewRow(n, p) = RowFields
         /\ NewRow(n, p).series = n.subject
         /\ NewRow(n, p).mark = n.at
         /\ Says(NewRow(n, p), n)
BY DEF NewRow, RowFields, Says, PaidKinds

-----------------------------------------------------------------------------
(* Transactions that differ in no column of the subscriptions table.       *)
SameRows(t, u) ==
  DOMAIN t = TxFields /\ t.id = u.id /\ t.locks = u.locks /\ t.subs = u.subs

LEMMA SideWrites ==
  ASSUME NEW t, DOMAIN t = TxFields, NEW n, NEW c, NEW row, NEW x
  PROVE  /\ SameRows(WithTxn(t, n), t)
         /\ SameRows(WithTxnUpdate(t, n, x), t)
         /\ SameRows(WithCharge(t, c, row), t)
         /\ SameRows(WithChargeUpdate(t, c, n, row), t)
         /\ SameRows(Synced(t, x), t)
         /\ SameRows(Announcing(t, x), t)
<1> USE DEF SameRows, TxFields
<1>1. SameRows(WithTxn(t, n), t)
  BY DEF WithTxn
<1>2. SameRows(WithTxnUpdate(t, n, x), t)
  BY DEF WithTxnUpdate
<1>3. SameRows(WithCharge(t, c, row), t)
  BY DEF WithCharge
<1>4. SameRows(WithCharge(t, c, [row EXCEPT !.mark = n.at]), t)
  BY DEF WithCharge
<1>5. SameRows(WithChargeUpdate(t, c, n, row), t)
  BY <1>4 DEF WithChargeUpdate
<1>6. SameRows(Synced(t, x), t) /\ SameRows(Announcing(t, x), t)
  BY DEF Synced, Announcing
<1> QED BY <1>1, <1>2, <1>3, <1>5, <1>6

LEMMA WithRowFacts ==
  ASSUME NEW t, DOMAIN t = TxFields, NEW i, NEW row
  PROVE  /\ DOMAIN WithRow(t, i, row) = TxFields
         /\ WithRow(t, i, row).id = t.id /\ WithRow(t, i, row).locks = t.locks
         /\ WithRow(t, i, row).subs = Only(i, row)
BY DEF WithRow, TxFields

LEMMA LockingFacts ==
  ASSUME NEW w \in Workers, DOMAIN tx[w] = TxFields
  PROVE  /\ DOMAIN Locking(w) = TxFields /\ Locking(w).id = tx[w].id
         /\ Locking(w).locks = {N(w).subject} /\ Locking(w).subs = tx[w].subs
BY DEF Locking, TxFields

-----------------------------------------------------------------------------
(* What a worker that claimed or resolved its notification may write: no   *)
(* row, or one row that nobody else is writing, under the locks it takes.  *)
Fit(w, t) ==
  /\ DOMAIN t = TxFields /\ t.id = tx[w].id
  /\ Writing(t)
  /\ \A s \in t.locks : LockFree(w, s)
  /\ \A i \in DOMAIN t.subs : subs[i] # NoRow => RowFree(w, i)

LEMMA WritesFacts ==
  ASSUME Shapes, NEW w \in Workers, NEW t, DOMAIN t = TxFields, Writes(w, t)
  PROVE  /\ tx' = [v \in Workers |-> tx'[v]]
         /\ \A v \in Workers : DOMAIN tx'[v] = TxFields
         /\ tx'[w].phase = "written" /\ tx'[w].id = t.id
         /\ tx'[w].locks = t.locks /\ tx'[w].subs = t.subs
         /\ \A v \in Workers \ {w} :
              /\ tx'[v].phase = tx[v].phase /\ tx'[v].id = tx[v].id
              /\ tx'[v].locks = tx[v].locks /\ tx'[v].subs = tx[v].subs
<1>1. PICK d, c : tx' = [v \in Workers |->
               IF v = w THEN [t EXCEPT !.phase = "written", !.decides = d, !.crossed = c[w]]
               ELSE [tx[v] EXCEPT !.crossed = c[v]]]
  <2> DEFINE mine == t.changed \cup {t.sync[k] : k \in DOMAIN t.sync}
             shared == [v \in Workers |->
                   IF v # w /\ tx[v].phase \in Written THEN tx[v].decides \cap mine ELSE {}]
             c == [v \in Workers |-> IF v = w THEN UNION {shared[u] : u \in Workers}
                                     ELSE tx[v].crossed \cup shared[v]]
  <2>1. \A v \in Workers : c[v] = IF v = w THEN UNION {shared[u] : u \in Workers}
                                  ELSE tx[v].crossed \cup shared[v]
    OBVIOUS
  <2>2. tx' = [v \in Workers |->
               IF v = w THEN [t EXCEPT !.phase = "written", !.decides = mine,
                                       !.crossed = UNION {shared[u] : u \in Workers}]
               ELSE [tx[v] EXCEPT !.crossed = @ \cup shared[v]]]
    BY DEF Writes
  <2> HIDE DEF c, shared, mine
  <2>3. tx' = [v \in Workers |->
               IF v = w THEN [t EXCEPT !.phase = "written", !.decides = mine, !.crossed = c[w]]
               ELSE [tx[v] EXCEPT !.crossed = c[v]]]
    BY <2>1, <2>2
  <2> QED BY <2>3
<1>2. \A v \in Workers : DOMAIN tx[v] = TxFields
  BY DEF Shapes
<1>3. tx'[w] = [t EXCEPT !.phase = "written", !.decides = d, !.crossed = c[w]]
  BY <1>1
<1>4. \A v \in Workers \ {w} : tx'[v] = [tx[v] EXCEPT !.crossed = c[v]]
  BY <1>1
<1>5. /\ DOMAIN tx'[w] = TxFields /\ tx'[w].phase = "written" /\ tx'[w].id = t.id
      /\ tx'[w].locks = t.locks /\ tx'[w].subs = t.subs
  BY <1>3 DEF TxFields
<1>6. ASSUME NEW v \in Workers \ {w}
      PROVE  /\ DOMAIN tx'[v] = TxFields
             /\ tx'[v].phase = tx[v].phase /\ tx'[v].id = tx[v].id
             /\ tx'[v].locks = tx[v].locks /\ tx'[v].subs = tx[v].subs
  BY <1>2, <1>4 DEF TxFields
<1> QED BY <1>1, <1>5, <1>6

LEMMA WriteStep ==
  ASSUME IInv, NEW w \in Workers, NEW t, Fit(w, t), Writes(w, t),
         UNCHANGED <<story, subs, obeyed>>, tx[w].phase # "idle"
  PROVE  IInv'
<1>1. /\ tx' = [v \in Workers |-> tx'[v]]
      /\ \A v \in Workers : DOMAIN tx'[v] = TxFields
      /\ tx'[w].phase = "written" /\ tx'[w].id = t.id
      /\ tx'[w].locks = t.locks /\ tx'[w].subs = t.subs
      /\ \A v \in Workers \ {w} :
           /\ tx'[v].phase = tx[v].phase /\ tx'[v].id = tx[v].id
           /\ tx'[v].locks = tx[v].locks /\ tx'[v].subs = tx[v].subs
  BY WritesFacts DEF IInv, Fit
<1>2. Shapes'
  BY <1>1 DEF IInv, Shapes, Fit
<1>3. /\ \A i \in Notices : Committed(i)' <=> Committed(i)
      /\ OneRowEach' <=> OneRowEach
  BY DEF Committed, OneRowEach, Newest, SoundRow
<1>4. ASSUME NEW v \in Workers, tx'[v].phase \in Written PROVE Writing(tx[v])'
  <2>1. CASE v = w
    BY <1>1, <2>1 DEF Fit, Writing, Writable, SoundRow, RowsOf
  <2>2. CASE v # w
    BY <1>1, <1>4, <2>2 DEF IInv, Writing, Writable, SoundRow, RowsOf
  <2> QED BY <2>1, <2>2
<1>5. ASSUME NEW v \in Workers \ {w}, tx[v].phase \in Open PROVE Apart(t, tx[v])
  <2>1. v \in Others(w)
    BY <1>5 DEF Others
  <2>2. t.locks \cap tx[v].locks = {}
    BY <2>1 DEF Fit, LockFree
  <2>3. ASSUME NEW i \in DOMAIN t.subs, i \in DOMAIN tx[v].subs PROVE FALSE
    <3>1. subs[i] = NoRow
      BY <2>1, <2>3 DEF Fit, RowFree
    <3>2. story[i].subject \in t.locks
      BY <3>1, <2>3 DEF Fit, Writing, Writable
    <3>3. tx[v].phase \in Written
      BY <1>5, <2>3 DEF Open, IInv, Shapes
    <3>4. story[i].subject \in tx[v].locks
      BY <3>1, <3>3, <2>3 DEF IInv, Writing, Writable
    <3> QED BY <3>2, <3>4, <2>2
  <2> QED BY <2>2, <2>3 DEF Apart
<1>6. ASSUME NEW u \in Workers, NEW v \in Workers, u # v,
             tx'[u].phase \in Open, tx'[v].phase \in Open
      PROVE  Apart(tx[u], tx[v])'
  <2>1. CASE u = w
    BY <1>1, <1>5, <1>6, <2>1 DEF Apart
  <2>2. CASE v = w
    BY <1>1, <1>5, <1>6, <2>2 DEF Apart
  <2>3. CASE u # w /\ v # w
    BY <1>1, <1>6, <2>3 DEF IInv, Apart
  <2> QED BY <2>1, <2>2, <2>3
<1> QED BY <1>2, <1>3, <1>4, <1>6 DEF IInv

(* A step that leaves the rows alone: a transaction begins, ends, claims   *)
(* its key, or works on other tables.                                      *)
Quiet(t, u) ==
  /\ DOMAIN u = TxFields
  /\ u.phase # "idle" => u.id \in DOMAIN story
  /\ u.phase \in {"resolved", "claimed"} => DOMAIN u.subs = {} /\ u.locks = {}
  /\ u.phase \in Written => /\ t.phase \in Written
                            /\ u.id = t.id /\ u.locks = t.locks /\ u.subs = t.subs

LEMMA QuietStep ==
  ASSUME IInv, NEW w \in Workers, NEW u, Quiet(tx[w], u), tx' = [tx EXCEPT ![w] = u],
         UNCHANGED <<story, subs, obeyed>>
  PROVE  IInv'
<1>1. /\ tx' = [v \in Workers |-> tx'[v]] /\ tx'[w] = u
      /\ \A v \in Workers \ {w} : tx'[v] = tx[v]
  BY DEF IInv, Shapes
<1>2. Shapes'
  BY <1>1 DEF IInv, Shapes, Quiet
<1>3. /\ \A i \in Notices : Committed(i)' <=> Committed(i)
      /\ OneRowEach' <=> OneRowEach
  BY DEF Committed, OneRowEach, Newest, SoundRow
<1>4. ASSUME NEW v \in Workers, tx'[v].phase \in Written PROVE Writing(tx[v])'
  <2>1. CASE v = w
    <3>1. Writing(tx[w]) /\ u.id = tx[w].id /\ u.locks = tx[w].locks /\ u.subs = tx[w].subs
      BY <1>1, <1>4, <2>1 DEF Quiet, IInv
    <3> QED BY <1>1, <2>1, <3>1 DEF Writing, Writable, SoundRow, RowsOf
  <2>2. CASE v # w
    <3>1. Writing(tx[v]) /\ tx'[v] = tx[v]
      BY <1>1, <1>4, <2>2 DEF IInv
    <3> QED BY <3>1 DEF Writing, Writable, SoundRow, RowsOf
  <2> QED BY <2>1, <2>2
<1>5. ASSUME NEW v \in Workers \ {w}, tx[v].phase \in Open, u.phase \in Open
      PROVE  Apart(u, tx[v]) /\ Apart(tx[v], u)
  <2>1. CASE u.phase \in Written
    BY <1>5, <2>1 DEF Quiet, IInv, Apart, Open
  <2>2. CASE u.phase = "claimed"
    BY <2>2 DEF Quiet, Apart
  <2> QED BY <1>5, <2>1, <2>2 DEF Open
<1>6. ASSUME NEW v \in Workers, NEW x \in Workers, x # v,
             tx'[x].phase \in Open, tx'[v].phase \in Open
      PROVE  Apart(tx[x], tx[v])'
  <2>1. CASE x = w
    BY <1>1, <1>5, <1>6, <2>1
  <2>2. CASE v = w
    BY <1>1, <1>5, <1>6, <2>2
  <2>3. CASE x # w /\ v # w
    BY <1>1, <1>6, <2>3 DEF IInv
  <2> QED BY <2>1, <2>2, <2>3
<1> QED BY <1>2, <1>3, <1>4, <1>6 DEF IInv

(* The end of a transaction, by Ends.                                      *)
LEMMA EndStep ==
  ASSUME IInv, NEW w \in Workers, tx[w].phase # "idle", NEW p \in {"idle", "rebind"},
         Ends(w, p), UNCHANGED <<story, subs, obeyed>>
  PROVE  IInv'
<1>1. CASE p = "idle"
  <2>1. tx' = [tx EXCEPT ![w] = Idle]
    BY <1>1 DEF Ends
  <2>2. Quiet(tx[w], Idle)
    BY IdleFacts DEF Quiet, Written
  <2> QED BY <2>1, <2>2, QuietStep
<1>2. CASE p = "rebind"
  <2> DEFINE u == [tx[w] EXCEPT !.phase = "rebind"]
  <2>1. tx' = [tx EXCEPT ![w] = u]
    BY <1>2 DEF Ends
  <2>2. DOMAIN tx[w] = TxFields /\ tx[w].id \in DOMAIN story
    BY DEF IInv, Shapes
  <2>3. Quiet(tx[w], u)
    BY <2>2 DEF Quiet, Written, TxFields
  <2> QED BY <2>1, <2>3, QuietStep
<1> QED BY <1>1, <1>2

LEMMA QuietActions ==
  ASSUME IInv, NEW w \in Workers,
         \/ \E i \in Notices : Receive(w, i)
         \/ Claim(w) \/ Rebind(w) \/ ReadPerks(w) \/ WritePerks(w) \/ Abort(w)
  PROVE  IInv'
<1>1. DOMAIN tx[w] = TxFields
  BY DEF IInv, Shapes
<1> USE <1>1
<1>2. CASE \E i \in Notices : Receive(w, i)
  <2>1. PICK i \in Notices : Receive(w, i)
    BY <1>2
  <2> DEFINE u == [Idle EXCEPT !.phase = "resolved", !.id = i, !.person = bound[story[i].subject]]
  <2>2. u.phase = "resolved" /\ u.id = i /\ DOMAIN u = TxFields
        /\ DOMAIN u.subs = {} /\ u.locks = {}
    BY IdleFacts DEF TxFields
  <2>3. /\ tx' = [tx EXCEPT ![w] = u] /\ i \in DOMAIN story
        /\ UNCHANGED <<story, subs, obeyed>>
    BY <2>1 DEF Receive, unwritten, tables
  <2> HIDE DEF u
  <2>4. Quiet(tx[w], u)
    BY <2>2, <2>3 DEF Quiet, Written
  <2> QED BY <2>3, <2>4, QuietStep
<1>3. CASE Claim(w)
  <2>1. tx[w].phase = "resolved" /\ UNCHANGED <<story, subs, obeyed>>
    BY <1>3 DEF Claim, unwritten, tables
  <2>2. CASE tx' = [tx EXCEPT ![w] = Idle]
    <3>1. Quiet(tx[w], Idle)
      BY IdleFacts DEF Quiet, Written
    <3> QED BY <2>1, <2>2, <3>1, QuietStep
  <2>3. CASE tx' # [tx EXCEPT ![w] = Idle]
    <3>1. PICK x, c : tx' = [tx EXCEPT ![w].phase = "claimed", ![w].txn = x, ![w].charge = c]
      BY <1>3, <2>3 DEF Claim
    <3> DEFINE u == [tx[w] EXCEPT !.phase = "claimed", !.txn = x, !.charge = c]
    <3>2. tx' = [tx EXCEPT ![w] = u]
      BY <3>1 DEF IInv, Shapes
    <3>3. u.phase = "claimed" /\ u.id = tx[w].id /\ DOMAIN u = TxFields
          /\ u.subs = tx[w].subs /\ u.locks = tx[w].locks
      BY DEF TxFields
    <3> HIDE DEF u
    <3>4. Quiet(tx[w], u)
      BY <2>1, <3>3 DEF Quiet, Written, IInv, Shapes
    <3> QED BY <2>1, <3>2, <3>4, QuietStep
  <2> QED BY <2>2, <2>3
<1>4. CASE Rebind(w)
  BY <1>4, EndStep DEF Rebind, tables
<1>5. CASE ReadPerks(w) \/ WritePerks(w)
  <2>1. tx[w].phase \in Written /\ UNCHANGED <<story, subs, obeyed>>
    BY <1>5 DEF ReadPerks, WritePerks, unwritten, tables, Written
  <2>2. PICK u : /\ tx' = [tx EXCEPT ![w] = u]
                 /\ u.phase \in Written /\ DOMAIN u = TxFields
                 /\ u.id = tx[w].id /\ u.locks = tx[w].locks /\ u.subs = tx[w].subs
    <3>1. CASE ReadPerks(w)
      <4>1. PICK op, s :
              tx' = [tx EXCEPT ![w] = IF op = "none" THEN [tx[w] EXCEPT !.sync = s]
                                      ELSE [tx[w] EXCEPT !.op = op, !.phase = "read"]]
        BY <3>1 DEF ReadPerks, IInv, Shapes
      <4>2. CASE op = "none"
        <5> DEFINE u == [tx[w] EXCEPT !.sync = s]
        <5>1. tx' = [tx EXCEPT ![w] = u]
          BY <4>1, <4>2
        <5>2. u.phase \in Written /\ DOMAIN u = TxFields
              /\ u.id = tx[w].id /\ u.locks = tx[w].locks /\ u.subs = tx[w].subs
          BY <2>1 DEF TxFields
        <5> QED BY <5>1, <5>2
      <4>3. CASE op # "none"
        <5> DEFINE u == [tx[w] EXCEPT !.op = op, !.phase = "read"]
        <5>1. tx' = [tx EXCEPT ![w] = u]
          BY <4>1, <4>3
        <5>2. u.phase \in Written /\ DOMAIN u = TxFields
              /\ u.id = tx[w].id /\ u.locks = tx[w].locks /\ u.subs = tx[w].subs
          BY DEF TxFields, Written
        <5> QED BY <5>1, <5>2
      <4> QED BY <4>2, <4>3
    <3>2. CASE WritePerks(w)
      <4>1. PICK s, g : tx' = [tx EXCEPT ![w].phase = "written", ![w].op = "none",
                                         ![w].sync = s, ![w].grants = g]
        BY <3>2 DEF WritePerks
      <4> DEFINE u == [tx[w] EXCEPT !.phase = "written", !.op = "none", !.sync = s, !.grants = g]
      <4>2. tx' = [tx EXCEPT ![w] = u]
        BY <4>1 DEF IInv, Shapes
      <4>3. u.phase \in Written /\ DOMAIN u = TxFields
            /\ u.id = tx[w].id /\ u.locks = tx[w].locks /\ u.subs = tx[w].subs
        BY DEF TxFields, Written
      <4> QED BY <4>2, <4>3
    <3> QED BY <1>5, <3>1, <3>2
  <2>3. Quiet(tx[w], u)
    BY <2>1, <2>2 DEF Quiet, Written, IInv, Shapes
  <2> QED BY <2>1, <2>2, <2>3, QuietStep
<1>6. CASE Abort(w)
  <2>1. Quiet(tx[w], Idle)
    BY IdleFacts DEF Quiet, Written
  <2> QED BY <1>6, <2>1, QuietStep DEF Abort, tables
<1> QED BY <1>2, <1>3, <1>4, <1>5, <1>6 

-----------------------------------------------------------------------------
(* A transaction that has written no row of the subscriptions table yet.   *)
Plain(w, t) ==
  /\ DOMAIN t = TxFields /\ t.id = tx[w].id
  /\ DOMAIN t.subs = {}
  /\ \A s \in t.locks : LockFree(w, s)

LEMMA SameRowsFit ==
  ASSUME NEW w \in Workers, NEW t, NEW u, SameRows(t, u)
  PROVE  /\ Plain(w, u) => Plain(w, t)
         /\ Fit(w, u) => Fit(w, t)
BY DEF SameRows, Plain, Fit, Writing, Writable

LEMMA PlainFit ==
  ASSUME NEW w \in Workers, NEW t, Plain(w, t)
  PROVE  Fit(w, t)
BY DEF Plain, Fit, Writing

LEMMA ClaimedIsPlain ==
  ASSUME IInv, NEW w \in Workers, tx[w].phase \in {"resolved", "claimed"}
  PROVE  /\ Plain(w, tx[w])
         /\ LockFree(w, N(w).subject) => Plain(w, Locking(w))
         /\ tx[w].id \in DOMAIN story /\ tx[w].phase # "idle"
<1>1. /\ DOMAIN tx[w] = TxFields /\ DOMAIN tx[w].subs = {} /\ tx[w].locks = {}
      /\ tx[w].id \in DOMAIN story
  BY DEF IInv, Shapes
<1> QED BY <1>1, LockingFacts DEF Plain

LEMMA UpdateFits ==
  ASSUME IInv, NEW w \in Workers, NEW t, Plain(w, t), tx[w].id \in DOMAIN story,
         NEW s \in Series, NEW i \in RowsOf(subs, s), RowFree(w, i), N(w).kind \in PatchKinds
  PROVE  Fit(w, WithUpdate(t, i, N(w)))
<1> DEFINE n == N(w)
           q == Updated(subs[i], n)
<1>1. i \in Notices /\ subs[i] # NoRow /\ SoundRow(i, subs[i])
  BY FoundRows
<1>2. CASE Fresher(subs[i], n)
  <2>1. WithUpdate(t, i, n) = WithRow(t, i, q)
    BY <1>2 DEF WithUpdate
  <2>2. DOMAIN q = RowFields /\ q.series = subs[i].series /\ q.mark = n.at /\ Says(q, n)
    BY <1>1, <1>2, UpdatedFacts DEF SoundRow
  <2> HIDE DEF q
  <2> DEFINE u == WithRow(t, i, q)
  <2>3. /\ DOMAIN u = TxFields /\ u.id = tx[w].id /\ u.locks = t.locks
        /\ DOMAIN u.subs = {i} /\ u.subs[i] = q
    <3>1. DOMAIN t = TxFields /\ t.id = tx[w].id
      BY DEF Plain
    <3>2. /\ DOMAIN u = TxFields /\ u.id = tx[w].id /\ u.locks = t.locks
          /\ u.subs = Only(i, q)
      BY <3>1, WithRowFacts
    <3> HIDE DEF u
    <3> QED BY <3>2, OnlyFacts
  <2> HIDE DEF u
  <2>4. Writable(u, i)
    BY <1>1, <1>2, <2>2, <2>3 DEF Writable, SoundRow, Fresher, N
  <2>5. Fit(w, u)
    BY <2>3, <2>4 DEF Fit, Writing, Plain
  <2> QED BY <2>1, <2>5 DEF u
<1>3. CASE ~Fresher(subs[i], n)
  BY <1>3, PlainFit DEF WithUpdate
<1> QED BY <1>2, <1>3

LEMMA OpeningFits ==
  ASSUME IInv, NEW w \in Workers, NEW t, Plain(w, t), tx[w].id \in DOMAIN story,
         t.locks = {N(w).subject}, N(w).kind \in PaidKinds, NEW p, NEW q,
         FindSeries(subs, N(w).subject, q) = {}
  PROVE  Fit(w, WithRow(t, tx[w].id, NewRow(N(w), p)))
<1> DEFINE n == N(w)
           i == tx[w].id
           row == NewRow(n, p)
           u == WithRow(t, i, row)
<1>1. n.subject \in Series /\ i \in Notices
  BY StoryFacts DEF IInv, N, SubscriptionKinds
<1>2. RowsOf(subs, n.subject) = {}
  BY <1>1, FoundRows
<1>3. subs[i] = NoRow
  <2> SUFFICES ASSUME subs[i] # NoRow PROVE FALSE
    OBVIOUS
  <2>1. subs[i].series = n.subject
    BY <1>1 DEF IInv, Committed, SoundRow, N
  <2> QED BY <1>1, <1>2, <2>1 DEF RowsOf
<1>4. DOMAIN row = RowFields /\ row.series = n.subject /\ row.mark = n.at /\ Says(row, n)
  BY NewRowFacts
<1> HIDE DEF row
<1>5. /\ DOMAIN u = TxFields /\ u.id = i /\ u.locks = t.locks
      /\ DOMAIN u.subs = {i} /\ u.subs[i] = row
  <2>1. DOMAIN t = TxFields /\ t.id = i
    BY DEF Plain
  <2>2. /\ DOMAIN u = TxFields /\ u.id = t.id /\ u.locks = t.locks
        /\ u.subs = Only(i, row)
    <3> HIDE DEF i, n
    <3> QED BY <2>1, WithRowFacts
  <2> HIDE DEF u
  <2> QED BY <2>1, <2>2, OnlyFacts
<1> HIDE DEF u
<1>6. Writable(u, i)
  BY <1>1, <1>2, <1>3, <1>4, <1>5 DEF Writable, SoundRow, N
<1>7. Fit(w, u)
  BY <1>3, <1>5, <1>6 DEF Fit, Writing, Plain
<1> QED BY <1>7 DEF u, row

-----------------------------------------------------------------------------
(* The operations, one lemma each: what the worker writes is Fit.          *)
LEMMA OperationStep ==
  ASSUME IInv, NEW w \in Workers, tx[w].phase \in {"resolved", "claimed"},
         NEW t, Fit(w, t), Writes(w, t), UNCHANGED unwritten
  PROVE  IInv'
BY WriteStep, ClaimedIsPlain DEF unwritten, tables

(* A paid event takes the series' lock and completes the transaction row.  *)
LEMMA PaidIsPlain ==
  ASSUME IInv, NEW w \in Workers, NEW n, NEW x, Plain(w, Locking(w))
  PROVE  LET t == Synced(WithTxn(Locking(w), n), x)
         IN  Plain(w, t) /\ DOMAIN t = TxFields /\ t.locks = {N(w).subject}
<1> DEFINE b == WithTxn(Locking(w), n)
           t == Synced(b, x)
<1>1. DOMAIN tx[w] = TxFields
  BY DEF IInv, Shapes
<1>2. SameRows(b, Locking(w))
  BY <1>1, LockingFacts, SideWrites
<1> HIDE DEF b
<1>3. SameRows(t, b)
  BY <1>2, SideWrites DEF SameRows
<1> HIDE DEF t
<1>4. t.locks = {N(w).subject} /\ DOMAIN t = TxFields
  BY <1>1, <1>2, <1>3, LockingFacts DEF SameRows
<1>5. Plain(w, t)
  BY <1>2, <1>3, SameRowsFit
<1> QED BY <1>4, <1>5 DEF t, b

LEMMA StartStep ==
  ASSUME IInv, NEW w \in Workers, StartSubscription(w)
  PROVE  IInv'
<1> DEFINE n == N(w)
           t == Synced(WithTxn(Locking(w), n), <<tx[w].person>>)
           found == FindSeries(subs, n.subject, n.product)
<1>1. tx[w].phase = "claimed" /\ n.kind = "start" /\ LockFree(w, n.subject) /\ UNCHANGED unwritten
  BY DEF StartSubscription
<1>2. tx[w].id \in DOMAIN story /\ Plain(w, Locking(w)) /\ n.subject \in Series
  BY <1>1, ClaimedIsPlain, StoryFacts DEF IInv, N, SubscriptionKinds, PaidKinds
<1>3. Plain(w, t) /\ DOMAIN t = TxFields /\ t.locks = {n.subject}
  BY <1>2, PaidIsPlain
<1>4. n.kind \in PaidKinds /\ n.kind \in PatchKinds
  BY <1>1 DEF PaidKinds, PatchKinds, SubscriptionKinds
<1>5. found \subseteq RowsOf(subs, n.subject)
  BY <1>2, FoundRows
<1>6. CASE found = {} /\ Writes(w, Announcing(WithRow(t, tx[w].id, NewRow(n, tx[w].person)),
                                              {n.subject}))
  <2> DEFINE u == WithRow(t, tx[w].id, NewRow(n, tx[w].person))
  <2>1. Fit(w, u)
    BY <1>2, <1>3, <1>4, <1>6, OpeningFits
  <2> HIDE DEF u
  <2>2. Fit(w, Announcing(u, {n.subject}))
    BY <2>1, SideWrites, SameRowsFit DEF Fit
  <2> QED BY <1>1, <1>6, <2>2, OperationStep DEF u
<1>7. CASE Writes(w, t)
  BY <1>1, <1>3, <1>7, PlainFit, OperationStep
<1>8. CASE \E i \in found : RowFree(w, i) /\ Writes(w, WithUpdate(t, i, n))
  <2>1. PICK i \in found : RowFree(w, i) /\ Writes(w, WithUpdate(t, i, n))
    BY <1>8
  <2>2. Fit(w, WithUpdate(t, i, n))
    BY <1>2, <1>3, <1>4, <1>5, <2>1, UpdateFits
  <2> QED BY <1>1, <2>1, <2>2, OperationStep
<1> QED BY <1>6, <1>7, <1>8 DEF StartSubscription

LEMMA RenewStep ==
  ASSUME IInv, NEW w \in Workers, RenewSubscription(w)
  PROVE  IInv'
<1> DEFINE n == N(w)
           t == Synced(WithTxn(Locking(w), n), <<tx[w].person>>)
           found == FindSeries(subs, n.subject, n.product)
<1>1. tx[w].phase = "claimed" /\ n.kind = "renew" /\ LockFree(w, n.subject) /\ UNCHANGED unwritten
  BY DEF RenewSubscription
<1>2. tx[w].id \in DOMAIN story /\ Plain(w, Locking(w)) /\ n.subject \in Series
  BY <1>1, ClaimedIsPlain, StoryFacts DEF IInv, N, SubscriptionKinds, PaidKinds
<1>3. Plain(w, t) /\ DOMAIN t = TxFields /\ t.locks = {n.subject}
  BY <1>2, PaidIsPlain
<1>4. n.kind \in PaidKinds /\ n.kind \in PatchKinds
  BY <1>1 DEF PaidKinds, PatchKinds, SubscriptionKinds
<1>5. found \subseteq RowsOf(subs, n.subject)
  BY <1>2, FoundRows
<1>6. CASE /\ found = {}
           /\ \E topics : Writes(w, Announcing(WithRow(t, tx[w].id, NewRow(n, tx[w].person)),
                                               topics))
  <2> DEFINE u == WithRow(t, tx[w].id, NewRow(n, tx[w].person))
  <2>1. PICK topics : Writes(w, Announcing(u, topics))
    BY <1>6
  <2>2. Fit(w, u)
    BY <1>2, <1>3, <1>4, <1>6, OpeningFits
  <2> HIDE DEF u
  <2>3. Fit(w, Announcing(u, topics))
    BY <2>2, SideWrites, SameRowsFit DEF Fit
  <2> QED BY <1>1, <2>1, <2>3, OperationStep
<1>7. CASE \E i \in found :
             RowFree(w, i) /\ \E topics : Writes(w, Announcing(WithUpdate(t, i, n), topics))
  <2>1. PICK i \in found :
          RowFree(w, i) /\ \E topics : Writes(w, Announcing(WithUpdate(t, i, n), topics))
    BY <1>7
  <2>2. PICK topics : Writes(w, Announcing(WithUpdate(t, i, n), topics))
    BY <2>1
  <2> DEFINE u == WithUpdate(t, i, n)
  <2>3. Fit(w, u)
    BY <1>2, <1>3, <1>4, <1>5, <2>1, UpdateFits
  <2> HIDE DEF u
  <2>4. Fit(w, Announcing(u, topics))
    BY <2>3, SideWrites, SameRowsFit DEF Fit
  <2> QED BY <1>1, <2>2, <2>4, OperationStep DEF u
<1> QED BY <1>6, <1>7 DEF RenewSubscription

LEMMA MutateStep ==
  ASSUME IInv, NEW w \in Workers, MutateSubscription(w)
  PROVE  IInv'
<1> DEFINE n == N(w)
           t == Synced(Locking(w), IF n.kind \in SyncsPerks THEN <<tx[w].person>> ELSE <<>>)
           found == FindSeries(subs, n.subject, n.product)
           revoked == IF n.kind = "revoke" /\ txns[n.txn] # NoTxn
                      THEN WithTxnUpdate(t, n, txns[n.txn].refunded) ELSE t
<1>1. /\ tx[w].phase = "claimed" /\ n.kind \in KnownKinds \cup MutationKinds
      /\ LockFree(w, n.subject) /\ UNCHANGED unwritten
  BY DEF MutateSubscription
<1>2. tx[w].id \in DOMAIN story /\ Plain(w, Locking(w)) /\ n.subject \in Series
  BY <1>1, ClaimedIsPlain, StoryFacts DEF IInv, N, SubscriptionKinds
<1>3. Plain(w, t) /\ Plain(w, revoked)
  <2>1. DOMAIN Locking(w) = TxFields
    BY LockingFacts DEF IInv, Shapes
  <2>2. SameRows(t, Locking(w))
    BY <2>1, SideWrites
  <2>3. Plain(w, t)
    BY <1>2, <2>2, SameRowsFit
  <2>4. DOMAIN t = TxFields
    BY <2>2 DEF SameRows
  <2> HIDE DEF t
  <2>5. SameRows(WithTxnUpdate(t, n, txns[n.txn].refunded), t)
    BY <2>4, SideWrites
  <2>6. Plain(w, WithTxnUpdate(t, n, txns[n.txn].refunded))
    BY <2>3, <2>5, SameRowsFit
  <2> QED BY <2>3, <2>6
<1>4. n.kind \in PatchKinds
  BY <1>1 DEF PatchKinds, SubscriptionKinds
<1>5. found \subseteq RowsOf(subs, n.subject)
  BY <1>2, FoundRows
<1>6. CASE Writes(w, Locking(w))
  BY <1>1, <1>2, <1>6, PlainFit, OperationStep
<1>7. CASE \E i \in found : RowFree(w, i) /\ Writes(w, WithUpdate(revoked, i, n))
  <2> HIDE DEF revoked
  <2>1. PICK i \in found : RowFree(w, i) /\ Writes(w, WithUpdate(revoked, i, n))
    BY <1>7
  <2>2. Fit(w, WithUpdate(revoked, i, n))
    BY <1>2, <1>3, <1>4, <1>5, <2>1, UpdateFits
  <2> QED BY <1>1, <2>1, <2>2, OperationStep
<1> QED BY <1>6, <1>7 DEF MutateSubscription

(* Operations on one-time purchases touch no row of the subscriptions      *)
(* table: what they write is a chain of side writes.                       *)
LEMMA SideChain ==
  ASSUME NEW w \in Workers, NEW t, Plain(w, t), NEW n, NEW c, NEW row, NEW x
  PROVE  /\ Plain(w, WithTxn(t, n)) /\ Plain(w, WithTxnUpdate(t, n, x))
         /\ Plain(w, WithCharge(t, c, row)) /\ Plain(w, WithChargeUpdate(t, c, n, row))
         /\ Plain(w, Synced(t, x)) /\ Plain(w, Announcing(t, x))
<1>1. DOMAIN t = TxFields
  BY DEF Plain
<1> QED BY <1>1, SideWrites, SameRowsFit

LEMMA PlainStep ==
  ASSUME IInv, NEW w \in Workers, tx[w].phase \in {"resolved", "claimed"},
         NEW t, Plain(w, t), Writes(w, t), UNCHANGED unwritten
  PROVE  IInv'
BY PlainFit, OperationStep

LEMMA CompleteStep ==
  ASSUME IInv, NEW w \in Workers, CompleteOneTimePurchase(w)
  PROVE  IInv'
<1> DEFINE n == N(w)
           c == n.subject
           t == Synced(WithTxn(tx[w], n), <<tx[w].person>>)
           row == [NoCharge EXCEPT !.person = tx[w].person]
<1>1. tx[w].phase = "claimed" /\ UNCHANGED unwritten
  BY DEF CompleteOneTimePurchase
<1>2. Plain(w, t)
  BY <1>1, ClaimedIsPlain, SideChain
<1>3. Writes(w, t) \/ Writes(w, Announcing(WithCharge(t, c, row), {c}))
  BY DEF CompleteOneTimePurchase
<1> HIDE DEF t, row
<1>4. Plain(w, Announcing(WithCharge(t, c, row), {c}))
  BY <1>2, SideChain
<1> QED BY <1>1, <1>2, <1>3, <1>4, PlainStep

(* Refund, revocation and reversal of a charge write the transaction, the  *)
(* charge, and the list of persons to sync.                                *)
LEMMA ChargeStep ==
  ASSUME IInv, NEW w \in Workers, tx[w].phase = "claimed", UNCHANGED unwritten,
         NEW t, t = tx[w] \/ \E x : t = WithTxnUpdate(tx[w], N(w), x),
         NEW c, NEW row, NEW persons,
         \/ Writes(w, t)
         \/ Writes(w, Synced(WithChargeUpdate(t, c, N(w), row), persons))
  PROVE  IInv'
<1>1. Plain(w, t)
  BY ClaimedIsPlain, SideChain
<1>2. Plain(w, Synced(WithChargeUpdate(t, c, N(w), row), persons))
  BY <1>1, SideChain
<1> QED BY <1>1, <1>2, PlainStep

LEMMA RefundSteps ==
  ASSUME IInv, NEW w \in Workers, RefundPurchase(w) \/ RevokePurchase(w) \/ ReverseCharge(w)
  PROVE  IInv'
<1> DEFINE n == N(w)
           c == n.subject
           persons == IF FreshCharge(c, n) THEN <<tx[w].person>> ELSE <<>>
<1>1. tx[w].phase = "claimed" /\ UNCHANGED unwritten
  BY DEF RefundPurchase, RevokePurchase, ReverseCharge
<1>2. CASE RefundPurchase(w)
  <2> DEFINE t == IF tx[w].txn = NoTxn THEN tx[w] ELSE WithTxnUpdate(tx[w], n, n.date)
             row == [charges[c] EXCEPT !.refunded = n.date]
  <2>1. \/ Writes(w, t)
        \/ Writes(w, Synced(WithChargeUpdate(t, c, n, row), persons))
    BY <1>2 DEF RefundPurchase
  <2>2. t = tx[w] \/ \E x : t = WithTxnUpdate(tx[w], n, x)
    OBVIOUS
  <2> HIDE DEF t, row, persons
  <2> QED BY <1>1, <2>1, <2>2, ChargeStep
<1>3. CASE RevokePurchase(w)
  <2> DEFINE t == IF tx[w].txn = NoTxn THEN tx[w]
                  ELSE WithTxnUpdate(tx[w], n, txns[n.txn].refunded)
             row == [charges[c] EXCEPT !.revoked = n.date]
  <2>1. \/ Writes(w, tx[w])
        \/ Writes(w, Synced(WithChargeUpdate(t, c, n, row), persons))
    BY <1>3 DEF RevokePurchase
  <2>2. t = tx[w] \/ \E x : t = WithTxnUpdate(tx[w], n, x)
    OBVIOUS
  <2>3. Plain(w, tx[w])
    BY <1>1, ClaimedIsPlain
  <2> HIDE DEF t, row, persons
  <2> QED BY <1>1, <2>1, <2>2, <2>3, ChargeStep, PlainStep
<1>4. CASE ReverseCharge(w)
  <2> DEFINE t == IF tx[w].txn = NoTxn THEN tx[w] ELSE WithTxnUpdate(tx[w], n, 0)
             row == [charges[c] EXCEPT !.refunded = 0]
  <2>1. \/ Writes(w, t)
        \/ Writes(w, Synced(WithChargeUpdate(t, c, n, row), persons))
    BY <1>4 DEF ReverseCharge
  <2>2. t = tx[w] \/ \E x : t = WithTxnUpdate(tx[w], n, x)
    OBVIOUS
  <2> HIDE DEF t, row, persons
  <2> QED BY <1>1, <2>1, <2>2, ChargeStep
<1> QED BY <1>2, <1>3, <1>4

LEMMA ReverseStep ==
  ASSUME IInv, NEW w \in Workers, ReverseSubscription(w)
  PROVE  IInv'
<1> DEFINE n == N(w)
           t == IF tx[w].txn = NoTxn THEN Locking(w) ELSE WithTxnUpdate(Locking(w), n, 0)
<1>1. /\ tx[w].phase = "claimed" /\ n.kind = "reverse" /\ n.subject \in Series
      /\ LockFree(w, n.subject) /\ UNCHANGED unwritten
  BY DEF ReverseSubscription
<1>2. tx[w].id \in DOMAIN story /\ Plain(w, t)
  BY <1>1, ClaimedIsPlain, SideChain
<1>3. Restorable(w) \subseteq RowsOf(subs, n.subject)
  BY <1>1, FoundRows DEF Restorable
<1>4. CASE Writes(w, t)
  BY <1>1, <1>2, <1>4, PlainStep
<1>5. CASE \E i \in Restorable(w) :
             RowFree(w, i) /\ Writes(w, Synced(WithUpdate(t, i, n), <<tx[w].person>>))
  <2> HIDE DEF t
  <2>1. PICK i \in Restorable(w) :
          RowFree(w, i) /\ Writes(w, Synced(WithUpdate(t, i, n), <<tx[w].person>>))
    BY <1>5
  <2>2. n.kind \in PatchKinds
    BY <1>1 DEF PatchKinds
  <2> DEFINE u == WithUpdate(t, i, n)
  <2>3. Fit(w, u)
    BY <1>1, <1>2, <1>3, <2>1, <2>2, UpdateFits
  <2> HIDE DEF u
  <2>4. Fit(w, Synced(u, <<tx[w].person>>))
    BY <2>3, SideWrites, SameRowsFit DEF Fit
  <2> QED BY <1>1, <2>1, <2>4, OperationStep DEF u
<1> QED BY <1>4, <1>5 DEF ReverseSubscription

LEMMA TransferSteps ==
  ASSUME IInv, NEW w \in Workers, TransferSubscription(w) \/ TransferPurchase(w)
  PROVE  IInv'
<1> DEFINE n == N(w)
           from == tx[w].person
<1>1. /\ tx[w].phase = "resolved" /\ n.kind = "transfer" /\ UNCHANGED unwritten
      /\ tx[w].id \in DOMAIN story /\ Plain(w, tx[w])
  BY ClaimedIsPlain DEF TransferSubscription, TransferPurchase
<1>2. CASE Ends(w, "idle") \/ Ends(w, "rebind")
  BY <1>1, <1>2, EndStep DEF unwritten, tables
<1>3. CASE TransferSubscription(w) /\ ~(Ends(w, "idle") \/ Ends(w, "rebind"))
  <2>1. n.subject \in Series
    BY <1>3 DEF TransferSubscription
  <2>2. PICK i \in RowsOf(subs, n.subject) :
          RowFree(w, i) /\ Writes(w, Synced(WithUpdate(tx[w], i, n), <<from, n.owner>>))
    BY <1>3 DEF TransferSubscription
  <2>3. n.kind \in PatchKinds
    BY <1>1 DEF PatchKinds
  <2> DEFINE u == WithUpdate(tx[w], i, n)
  <2>4. Fit(w, u)
    BY <1>1, <2>1, <2>2, <2>3, UpdateFits
  <2> HIDE DEF u
  <2>5. Fit(w, Synced(u, <<from, n.owner>>))
    BY <2>4, SideWrites, SameRowsFit DEF Fit
  <2> QED BY <1>1, <2>2, <2>5, OperationStep DEF u
<1>4. CASE TransferPurchase(w) /\ ~(Ends(w, "idle") \/ Ends(w, "rebind"))
  <2> DEFINE c == n.subject
             row == [charges[c] EXCEPT !.person = n.owner]
  <2>1. Writes(w, Synced(WithChargeUpdate(tx[w], c, n, row), <<from, n.owner>>))
    BY <1>4 DEF TransferPurchase
  <2> HIDE DEF row
  <2>2. Plain(w, Synced(WithChargeUpdate(tx[w], c, n, row), <<from, n.owner>>))
    BY <1>1, SideChain
  <2> QED BY <1>1, <2>1, <2>2, PlainStep
<1> QED BY <1>2, <1>3, <1>4

-----------------------------------------------------------------------------
(* The commit: the row written is the newest, and no other transaction     *)
(* writes it or opens a row of its series.                                 *)
LEMMA CommitStep ==
  ASSUME IInv, NEW w \in Workers, Commit(w)
  PROVE  IInv'
<1> DEFINE t == tx[w]
           D == DOMAIN t.subs
<1>1. /\ t.phase = "written" /\ Writing(t) /\ t.id \in DOMAIN story
      /\ UNCHANGED story /\ D \subseteq Notices /\ None \notin Series
  <2>1. t.phase = "written" /\ UNCHANGED story
    BY DEF Commit
  <2>2. Writing(t) /\ t.id \in DOMAIN story
    BY <2>1 DEF IInv, Shapes, Written
  <2>3. D \subseteq Notices
    BY <2>2 DEF Writing, Writable
  <2> QED BY <2>1, <2>2, <2>3, PurchaseAssumption
<1>2. /\ subs' = [i \in Notices |-> subs'[i]]
      /\ \A i \in D : subs'[i] = t.subs[i]
      /\ \A i \in Notices \ D : subs'[i] = subs[i]
  <2>1. D \cup DOMAIN subs = Notices
    BY <1>1 DEF IInv, Shapes
  <2>2. subs' = [i \in D \cup DOMAIN subs |-> IF i \in D THEN t.subs[i] ELSE subs[i]]
    BY DEF Commit, Over
  <2> QED BY <1>1, <2>1, <2>2
<1>3. /\ obeyed' = [i \in Notices |-> obeyed'[i]]
      /\ \A i \in D : obeyed'[i] = obeyed[i] \cup {t.id}
      /\ \A i \in Notices \ D : obeyed'[i] = obeyed[i]
  BY <1>1 DEF Commit
<1>4. /\ tx' = [v \in Workers |-> tx'[v]] /\ \A v \in Workers : DOMAIN tx'[v] = TxFields
      /\ tx'[w].phase \in {"idle", "rebind"} /\ (tx'[w].phase = "rebind" => tx'[w].id = t.id)
      /\ \A v \in Workers \ {w} : tx'[v] = tx[v]
  <2>1. PICK p \in {"idle", "rebind"} : Ends(w, p)
    BY DEF Commit
  <2>2. DOMAIN t = TxFields /\ \A v \in Workers : DOMAIN tx[v] = TxFields
    BY DEF IInv, Shapes
  <2>3. CASE p = "idle"
    BY <2>1, <2>2, <2>3, IdleFacts DEF Ends, IInv, Shapes
  <2>4. CASE p = "rebind"
    <3> DEFINE u == [t EXCEPT !.phase = "rebind"]
    <3>1. tx' = [tx EXCEPT ![w] = u]
      BY <2>1, <2>4 DEF Ends
    <3>2. DOMAIN u = TxFields /\ u.phase = "rebind" /\ u.id = t.id
      BY <2>2 DEF TxFields
    <3> HIDE DEF u
    <3> QED BY <2>2, <3>1, <3>2 DEF IInv, Shapes
  <2> QED BY <2>1, <2>3, <2>4
<1>5. Shapes'
  BY <1>1, <1>2, <1>3, <1>4 DEF IInv, Shapes
<1>6. ASSUME NEW i \in D
      PROVE  /\ Writable(t, i) /\ subs'[i] # NoRow
             /\ subs'[i].series = story[i].subject /\ story[i].subject \in Series
             /\ subs[i] # NoRow => subs[i].series = story[i].subject
  <2>1. Writable(t, i)
    BY <1>1 DEF Writing
  <2>2. subs[i] # NoRow => subs[i].series = story[i].subject
    BY <1>1 DEF IInv, Committed, SoundRow
  <2> QED BY <1>1, <1>2, <2>1, <2>2, NoRowFacts DEF Writable, SoundRow
<1>7. ASSUME NEW i \in Notices PROVE Committed(i)'
  <2>1. CASE i \notin D
    <3>1. Committed(i) /\ subs'[i] = subs[i] /\ obeyed'[i] = obeyed[i]
      BY <1>2, <1>3, <2>1 DEF IInv
    <3> QED BY <1>1, <3>1 DEF Committed, SoundRow, Newest
  <2>2. CASE i \in D
    <3>1. obeyed'[i] = obeyed[i] \cup {t.id} /\ subs'[i] = t.subs[i] /\ Committed(i)
      BY <1>2, <1>3, <2>2 DEF IInv
    <3>2. ASSUME NEW j \in obeyed'[i] PROVE story[j].at <= story[t.id].at
      <4>1. CASE j = t.id
        BY <1>1, <4>1, StoryFacts DEF IInv
      <4>2. CASE j \in obeyed[i]
        <5>1. subs[i] # NoRow /\ Newest(i) /\ obeyed[i] \subseteq DOMAIN story
          BY <3>1, <4>2 DEF Committed
        <5>2. PICK k \in obeyed[i] : story[j].at <= story[k].at /\ subs[i].mark = story[k].at
          BY <4>2, <5>1 DEF Newest
        <5>3. subs[i].mark <= story[t.id].at
          BY <1>6, <2>2, <5>1 DEF Writable
        <5>4. story[j].at \in Int /\ story[k].at \in Int /\ story[t.id].at \in Int
          BY <1>1, <4>2, <5>1, <5>2, StoryFacts DEF IInv
        <5> QED BY <5>2, <5>3, <5>4
      <4> QED BY <3>1, <4>1, <4>2
    <3>3. /\ SoundRow(i, subs'[i]) /\ subs'[i].mark = story[t.id].at
          /\ Says(subs'[i], story[t.id])
      BY <1>6, <2>2, <3>1 DEF Writable
    <3>4. Newest(i)'
      BY <1>1, <3>1, <3>2, <3>3 DEF Newest
    <3>5. obeyed'[i] \subseteq DOMAIN story'
      BY <1>1, <3>1 DEF Committed
    <3> QED BY <1>1, <1>6, <2>2, <3>3, <3>4, <3>5 DEF Committed, SoundRow
  <2> QED BY <2>1, <2>2
<1>8. OneRowEach'
  <2> SUFFICES ASSUME NEW i \in Notices, NEW j \in Notices,
                      subs'[i] # NoRow, subs'[j] # NoRow, subs'[i].series = subs'[j].series
               PROVE  i = j
    BY DEF OneRowEach
  <2>1. ASSUME NEW k \in D, NEW l \in Notices \ D,
               subs'[l] # NoRow, subs'[k].series = subs'[l].series
        PROVE  FALSE
    <3>1. subs[l] # NoRow /\ subs[l].series = story[k].subject
      BY <1>2, <1>6, <2>1
    <3>2. CASE subs[k] = NoRow
      BY <1>6, <3>1, <3>2 DEF Writable, RowsOf
    <3>3. CASE subs[k] # NoRow
      BY <1>1, <1>6, <3>1, <3>3 DEF IInv, OneRowEach
    <3> QED BY <3>2, <3>3
  <2>2. CASE i \in D /\ j \in D
    BY <1>1, <2>2 DEF Writing
  <2>3. CASE i \notin D /\ j \notin D
    BY <1>2, <2>3 DEF IInv, OneRowEach
  <2> QED BY <2>1, <2>2, <2>3
<1>9. ASSUME NEW v \in Workers, tx'[v].phase \in Written PROVE Writing(tx[v])'
  <2>1. v # w /\ tx'[v] = tx[v] /\ Writing(tx[v]) /\ Apart(t, tx[v])
    BY <1>1, <1>4, <1>9 DEF IInv, Written, Open
  <2>2. ASSUME NEW i \in DOMAIN tx[v].subs PROVE Writable(tx[v], i)'
    <3>1. Writable(tx[v], i) /\ i \notin D /\ subs'[i] = subs[i]
      BY <1>2, <2>1 DEF Writing, Writable, Apart
    <3>2. ASSUME subs[i] = NoRow, NEW j \in RowsOf(subs, story[i].subject)' PROVE FALSE
      <4>1. /\ j \in Notices /\ subs'[j].series = story[i].subject
            /\ RowsOf(subs, story[i].subject) = {} /\ story[i].subject \in tx[v].locks
        BY <1>1, <3>1, <3>2 DEF Writable, RowsOf
      <4>2. subs[j].series # story[i].subject
        BY <4>1 DEF RowsOf
      <4>3. j \in D
        BY <1>2, <4>1, <4>2
      <4>4. subs[j] = NoRow /\ story[j].subject = story[i].subject
        BY <1>6, <4>1, <4>2, <4>3
      <4>5. story[i].subject \in t.locks
        BY <1>6, <4>3, <4>4 DEF Writable
      <4> QED BY <2>1, <4>1, <4>5 DEF Apart
    <3>3. subs[i] = NoRow => RowsOf(subs, story[i].subject)' = {}
      BY <3>2
    <3> QED BY <1>1, <2>1, <3>1, <3>3 DEF Writable, SoundRow
  <2> QED BY <2>1, <2>2 DEF Writing
<1>10. ASSUME NEW u \in Workers, NEW v \in Workers, u # v,
              tx'[u].phase \in Open, tx'[v].phase \in Open
       PROVE  Apart(tx[u], tx[v])'
  BY <1>4, <1>10 DEF IInv, Apart, Open, Written
<1> QED BY <1>5, <1>7, <1>8, <1>9, <1>10 DEF IInv

-----------------------------------------------------------------------------
LEMMA InitIInv == Init => IInv
<1> SUFFICES ASSUME Init PROVE IInv
  OBVIOUS
<1>1. Shapes
  BY IdleFacts DEF Init, Shapes
<1>2. \A i \in Notices : subs[i] = NoRow /\ obeyed[i] = {}
  BY DEF Init
<1>3. \A w \in Workers : tx[w].phase = "idle"
  BY IdleFacts DEF Init
<1> QED BY <1>1, <1>2, <1>3 DEF IInv, Committed, OneRowEach, Open, Written

LEMMA NextIInv == IInv /\ [Next]_vars => IInv'
<1> SUFFICES ASSUME IInv, [Next]_vars PROVE IInv'
  OBVIOUS
<1>1. CASE UNCHANGED vars
  <2>1. UNCHANGED <<story, subs, obeyed, tx>>
    BY <1>1 DEF vars, tables
  <2>2. Shapes' /\ OneRowEach'
    BY <2>1 DEF IInv, Shapes, OneRowEach
  <2>3. \A i \in Notices : Committed(i)'
    BY <2>1 DEF IInv, Committed, SoundRow, Newest
  <2>4. \A w \in Workers : tx'[w].phase \in Written => Writing(tx[w])'
    BY <2>1 DEF IInv, Writing, Writable, SoundRow, RowsOf
  <2>5. \A v, w \in Workers : v # w /\ tx'[v].phase \in Open /\ tx'[w].phase \in Open =>
          Apart(tx[v], tx[w])'
    BY <2>1 DEF IInv, Apart
  <2> QED BY <2>2, <2>3, <2>4, <2>5 DEF IInv
<1>2. CASE Next
  <2>1. PICK w \in Workers : (\E i \in Notices : Receive(w, i)) \/ Step(w) \/ Abort(w)
    BY <1>2 DEF Next
  <2> QED BY <2>1, QuietActions, StartStep, RenewStep, MutateStep, CompleteStep, RefundSteps,
             ReverseStep, TransferSteps, CommitStep DEF Step
<1> QED BY <1>1, <1>2

(* Every reachable state satisfies the invariant, for any stories, workers *)
(* and aborted transactions.                                               *)
THEOREM PurchaseInvariant == Spec => []IInv
<1>1. Init => IInv
  BY InitIInv
<1>2. IInv /\ [Next]_vars => IInv'
  BY NextIInv
<1> QED BY <1>1, <1>2, PTL DEF Spec

(* However many first events of a series race, under whatever products, it *)
(* ends with one row: the advisory lock makes the lookup and the insert    *)
(* one step for everyone else who may open a row of it.                    *)
THEOREM SeriesHaveOneRow == Spec => []OneRowPerSeries
<1>1. IInv => OneRowPerSeries
  <2> SUFFICES ASSUME IInv, NEW s \in Series PROVE Cardinality(RowsOf(subs, s)) <= 1
    BY DEF OneRowPerSeries
  <2>1. \A i, j \in RowsOf(subs, s) : i = j
    BY FoundRows DEF IInv, OneRowEach
  <2>2. CASE RowsOf(subs, s) = {}
    BY <2>2, FS_EmptySet
  <2>3. CASE RowsOf(subs, s) # {}
    <3>1. PICK i : RowsOf(subs, s) = {i}
      BY <2>1, <2>3
    <3>2. Cardinality(RowsOf(subs, s)) = 1
      BY <3>1, FS_Singleton
    <3> QED BY <3>2
  <2> QED BY <2>2, <2>3
<1> QED BY <1>1, PurchaseInvariant, PTL

(* In whatever order notifications arrive, and however their transactions  *)
(* interleave, a row shows what the newest of those it accepted says: the  *)
(* watermark is compared and written under the row's lock.                 *)
THEOREM RowsShowTheNewest == Spec => []NewestDecides
<1>1. IInv => NewestDecides
  BY DEF IInv, Committed, Newest, NewestDecides
<1> QED BY <1>1, PurchaseInvariant, PTL

-----------------------------------------------------------------------------
(* What a worker holds before it writes: nothing.                          *)
Unwritten(t) ==
  /\ DOMAIN t.txns = {} /\ DOMAIN t.charges = {} /\ DOMAIN t.grants = {}
  /\ t.sync = <<>> /\ t.announce = {} /\ t.changed = {} /\ t.decides = {} /\ t.crossed = {}

(* A transaction of a person, with a purchase row only if its notification *)
(* is about a purchase.                                                    *)
Ok(t) ==
  /\ DOMAIN t = TxFields /\ TxOK(t)
  /\ t.sync \in Seq(Persons)
  /\ t.charge # NoCharge => story[t.id].subject \in Charges

Sound(t) ==
  /\ Ok(t)
  /\ t.phase # "idle" => t.person \in Persons
  /\ t.phase = "read" => t.sync # <<>>
  /\ t.phase \in {"resolved", "claimed"} => Unwritten(t)

Types == TypeOK /\ \A w \in Workers : Sound(tx[w])

-----------------------------------------------------------------------------
LEMMA NoticeFacts ==
  ASSUME Shapes, NEW i \in DOMAIN story
  PROVE  /\ i \in Notices /\ story[i] \in NoticeType
         /\ story[i].kind = "purchase" => story[i].subject \in Charges
         /\ story[i].kind \in SubscriptionKinds => story[i].subject \in Series
BY PurchaseAssumption DEF Shapes

LEMMA NullFacts ==
  /\ NoTxn \in TxnType /\ NoCharge \in ChargeType
  /\ None \notin Persons /\ None \notin Series /\ NoRow \notin RowType
  /\ Horizon \in Nat
BY PurchaseAssumption DEF NoTxn, NoCharge, TxnType, ChargeType, NoRow, RowType

LEMMA RowTypes ==
  ASSUME NEW n \in NoticeType
  PROVE  /\ \A p \in Persons : n.subject \in Series => NewRow(n, p) \in RowType
         /\ \A row \in RowType : n.kind \in PatchKinds => Updated(row, n) \in RowType
<1> USE DEF NoticeType
<1>1. ASSUME NEW p \in Persons, n.subject \in Series PROVE NewRow(n, p) \in RowType
  BY <1>1, PurchaseAssumption DEF NewRow, RowType
<1>2. ASSUME NEW row \in RowType, n.kind \in PatchKinds PROVE Updated(row, n) \in RowType
  <2>1. Patch(row, n) \in RowType
    <3>1. CASE n.kind \in PaidKinds
      <4> DEFINE x == IF row.product = n.product THEN row.pending ELSE None
                 q == PaidPeriod(row, n)
      <4>0. Patch(row, n) = q
        BY <3>1 DEF Patch, PaidKinds
      <4>1. q = [row EXCEPT !.status = "Active", !.expires = n.date, !.atEnd = FALSE,
                            !.canceled = 0, !.latest = n.txn, !.product = n.product,
                            !.pending = x]
        BY DEF PaidPeriod
      <4>2. x \in Products \cup {None}
        BY DEF RowType
      <4> HIDE DEF x, q
      <4>3. /\ q = [f \in RowFields |-> q[f]]
            /\ q.series = row.series /\ q.product = n.product /\ q.pending = x
            /\ q.person = row.person /\ q.status = "Active" /\ q.expires = n.date
            /\ q.atEnd = FALSE /\ q.canceled = 0 /\ q.latest = n.txn /\ q.mark = row.mark
        BY <4>1 DEF RowType, RowFields
      <4>4. 0 \in 0..Horizon
        BY NullFacts
      <4>5. q \in RowType
        BY <4>2, <4>3, <4>4 DEF RowType, RowFields
      <4> QED BY <4>0, <4>5
    <3>2. CASE n.kind = "cancel"
      BY <3>2 DEF Patch, PaidKinds, RowType
    <3>3. CASE n.kind = "cancelAtEnd"
      BY <3>3 DEF Patch, PaidKinds, RowType
    <3>4. CASE n.kind = "expire"
      BY <3>4 DEF Patch, PaidKinds, RowType
    <3>5. CASE n.kind = "revoke"
      BY <3>5 DEF Patch, PaidKinds, RowType
    <3>6. CASE n.kind = "extend"
      BY <3>6 DEF Patch, PaidKinds, RowType
    <3>7. CASE n.kind = "prefer"
      BY <3>7 DEF Patch, PaidKinds, RowType
    <3>8. CASE n.kind = "touch"
      BY <3>8 DEF Patch, PaidKinds
    <3>9. CASE n.kind = "resume"
      <4> DEFINE x == IF StillRunning(row, n) THEN "Active" ELSE row.status
                 q == Patch(row, n)
      <4>1. q = [row EXCEPT !.atEnd = FALSE, !.canceled = 0, !.status = x]
        BY <3>9 DEF Patch, PaidKinds
      <4>2. x \in {"Active", "Canceled"} /\ 0 \in 0..Horizon
        BY NullFacts DEF RowType
      <4> HIDE DEF x, q
      <4>3. q \in RowType
        BY <4>1, <4>2 DEF RowType
      <4> QED BY <4>3 DEF q
    <3>10. CASE n.kind = "transfer"
      BY <3>10 DEF Patch, PaidKinds, RowType
    <3>11. CASE n.kind = "reverse"
      BY <3>11 DEF Patch, PaidKinds, RowType
    <3> QED BY <1>2, <3>1, <3>2, <3>3, <3>4, <3>5, <3>6, <3>7, <3>8, <3>9, <3>10, <3>11
            DEF PatchKinds, SubscriptionKinds, KnownKinds, MutationKinds
  <2> DEFINE q == Patch(row, n)
  <2>2. Updated(row, n) = IF Fresher(row, n) THEN [q EXCEPT !.mark = n.at] ELSE row
    BY DEF Updated
  <2>3. q \in RowType
    BY <2>1
  <2> HIDE DEF q
  <2> QED BY <2>2, <2>3 DEF RowType
<1> QED BY <1>1, <1>2

(* A row that changes hands, or its entitlement, concerns known persons.   *)
LEMMA ChangesOfPersons ==
  ASSUME TypeOK
  PROVE  /\ \A i \in Notices, row \in RowType : SubChanges(i, row) \subseteq Persons
         /\ \A c \in Charges, row \in ChargeType : ChargeChanges(c, row) \subseteq Persons
<1>1. ASSUME NEW i \in Notices, NEW row \in RowType PROVE SubChanges(i, row) \subseteq Persons
  BY DEF TypeOK, SubChanges, RowType
<1>2. ASSUME NEW c \in Charges, NEW row \in ChargeType
      PROVE  ChargeChanges(c, row) \subseteq Persons
  BY DEF TypeOK, ChargeChanges, ChargeType, Live
<1> QED BY <1>1, <1>2

-----------------------------------------------------------------------------
(* Each step of building a transaction keeps it Ok, and its identity.      *)
Keeps(t, u) == Ok(u) /\ u.id = t.id /\ u.person = t.person

LEMMA SideOk ==
  ASSUME Types, NEW t, Ok(t), NEW n \in NoticeType
  PROVE  /\ Keeps(t, WithTxn(t, n))
         /\ \A x \in 0..Horizon : Keeps(t, WithTxnUpdate(t, n, x))
         /\ \A s \in Seq(Persons) : Keeps(t, Synced(t, s))
         /\ \A T \in SUBSET Topics : Keeps(t, Announcing(t, T))
         /\ \A c \in Charges, row \in ChargeType :
              Keeps(t, WithCharge(t, c, row)) /\ Keeps(t, WithChargeUpdate(t, c, n, row))
         /\ \A i \in Notices, row \in RowType : Keeps(t, WithRow(t, i, row))
<1> USE DEF Ok, TxOK, TxFields
<1>0. n.at \in 0..Horizon /\ n.txn \in Txns
  BY NullFacts DEF NoticeType
<1>1. ASSUME NEW v \in TxnType
      PROVE  Keeps(t, [t EXCEPT !.txns = Only(n.txn, v)])
  <2>1. DOMAIN Only(n.txn, v) = {n.txn} /\ Only(n.txn, v)[n.txn] = v
    BY OnlyFacts
  <2> QED BY <1>0, <2>1 DEF Keeps
<1>2. Keeps(t, t)
  BY DEF Keeps
<1>3. Keeps(t, WithTxn(t, n))
  <2>1. [mark |-> n.at, refunded |-> 0] \in TxnType
    BY <1>0, NullFacts DEF TxnType
  <2> QED BY <1>1, <1>2, <2>1 DEF WithTxn
<1>4. ASSUME NEW x \in 0..Horizon PROVE Keeps(t, WithTxnUpdate(t, n, x))
  <2>1. [mark |-> n.at, refunded |-> x] \in TxnType
    BY <1>0 DEF TxnType
  <2> QED BY <1>1, <1>2, <2>1 DEF WithTxnUpdate
<1>5. ASSUME NEW s \in Seq(Persons) PROVE Keeps(t, Synced(t, s))
  <2>1. \A k \in DOMAIN s : s[k] \in Persons
    OBVIOUS
  <2> QED BY <2>1 DEF Keeps, Synced
<1>6. ASSUME NEW T \in SUBSET Topics PROVE Keeps(t, Announcing(t, T))
  BY DEF Keeps, Announcing
<1>7. ASSUME NEW c \in Charges, NEW row \in ChargeType PROVE Keeps(t, WithCharge(t, c, row))
  <2>1. DOMAIN Only(c, row) = {c} /\ Only(c, row)[c] = row
    BY OnlyFacts
  <2>2. ChargeChanges(c, row) \subseteq Persons
    BY ChangesOfPersons DEF Types
  <2> QED BY <2>1, <2>2 DEF Keeps, WithCharge
<1>8. ASSUME NEW c \in Charges, NEW row \in ChargeType
      PROVE  Keeps(t, WithChargeUpdate(t, c, n, row))
  <2>1. [row EXCEPT !.mark = n.at] \in ChargeType
    BY <1>0 DEF ChargeType
  <2> QED BY <1>2, <1>7, <2>1 DEF WithChargeUpdate
<1>9. ASSUME NEW i \in Notices, NEW row \in RowType PROVE Keeps(t, WithRow(t, i, row))
  <2>1. DOMAIN Only(i, row) = {i} /\ Only(i, row)[i] = row
    BY OnlyFacts
  <2>2. SubChanges(i, row) \subseteq Persons
    BY ChangesOfPersons DEF Types
  <2> QED BY <2>1, <2>2 DEF Keeps, WithRow
<1> QED BY <1>3, <1>4, <1>5, <1>6, <1>7, <1>8, <1>9

LEMMA UpdateOk ==
  ASSUME Types, NEW t, Ok(t), NEW n \in NoticeType, n.kind \in PatchKinds,
         NEW s \in Series, NEW i \in RowsOf(subs, s)
  PROVE  Keeps(t, WithUpdate(t, i, n))
<1>1. i \in Notices /\ subs[i] \in RowType
  BY NullFacts, NoRowFacts DEF Types, TypeOK, RowsOf
<1>2. Updated(subs[i], n) \in RowType
  BY <1>1, RowTypes
<1> QED BY <1>1, <1>2, SideOk DEF WithUpdate, Keeps

(* The committing of a transaction to write, by Writes.                    *)
LEMMA WritesTypes ==
  ASSUME Types, NEW w \in Workers, tx[w].phase # "idle", NEW t, Keeps(tx[w], t),
         Writes(w, t), UNCHANGED unwritten, Shapes
  PROVE  Types'
<1> DEFINE mine == t.changed \cup {t.sync[k] : k \in DOMAIN t.sync}
           shared == [v \in Workers |->
                   IF v # w /\ tx[v].phase \in Written THEN tx[v].decides \cap mine ELSE {}]
           met == UNION {shared[u] : u \in Workers}
<1>1. Ok(t) /\ t.person \in Persons /\ \A v \in Workers : Sound(tx[v])
  BY DEF Types, Keeps, Sound
<1>2. mine \subseteq Persons
  BY <1>1 DEF Ok, TxOK
<1>3. \A v \in Workers : shared[v] \subseteq Persons
  BY <1>2
<1>4. met \subseteq Persons
  BY <1>3
<1>5. tx' = [v \in Workers |->
               IF v = w THEN [t EXCEPT !.phase = "written", !.decides = mine, !.crossed = met]
               ELSE [tx[v] EXCEPT !.crossed = @ \cup shared[v]]]
  BY DEF Writes
<1>6. \A v \in Workers : shared[v] = {} \/ tx[v].phase \in Written
  OBVIOUS
<1> HIDE DEF mine, shared, met
<1>7. Sound(tx[w])'
  <2>1. tx'[w] = [t EXCEPT !.phase = "written", !.decides = mine, !.crossed = met]
    BY <1>5
  <2> QED BY <1>1, <1>2, <1>4, <2>1
          DEF Sound, Ok, TxOK, TxFields, Phases, unwritten
<1>8. ASSUME NEW v \in Workers, v # w PROVE Sound(tx[v])'
  <2>1. tx'[v] = [tx[v] EXCEPT !.crossed = @ \cup shared[v]]
    BY <1>5, <1>8
  <2>2. Sound(tx[v]) /\ shared[v] \subseteq Persons
    BY <1>1, <1>3
  <2>3. tx[v].phase \in {"resolved", "claimed"} => shared[v] = {}
    BY <1>6 DEF Written
  <2> QED BY <2>1, <2>2, <2>3 DEF Sound, Ok, TxOK, TxFields, Unwritten, unwritten
<1>9. TypeOK'
  <2>1. \A v \in Workers : TxOK(tx[v])'
    BY <1>7, <1>8 DEF Sound, Ok
  <2> QED BY <2>1 DEF Types, TypeOK, unwritten, tables
<1> QED BY <1>7, <1>8, <1>9 DEF Types

(* A transaction that begins, ends, or goes on without writing a table.    *)
LEMMA QuietTypes ==
  ASSUME Types, Shapes, NEW w \in Workers, NEW u, Sound(u), tx' = [tx EXCEPT ![w] = u],
         UNCHANGED <<story, tables, bound, aborts>>
  PROVE  Types'
<1>1. tx'[w] = u /\ \A v \in Workers \ {w} : tx'[v] = tx[v]
  BY DEF Shapes
<1>2. ASSUME NEW v \in Workers PROVE Sound(tx[v])' /\ TxOK(tx[v])'
  <2>1. Sound(tx'[v])
    BY <1>1 DEF Types
  <2> QED BY <2>1 DEF Sound, Ok, TxOK
<1> QED BY <1>2 DEF Types, TypeOK, tables

LEMMA IdleSound == Sound(Idle)
<1>1. \A k \in DOMAIN Idle.sync : FALSE
  BY DEF Idle
<1>2. Idle.sync \in Seq(Persons)
  BY DEF Idle
<1> QED BY <1>1, <1>2, NullFacts, IdleFacts
        DEF Idle, Sound, Ok, TxOK, TxFields, Phases, GrantStatuses, Nothing

LEMMA EndTypes ==
  ASSUME Types, Shapes, NEW w \in Workers, tx[w].phase # "idle", NEW p \in {"idle", "rebind"},
         Ends(w, p), UNCHANGED <<story, tables, bound, aborts>>
  PROVE  Types'
<1>1. CASE p = "idle"
  BY <1>1, QuietTypes, IdleSound DEF Ends
<1>2. CASE p = "rebind"
  <2> DEFINE u == [tx[w] EXCEPT !.phase = "rebind"]
  <2>1. tx' = [tx EXCEPT ![w] = u]
    BY <1>2 DEF Ends
  <2>2. Sound(u)
    BY DEF Types, Sound, Ok, TxOK, TxFields, Phases
  <2> QED BY <2>1, <2>2, QuietTypes
<1> QED BY <1>1, <1>2

LEMMA BeginTypes ==
  ASSUME Types, Shapes, NEW w \in Workers, (\E i \in Notices : Receive(w, i)) \/ Claim(w)
  PROVE  Types'
<1>0. Sound(tx[w])
  BY DEF Types
<1>1. CASE \E i \in Notices : Receive(w, i)
  <2>1. PICK i \in Notices : Receive(w, i)
    BY <1>1
  <2> DEFINE u == [Idle EXCEPT !.phase = "resolved", !.id = i, !.person = bound[story[i].subject]]
  <2>2. tx' = [tx EXCEPT ![w] = u] /\ UNCHANGED <<story, tables, bound, aborts>>
    BY <2>1 DEF Receive, unwritten
  <2>3. bound[story[i].subject] \in Persons
    BY <2>1, NoticeFacts DEF Receive, NoticeType, Types, TypeOK, Subjects
  <2>4. Sound(u)
    <3>1. \A k \in DOMAIN u.sync : FALSE
      BY DEF Idle
    <3>2. u.sync \in Seq(Persons)
      BY DEF Idle
    <3> QED BY <2>3, <3>1, <3>2, NullFacts, IdleFacts
            DEF Idle, Sound, Ok, TxOK, TxFields, Phases, GrantStatuses, Nothing, Unwritten
  <2> QED BY <2>2, <2>4, QuietTypes
<1>2. CASE Claim(w)
  <2>1. tx[w].phase = "resolved" /\ UNCHANGED <<story, tables, bound, aborts>>
    BY <1>2 DEF Claim, unwritten
  <2>2. CASE tx' = [tx EXCEPT ![w] = Idle]
    BY <2>1, <2>2, QuietTypes, IdleSound
  <2>3. CASE tx' # [tx EXCEPT ![w] = Idle]
    <3> DEFINE x == IF N(w).kind \in RefundKinds THEN txns[N(w).txn] ELSE NoTxn
               c == IF N(w).kind \in RefundKinds /\ N(w).subject \in Charges
                    THEN charges[N(w).subject] ELSE NoCharge
               u == [tx[w] EXCEPT !.phase = "claimed", !.txn = x, !.charge = c]
    <3>1. tx' = [tx EXCEPT ![w].phase = "claimed", ![w].txn = x, ![w].charge = c]
      BY <1>2, <2>3 DEF Claim
    <3>2. N(w) \in NoticeType
      BY <2>1, NoticeFacts DEF N, Shapes
    <3>3. x \in TxnType /\ c \in ChargeType /\ (c # NoCharge => story[tx[w].id].subject \in Charges)
      BY <3>2, NullFacts DEF NoticeType, Types, TypeOK, N
    <3> HIDE DEF x, c
    <3>4. tx' = [tx EXCEPT ![w] = u]
      BY <3>1 DEF Shapes
    <3>5. Sound(u)
      BY <1>0, <2>1, <3>3 DEF Sound, Ok, TxOK, TxFields, Phases, Unwritten
    <3> QED BY <2>1, <3>4, <3>5, QuietTypes
  <2> QED BY <2>2, <2>3
<1> QED BY <1>1, <1>2

LEMMA SyncTypes ==
  ASSUME Types, Shapes, NEW w \in Workers, ReadPerks(w) \/ WritePerks(w)
  PROVE  Types'
<1> DEFINE s == Tail(tx[w].sync)
           p == Head(tx[w].sync)
<1>0. Sound(tx[w]) /\ tx[w].phase \in Written /\ UNCHANGED <<story, tables, bound, aborts>>
  BY DEF Types, ReadPerks, WritePerks, unwritten, Written
<1>1. /\ tx[w].sync # <<>> /\ p \in Persons
      /\ s \in Seq(Persons) /\ \A k \in DOMAIN s : s[k] \in Persons
  <2>1. tx[w].sync # <<>> /\ tx[w].sync \in Seq(Persons)
    BY <1>0 DEF ReadPerks, WritePerks, Sound, Ok
  <2>2. s \in Seq(Persons) /\ p \in Persons
    BY <2>1
  <2> QED BY <2>1, <2>2
<1> HIDE DEF s, p
<1>2. CASE ReadPerks(w)
  <2> DEFINE held == Over(tx[w].grants, grants)[p]
             entitled == Entitled(Over(tx[w].subs, subs), Over(tx[w].charges, charges), p)
             ops == CASE entitled /\ held = "Active" -> {"none", "Active"}
                      [] entitled /\ held # "Active" -> {"Active"}
                      [] ~entitled /\ held = "Active" -> {"Expired"}
                      [] OTHER -> {"none"}
  <2>0. \E op \in ops : tx' = IF op = "none" THEN [tx EXCEPT ![w].sync = s]
                              ELSE [tx EXCEPT ![w].op = op, ![w].phase = "read"]
    BY <1>2 DEF ReadPerks, s, p
  <2> HIDE DEF held, entitled
  <2>1. PICK op \in {"none", "Active", "Expired"} :
          tx' = [tx EXCEPT ![w] = IF op = "none" THEN [tx[w] EXCEPT !.sync = s]
                                  ELSE [tx[w] EXCEPT !.op = op, !.phase = "read"]]
    BY <2>0 DEF Shapes
  <2>2. CASE op = "none"
    <3> DEFINE u == [tx[w] EXCEPT !.sync = s]
    <3>1. Sound(u)
      BY <1>0, <1>1, <1>2 DEF Sound, Ok, TxOK, TxFields, Written, ReadPerks
    <3> QED BY <1>0, <2>1, <2>2, <3>1, QuietTypes
  <2>3. CASE op # "none"
    <3> DEFINE u == [tx[w] EXCEPT !.op = op, !.phase = "read"]
    <3>1. Sound(u)
      BY <1>0, <1>1 DEF Sound, Ok, TxOK, TxFields, Written, Phases, GrantStatuses
    <3> QED BY <1>0, <2>1, <2>3, <3>1, QuietTypes
  <2> QED BY <2>2, <2>3
<1>3. CASE WritePerks(w)
  <2> DEFINE g == Over(Only(p, tx[w].op), tx[w].grants)
             u == [tx[w] EXCEPT !.phase = "written", !.op = "none", !.sync = s, !.grants = g]
  <2>1. tx' = [tx EXCEPT ![w] = u]
    BY <1>3 DEF WritePerks, Shapes, s, p
  <2>2. \A q \in DOMAIN g : q \in Persons /\ g[q] \in GrantStatuses
    BY <1>0, <1>1 DEF Over, Only, Sound, Ok, TxOK
  <2> HIDE DEF g
  <2>3. Sound(u)
    BY <1>0, <1>1, <2>2 DEF Sound, Ok, TxOK, TxFields, Written, Phases, GrantStatuses
  <2> QED BY <1>0, <2>1, <2>3, QuietTypes
<1> QED BY <1>2, <1>3

-----------------------------------------------------------------------------
(* The facts every operation starts from.                                  *)
LEMMA ActorOk ==
  ASSUME Types, Shapes, NEW w \in Workers, tx[w].phase \in {"resolved", "claimed"}
  PROVE  /\ N(w) \in NoticeType /\ tx[w].id \in Notices /\ tx[w].phase # "idle"
         /\ tx[w].person \in Persons /\ <<tx[w].person>> \in Seq(Persons) /\ <<>> \in Seq(Persons)
         /\ Keeps(tx[w], tx[w])
         /\ N(w).subject \in Series => Keeps(tx[w], Locking(w))
         /\ N(w).kind \in SubscriptionKinds => N(w).subject \in Series
         /\ N(w).kind = "purchase" => N(w).subject \in Charges
         /\ N(w).date \in 0..Horizon /\ 0 \in 0..Horizon /\ N(w).txn \in Txns
<1>1. Sound(tx[w]) /\ tx[w].id \in DOMAIN story
  BY DEF Types, Shapes
<1>2. N(w).subject \in Series => Keeps(tx[w], Locking(w))
  BY <1>1 DEF Keeps, Locking, Sound, Ok, TxOK, TxFields
<1>3. Keeps(tx[w], tx[w])
  BY <1>1 DEF Keeps, Sound
<1>4. /\ N(w) \in NoticeType /\ tx[w].id \in Notices
      /\ N(w).kind \in SubscriptionKinds => N(w).subject \in Series
      /\ N(w).kind = "purchase" => N(w).subject \in Charges
  BY <1>1, NoticeFacts DEF N
<1>5. tx[w].person \in Persons
  BY <1>1 DEF Sound
<1>6. N(w).date \in 0..Horizon /\ 0 \in 0..Horizon /\ N(w).txn \in Txns
  BY <1>4, NullFacts DEF NoticeType
<1> QED BY <1>2, <1>3, <1>4, <1>5, <1>6

LEMMA KeepsChain ==
  ASSUME NEW t, NEW u, NEW v, Keeps(t, u), Keeps(u, v)
  PROVE  Keeps(t, v) /\ Ok(u)
BY DEF Keeps

LEMMA OpeningTypes ==
  ASSUME Types, IInv, NEW w \in Workers, StartSubscription(w) \/ RenewSubscription(w)
  PROVE  Types'
<1> DEFINE n == N(w)
           s == <<tx[w].person>>
           b == WithTxn(Locking(w), n)
           t == Synced(b, s)
           found == FindSeries(subs, n.subject, n.product)
           o == WithRow(t, tx[w].id, NewRow(n, tx[w].person))
<1>0. Shapes
  BY DEF IInv
<1>1. /\ tx[w].phase = "claimed" /\ UNCHANGED unwritten
      /\ n.kind \in PaidKinds /\ n.kind \in SubscriptionKinds /\ n.kind \in PatchKinds
  BY DEF StartSubscription, RenewSubscription, PaidKinds, SubscriptionKinds, PatchKinds
<1>2. /\ n \in NoticeType /\ n.subject \in Series /\ Keeps(tx[w], Locking(w))
      /\ s \in Seq(Persons) /\ tx[w].id \in Notices /\ tx[w].person \in Persons
      /\ tx[w].phase # "idle" /\ n.txn \in Txns
  BY <1>0, <1>1, ActorOk
<1>3. Keeps(tx[w], t) /\ Ok(t)
  <2>1. Keeps(Locking(w), b)
    BY <1>2, SideOk, KeepsChain DEF Keeps
  <2> HIDE DEF b
  <2>2. Keeps(b, t)
    BY <1>2, <2>1, SideOk DEF Keeps
  <2> HIDE DEF t
  <2> QED BY <1>2, <2>1, <2>2, KeepsChain DEF Keeps
<1>4. found \subseteq RowsOf(subs, n.subject)
  BY <1>2, FoundRows
<1>5. Keeps(t, o)
  <2>1. NewRow(n, tx[w].person) \in RowType
    BY <1>2, RowTypes
  <2> QED BY <1>2, <1>3, <2>1, SideOk
<1>6. ASSUME NEW i \in found PROVE Keeps(t, WithUpdate(t, i, n))
  BY <1>1, <1>2, <1>3, <1>4, <1>6, UpdateOk
<1>7. \E T \in SUBSET Topics : \/ Writes(w, t)
                               \/ Writes(w, Announcing(o, T))
                               \/ \E i \in found : \/ Writes(w, WithUpdate(t, i, n))
                                                   \/ Writes(w, Announcing(WithUpdate(t, i, n), T))
  <2>1. {n.subject} \in SUBSET Topics /\ {n.txn} \in SUBSET Topics
        /\ {n.subject, n.txn} \in SUBSET Topics /\ {} \in SUBSET Topics
    BY <1>2 DEF Topics, Subjects
  <2> HIDE DEF o, t
  <2>2. CASE StartSubscription(w)
    BY <2>1, <2>2 DEF StartSubscription, o, t
  <2>3. CASE RenewSubscription(w)
    BY <2>1, <2>3 DEF RenewSubscription, o, t
  <2> QED BY <2>2, <2>3
<1> HIDE DEF o, t, found
<1>8. PICK T \in SUBSET Topics : \/ Writes(w, t)
                               \/ Writes(w, Announcing(o, T))
                               \/ \E i \in found : \/ Writes(w, WithUpdate(t, i, n))
                                                   \/ Writes(w, Announcing(WithUpdate(t, i, n), T))
  BY <1>7
<1>9. CASE Writes(w, t)
  BY <1>0, <1>1, <1>2, <1>3, <1>9, WritesTypes
<1>10. CASE Writes(w, Announcing(o, T))
  <2>1. Keeps(tx[w], Announcing(o, T))
    <3>1. Keeps(tx[w], o) /\ Ok(o)
      BY <1>3, <1>5, KeepsChain DEF Keeps
    <3>2. Keeps(o, Announcing(o, T))
      BY <1>2, <3>1, SideOk
    <3> QED BY <3>1, <3>2, KeepsChain
  <2> QED BY <1>0, <1>1, <1>2, <1>10, <2>1, WritesTypes
<1>11. CASE \E i \in found : \/ Writes(w, WithUpdate(t, i, n))
                             \/ Writes(w, Announcing(WithUpdate(t, i, n), T))
  <2>1. PICK i \in found : \/ Writes(w, WithUpdate(t, i, n))
                           \/ Writes(w, Announcing(WithUpdate(t, i, n), T))
    BY <1>11
  <2> DEFINE u == WithUpdate(t, i, n)
  <2>2. Keeps(tx[w], u) /\ Ok(u)
    BY <1>3, <1>6, KeepsChain DEF Keeps
  <2> HIDE DEF u
  <2>3. Keeps(u, Announcing(u, T))
    BY <1>2, <2>2, SideOk
  <2>4. Keeps(tx[w], Announcing(u, T))
    BY <2>2, <2>3, KeepsChain
  <2> QED BY <1>0, <1>1, <1>2, <2>1, <2>2, <2>4, WritesTypes DEF u
<1> QED BY <1>8, <1>9, <1>10, <1>11

LEMMA MutateTypes ==
  ASSUME Types, IInv, NEW w \in Workers, MutateSubscription(w)
  PROVE  Types'
<1> DEFINE n == N(w)
           s == IF n.kind \in SyncsPerks THEN <<tx[w].person>> ELSE <<>>
           t == Synced(Locking(w), s)
           x == txns[n.txn].refunded
           r == WithTxnUpdate(t, n, x)
           found == FindSeries(subs, n.subject, n.product)
<1>0. Shapes
  BY DEF IInv
<1>1. /\ tx[w].phase = "claimed" /\ UNCHANGED unwritten
      /\ n.kind \in SubscriptionKinds /\ n.kind \in PatchKinds
  BY DEF MutateSubscription, SubscriptionKinds, PatchKinds
<1>2. /\ n \in NoticeType /\ n.subject \in Series /\ Keeps(tx[w], Locking(w))
      /\ s \in Seq(Persons) /\ tx[w].phase # "idle" /\ n.txn \in Txns
  BY <1>0, <1>1, ActorOk
<1>3. Keeps(tx[w], t) /\ Ok(t)
  <2>1. Keeps(Locking(w), t)
    BY <1>2, SideOk DEF Keeps
  <2> HIDE DEF t
  <2> QED BY <1>2, <2>1, KeepsChain DEF Keeps
<1>4. Keeps(tx[w], r) /\ Ok(r)
  <2>1. x \in 0..Horizon
    BY <1>2 DEF Types, TypeOK, TxnType
  <2> HIDE DEF t, x
  <2>2. Keeps(t, r)
    BY <1>2, <1>3, <2>1, SideOk
  <2> HIDE DEF r
  <2> QED BY <1>3, <2>2, KeepsChain DEF Keeps
<1>5. PICK u \in {t, r} : \/ Writes(w, Locking(w))
                          \/ \E i \in found : Writes(w, WithUpdate(u, i, n))
  BY DEF MutateSubscription
<1>6. Keeps(tx[w], u) /\ Ok(u)
  BY <1>3, <1>4
<1> HIDE DEF t, r
<1>7. CASE Writes(w, Locking(w))
  BY <1>0, <1>1, <1>2, <1>7, WritesTypes
<1>8. CASE \E i \in found : Writes(w, WithUpdate(u, i, n))
  <2>1. PICK i \in found : Writes(w, WithUpdate(u, i, n))
    BY <1>8
  <2>2. i \in RowsOf(subs, n.subject)
    BY <1>2, FoundRows
  <2>3. Keeps(u, WithUpdate(u, i, n))
    BY <1>1, <1>2, <1>6, <2>2, UpdateOk
  <2>4. Keeps(tx[w], WithUpdate(u, i, n))
    BY <1>6, <2>3, KeepsChain
  <2> QED BY <1>0, <1>1, <1>2, <2>1, <2>4, WritesTypes
<1> QED BY <1>5, <1>7, <1>8

(* Operations on a one-time purchase: the transaction, the charge, and the *)
(* persons to sync.                                                        *)
LEMMA ChargeTypes ==
  ASSUME Types, IInv, NEW w \in Workers, tx[w].phase \in {"resolved", "claimed"},
         UNCHANGED unwritten, NEW t, Keeps(tx[w], t),
         NEW c \in Charges, NEW row \in ChargeType, NEW s \in Seq(Persons),
         \/ Writes(w, t)
         \/ Writes(w, Synced(WithChargeUpdate(t, c, N(w), row), s))
  PROVE  Types'
<1>0. Shapes
  BY DEF IInv
<1>1. N(w) \in NoticeType /\ tx[w].phase # "idle" /\ Ok(t)
  BY <1>0, ActorOk DEF Keeps
<1> DEFINE u == WithChargeUpdate(t, c, N(w), row)
<1>2. Keeps(t, u)
  BY <1>1, SideOk
<1> HIDE DEF u
<1>3. Keeps(u, Synced(u, s)) /\ Keeps(tx[w], u)
  BY <1>1, <1>2, SideOk, KeepsChain DEF Keeps
<1>4. Keeps(tx[w], Synced(u, s))
  BY <1>3, KeepsChain
<1> QED BY <1>0, <1>1, <1>4, WritesTypes DEF u

LEMMA PurchaseTypes ==
  ASSUME Types, IInv, NEW w \in Workers,
         CompleteOneTimePurchase(w) \/ RefundPurchase(w) \/ RevokePurchase(w) \/ ReverseCharge(w)
  PROVE  Types'
<1> DEFINE n == N(w)
           c == n.subject
           T(x) == WithTxnUpdate(tx[w], n, x)
           persons == IF FreshCharge(c, n) THEN <<tx[w].person>> ELSE <<>>
<1>0. Shapes
  BY DEF IInv
<1>1. tx[w].phase = "claimed" /\ UNCHANGED unwritten
  BY DEF CompleteOneTimePurchase, RefundPurchase, RevokePurchase, ReverseCharge
<1>2. /\ n \in NoticeType /\ Keeps(tx[w], tx[w]) /\ tx[w].phase # "idle" /\ n.txn \in Txns
      /\ <<tx[w].person>> \in Seq(Persons) /\ persons \in Seq(Persons)
      /\ tx[w].person \in Persons /\ n.date \in 0..Horizon /\ 0 \in 0..Horizon
      /\ n.kind = "purchase" => c \in Charges
  BY <1>0, <1>1, ActorOk
<1>3. /\ txns[n.txn].refunded \in 0..Horizon
      /\ tx[w].charge # NoCharge => c \in Charges
  BY <1>2 DEF Types, TypeOK, TxnType, Sound, Ok, N
<1>4. \A x \in 0..Horizon : Keeps(tx[w], T(x))
  BY <1>2, SideOk DEF Keeps
<1> HIDE DEF T, persons
<1>5. CASE CompleteOneTimePurchase(w)
  <2> DEFINE b == WithTxn(tx[w], n)
             t == Synced(b, <<tx[w].person>>)
             row == [NoCharge EXCEPT !.person = tx[w].person]
             u == WithCharge(t, c, row)
  <2>1. c \in Charges /\ row \in ChargeType /\ {c} \in SUBSET Topics
    BY <1>2, <1>5, NullFacts DEF CompleteOneTimePurchase, ChargeType, NoCharge, Topics, Subjects
  <2>2. Writes(w, t) \/ Writes(w, Announcing(u, {c}))
    BY <1>5 DEF CompleteOneTimePurchase
  <2>3. Keeps(tx[w], b)
    BY <1>2, SideOk DEF Keeps
  <2> HIDE DEF b, row
  <2>4. Keeps(tx[w], t)
    <3>1. Keeps(b, t)
      BY <1>2, <2>3, SideOk DEF Keeps
    <3> QED BY <2>3, <3>1, KeepsChain
  <2> HIDE DEF t
  <2>5. Keeps(t, u)
    BY <1>2, <2>1, <2>4, SideOk DEF Keeps
  <2> HIDE DEF u
  <2>6. Keeps(u, Announcing(u, {c}))
    BY <1>2, <2>1, <2>5, SideOk DEF Keeps
  <2>7. Keeps(tx[w], Announcing(u, {c}))
    BY <2>4, <2>5, <2>6, KeepsChain
  <2> QED BY <1>0, <1>1, <1>2, <2>2, <2>4, <2>7, WritesTypes
<1>6. CASE RefundPurchase(w)
  <2> DEFINE t == IF tx[w].txn = NoTxn THEN tx[w] ELSE T(n.date)
             row == [charges[c] EXCEPT !.refunded = n.date]
  <2>1. \/ Writes(w, t)
        \/ tx[w].charge # NoCharge /\ Writes(w, Synced(WithChargeUpdate(t, c, n, row), persons))
    BY <1>6 DEF RefundPurchase, T, persons
  <2>2. Keeps(tx[w], t)
    BY <1>2, <1>4
  <2>3. c \in Charges => row \in ChargeType
    BY <1>2 DEF Types, TypeOK, ChargeType
  <2> HIDE DEF t, row
  <2> QED BY <1>0, <1>1, <1>2, <1>3, <2>1, <2>2, <2>3, ChargeTypes, WritesTypes
<1>7. CASE RevokePurchase(w)
  <2> DEFINE t == IF tx[w].txn = NoTxn THEN tx[w] ELSE T(txns[n.txn].refunded)
             row == [charges[c] EXCEPT !.revoked = n.date]
  <2>1. \/ Writes(w, tx[w])
        \/ tx[w].charge # NoCharge /\ Writes(w, Synced(WithChargeUpdate(t, c, n, row), persons))
    BY <1>7 DEF RevokePurchase, T, persons
  <2>2. Keeps(tx[w], t)
    BY <1>2, <1>3, <1>4
  <2>3. c \in Charges => row \in ChargeType
    BY <1>2 DEF Types, TypeOK, ChargeType
  <2> HIDE DEF t, row
  <2> QED BY <1>0, <1>1, <1>2, <1>3, <2>1, <2>2, <2>3, ChargeTypes, WritesTypes
<1>8. CASE ReverseCharge(w)
  <2> DEFINE t == IF tx[w].txn = NoTxn THEN tx[w] ELSE T(0)
             row == [charges[c] EXCEPT !.refunded = 0]
  <2>1. \/ Writes(w, t)
        \/ tx[w].charge # NoCharge /\ Writes(w, Synced(WithChargeUpdate(t, c, n, row), persons))
    BY <1>8 DEF ReverseCharge, T, persons
  <2>2. Keeps(tx[w], t)
    BY <1>2, <1>4
  <2>3. c \in Charges => row \in ChargeType
    BY <1>2 DEF Types, TypeOK, ChargeType
  <2> HIDE DEF t, row
  <2> QED BY <1>0, <1>1, <1>2, <1>3, <2>1, <2>2, <2>3, ChargeTypes, WritesTypes
<1> QED BY <1>5, <1>6, <1>7, <1>8

LEMMA ReverseTypes ==
  ASSUME Types, IInv, NEW w \in Workers, ReverseSubscription(w)
  PROVE  Types'
<1> DEFINE n == N(w)
           s == <<tx[w].person>>
           t == IF tx[w].txn = NoTxn THEN Locking(w) ELSE WithTxnUpdate(Locking(w), n, 0)
<1>0. Shapes
  BY DEF IInv
<1>1. /\ tx[w].phase = "claimed" /\ UNCHANGED unwritten
      /\ n.subject \in Series /\ n.kind \in PatchKinds
  BY DEF ReverseSubscription, PatchKinds
<1>2. /\ n \in NoticeType /\ Keeps(tx[w], Locking(w)) /\ tx[w].phase # "idle"
      /\ s \in Seq(Persons) /\ 0 \in 0..Horizon
  BY <1>0, <1>1, ActorOk
<1>3. Keeps(tx[w], t) /\ Ok(t)
  <2>1. Keeps(Locking(w), WithTxnUpdate(Locking(w), n, 0))
    BY <1>2, SideOk DEF Keeps
  <2> QED BY <1>2, <2>1, KeepsChain DEF Keeps
<1>4. Restorable(w) \subseteq RowsOf(subs, n.subject)
  BY <1>1, FoundRows DEF Restorable
<1>5. \/ Writes(w, t)
      \/ \E i \in Restorable(w) : Writes(w, Synced(WithUpdate(t, i, n), s))
  BY DEF ReverseSubscription
<1> HIDE DEF t
<1>6. CASE \E i \in Restorable(w) : Writes(w, Synced(WithUpdate(t, i, n), s))
  <2>1. PICK i \in Restorable(w) : Writes(w, Synced(WithUpdate(t, i, n), s))
    BY <1>6
  <2> DEFINE u == WithUpdate(t, i, n)
  <2>2. Keeps(t, u)
    BY <1>1, <1>2, <1>3, <1>4, UpdateOk
  <2> HIDE DEF u
  <2>3. Keeps(u, Synced(u, s))
    BY <1>2, <2>2, SideOk DEF Keeps
  <2>4. Keeps(tx[w], Synced(u, s))
    BY <1>3, <2>2, <2>3, KeepsChain
  <2> QED BY <1>0, <1>1, <1>2, <2>1, <2>4, WritesTypes DEF u
<1> QED BY <1>0, <1>1, <1>2, <1>3, <1>5, <1>6, WritesTypes

LEMMA TransferTypes ==
  ASSUME Types, IInv, NEW w \in Workers, TransferSubscription(w) \/ TransferPurchase(w)
  PROVE  Types'
<1> DEFINE n == N(w)
           c == n.subject
           s == <<tx[w].person, n.owner>>
           row == [charges[c] EXCEPT !.person = n.owner]
<1>0. Shapes
  BY DEF IInv
<1>1. /\ tx[w].phase = "resolved" /\ n.kind = "transfer" /\ n.kind \in PatchKinds
      /\ UNCHANGED unwritten
  BY DEF TransferSubscription, TransferPurchase, PatchKinds
<1>2. /\ n \in NoticeType /\ Keeps(tx[w], tx[w]) /\ tx[w].phase # "idle"
      /\ tx[w].person \in Persons
  BY <1>0, <1>1, ActorOk
<1>3. n.owner \in Persons /\ s \in Seq(Persons)
  BY <1>2 DEF NoticeType
<1>4. CASE Ends(w, "idle") \/ Ends(w, "rebind")
  BY <1>0, <1>1, <1>2, <1>4, EndTypes DEF unwritten
<1>5. CASE TransferSubscription(w) /\ ~(Ends(w, "idle") \/ Ends(w, "rebind"))
  <2>1. n.subject \in Series
    BY <1>5 DEF TransferSubscription
  <2>2. PICK i \in RowsOf(subs, n.subject) : Writes(w, Synced(WithUpdate(tx[w], i, n), s))
    BY <1>5 DEF TransferSubscription
  <2> DEFINE u == WithUpdate(tx[w], i, n)
  <2>3. Keeps(tx[w], u)
    BY <1>1, <1>2, <2>1, UpdateOk DEF Keeps
  <2> HIDE DEF u
  <2>4. Keeps(u, Synced(u, s))
    BY <1>2, <1>3, <2>3, SideOk DEF Keeps
  <2>5. Keeps(tx[w], Synced(u, s))
    BY <2>3, <2>4, KeepsChain
  <2> QED BY <1>0, <1>1, <1>2, <2>2, <2>5, WritesTypes DEF u
<1>6. CASE TransferPurchase(w) /\ ~(Ends(w, "idle") \/ Ends(w, "rebind"))
  <2>1. c \in Charges /\ Writes(w, Synced(WithChargeUpdate(tx[w], c, n, row), s))
    BY <1>6 DEF TransferPurchase
  <2>2. row \in ChargeType
    BY <1>3, <2>1 DEF Types, TypeOK, ChargeType
  <2> HIDE DEF row
  <2> QED BY <1>1, <1>2, <1>3, <2>1, <2>2, ChargeTypes
<1> QED BY <1>4, <1>5, <1>6

-----------------------------------------------------------------------------
(* The committed tables are the old ones under what was written.           *)
LEMMA OverFacts ==
  ASSUME NEW f, NEW g, DOMAIN f \subseteq DOMAIN g
  PROVE  /\ Over(f, g) = [x \in DOMAIN g |-> Over(f, g)[x]]
         /\ \A x \in DOMAIN f : Over(f, g)[x] = f[x]
         /\ \A x \in DOMAIN g \ DOMAIN f : Over(f, g)[x] = g[x]
<1>1. DOMAIN f \cup DOMAIN g = DOMAIN g
  OBVIOUS
<1> QED BY <1>1 DEF Over

LEMMA CommitTypes ==
  ASSUME Types, IInv, NEW w \in Workers, Commit(w)
  PROVE  Types'
<1> DEFINE t == tx[w]
<1>0. Shapes /\ Sound(t) /\ t.phase = "written" /\ TypeOK
  BY DEF IInv, Types, Commit
<1>1. /\ \A i \in DOMAIN t.subs : i \in Notices /\ t.subs[i] \in RowType
      /\ \A x \in DOMAIN t.txns : x \in Txns /\ t.txns[x] \in TxnType
      /\ \A c \in DOMAIN t.charges : c \in Charges /\ t.charges[c] \in ChargeType
      /\ \A p \in DOMAIN t.grants : p \in Persons /\ t.grants[p] \in GrantStatuses
      /\ t.id \in Notices /\ t.announce \subseteq Topics
      /\ t.changed \cup t.decides \cup t.crossed \subseteq Persons
  BY <1>0, NoticeFacts DEF Sound, Ok, TxOK, Shapes
<1>2. \A i \in Notices : subs'[i] = NoRow \/ subs'[i] \in RowType
  <2>1. DOMAIN t.subs \subseteq DOMAIN subs /\ DOMAIN subs = Notices
    BY <1>0, <1>1 DEF Shapes
  <2>2. /\ \A i \in DOMAIN t.subs : subs'[i] = t.subs[i]
        /\ \A i \in Notices \ DOMAIN t.subs : subs'[i] = subs[i]
    BY <2>1, OverFacts DEF Commit
  <2> QED BY <1>0, <1>1, <2>2 DEF TypeOK
<1>3. txns' \in [Txns -> TxnType]
  <2>1. DOMAIN t.txns \subseteq DOMAIN txns /\ DOMAIN txns = Txns
    BY <1>0, <1>1 DEF TypeOK
  <2>2. /\ txns' = [x \in Txns |-> txns'[x]]
        /\ \A x \in DOMAIN t.txns : txns'[x] = t.txns[x]
        /\ \A x \in Txns \ DOMAIN t.txns : txns'[x] = txns[x]
    BY <2>1, OverFacts DEF Commit
  <2> QED BY <1>0, <1>1, <2>2 DEF TypeOK
<1>4. charges' \in [Charges -> ChargeType]
  <2>1. DOMAIN t.charges \subseteq DOMAIN charges /\ DOMAIN charges = Charges
    BY <1>0, <1>1 DEF TypeOK
  <2>2. /\ charges' = [x \in Charges |-> charges'[x]]
        /\ \A x \in DOMAIN t.charges : charges'[x] = t.charges[x]
        /\ \A x \in Charges \ DOMAIN t.charges : charges'[x] = charges[x]
    BY <2>1, OverFacts DEF Commit
  <2> QED BY <1>0, <1>1, <2>2 DEF TypeOK
<1>5. grants' \in [Persons -> GrantStatuses]
  <2>1. DOMAIN t.grants \subseteq DOMAIN grants /\ DOMAIN grants = Persons
    BY <1>0, <1>1 DEF TypeOK
  <2>2. /\ grants' = [x \in Persons |-> grants'[x]]
        /\ \A x \in DOMAIN t.grants : grants'[x] = t.grants[x]
        /\ \A x \in Persons \ DOMAIN t.grants : grants'[x] = grants[x]
    BY <2>1, OverFacts DEF Commit
  <2> QED BY <1>0, <1>1, <2>2 DEF TypeOK
<1>6. announced' \in [Topics -> 0..2]
  <2>1. announced' = [x \in Topics |-> IF x \in t.announce /\ announced[x] < 2
                                       THEN announced[x] + 1 ELSE announced[x]]
    BY <1>0 DEF Commit, Bump, TypeOK
  <2>2. \A x \in Topics : announced[x] \in 0..2
    BY <1>0 DEF TypeOK
  <2>3. \A k \in 0..2 : k < 2 => k + 1 \in 0..2
    OBVIOUS
  <2> QED BY <2>1, <2>2, <2>3
<1>7. obeyed' \in [Notices -> SUBSET Notices]
  BY <1>0, <1>1 DEF Commit, TypeOK
<1>8. reserved' \subseteq Notices /\ doubt' \subseteq Persons /\ UNCHANGED <<story, bound, aborts>>
  BY <1>0, <1>1 DEF Commit, TypeOK, Overlooked
<1>9. ASSUME NEW v \in Workers PROVE Sound(tx[v])'
  <2>1. PICK q : tx' = [tx EXCEPT ![w] = q] /\ Sound(q)
    <3>1. PICK p \in {"idle", "rebind"} : Ends(w, p)
      BY DEF Commit
    <3>2. CASE p = "idle"
      BY <3>1, <3>2, IdleSound DEF Ends
    <3>3. CASE p = "rebind"
      <4> DEFINE u == [tx[w] EXCEPT !.phase = "rebind"]
      <4>1. tx' = [tx EXCEPT ![w] = u]
        BY <3>1, <3>3 DEF Ends
      <4>2. Sound(u)
        BY <1>0 DEF Sound, Ok, TxOK, TxFields, Phases
      <4> QED BY <4>1, <4>2
    <3> QED BY <3>1, <3>2, <3>3
  <2>2. Sound(tx'[v])
    BY <1>0, <2>1 DEF Shapes, Types
  <2> QED BY <1>8, <2>2 DEF Sound, Ok, TxOK
<1>10. \A v \in Workers : TxOK(tx[v])'
  BY <1>9 DEF Sound, Ok
<1>11. aborts \in 0..MaxAborts /\ bound \in [Subjects -> Persons]
  BY <1>0 DEF TypeOK
<1> QED BY <1>2, <1>3, <1>4, <1>5, <1>6, <1>7, <1>8, <1>9, <1>10, <1>11 DEF Types, TypeOK

LEMMA EndingTypes ==
  ASSUME Types, IInv, NEW w \in Workers, Rebind(w) \/ Abort(w)
  PROVE  Types'
<1>0. Shapes /\ TypeOK /\ tx[w].phase # "idle" /\ UNCHANGED <<story, tables>>
  BY DEF IInv, Types, Rebind, Abort, Open, Written
<1>1. PICK q : tx' = [tx EXCEPT ![w] = q] /\ Sound(q)
  BY IdleSound DEF Rebind, Abort, Ends
<1>2. ASSUME NEW v \in Workers PROVE Sound(tx[v])' /\ TxOK(tx[v])'
  <2>1. Sound(tx'[v])
    BY <1>0, <1>1 DEF Shapes, Types
  <2> QED BY <1>0, <2>1 DEF Sound, Ok, TxOK
<1>3. bound' \in [Subjects -> Persons] /\ aborts' \in 0..MaxAborts
  <2>1. CASE Rebind(w)
    <3>1. N(w) \in NoticeType
      BY <1>0, NoticeFacts DEF Shapes, N
    <3>2. N(w).owner \in Persons /\ bound' = [bound EXCEPT ![N(w).subject] = N(w).owner]
      BY <2>1, <3>1 DEF Rebind, NoticeType
    <3> QED BY <1>0, <2>1, <3>2 DEF Rebind, TypeOK
  <2>2. CASE Abort(w)
    BY <1>0, <2>2, PurchaseAssumption DEF Abort, TypeOK
  <2> QED BY <2>1, <2>2
<1> QED BY <1>0, <1>2, <1>3 DEF Types, TypeOK, tables

-----------------------------------------------------------------------------
LEMMA InitTypes == Init => Types
<1> SUFFICES ASSUME Init PROVE Types
  OBVIOUS
<1>1. \A w \in Workers : Sound(tx[w])
  BY IdleSound DEF Init
<1>2. \A w \in Workers : TxOK(tx[w])
  BY <1>1 DEF Sound, Ok
<1>3. announced \in [Topics -> 0..2] /\ aborts \in 0..MaxAborts
  BY PurchaseAssumption DEF Init
<1>4. bound \in [Subjects -> Persons]
  BY PurchaseAssumption DEF Init
<1> QED BY <1>1, <1>2, <1>3, <1>4, NullFacts DEF Init, Types, TypeOK, GrantStatuses

LEMMA NextTypes == Types /\ IInv /\ [Next]_vars => Types'
<1> SUFFICES ASSUME Types, IInv, [Next]_vars PROVE Types'
  OBVIOUS
<1>1. CASE UNCHANGED vars
  BY <1>1 DEF vars, tables, Types, TypeOK, Sound, Ok, TxOK
<1>2. CASE Next
  <2>1. PICK w \in Workers : (\E i \in Notices : Receive(w, i)) \/ Step(w) \/ Abort(w)
    BY <1>2 DEF Next
  <2>2. Shapes
    BY DEF IInv
  <2> QED BY <2>1, <2>2, BeginTypes, SyncTypes, OpeningTypes, MutateTypes, PurchaseTypes,
             ReverseTypes, TransferTypes, CommitTypes, EndingTypes DEF Step
<1> QED BY <1>1, <1>2

(* Every table, binding and open transaction holds values of its columns.  *)
LEMMA TypesInvariant == Spec => []Types
<1> QED BY InitTypes, NextTypes, PurchaseInvariant, PTL DEF Spec

THEOREM PurchasesKeepTheirTypes == Spec => []TypeOK
<1>1. Types => TypeOK
  BY DEF Types
<1> QED BY <1>1, TypesInvariant, PTL

=============================================================================
