------------------------ MODULE PurchaseCommitProofs ------------------------
(***************************************************************************)
(* What an open purchase transaction is about to commit is fixed when it   *)
(* writes, and no other commit makes it wrong.  From that: an opening is   *)
(* announced once, purchase processing implements its serial machine, and  *)
(* perks follow the rows, for any workers, notifications and persons.      *)
(***************************************************************************)
EXTENDS PurchaseStateProofs

(* What a transaction that has written is about to commit.                 *)

(* It leaves the subscriptions alone because nothing in them is its        *)
(* business, or it opens the row of its series, or it updates that row.    *)
Leaves(n) ==
  \/ n.kind \in Kinds \ SubscriptionKinds
  \/ n.kind \notin PaidKinds /\ RowsOf(subs, n.subject) = {}
  \/ \E i \in RowsOf(subs, n.subject) :
       ~Fresher(subs[i], n) \/ (n.kind = "start" /\ subs[i].product = n.product)

OpensRow(t, n) ==
  /\ n.kind \in PaidKinds /\ DOMAIN t.subs = {t.id}
  /\ subs[t.id] = NoRow /\ t.subs[t.id] = NewRow(n, t.person)

MovesRow(t, n, i) ==
  /\ n.kind \in PatchKinds /\ DOMAIN t.subs = {i}
  /\ subs[i] # NoRow /\ Fresher(subs[i], n)
  /\ t.subs[i] = Updated(subs[i], n)
  /\ n.kind = "start" => subs[i].product # n.product
  /\ n.kind = "reverse" => subs[i].latest = n.txn

RowsWritten(t, n) ==
  /\ \/ DOMAIN t.subs = {} /\ Leaves(n)
     \/ OpensRow(t, n)
     \/ \E i \in RowsOf(subs, n.subject) : MovesRow(t, n, i)
  /\ n.kind \in SubscriptionKinds \/ DOMAIN t.subs # {} =>
       n.kind = "transfer" \/ t.locks = {n.subject}

(* The rows of the other tables; a store transaction is first recorded by  *)
(* a payment.                                                              *)
TxnsWritten(t, n) ==
  \A x \in DOMAIN t.txns :
    /\ x = n.txn /\ t.txns[x] # NoTxn
    /\ txns[x] = NoTxn => n.kind \in PaidKinds \cup {"purchase"}

ChargesWritten(t, n) == \A c \in DOMAIN t.charges : c = n.subject /\ t.charges[c] # NoCharge

(* It announces the rows that it opens, and no others.                     *)
Announces(t) ==
  /\ \A s \in Series : s \in t.announce <=>
       \E i \in DOMAIN t.subs : subs[i] = NoRow /\ story[i].subject = s
  /\ \A c \in Charges : c \in t.announce <=> c \in DOMAIN t.charges /\ charges[c] = NoCharge
  /\ \A x \in Txns : x \in t.announce => x \in DOMAIN t.txns /\ txns[x] = NoTxn

(* It knows whose entitlements its rows change.                            *)
ChangesTold(t) ==
  /\ \A i \in DOMAIN t.subs : SubChanges(i, t.subs[i]) \subseteq t.changed
  /\ \A c \in DOMAIN t.charges : ChargeChanges(c, t.charges[c]) \subseteq t.changed

Prepared(t) ==
  /\ RowsWritten(t, story[t.id]) /\ TxnsWritten(t, story[t.id]) /\ ChargesWritten(t, story[t.id])
  /\ Announces(t) /\ ChangesTold(t)

Listed(s) == {s[k] : k \in DOMAIN s}
Known(t) == {t.person} \cup IF story[t.id].kind = "transfer" THEN {story[t.id].owner} ELSE {}

(* What a worker may write: Prepared, over rows no other transaction is    *)
(* writing, with a sync of every known person whose entitlements change.   *)
Draft(w, t) ==
  /\ DOMAIN t = TxFields /\ t.id = tx[w].id /\ t.person = tx[w].person
  /\ DOMAIN t.grants = {}
  /\ Prepared(t)
  /\ \A x \in DOMAIN t.txns : TxnFree(w, x)
  /\ \A c \in DOMAIN t.charges : ChargeFree(w, c)
  /\ t.changed \cap Known(t) \subseteq Listed(t.sync)

-----------------------------------------------------------------------------
(* Each builder changes the columns it names.                              *)
Besides(t, u, F) == DOMAIN u = TxFields /\ \A f \in TxFields \ F : u[f] = t[f]

LEMMA TxnBuilder ==
  ASSUME NEW t, DOMAIN t = TxFields, NEW n, NEW x
  PROVE  /\ Besides(t, WithTxn(t, n), {"txns"})
         /\ WithTxn(t, n).txns = IF txns[n.txn] = NoTxn
              THEN Only(n.txn, [mark |-> n.at, refunded |-> 0]) ELSE t.txns
         /\ Besides(t, WithTxnUpdate(t, n, x), {"txns"})
         /\ WithTxnUpdate(t, n, x).txns = IF FreshTxn(n)
              THEN Only(n.txn, [mark |-> n.at, refunded |-> x]) ELSE t.txns
<1> USE DEF Besides, TxFields
<1>1. /\ Besides(t, WithTxn(t, n), {"txns"})
      /\ WithTxn(t, n).txns = IF txns[n.txn] = NoTxn
           THEN Only(n.txn, [mark |-> n.at, refunded |-> 0]) ELSE t.txns
  BY DEF WithTxn
<1>2. /\ Besides(t, WithTxnUpdate(t, n, x), {"txns"})
      /\ WithTxnUpdate(t, n, x).txns = IF FreshTxn(n)
           THEN Only(n.txn, [mark |-> n.at, refunded |-> x]) ELSE t.txns
  BY DEF WithTxnUpdate
<1> QED BY <1>1, <1>2

LEMMA SyncBuilder ==
  ASSUME NEW t, DOMAIN t = TxFields, NEW x
  PROVE  Besides(t, Synced(t, x), {"sync"}) /\ Synced(t, x).sync = x
BY DEF Synced, Besides, TxFields

LEMMA AnnounceBuilder ==
  ASSUME NEW t, DOMAIN t = TxFields, NEW x
  PROVE  Besides(t, Announcing(t, x), {"announce"}) /\ Announcing(t, x).announce = x
BY DEF Announcing, Besides, TxFields

LEMMA RowBuilder ==
  ASSUME NEW t, DOMAIN t = TxFields, NEW i, NEW row
  PROVE  /\ Besides(t, WithRow(t, i, row), {"subs", "changed"})
         /\ WithRow(t, i, row).subs = Only(i, row)
         /\ WithRow(t, i, row).changed = t.changed \cup SubChanges(i, row)
BY DEF WithRow, Besides, TxFields

LEMMA ChargeBuilder ==
  ASSUME NEW t, DOMAIN t = TxFields, NEW c, NEW row
  PROVE  /\ Besides(t, WithCharge(t, c, row), {"charges", "changed"})
         /\ WithCharge(t, c, row).charges = Only(c, row)
         /\ WithCharge(t, c, row).changed = t.changed \cup ChargeChanges(c, row)
BY DEF WithCharge, Besides, TxFields

LEMMA LockingFields ==
  ASSUME NEW w \in Workers, DOMAIN tx[w] = TxFields
  PROVE  Besides(tx[w], Locking(w), {"locks"}) /\ Locking(w).locks = {N(w).subject}
BY DEF Locking, TxFields, Besides

(* The state a worker writes from.                                         *)
LEMMA Blank ==
  ASSUME Types, IInv, NEW w \in Workers, tx[w].phase \in {"resolved", "claimed"}
  PROVE  LET t == tx[w]
         IN  /\ DOMAIN t = TxFields /\ DOMAIN t.subs = {} /\ DOMAIN t.txns = {}
             /\ DOMAIN t.charges = {} /\ DOMAIN t.grants = {} /\ t.changed = {}
             /\ t.announce = {} /\ t.locks = {} /\ t.sync = <<>>
             /\ t.person \in Persons /\ t.id \in DOMAIN story /\ t.id \in Notices
<1>1. Sound(tx[w]) /\ Shapes
  BY DEF Types, IInv
<1> QED BY <1>1, NoticeFacts DEF Sound, Ok, Unwritten, Shapes

(* A lookup in a series with one row finds that row.                       *)
LEMMA TheRow ==
  ASSUME IInv, NEW s \in Series, NEW p, NEW i \in FindSeries(subs, s, p)
  PROVE  i \in RowsOf(subs, s) /\ i \in Notices /\ subs[i] # NoRow
BY FoundRows

(* Keys of different tables differ.                                        *)
LEMMA KeysDiffer ==
  /\ Series \cap Charges = {} /\ Series \cap Txns = {} /\ Charges \cap Txns = {}
BY PurchaseAssumption DEF Subjects

LEMMA NeverNull ==
  ASSUME NEW n \in NoticeType, NEW x
  PROVE  /\ [mark |-> n.at, refunded |-> x] # NoTxn
         /\ \A row \in ChargeType : [row EXCEPT !.mark = n.at] # NoCharge
         /\ \A p \in Persons : [NoCharge EXCEPT !.person = p] # NoCharge
<1>1. n.at # 0
  BY NullFacts DEF NoticeType
<1>2. [mark |-> n.at, refunded |-> x].mark # NoTxn.mark
  BY <1>1 DEF NoTxn
<1>3. ASSUME NEW row \in ChargeType PROVE [row EXCEPT !.mark = n.at].mark # NoCharge.mark
  BY <1>1 DEF ChargeType, NoCharge
<1>4. ASSUME NEW p \in Persons PROVE [NoCharge EXCEPT !.person = p].person # NoCharge.person
  BY NullFacts DEF NoCharge
<1> QED BY <1>2, <1>3, <1>4

(* A draft whose rows are still to come.                                   *)
Base(w, t) ==
  /\ DOMAIN t = TxFields /\ t.id = tx[w].id /\ t.person = tx[w].person
  /\ DOMAIN t.subs = {} /\ DOMAIN t.charges = {} /\ DOMAIN t.grants = {}
  /\ t.changed = {} /\ t.announce = {}
  /\ TxnsWritten(t, N(w))
  /\ \A x \in DOMAIN t.txns : TxnFree(w, x)

Held(w, t) == N(w).kind = "transfer" \/ t.locks = {N(w).subject}

LEMMA LeaveDraft ==
  ASSUME NEW w \in Workers, NEW t, Base(w, t), Leaves(N(w)),
         N(w).kind \in SubscriptionKinds => Held(w, t)
  PROVE  Draft(w, t)
<1>1. RowsWritten(t, N(w)) /\ ChargesWritten(t, N(w)) /\ Announces(t) /\ ChangesTold(t)
  BY DEF Base, Held, RowsWritten, ChargesWritten, Announces, ChangesTold
<1> QED BY <1>1 DEF Base, Draft, Prepared, N

LEMMA MoveDraft ==
  ASSUME IInv, NEW w \in Workers, NEW t, Base(w, t), Held(w, t), N(w).txn \in Txns,
         N(w).subject \in Series,
         NEW i \in RowsOf(subs, N(w).subject), Fresher(subs[i], N(w)), N(w).kind \in PatchKinds,
         N(w).kind = "start" => subs[i].product # N(w).product,
         N(w).kind = "reverse" => subs[i].latest = N(w).txn,
         NEW u, Besides(t, u, {"subs", "changed", "announce", "sync"}),
         u.subs = Only(i, Updated(subs[i], N(w))), u.changed = SubChanges(i, Updated(subs[i], N(w))),
         \/ u.announce = {}
         \/ u.announce = {N(w).txn} /\ N(w).txn \in DOMAIN t.txns /\ txns[N(w).txn] = NoTxn,
         u.changed \cap Known(t) \subseteq Listed(u.sync)
  PROVE  Draft(w, u)
<1> DEFINE n == N(w)
           q == Updated(subs[i], n)
<1>1. i \in Notices /\ subs[i] # NoRow
  BY FoundRows
<1>2. /\ DOMAIN u = TxFields /\ u.id = tx[w].id /\ u.person = tx[w].person
      /\ u.txns = t.txns /\ u.charges = t.charges /\ u.grants = t.grants /\ u.locks = t.locks
      /\ DOMAIN u.charges = {} /\ DOMAIN u.grants = {}
  BY DEF Base, Besides, TxFields
<1> HIDE DEF q
<1>3. u.subs = Only(i, q) /\ u.changed = SubChanges(i, q)
  BY DEF q
<1>4. DOMAIN u.subs = {i} /\ u.subs[i] = q
  BY <1>3 DEF Only
<1>5. RowsWritten(u, n)
  BY <1>1, <1>2, <1>4 DEF RowsWritten, MovesRow, Held, q
<1>6. Announces(u)
  BY <1>1, <1>2, <1>4, KeysDiffer DEF Announces
<1>7. ChangesTold(u)
  BY <1>2, <1>3, <1>4 DEF ChangesTold
<1>8. TxnsWritten(u, n) /\ ChargesWritten(u, n)
  BY <1>2 DEF Base, TxnsWritten, ChargesWritten
<1>9. Known(u) = Known(t)
  BY <1>2 DEF Base, Known
<1> QED BY <1>2, <1>5, <1>6, <1>7, <1>8, <1>9 DEF Draft, Prepared, Base, N

LEMMA OpenDraft ==
  ASSUME IInv, NEW w \in Workers, NEW t, Base(w, t), t.locks = {N(w).subject},
         N(w).txn \in Txns, tx[w].id \in DOMAIN story, tx[w].id \in Notices,
         N(w).subject \in Series, RowsOf(subs, N(w).subject) = {}, N(w).kind \in PaidKinds,
         NEW u, Besides(t, u, {"subs", "changed", "announce"}),
         u.subs = Only(tx[w].id, NewRow(N(w), tx[w].person)),
         u.changed = SubChanges(tx[w].id, NewRow(N(w), tx[w].person)),
         \/ u.announce = {N(w).subject}
         \/ /\ u.announce = {N(w).subject, N(w).txn}
            /\ N(w).txn \in DOMAIN t.txns /\ txns[N(w).txn] = NoTxn,
         t.sync = <<tx[w].person>>
  PROVE  Draft(w, u)
<1> DEFINE n == N(w)
           i == tx[w].id
           row == NewRow(n, tx[w].person)
<1>1. /\ DOMAIN u = TxFields /\ u.id = tx[w].id /\ u.person = tx[w].person
      /\ u.txns = t.txns /\ u.charges = t.charges /\ u.grants = t.grants /\ u.locks = t.locks
      /\ u.sync = t.sync /\ DOMAIN u.charges = {} /\ DOMAIN u.grants = {}
  BY DEF Base, Besides, TxFields
<1> HIDE DEF row
<1>2. u.subs = Only(i, row) /\ u.changed = SubChanges(i, row)
  BY DEF row
<1>3. DOMAIN u.subs = {i} /\ u.subs[i] = row
  BY <1>2 DEF Only
<1>4. subs[i] = NoRow
  <2>1. subs[i] # NoRow => subs[i].series = n.subject
    BY DEF IInv, Committed, SoundRow, N
  <2> QED BY <2>1 DEF RowsOf
<1>5. RowsWritten(u, n)
  BY <1>1, <1>3, <1>4 DEF RowsWritten, OpensRow, row
<1>6. Announces(u)
  BY <1>1, <1>3, <1>4, KeysDiffer DEF Announces, N
<1>7. ChangesTold(u)
  BY <1>1, <1>2, <1>3 DEF ChangesTold
<1>8. TxnsWritten(u, n) /\ ChargesWritten(u, n)
  BY <1>1 DEF Base, TxnsWritten, ChargesWritten
<1>9. n.kind # "transfer"
  BY DEF PaidKinds
<1>10. \A p \in Known(u) : p = tx[w].person
  BY <1>1, <1>9 DEF Known, N
<1>11. tx[w].person \in Listed(u.sync)
  BY <1>1 DEF Listed
<1> QED BY <1>1, <1>5, <1>6, <1>7, <1>8, <1>10, <1>11 DEF Draft, Prepared, Base, N

(* A payment that has recorded its transaction: its rows are still to come.*)
LEMMA PaidDraft ==
  ASSUME Types, IInv, NEW w \in Workers, tx[w].phase = "claimed", N(w).kind \in PaidKinds,
         TxnFree(w, N(w).txn)
  PROVE  LET n == N(w)
             t == Synced(WithTxn(Locking(w), n), <<tx[w].person>>)
         IN  /\ Besides(tx[w], t, {"locks", "txns", "sync"})
             /\ t.locks = {n.subject} /\ t.sync = <<tx[w].person>>
             /\ TxnsWritten(t, n)
             /\ \A x \in DOMAIN t.txns : TxnFree(w, x)
             /\ txns[n.txn] = NoTxn => n.txn \in DOMAIN t.txns
<1> DEFINE n == N(w)
           a == Locking(w)
           b == WithTxn(a, n)
           t == Synced(b, <<tx[w].person>>)
<1>1. DOMAIN tx[w] = TxFields /\ DOMAIN tx[w].txns = {} /\ n \in NoticeType
  BY Blank, ActorOk DEF IInv
<1>2. Besides(tx[w], a, {"locks"}) /\ a.locks = {n.subject}
  BY <1>1, LockingFields
<1> HIDE DEF a
<1>3. Besides(a, b, {"txns"}) /\ b.txns = IF txns[n.txn] = NoTxn
        THEN Only(n.txn, [mark |-> n.at, refunded |-> 0]) ELSE a.txns
  BY <1>2, TxnBuilder DEF Besides
<1> HIDE DEF b
<1>4. Besides(b, t, {"sync"}) /\ t.sync = <<tx[w].person>>
  <2>1. DOMAIN b = TxFields
    BY <1>3 DEF Besides
  <2> QED BY <2>1, SyncBuilder
<1> HIDE DEF t
<1>5. /\ Besides(tx[w], t, {"locks", "txns", "sync"})
      /\ t.locks = {n.subject} /\ t.txns = b.txns /\ a.txns = tx[w].txns
  BY <1>2, <1>3, <1>4 DEF Besides, TxFields
<1>6. CASE txns[n.txn] = NoTxn
  <2>0. t.txns = Only(n.txn, [mark |-> n.at, refunded |-> 0])
    BY <1>3, <1>5, <1>6
  <2>1. DOMAIN t.txns = {n.txn} /\ t.txns[n.txn] = [mark |-> n.at, refunded |-> 0]
    BY <2>0 DEF Only
  <2> QED BY <1>1, <1>4, <1>5, <2>1, NeverNull DEF TxnsWritten, t, b, a
<1>7. CASE txns[n.txn] # NoTxn
  <2>1. DOMAIN t.txns = {}
    BY <1>1, <1>3, <1>5, <1>7
  <2> QED BY <1>4, <1>5, <1>7, <2>1 DEF TxnsWritten, t, b, a
<1> QED BY <1>6, <1>7


(* What the two payments share.                                            *)
LEMMA PaidBase ==
  ASSUME Types, IInv, NEW w \in Workers, tx[w].phase = "claimed", N(w).kind \in PaidKinds,
         TxnFree(w, N(w).txn)
  PROVE  LET n == N(w)
             t == Synced(WithTxn(Locking(w), n), <<tx[w].person>>)
             found == FindSeries(subs, n.subject, n.product)
         IN  /\ Base(w, t) /\ Held(w, t) /\ t.locks = {n.subject} /\ t.sync = <<tx[w].person>>
             /\ txns[n.txn] = NoTxn => n.txn \in DOMAIN t.txns
             /\ n.subject \in Series /\ n.txn \in Txns /\ n \in NoticeType
             /\ tx[w].id \in DOMAIN story /\ tx[w].id \in Notices
             /\ Known(t) = {tx[w].person} /\ Listed(t.sync) = {tx[w].person}
             /\ n.kind \in SubscriptionKinds /\ n.kind \in PatchKinds
             /\ found = {} => RowsOf(subs, n.subject) = {}
             /\ \A i \in found : i \in RowsOf(subs, n.subject)
<1> DEFINE n == N(w)
           t == Synced(WithTxn(Locking(w), n), <<tx[w].person>>)
           found == FindSeries(subs, n.subject, n.product)
<1>0. Shapes
  BY DEF IInv
<1>1. n.kind \in SubscriptionKinds /\ n.kind \in PatchKinds /\ n.kind # "transfer"
  BY DEF PaidKinds, SubscriptionKinds, PatchKinds
<1>2. n \in NoticeType /\ n.subject \in Series /\ n.txn \in Txns
  BY <1>0, <1>1, ActorOk
<1>3. /\ Besides(tx[w], t, {"locks", "txns", "sync"})
      /\ t.locks = {n.subject} /\ t.sync = <<tx[w].person>>
      /\ TxnsWritten(t, n)
      /\ \A x \in DOMAIN t.txns : TxnFree(w, x)
      /\ txns[n.txn] = NoTxn => n.txn \in DOMAIN t.txns
  BY PaidDraft
<1>4. LET b == tx[w]
      IN  /\ DOMAIN b = TxFields /\ DOMAIN b.subs = {} /\ DOMAIN b.charges = {}
          /\ DOMAIN b.grants = {} /\ b.changed = {} /\ b.announce = {}
          /\ b.person \in Persons /\ b.id \in DOMAIN story /\ b.id \in Notices
  BY Blank
<1> HIDE DEF t
<1>5. /\ DOMAIN t = TxFields /\ DOMAIN t.subs = {} /\ DOMAIN t.charges = {}
      /\ DOMAIN t.grants = {} /\ t.changed = {} /\ t.announce = {}
      /\ t.person = tx[w].person /\ t.id = tx[w].id
  BY <1>3, <1>4 DEF Besides, TxFields
<1>6. Known(t) = {tx[w].person}
  BY <1>1, <1>5 DEF Known, N
<1>7. Listed(t.sync) = {tx[w].person}
  BY <1>3 DEF Listed
<1>8. (found = {} => RowsOf(subs, n.subject) = {}) /\ \A i \in found : i \in RowsOf(subs, n.subject)
  BY <1>2, FoundRows
<1>9. Base(w, t) /\ Held(w, t)
  BY <1>3, <1>5 DEF Base, Held
<1> QED BY <1>1, <1>2, <1>3, <1>4, <1>6, <1>7, <1>8, <1>9 DEF t

(* An update that is not stale is a draft that moves its row, one that is  *)
(* leaves the rows alone.                                                  *)
LEMMA UpdateDraft ==
  ASSUME Types, IInv, NEW w \in Workers, NEW t, Base(w, t), Held(w, t), N(w) \in NoticeType,
         N(w).subject \in Series, N(w).kind \in PatchKinds,
         NEW i \in RowsOf(subs, N(w).subject),
         N(w).kind = "start" => subs[i].product # N(w).product,
         N(w).kind = "reverse" => subs[i].latest = N(w).txn,
         SubChanges(i, Updated(subs[i], N(w))) \cap Known(t)
           \subseteq Listed(t.sync)
  PROVE  /\ Draft(w, WithUpdate(t, i, N(w)))
         /\ Draft(w, Announcing(WithUpdate(t, i, N(w)), {}))
         /\ N(w).txn \in DOMAIN t.txns /\ txns[N(w).txn] = NoTxn /\ Fresher(subs[i], N(w)) =>
              Draft(w, Announcing(WithUpdate(t, i, N(w)), {N(w).txn}))
<1> DEFINE n == N(w)
           q == Updated(subs[i], n)
           u == WithUpdate(t, i, n)
           z(T) == Announcing(u, T)
<1>0. n.txn \in Txns /\ DOMAIN t = TxFields
  BY DEF NoticeType, Base
<1>1. CASE ~Fresher(subs[i], n)
  <2>1. u = t /\ Leaves(n)
    BY <1>1 DEF WithUpdate, Leaves
  <2>2. Draft(w, z({}))
    <3>1. /\ Besides(t, z({}), {"announce"}) /\ z({}).announce = {} /\ t.announce = {}
      BY <1>0, <2>1, AnnounceBuilder DEF Base
    <3> HIDE DEF z
    <3>2. Base(w, z({})) /\ Held(w, z({}))
      BY <3>1 DEF Base, Besides, TxFields, Held, TxnsWritten
    <3> QED BY <2>1, <3>2, LeaveDraft
  <2>3. Draft(w, u)
    BY <2>1, LeaveDraft
  <2> QED BY <1>1, <2>2, <2>3
<1>2. CASE Fresher(subs[i], n)
  <2>1. u = WithRow(t, i, q)
    BY <1>2 DEF WithUpdate
  <2>2. Besides(t, u, {"subs", "changed"}) /\ u.subs = Only(i, q) /\ u.changed = SubChanges(i, q)
    <3>1. t.changed = {}
      BY DEF Base
    <3> QED BY <1>0, <2>1, <3>1, RowBuilder
  <2> HIDE DEF u
  <2>3. DOMAIN u = TxFields /\ u.announce = {} /\ u.sync = t.sync
    BY <2>2 DEF Besides, TxFields, Base
  <2>4. Draft(w, u)
    <3>1. Besides(t, u, {"subs", "changed", "announce", "sync"})
      BY <2>2 DEF Besides
    <3> QED BY <1>0, <1>2, <2>2, <2>3, <3>1, MoveDraft
  <2>5. ASSUME NEW T, T = {} \/ (T = {n.txn} /\ n.txn \in DOMAIN t.txns /\ txns[n.txn] = NoTxn)
        PROVE  Draft(w, z(T))
    <3>1. Besides(u, z(T), {"announce"}) /\ z(T).announce = T
      BY <2>3, AnnounceBuilder
    <3> HIDE DEF z
    <3>2. /\ Besides(t, z(T), {"subs", "changed", "announce", "sync"})
          /\ z(T).subs = Only(i, q) /\ z(T).changed = SubChanges(i, q) /\ z(T).sync = t.sync
      BY <2>2, <2>3, <3>1 DEF Besides, TxFields
    <3> QED BY <1>0, <1>2, <2>5, <3>1, <3>2, MoveDraft
  <2>6. Draft(w, z({}))
    <3> HIDE DEF n
    <3> QED BY <2>5
  <2>7. ASSUME n.txn \in DOMAIN t.txns /\ txns[n.txn] = NoTxn PROVE Draft(w, z({n.txn}))
    BY <2>5, <2>7
  <2> QED BY <2>4, <2>6, <2>7 DEF u, z
<1> QED BY <1>1, <1>2

LEMMA OpeningDraft ==
  ASSUME Types, IInv, NEW w \in Workers, tx[w].phase = "claimed", N(w).kind \in PaidKinds,
         TxnFree(w, N(w).txn), FindSeries(subs, N(w).subject, N(w).product) = {}, NEW T,
         T = {N(w).subject} \/ (T = {N(w).subject, N(w).txn} /\ txns[N(w).txn] = NoTxn)
  PROVE  Draft(w, Announcing(WithRow(Synced(WithTxn(Locking(w), N(w)), <<tx[w].person>>),
                                     tx[w].id, NewRow(N(w), tx[w].person)), T))
<1> DEFINE n == N(w)
           t == Synced(WithTxn(Locking(w), n), <<tx[w].person>>)
           row == NewRow(n, tx[w].person)
           o == WithRow(t, tx[w].id, row)
           z == Announcing(o, T)
<1>1. /\ Base(w, t) /\ t.locks = {n.subject} /\ t.sync = <<tx[w].person>>
      /\ txns[n.txn] = NoTxn => n.txn \in DOMAIN t.txns
      /\ n.subject \in Series /\ n.txn \in Txns
      /\ tx[w].id \in DOMAIN story /\ tx[w].id \in Notices
      /\ RowsOf(subs, n.subject) = {}
  BY PaidBase
<1> HIDE DEF t, row
<1>2. DOMAIN t = TxFields /\ t.changed = {}
  BY <1>1 DEF Base
<1>3. /\ Besides(t, o, {"subs", "changed"}) /\ o.subs = Only(tx[w].id, row)
      /\ o.changed = SubChanges(tx[w].id, row)
  BY <1>2, RowBuilder
<1> HIDE DEF o
<1>4. Besides(o, z, {"announce"}) /\ z.announce = T
  <2>1. DOMAIN o = TxFields
    BY <1>3 DEF Besides
  <2> QED BY <2>1, AnnounceBuilder
<1> HIDE DEF z
<1>5. /\ Besides(t, z, {"subs", "changed", "announce"})
      /\ z.subs = Only(tx[w].id, row) /\ z.changed = SubChanges(tx[w].id, row)
  BY <1>3, <1>4 DEF Besides, TxFields
<1>6. Draft(w, z)
  BY <1>1, <1>4, <1>5, OpenDraft DEF row
<1> QED BY <1>6 DEF z, o, t, row

LEMMA StartDraft ==
  ASSUME Types, IInv, NEW w \in Workers, StartSubscription(w)
  PROVE  \E t : Writes(w, t) /\ Draft(w, t)
<1> DEFINE n == N(w)
           t == Synced(WithTxn(Locking(w), n), <<tx[w].person>>)
           found == FindSeries(subs, n.subject, n.product)
           o == WithRow(t, tx[w].id, NewRow(n, tx[w].person))
<1>1. tx[w].phase = "claimed" /\ n.kind = "start" /\ n.kind \in PaidKinds /\ TxnFree(w, n.txn)
  BY DEF StartSubscription, PaidKinds
<1>2. /\ Base(w, t) /\ Held(w, t) /\ n \in NoticeType /\ n.subject \in Series
      /\ Known(t) = {tx[w].person} /\ Listed(t.sync) = {tx[w].person}
      /\ n.kind \in PatchKinds
      /\ \A i \in found : i \in RowsOf(subs, n.subject)
  BY <1>1, PaidBase
<1>3. ASSUME found = {} PROVE Draft(w, Announcing(o, {n.subject}))
  <2> DEFINE T == {n.subject}
  <2>1. T = {n.subject}
    OBVIOUS
  <2> HIDE DEF T
  <2>2. Draft(w, Announcing(o, T))
    BY <1>1, <1>3, <2>1, OpeningDraft
  <2> QED BY <2>1, <2>2
<1> HIDE DEF t
<1>4. CASE found = {} /\ Writes(w, Announcing(o, {n.subject}))
  BY <1>3, <1>4
<1>5. CASE \E i \in found : subs[i].product = n.product /\ Writes(w, t)
  <2>1. Leaves(n)
    BY <1>1, <1>2, <1>5 DEF Leaves
  <2> QED BY <1>2, <1>5, <2>1, LeaveDraft
<1>6. CASE \E i \in found : subs[i].product # n.product /\ Writes(w, WithUpdate(t, i, n))
  <2>1. PICK i \in found : subs[i].product # n.product /\ Writes(w, WithUpdate(t, i, n))
    BY <1>6
  <2>2. Draft(w, WithUpdate(t, i, n))
    BY <1>1, <1>2, <2>1, UpdateDraft
  <2> QED BY <2>1, <2>2
<1> QED BY <1>4, <1>5, <1>6 DEF StartSubscription, t, o

(* A series with a recorded payment has a row.                             *)
PaidHasRow ==
  \A i \in DOMAIN story :
    story[i].subject \in Series /\ txns[story[i].txn] # NoTxn
      => RowsOf(subs, story[i].subject) # {}

(* What a refund operation read when it claimed its key is still there.    *)
ReadStands ==
  \A w \in Workers : tx[w].phase = "claimed" =>
    /\ tx[w].txn # NoTxn => txns[N(w).txn] # NoTxn
    /\ tx[w].charge # NoCharge => N(w).subject \in Charges /\ charges[N(w).subject] # NoCharge

LEMMA RenewDraft ==
  ASSUME Types, IInv, PaidHasRow, NEW w \in Workers, RenewSubscription(w)
  PROVE  \E t : Writes(w, t) /\ Draft(w, t)
<1> DEFINE n == N(w)
           t == Synced(WithTxn(Locking(w), n), <<tx[w].person>>)
           found == FindSeries(subs, n.subject, n.product)
           o == WithRow(t, tx[w].id, NewRow(n, tx[w].person))
           first == txns[n.txn] = NoTxn
<1>1. tx[w].phase = "claimed" /\ n.kind = "renew" /\ n.kind \in PaidKinds /\ TxnFree(w, n.txn)
  BY DEF RenewSubscription, PaidKinds
<1>2. /\ Base(w, t) /\ Held(w, t) /\ n \in NoticeType /\ n.subject \in Series
      /\ Known(t) = {tx[w].person} /\ Listed(t.sync) = {tx[w].person}
      /\ n.kind \in PatchKinds /\ tx[w].id \in DOMAIN story
      /\ first => n.txn \in DOMAIN t.txns
      /\ found = {} => RowsOf(subs, n.subject) = {}
      /\ \A i \in found : i \in RowsOf(subs, n.subject)
  BY <1>1, PaidBase
<1>3. ASSUME found = {}
      PROVE  first /\ Draft(w, Announcing(o, {n.subject, n.txn}))
  <2>1. first
    BY <1>2, <1>3 DEF PaidHasRow, N
  <2> DEFINE T == {n.subject, n.txn}
  <2>2. T = {n.subject, n.txn}
    OBVIOUS
  <2> HIDE DEF T
  <2>3. Draft(w, Announcing(o, T))
    BY <1>1, <1>3, <2>1, <2>2, OpeningDraft
  <2> QED BY <2>1, <2>2, <2>3
<1> HIDE DEF t
<1>4. CASE found = {} /\ Writes(w, Announcing(o, IF first THEN {n.subject, n.txn} ELSE {}))
  BY <1>3, <1>4
<1>5. CASE \E i \in found : Writes(w, Announcing(WithUpdate(t, i, n),
                              IF first /\ Fresher(subs[i], n) THEN {n.txn} ELSE {}))
  <2>1. PICK i \in found : Writes(w, Announcing(WithUpdate(t, i, n),
                              IF first /\ Fresher(subs[i], n) THEN {n.txn} ELSE {}))
    BY <1>5
  <2>2. /\ Draft(w, Announcing(WithUpdate(t, i, n), {}))
        /\ n.txn \in DOMAIN t.txns /\ first /\ Fresher(subs[i], n) =>
             Draft(w, Announcing(WithUpdate(t, i, n), {n.txn}))
    BY <1>1, <1>2, <2>1, UpdateDraft
  <2>3. CASE first /\ Fresher(subs[i], n)
    BY <1>2, <2>1, <2>2, <2>3
  <2>4. CASE ~(first /\ Fresher(subs[i], n))
    BY <2>1, <2>2, <2>4
  <2> QED BY <2>3, <2>4
<1> QED BY <1>4, <1>5 DEF RenewSubscription, t, o

(* The transaction row of a notification that knows it exists.             *)
LEMMA TxnUpdateBase ==
  ASSUME NEW w \in Workers, NEW t, Base(w, t), DOMAIN t.txns = {}, N(w) \in NoticeType,
         txns[N(w).txn] # NoTxn, TxnFree(w, N(w).txn), NEW x
  PROVE  LET u == WithTxnUpdate(t, N(w), x)
         IN  Base(w, u) /\ u.locks = t.locks /\ u.sync = t.sync /\ Known(u) = Known(t)
<1> DEFINE n == N(w)
           u == WithTxnUpdate(t, n, x)
<1>1. /\ Besides(t, u, {"txns"})
      /\ u.txns = IF FreshTxn(n) THEN Only(n.txn, [mark |-> n.at, refunded |-> x]) ELSE t.txns
  BY TxnBuilder DEF Base
<1> HIDE DEF u
<1>2. \A y \in DOMAIN u.txns : y = n.txn /\ u.txns[y] # NoTxn
  BY <1>1, NeverNull DEF Only
<1>3. TxnsWritten(u, n) /\ \A y \in DOMAIN u.txns : TxnFree(w, y)
  BY <1>2 DEF TxnsWritten
<1>4. u.locks = t.locks /\ u.sync = t.sync /\ Known(u) = Known(t)
  BY <1>1 DEF Besides, TxFields, Known
<1>5. Base(w, u)
  BY <1>1, <1>3 DEF Base, Besides, TxFields
<1> QED BY <1>4, <1>5 DEF u

LEMMA PlainBase ==
  ASSUME Types, IInv, NEW w \in Workers, tx[w].phase \in {"resolved", "claimed"}
  PROVE  /\ Base(w, tx[w]) /\ tx[w].sync = <<>> /\ DOMAIN tx[w].txns = {}
         /\ Base(w, Locking(w)) /\ Locking(w).locks = {N(w).subject}
         /\ Locking(w).sync = <<>> /\ DOMAIN Locking(w).txns = {}
         /\ Known(Locking(w)) = Known(tx[w])
         /\ N(w) \in NoticeType
<1>1. Base(w, tx[w]) /\ tx[w].sync = <<>> /\ DOMAIN tx[w].txns = {}
  BY Blank DEF Base, TxnsWritten
<1>2. Besides(tx[w], Locking(w), {"locks"}) /\ Locking(w).locks = {N(w).subject}
  BY <1>1, LockingFields DEF Base
<1>3. /\ Base(w, Locking(w)) /\ Locking(w).sync = <<>> /\ DOMAIN Locking(w).txns = {}
      /\ Known(Locking(w)) = Known(tx[w])
  BY <1>1, <1>2 DEF Base, Besides, TxFields, TxnsWritten, Known
<1> QED BY <1>1, <1>2, <1>3, ActorOk DEF IInv

(* Kinds that do not recompute the perks do not change who is entitled.    *)
LEMMA QuietKinds ==
  ASSUME NEW row \in RowType, NEW i, subs[i] = row, row # NoRow, NEW n,
         n.kind \in MutationKinds \ {"resume"}
  PROVE  SubChanges(i, Updated(row, n)) = {}
<1>1. /\ Patch(row, n).status = row.status /\ Patch(row, n).person = row.person
      /\ DOMAIN Patch(row, n) = DOMAIN row /\ DOMAIN row = RowFields
  BY DEF Patch, PaidKinds, MutationKinds, RowType, RowFields
<1> DEFINE q == Patch(row, n)
<1>2. Updated(row, n) = IF Fresher(row, n) THEN [q EXCEPT !.mark = n.at] ELSE row
  BY DEF Updated
<1>3. q.status = row.status /\ q.person = row.person /\ DOMAIN q = RowFields
  BY <1>1
<1> HIDE DEF q
<1>4. Updated(row, n).status = row.status /\ Updated(row, n).person = row.person
  BY <1>2, <1>3 DEF RowFields
<1> QED BY <1>4 DEF SubChanges

LEMMA MutateDraft ==
  ASSUME Types, IInv, NEW w \in Workers, MutateSubscription(w)
  PROVE  \E t : Writes(w, t) /\ Draft(w, t)
<1> DEFINE n == N(w)
           s == IF n.kind \in SyncsPerks THEN <<tx[w].person>> ELSE <<>>
           t == Synced(Locking(w), s)
           r == WithTxnUpdate(t, n, txns[n.txn].refunded)
           found == FindSeries(subs, n.subject, n.product)
<1>0. Shapes
  BY DEF IInv
<1>1. /\ tx[w].phase = "claimed" /\ n.kind \in KnownKinds \cup MutationKinds
      /\ n.kind = "revoke" => TxnFree(w, n.txn)
      /\ n.kind \in SubscriptionKinds /\ n.kind \in PatchKinds /\ n.kind \notin PaidKinds
      /\ n.kind \notin {"transfer", "start", "reverse"}
  BY DEF MutateSubscription, SubscriptionKinds, PatchKinds, PaidKinds, KnownKinds, MutationKinds
<1>2. n \in NoticeType /\ n.subject \in Series /\ n.txn \in Txns
  BY <1>0, <1>1, ActorOk
<1>3. /\ Base(w, Locking(w)) /\ Locking(w).locks = {n.subject} /\ DOMAIN Locking(w).txns = {}
      /\ Locking(w).person = tx[w].person /\ Locking(w).id = tx[w].id
  BY <1>1, PlainBase DEF Base
<1>4. Besides(Locking(w), t, {"sync"}) /\ t.sync = s
  BY <1>3, SyncBuilder DEF Base
<1> HIDE DEF t, s
<1>5. /\ Base(w, t) /\ t.locks = {n.subject} /\ DOMAIN t.txns = {}
      /\ Known(t) = {tx[w].person}
  BY <1>1, <1>3, <1>4 DEF Base, Besides, TxFields, TxnsWritten, Known, N
<1>6. ASSUME n.kind = "revoke", txns[n.txn] # NoTxn
      PROVE  Base(w, r) /\ r.locks = {n.subject} /\ r.sync = s /\ Known(r) = {tx[w].person}
  BY <1>1, <1>2, <1>4, <1>5, <1>6, TxnUpdateBase
<1> HIDE DEF r
<1>7. /\ found = {} => RowsOf(subs, n.subject) = {}
      /\ \A i \in found : i \in RowsOf(subs, n.subject) /\ i \in Notices /\ subs[i] # NoRow
  BY <1>2, FoundRows
<1>8. CASE found = {} /\ Writes(w, Locking(w))
  <2>1. Leaves(n)
    BY <1>1, <1>7, <1>8 DEF Leaves
  <2> QED BY <1>3, <1>8, <2>1, LeaveDraft DEF Held
<1>9. CASE \E i \in found, u \in {t, r} :
             /\ u = r /\ u # t => n.kind = "revoke" /\ txns[n.txn] # NoTxn
             /\ Writes(w, WithUpdate(u, i, n))
  <2>1. PICK i \in found, u \in {t, r} :
             /\ u = r /\ u # t => n.kind = "revoke" /\ txns[n.txn] # NoTxn
             /\ Writes(w, WithUpdate(u, i, n))
    BY <1>9
  <2>2. Base(w, u) /\ Held(w, u) /\ u.sync = s /\ Known(u) = {tx[w].person}
    BY <1>4, <1>5, <1>6, <2>1 DEF Held
  <2>3. SubChanges(i, Updated(subs[i], n)) \cap Known(u) \subseteq Listed(u.sync)
    <3>1. CASE n.kind \in SyncsPerks
      BY <2>2, <3>1 DEF s, Listed
    <3>2. CASE n.kind \notin SyncsPerks
      <4>1. n.kind \in MutationKinds \ {"resume"}
        BY <1>1, <3>2 DEF SyncsPerks
      <4>2. subs[i] \in RowType /\ subs[i] # NoRow
        BY <1>7, <2>1 DEF Types, TypeOK
      <4>3. SubChanges(i, Updated(subs[i], n)) = {}
        BY <4>1, <4>2, QuietKinds
      <4> QED BY <4>3
    <3> QED BY <3>1, <3>2
  <2>4. Draft(w, WithUpdate(u, i, n))
    BY <1>1, <1>2, <1>7, <2>1, <2>2, <2>3, UpdateDraft
  <2> QED BY <2>1, <2>4
<1>10. \/ found = {} /\ Writes(w, Locking(w))
       \/ \E i \in found : Writes(w, WithUpdate(IF n.kind = "revoke" /\ txns[n.txn] # NoTxn
                                                THEN r ELSE t, i, n))
  BY DEF MutateSubscription, t, r, s
<1>11. ASSUME NEW i \in found,
              Writes(w, WithUpdate(IF n.kind = "revoke" /\ txns[n.txn] # NoTxn THEN r ELSE t, i, n))
       PROVE  \E u \in {t, r} : /\ u = r /\ u # t => n.kind = "revoke" /\ txns[n.txn] # NoTxn
                                /\ Writes(w, WithUpdate(u, i, n))
  <2>1. CASE n.kind = "revoke" /\ txns[n.txn] # NoTxn
    BY <1>11, <2>1
  <2>2. CASE ~(n.kind = "revoke" /\ txns[n.txn] # NoTxn)
    BY <1>11, <2>2
  <2> QED BY <2>1, <2>2
<1> QED BY <1>8, <1>9, <1>10, <1>11

-----------------------------------------------------------------------------
(* Purchases: the row that is opened is announced, a known one is not.     *)
LEMMA ChargeWriteDraft ==
  ASSUME NEW w \in Workers, NEW t, Base(w, t), N(w).kind \in Kinds \ SubscriptionKinds,
         N(w).subject \in Charges, ChargeFree(w, N(w).subject),
         NEW u, Besides(t, u, {"charges", "changed", "announce", "sync"}),
         DOMAIN u.charges = {N(w).subject}, u.charges[N(w).subject] # NoCharge,
         u.changed = ChargeChanges(N(w).subject, u.charges[N(w).subject]),
         u.announce = IF charges[N(w).subject] = NoCharge THEN {N(w).subject} ELSE {},
         Known(t) \subseteq Listed(u.sync)
  PROVE  Draft(w, u)
<1> DEFINE c == N(w).subject
<1>1. /\ DOMAIN u = TxFields /\ u.id = tx[w].id /\ u.person = tx[w].person
      /\ u.txns = t.txns /\ u.subs = t.subs /\ u.grants = t.grants
      /\ DOMAIN u.subs = {} /\ DOMAIN u.grants = {}
  BY DEF Base, Besides, TxFields
<1>2. DOMAIN u.charges = {c} /\ u.charges[c] # NoCharge
  OBVIOUS
<1>3. RowsWritten(u, N(w)) /\ ChargesWritten(u, N(w))
  BY <1>1, <1>2 DEF RowsWritten, Leaves, ChargesWritten
<1>4. Announces(u)
  BY <1>1, <1>2, KeysDiffer DEF Announces
<1>5. ChangesTold(u)
  BY <1>1, <1>2 DEF ChangesTold
<1>6. TxnsWritten(u, N(w)) /\ \A x \in DOMAIN u.txns : TxnFree(w, x)
  BY <1>1 DEF Base, TxnsWritten
<1>7. Known(u) = Known(t)
  BY <1>1 DEF Base, Known
<1> QED BY <1>1, <1>2, <1>3, <1>4, <1>5, <1>6, <1>7 DEF Draft, Prepared, N

LEMMA ChargeUpdateDraft ==
  ASSUME NEW w \in Workers, NEW t, Base(w, t), N(w) \in NoticeType,
         N(w).kind \in Kinds \ SubscriptionKinds,
         N(w).subject \in Charges, charges[N(w).subject] # NoCharge, ChargeFree(w, N(w).subject),
         NEW row \in ChargeType, NEW s,
         FreshCharge(N(w).subject, N(w)) => Known(t) \subseteq Listed(s)
  PROVE  Draft(w, Synced(WithChargeUpdate(t, N(w).subject, N(w), row), s))
<1> DEFINE n == N(w)
           c == n.subject
           r == [row EXCEPT !.mark = n.at]
           a == WithChargeUpdate(t, c, n, row)
           u == Synced(a, s)
<1>0. DOMAIN t = TxFields /\ t.changed = {} /\ t.announce = {}
  BY DEF Base
<1>1. CASE FreshCharge(c, n)
  <2>1. a = WithCharge(t, c, r) /\ r # NoCharge
    BY <1>1, NeverNull DEF WithChargeUpdate
  <2> HIDE DEF r
  <2>2. /\ Besides(t, a, {"charges", "changed"}) /\ a.charges = Only(c, r)
        /\ a.changed = t.changed \cup ChargeChanges(c, r)
    BY <1>0, <2>1, ChargeBuilder
  <2> HIDE DEF a
  <2>3. Besides(a, u, {"sync"}) /\ u.sync = s
    <3>1. DOMAIN a = TxFields
      BY <2>2 DEF Besides
    <3> QED BY <3>1, SyncBuilder
  <2> HIDE DEF u
  <2>4. /\ Besides(t, u, {"charges", "changed", "announce", "sync"})
        /\ DOMAIN u.charges = {c} /\ u.charges[c] = r /\ u.changed = ChargeChanges(c, r)
        /\ u.announce = {}
    BY <1>0, <2>2, <2>3 DEF Besides, TxFields, Only
  <2>5. Known(t) \subseteq Listed(u.sync)
    BY <1>1, <2>3
  <2>6. u.charges[c] # NoCharge /\ u.changed = ChargeChanges(c, u.charges[c])
    BY <2>1, <2>4
  <2>7. u.announce = IF charges[c] = NoCharge THEN {c} ELSE {}
    BY <2>4
  <2>8. Draft(w, u)
    BY <2>4, <2>5, <2>6, <2>7, ChargeWriteDraft
  <2> QED BY <2>8 DEF u, a
<1>2. CASE ~FreshCharge(c, n)
  <2>1. a = t
    BY <1>2 DEF WithChargeUpdate
  <2>2. Besides(t, u, {"sync"})
    BY <1>0, <2>1, SyncBuilder
  <2> HIDE DEF u, a
  <2>3. Base(w, u)
    BY <2>2 DEF Base, Besides, TxFields, TxnsWritten
  <2>4. Draft(w, u)
    BY <2>3, LeaveDraft DEF Leaves
  <2> QED BY <2>4 DEF u, a
<1> QED BY <1>1, <1>2

LEMMA CompleteDraft ==
  ASSUME Types, IInv, NEW w \in Workers, CompleteOneTimePurchase(w)
  PROVE  \E t : Writes(w, t) /\ Draft(w, t)
<1> DEFINE n == N(w)
           c == n.subject
           b == WithTxn(tx[w], n)
           t == Synced(b, <<tx[w].person>>)
           r == [NoCharge EXCEPT !.person = tx[w].person]
           a == WithCharge(t, c, r)
           u == Announcing(a, {c})
<1>0. Shapes
  BY DEF IInv
<1>1. /\ tx[w].phase = "claimed" /\ n.kind = "purchase" /\ n.kind \in Kinds \ SubscriptionKinds
      /\ TxnFree(w, n.txn) /\ ChargeFree(w, c)
  BY DEF CompleteOneTimePurchase, Kinds, SubscriptionKinds, PaidKinds, KnownKinds, MutationKinds
<1>2. /\ n \in NoticeType /\ n.txn \in Txns /\ c \in Charges /\ tx[w].person \in Persons
      /\ Base(w, tx[w]) /\ DOMAIN tx[w].txns = {}
  BY <1>0, <1>1, ActorOk, PlainBase
<1>3. /\ Besides(tx[w], b, {"txns"})
      /\ b.txns = IF txns[n.txn] = NoTxn
           THEN Only(n.txn, [mark |-> n.at, refunded |-> 0]) ELSE tx[w].txns
  BY <1>2, TxnBuilder DEF Base
<1>4. TxnsWritten(b, n) /\ \A x \in DOMAIN b.txns : TxnFree(w, x)
  <2>1. CASE txns[n.txn] = NoTxn
    <3>1. DOMAIN b.txns = {n.txn} /\ b.txns[n.txn] = [mark |-> n.at, refunded |-> 0]
      BY <1>3, <2>1 DEF Only
    <3> HIDE DEF b
    <3> QED BY <1>1, <1>2, <3>1, NeverNull DEF TxnsWritten
  <2>2. CASE txns[n.txn] # NoTxn
    <3>1. DOMAIN b.txns = {}
      BY <1>2, <1>3, <2>2
    <3> HIDE DEF b
    <3> QED BY <3>1 DEF TxnsWritten
  <2> QED BY <2>1, <2>2
<1> HIDE DEF b
<1>5. Besides(b, t, {"sync"}) /\ t.sync = <<tx[w].person>>
  <2>1. DOMAIN b = TxFields
    BY <1>3 DEF Besides
  <2> QED BY <2>1, SyncBuilder
<1> HIDE DEF t
<1>6. /\ Base(w, t) /\ Known(t) \subseteq Listed(t.sync)
  <2>1. Base(w, t)
    BY <1>2, <1>3, <1>4, <1>5 DEF Base, Besides, TxFields, TxnsWritten
  <2>2. story[t.id].kind # "transfer" /\ t.person = tx[w].person
    BY <1>1, <2>1 DEF Base, N
  <2>3. Known(t) = {tx[w].person}
    BY <2>2 DEF Known
  <2>4. tx[w].person \in Listed(t.sync)
    BY <1>5 DEF Listed
  <2> QED BY <2>1, <2>3, <2>4
<1>7. CASE charges[c] # NoCharge
  <2>1. Writes(w, t)
    BY <1>7 DEF CompleteOneTimePurchase, t, b
  <2>2. Draft(w, t)
    BY <1>1, <1>6, LeaveDraft DEF Leaves
  <2> QED BY <2>1, <2>2
<1>8. CASE charges[c] = NoCharge
  <2>1. Writes(w, u)
    BY <1>8 DEF CompleteOneTimePurchase, t, b
  <2>2. r # NoCharge
    BY <1>2, NeverNull
  <2> HIDE DEF r
  <2>3. /\ Besides(t, a, {"charges", "changed"}) /\ a.charges = Only(c, r)
        /\ a.changed = t.changed \cup ChargeChanges(c, r) /\ t.changed = {}
    <3>1. DOMAIN t = TxFields /\ t.changed = {}
      BY <1>6 DEF Base
    <3> QED BY <3>1, ChargeBuilder
  <2> HIDE DEF a
  <2>4. Besides(a, u, {"announce"}) /\ u.announce = {c}
    <3>1. DOMAIN a = TxFields
      BY <2>3 DEF Besides
    <3> QED BY <3>1, AnnounceBuilder
  <2> HIDE DEF u
  <2>5. /\ Besides(t, u, {"charges", "changed", "announce", "sync"})
        /\ DOMAIN u.charges = {c} /\ u.charges[c] = r /\ u.changed = ChargeChanges(c, r)
        /\ u.sync = t.sync
    BY <2>3, <2>4 DEF Besides, TxFields, Only
  <2>6. Known(t) \subseteq Listed(u.sync) /\ u.announce = {c}
    BY <1>6, <2>4, <2>5
  <2>7. Draft(w, u)
    BY <1>1, <1>2, <1>6, <1>8, <2>2, <2>5, <2>6, ChargeWriteDraft
  <2> QED BY <2>1, <2>7
<1> QED BY <1>7, <1>8

(* The three operations on a purchase that is known.                       *)
LEMMA KnownChargeDraft ==
  ASSUME Types, IInv, ReadStands, NEW w \in Workers, tx[w].phase = "claimed",
         N(w).kind \in Kinds \ (SubscriptionKinds \cup {"transfer"}), RowsUnlocked(w),
         NEW t, t = tx[w] \/ (tx[w].txn # NoTxn /\ \E x : t = WithTxnUpdate(tx[w], N(w), x)),
         NEW row, tx[w].charge # NoCharge => row \in ChargeType, NEW s,
         FreshCharge(N(w).subject, N(w)) => s = <<tx[w].person>>,
         \/ Writes(w, t)
         \/ tx[w].charge # NoCharge /\ Writes(w, Synced(WithChargeUpdate(t, N(w).subject, N(w), row), s))
  PROVE  \E u : Writes(w, u) /\ Draft(w, u)
<1> DEFINE n == N(w)
           c == n.subject
<1>1. n \in NoticeType /\ Base(w, tx[w]) /\ DOMAIN tx[w].txns = {}
  BY PlainBase
<1>2. Base(w, t) /\ Known(t) = Known(tx[w])
  <2>1. CASE t = tx[w]
    BY <1>1, <2>1
  <2>2. CASE tx[w].txn # NoTxn /\ \E x : t = WithTxnUpdate(tx[w], n, x)
    <3>1. txns[n.txn] # NoTxn /\ TxnFree(w, n.txn)
      BY <2>2 DEF ReadStands, RowsUnlocked
    <3> QED BY <1>1, <2>2, <3>1, TxnUpdateBase
  <2> QED BY <2>1, <2>2
<1>3. Known(t) = {tx[w].person}
  BY <1>2 DEF Known, N
<1>4. CASE Writes(w, t)
  BY <1>2, <1>4, LeaveDraft DEF Leaves
<1>5. CASE tx[w].charge # NoCharge /\ Writes(w, Synced(WithChargeUpdate(t, c, n, row), s))
  <2>1. c \in Charges /\ charges[c] # NoCharge /\ ChargeFree(w, c) /\ row \in ChargeType
    BY <1>5 DEF ReadStands, RowsUnlocked
  <2>2. FreshCharge(c, n) => Known(t) \subseteq Listed(s)
    BY <1>3 DEF Listed
  <2>3. Draft(w, Synced(WithChargeUpdate(t, c, n, row), s))
    BY <1>1, <1>2, <2>1, <2>2, ChargeUpdateDraft
  <2> QED BY <1>5, <2>3
<1> QED BY <1>4, <1>5

LEMMA RefundDrafts ==
  ASSUME Types, IInv, ReadStands, NEW w \in Workers,
         RefundPurchase(w) \/ RevokePurchase(w) \/ ReverseCharge(w)
  PROVE  \E t : Writes(w, t) /\ Draft(w, t)
<1> DEFINE n == N(w)
           c == n.subject
           s == IF FreshCharge(c, n) THEN <<tx[w].person>> ELSE <<>>
           T(x) == WithTxnUpdate(tx[w], n, x)
<1>0. Shapes
  BY DEF IInv
<1>1. /\ tx[w].phase = "claimed" /\ n.kind \in Kinds \ (SubscriptionKinds \cup {"transfer"})
      /\ RowsUnlocked(w)
  BY DEF RefundPurchase, RevokePurchase, ReverseCharge, Kinds, RefundKinds, SubscriptionKinds,
         PaidKinds, KnownKinds, MutationKinds
<1>2. /\ tx[w].charge # NoCharge => charges[c] \in ChargeType
      /\ n.date \in 0..Horizon /\ 0 \in 0..Horizon
  <2>1. tx[w].charge # NoCharge => c \in Charges
    BY <1>1 DEF ReadStands
  <2> QED BY <1>0, <1>1, <2>1, ActorOk DEF Types, TypeOK
<1>3. FreshCharge(c, n) => s = <<tx[w].person>>
  OBVIOUS
<1> HIDE DEF s
<1>4. CASE RefundPurchase(w)
  <2> DEFINE t == IF tx[w].txn = NoTxn THEN tx[w] ELSE T(n.date)
             row == [charges[c] EXCEPT !.refunded = n.date]
  <2>1. \/ Writes(w, t)
        \/ tx[w].charge # NoCharge /\ Writes(w, Synced(WithChargeUpdate(t, c, n, row), s))
    BY <1>4 DEF RefundPurchase, s
  <2>2. t = tx[w] \/ (tx[w].txn # NoTxn /\ \E x : t = T(x))
    OBVIOUS
  <2>3. tx[w].charge # NoCharge => row \in ChargeType
    BY <1>2 DEF ChargeType
  <2> HIDE DEF t, row
  <2> QED BY <1>1, <1>3, <2>1, <2>2, <2>3, KnownChargeDraft
<1>5. CASE RevokePurchase(w)
  <2> DEFINE t == IF tx[w].txn = NoTxn THEN tx[w] ELSE T(txns[n.txn].refunded)
             row == [charges[c] EXCEPT !.revoked = n.date]
  <2>1. \/ Writes(w, tx[w])
        \/ tx[w].charge # NoCharge /\ Writes(w, Synced(WithChargeUpdate(t, c, n, row), s))
    BY <1>5 DEF RevokePurchase, s
  <2>2. t = tx[w] \/ (tx[w].txn # NoTxn /\ \E x : t = T(x))
    OBVIOUS
  <2>3. tx[w].charge # NoCharge => row \in ChargeType
    BY <1>2 DEF ChargeType
  <2> HIDE DEF t, row
  <2> QED BY <1>1, <1>3, <2>1, <2>2, <2>3, KnownChargeDraft
<1>6. CASE ReverseCharge(w)
  <2> DEFINE t == IF tx[w].txn = NoTxn THEN tx[w] ELSE T(0)
             row == [charges[c] EXCEPT !.refunded = 0]
  <2>1. \/ Writes(w, t)
        \/ tx[w].charge # NoCharge /\ Writes(w, Synced(WithChargeUpdate(t, c, n, row), s))
    BY <1>6 DEF ReverseCharge, s
  <2>2. t = tx[w] \/ (tx[w].txn # NoTxn /\ \E x : t = T(x))
    OBVIOUS
  <2>3. tx[w].charge # NoCharge => row \in ChargeType
    BY <1>2 DEF ChargeType
  <2> HIDE DEF t, row
  <2> QED BY <1>1, <1>3, <2>1, <2>2, <2>3, KnownChargeDraft
<1> QED BY <1>4, <1>5, <1>6

(* An update with its list of persons to sync set afterwards.              *)
LEMMA SyncedUpdateDraft ==
  ASSUME Types, IInv, NEW w \in Workers, NEW t, Base(w, t), Held(w, t), N(w) \in NoticeType,
         N(w).subject \in Series, N(w).kind \in {"transfer", "reverse"},
         NEW i \in RowsOf(subs, N(w).subject), Fresher(subs[i], N(w)),
         N(w).kind = "reverse" => subs[i].latest = N(w).txn,
         NEW s, Known(t) \subseteq Listed(s)
  PROVE  Draft(w, Synced(WithUpdate(t, i, N(w)), s))
<1> DEFINE n == N(w)
           q == Updated(subs[i], n)
           a == WithUpdate(t, i, n)
           u == Synced(a, s)
<1>1. n.kind \in PatchKinds /\ n.kind # "start" /\ n.txn \in Txns
  BY DEF PatchKinds, NoticeType
<1>2. DOMAIN t = TxFields /\ t.changed = {} /\ t.announce = {}
  BY DEF Base
<1>3. Besides(t, a, {"subs", "changed"}) /\ a.subs = Only(i, q) /\ a.changed = SubChanges(i, q)
  <2>1. a = WithRow(t, i, q)
    BY DEF WithUpdate
  <2> HIDE DEF q, a
  <2> QED BY <1>2, <2>1, RowBuilder
<1> HIDE DEF a
<1>4. Besides(a, u, {"sync"}) /\ u.sync = s
  <2>1. DOMAIN a = TxFields
    BY <1>3 DEF Besides
  <2> QED BY <2>1, SyncBuilder
<1> HIDE DEF u
<1>5. /\ Besides(t, u, {"subs", "changed", "announce", "sync"})
      /\ u.subs = Only(i, q) /\ u.changed = SubChanges(i, q) /\ u.announce = {}
  BY <1>2, <1>3, <1>4 DEF Besides, TxFields
<1>6. u.changed \cap Known(t) \subseteq Listed(u.sync)
  BY <1>4
<1>7. Draft(w, u)
  BY <1>1, <1>5, <1>6, MoveDraft
<1> QED BY <1>7 DEF u, a

LEMMA ReverseDraft ==
  ASSUME Types, IInv, ReadStands, NEW w \in Workers, ReverseSubscription(w)
  PROVE  \E t : Writes(w, t) /\ Draft(w, t)
<1> DEFINE n == N(w)
           s == <<tx[w].person>>
           t == IF tx[w].txn = NoTxn THEN Locking(w) ELSE WithTxnUpdate(Locking(w), n, 0)
<1>1. /\ tx[w].phase = "claimed" /\ n.kind = "reverse" /\ n.subject \in Series
      /\ n.kind \in {"transfer", "reverse"} /\ n.kind \in Kinds \ SubscriptionKinds
      /\ TxnFree(w, n.txn)
  BY DEF ReverseSubscription, Kinds, RefundKinds, SubscriptionKinds, PaidKinds, KnownKinds,
         MutationKinds
<1>2. /\ n \in NoticeType /\ Base(w, Locking(w)) /\ Locking(w).locks = {n.subject}
      /\ DOMAIN Locking(w).txns = {} /\ Known(Locking(w)) = Known(tx[w])
  BY <1>1, PlainBase
<1>3. Base(w, t) /\ t.locks = {n.subject} /\ Known(t) = {tx[w].person}
  <2>1. Known(tx[w]) = {tx[w].person}
    BY <1>1 DEF Known, N
  <2>2. CASE tx[w].txn = NoTxn
    BY <1>2, <2>1, <2>2
  <2>3. CASE tx[w].txn # NoTxn
    <3>1. txns[n.txn] # NoTxn
      BY <1>1, <2>3 DEF ReadStands
    <3> QED BY <1>1, <1>2, <2>1, <2>3, <3>1, TxnUpdateBase
  <2> QED BY <2>2, <2>3
<1> HIDE DEF t
<1>4. CASE Writes(w, t)
  BY <1>1, <1>3, <1>4, LeaveDraft DEF Leaves
<1>5. CASE \E i \in Restorable(w) : Writes(w, Synced(WithUpdate(t, i, n), s))
  <2>1. PICK i \in Restorable(w) : Writes(w, Synced(WithUpdate(t, i, n), s))
    BY <1>5
  <2>2. i \in RowsOf(subs, n.subject) /\ Fresher(subs[i], n) /\ subs[i].latest = n.txn
    BY <1>1, FoundRows DEF Restorable
  <2>3. Known(t) \subseteq Listed(s) /\ Held(w, t)
    BY <1>3 DEF Listed, Held
  <2>4. Draft(w, Synced(WithUpdate(t, i, n), s))
    BY <1>1, <1>2, <1>3, <2>2, <2>3, SyncedUpdateDraft
  <2> QED BY <2>1, <2>4
<1> QED BY <1>4, <1>5 DEF ReverseSubscription, t

LEMMA TransferDraft ==
  ASSUME Types, IInv, NEW w \in Workers, TransferSubscription(w) \/ TransferPurchase(w)
  PROVE  Ends(w, "idle") \/ Ends(w, "rebind") \/ \E t : Writes(w, t) /\ Draft(w, t)
<1> DEFINE n == N(w)
           c == n.subject
           s == <<tx[w].person, n.owner>>
           row == [charges[c] EXCEPT !.person = n.owner]
<1>1. /\ tx[w].phase = "resolved" /\ n.kind = "transfer"
      /\ n.kind \in {"transfer", "reverse"} /\ n.kind \in Kinds \ SubscriptionKinds
  BY DEF TransferSubscription, TransferPurchase, Kinds, RefundKinds, SubscriptionKinds, PaidKinds,
         KnownKinds, MutationKinds
<1>2. /\ n \in NoticeType /\ Base(w, tx[w]) /\ Held(w, tx[w])
      /\ Known(tx[w]) = {tx[w].person, n.owner} /\ Known(tx[w]) \subseteq Listed(s)
  <2>1. n \in NoticeType /\ Base(w, tx[w]) /\ Held(w, tx[w])
    BY <1>1, PlainBase DEF Held
  <2>2. Known(tx[w]) = {tx[w].person, n.owner}
    BY <1>1 DEF Known, N
  <2>3. s[1] = tx[w].person /\ s[2] = n.owner /\ DOMAIN s = {1, 2}
    OBVIOUS
  <2> HIDE DEF s
  <2> QED BY <2>1, <2>2, <2>3 DEF Listed
<1>3. CASE TransferSubscription(w) /\ ~(Ends(w, "idle") \/ Ends(w, "rebind"))
  <2>1. n.subject \in Series
    BY <1>3 DEF TransferSubscription
  <2>2. PICK i \in RowsOf(subs, n.subject) :
          Fresher(subs[i], n) /\ Writes(w, Synced(WithUpdate(tx[w], i, n), s))
    BY <1>3 DEF TransferSubscription
  <2> HIDE DEF s
  <2>3. Draft(w, Synced(WithUpdate(tx[w], i, n), s))
    BY <1>1, <1>2, <2>1, <2>2, SyncedUpdateDraft
  <2> QED BY <2>2, <2>3
<1>4. CASE TransferPurchase(w) /\ ~(Ends(w, "idle") \/ Ends(w, "rebind"))
  <2>0. /\ c \in Charges /\ ChargeFree(w, c) /\ Live(charges[c])
        /\ Writes(w, Synced(WithChargeUpdate(tx[w], c, n, row), s))
    BY <1>4 DEF TransferPurchase
  <2>1. /\ c \in Charges /\ ChargeFree(w, c) /\ charges[c] # NoCharge
        /\ Writes(w, Synced(WithChargeUpdate(tx[w], c, n, row), s))
    BY <2>0 DEF Live, NoCharge
  <2>2. row \in ChargeType
    BY <1>2, <2>1 DEF Types, TypeOK, ChargeType, NoticeType
  <2> HIDE DEF row, s
  <2>3. Draft(w, Synced(WithChargeUpdate(tx[w], c, n, row), s))
    BY <1>1, <1>2, <2>1, <2>2, ChargeUpdateDraft
  <2> QED BY <2>1, <2>3
<1> QED BY <1>3, <1>4

(* What every writing step writes.                                         *)
WritingStep(w) ==
  \/ StartSubscription(w) \/ RenewSubscription(w) \/ MutateSubscription(w)
  \/ CompleteOneTimePurchase(w)
  \/ RefundPurchase(w) \/ RevokePurchase(w) \/ ReverseCharge(w) \/ ReverseSubscription(w)
  \/ TransferSubscription(w) \/ TransferPurchase(w)

LEMMA WritesADraft ==
  ASSUME Types, IInv, PaidHasRow, ReadStands, NEW w \in Workers, WritingStep(w)
  PROVE  /\ Ends(w, "idle") \/ Ends(w, "rebind") \/ \E t : Writes(w, t) /\ Draft(w, t)
         /\ UNCHANGED unwritten /\ tx[w].phase \in {"resolved", "claimed"}
<1>1. Ends(w, "idle") \/ Ends(w, "rebind") \/ \E t : Writes(w, t) /\ Draft(w, t)
  BY StartDraft, RenewDraft, MutateDraft, CompleteDraft, RefundDrafts, ReverseDraft, TransferDraft
     DEF WritingStep
<1>2. UNCHANGED unwritten /\ tx[w].phase \in {"resolved", "claimed"}
  BY DEF WritingStep, StartSubscription, RenewSubscription, MutateSubscription,
         CompleteOneTimePurchase, RefundPurchase, RevokePurchase, ReverseCharge,
         ReverseSubscription, TransferSubscription, TransferPurchase
<1> QED BY <1>1, <1>2

-----------------------------------------------------------------------------
(* The columns that say what a transaction will commit.                    *)
Agree(t, u) ==
  /\ u.id = t.id /\ u.person = t.person /\ u.locks = t.locks /\ u.subs = t.subs
  /\ u.txns = t.txns /\ u.charges = t.charges /\ u.announce = t.announce
  /\ u.changed = t.changed

LEMMA PreparedAgree ==
  ASSUME NEW t, NEW u, Agree(t, u), Prepared(t)
  PROVE  Prepared(u)
<1>1. RowsWritten(u, story[u.id])
  BY DEF Agree, Prepared, RowsWritten, OpensRow, MovesRow
<1>2. TxnsWritten(u, story[u.id]) /\ ChargesWritten(u, story[u.id])
  BY DEF Agree, Prepared, TxnsWritten, ChargesWritten
<1>3. Announces(u) /\ ChangesTold(u)
  BY DEF Agree, Prepared, Announces, ChangesTold
<1> QED BY <1>1, <1>2, <1>3 DEF Prepared

(* It says the same while the tables stand.                                *)
LEMMA PreparedStands ==
  ASSUME NEW v \in Workers, UNCHANGED <<story, subs, txns, charges>>, Prepared(tx'[v])
  PROVE  Prepared(tx[v])'
<1>1. RowsWritten(tx[v], story[tx[v].id])'
  BY DEF Prepared, RowsWritten, Leaves, OpensRow, MovesRow, RowsOf
<1>2. TxnsWritten(tx[v], story[tx[v].id])' /\ ChargesWritten(tx[v], story[tx[v].id])'
  BY DEF Prepared, TxnsWritten, ChargesWritten
<1>3. Announces(tx[v])'
  BY DEF Prepared, Announces
<1>4. ChangesTold(tx[v])'
  BY DEF Prepared, ChangesTold, SubChanges, ChargeChanges
<1> QED BY <1>1, <1>2, <1>3, <1>4 DEF Prepared

(* No two open transactions write one row of another table.                *)
Disjoint(t, u) ==
  DOMAIN t.txns \cap DOMAIN u.txns = {} /\ DOMAIN t.charges \cap DOMAIN u.charges = {}

(* An opening is announced when its row is there; a renewal once, with the *)
(* store transaction's row.                                                *)
Told ==
  /\ \A s \in Series : announced[s] = IF RowsOf(subs, s) # {} THEN 1 ELSE 0
  /\ \A c \in Charges : announced[c] = IF charges[c] # NoCharge THEN 1 ELSE 0
  /\ \A x \in Txns : announced[x] = 0 \/ (announced[x] = 1 /\ txns[x] # NoTxn)

Drafts ==
  /\ \A w \in Workers : tx[w].phase \in Written => Prepared(tx[w])
  /\ \A v, w \in Workers : v # w /\ tx[v].phase \in Open /\ tx[w].phase \in Open
                             => Disjoint(tx[v], tx[w])
  /\ ReadStands /\ PaidHasRow /\ Told

-----------------------------------------------------------------------------
(* Writes, column by column.                                               *)
Met(w, t) == UNION {IF v # w /\ tx[v].phase \in Written
                    THEN tx[v].decides \cap (t.changed \cup Listed(t.sync)) ELSE {} : v \in Workers}

LEMMA WritesColumns ==
  ASSUME Shapes, NEW w \in Workers, NEW t, DOMAIN t = TxFields, Writes(w, t)
  PROVE  /\ tx' = [v \in Workers |-> tx'[v]]
         /\ DOMAIN tx'[w] = TxFields /\ tx'[w].phase = "written"
         /\ tx'[w].decides = t.changed \cup Listed(t.sync)
         /\ tx'[w].crossed = Met(w, t)
         /\ \A f \in TxFields \ {"phase", "decides", "crossed"} : tx'[w][f] = t[f]
         /\ \A v \in Workers \ {w} :
              /\ DOMAIN tx'[v] = TxFields
              /\ tx'[v].crossed = tx[v].crossed \cup
                   IF tx[v].phase \in Written THEN tx[v].decides \cap (t.changed \cup Listed(t.sync))
                   ELSE {}
              /\ \A f \in TxFields \ {"crossed"} : tx'[v][f] = tx[v][f]
<1> DEFINE mine == t.changed \cup {t.sync[k] : k \in DOMAIN t.sync}
           shared == [v \in Workers |->
                   IF v # w /\ tx[v].phase \in Written THEN tx[v].decides \cap mine ELSE {}]
           met == UNION {shared[u] : u \in Workers}
<1>1. tx' = [v \in Workers |->
               IF v = w THEN [t EXCEPT !.phase = "written", !.decides = mine, !.crossed = met]
               ELSE [tx[v] EXCEPT !.crossed = @ \cup shared[v]]]
  BY DEF Writes
<1>2. mine = t.changed \cup Listed(t.sync)
  BY DEF Listed
<1>3. \A v \in Workers : shared[v] = IF v # w /\ tx[v].phase \in Written
                                     THEN tx[v].decides \cap mine ELSE {}
  OBVIOUS
<1>4. met = Met(w, t)
  BY <1>2, <1>3 DEF Met
<1> HIDE DEF mine, shared, met
<1>5. tx'[w] = [t EXCEPT !.phase = "written", !.decides = mine, !.crossed = met]
  BY <1>1
<1>6. /\ DOMAIN tx'[w] = TxFields /\ tx'[w].phase = "written"
      /\ tx'[w].decides = mine /\ tx'[w].crossed = met
      /\ \A f \in TxFields \ {"phase", "decides", "crossed"} : tx'[w][f] = t[f]
  BY <1>5 DEF TxFields
<1>7. ASSUME NEW v \in Workers \ {w}
      PROVE  /\ DOMAIN tx'[v] = TxFields
             /\ tx'[v].crossed = tx[v].crossed \cup shared[v]
             /\ \A f \in TxFields \ {"crossed"} : tx'[v][f] = tx[v][f]
  <2>1. tx'[v] = [tx[v] EXCEPT !.crossed = @ \cup shared[v]]
    BY <1>1
  <2>2. DOMAIN tx[v] = TxFields
    BY DEF Shapes
  <2> QED BY <2>1, <2>2 DEF TxFields
<1> QED BY <1>1, <1>2, <1>3, <1>4, <1>6, <1>7

LEMMA WriteDrafts ==
  ASSUME Types, IInv, Drafts, NEW w \in Workers, tx[w].phase \in {"resolved", "claimed"},
         NEW t, Draft(w, t), Writes(w, t), UNCHANGED unwritten
  PROVE  Drafts'
<1>0. Shapes /\ DOMAIN t = TxFields /\ UNCHANGED <<story, subs, txns, charges, announced>>
  BY DEF IInv, Draft, unwritten, tables
<1>1. /\ tx'[w].phase = "written"
      /\ \A f \in TxFields \ {"phase", "decides", "crossed"} : tx'[w][f] = t[f]
      /\ \A v \in Workers \ {w} : \A f \in TxFields \ {"crossed"} : tx'[v][f] = tx[v][f]
  BY <1>0, WritesColumns
<1>2. Agree(t, tx'[w]) /\ \A v \in Workers \ {w} : Agree(tx[v], tx'[v]) /\ tx'[v].phase = tx[v].phase
  BY <1>1 DEF Agree, TxFields
<1>3. ASSUME NEW v \in Workers, tx'[v].phase \in Written PROVE Prepared(tx[v])'
  <2>1. CASE v = w
    <3>1. Prepared(t)
      BY DEF Draft
    <3>2. Prepared(tx'[v])
      BY <1>2, <2>1, <3>1, PreparedAgree
    <3> QED BY <1>0, <3>2, PreparedStands
  <2>2. CASE v # w
    <3>1. Prepared(tx[v]) /\ Agree(tx[v], tx'[v])
      BY <1>2, <1>3, <2>2 DEF Drafts
    <3>2. Prepared(tx'[v])
      BY <3>1, PreparedAgree
    <3> QED BY <1>0, <3>2, PreparedStands
  <2> QED BY <2>1, <2>2
<1>4. ASSUME NEW v \in Workers \ {w}, tx[v].phase \in Open
      PROVE  Disjoint(t, tx[v]) /\ Disjoint(tx[v], t)
  BY <1>4 DEF Draft, TxnFree, ChargeFree, Others, Disjoint
<1>5. ASSUME NEW u \in Workers, NEW v \in Workers, u # v,
             tx'[u].phase \in Open, tx'[v].phase \in Open
      PROVE  Disjoint(tx[u], tx[v])'
  <2>1. CASE u = w
    BY <1>2, <1>4, <1>5, <2>1 DEF Disjoint, Agree
  <2>2. CASE v = w
    BY <1>2, <1>4, <1>5, <2>2 DEF Disjoint, Agree
  <2>3. CASE u # w /\ v # w
    BY <1>2, <1>5, <2>3 DEF Disjoint, Agree, Drafts
  <2> QED BY <2>1, <2>2, <2>3
<1>6. ReadStands'
  <2> SUFFICES ASSUME NEW v \in Workers, tx'[v].phase = "claimed"
               PROVE  /\ tx'[v].txn # NoTxn => txns[story[tx'[v].id].txn] # NoTxn
                      /\ tx'[v].charge # NoCharge =>
                           /\ story[tx'[v].id].subject \in Charges
                           /\ charges[story[tx'[v].id].subject] # NoCharge
    BY <1>0 DEF ReadStands, N
  <2>1. v # w
    BY <1>1
  <2>2. /\ tx'[v].phase = tx[v].phase /\ tx'[v].id = tx[v].id
        /\ tx'[v].txn = tx[v].txn /\ tx'[v].charge = tx[v].charge
    BY <1>1, <2>1 DEF TxFields
  <2> QED BY <2>2 DEF Drafts, ReadStands, N
<1>7. PaidHasRow' /\ Told'
  BY <1>0 DEF Drafts, PaidHasRow, Told, RowsOf
<1> QED BY <1>3, <1>5, <1>6, <1>7 DEF Drafts

(* A step that writes no row: what is open goes on, and what a claim reads *)
(* is there.                                                               *)
Rests(w, u) ==
  /\ u.phase \in Written => tx[w].phase \in Written /\ Agree(tx[w], u)
  /\ u.phase = "claimed" =>
       /\ DOMAIN u.txns = {} /\ DOMAIN u.charges = {}
       /\ u.txn # NoTxn => txns[story[u.id].txn] # NoTxn
       /\ u.charge # NoCharge =>
            story[u.id].subject \in Charges /\ charges[story[u.id].subject] # NoCharge

LEMMA RestDrafts ==
  ASSUME IInv, Drafts, NEW w \in Workers, NEW u, Rests(w, u), tx' = [tx EXCEPT ![w] = u],
         UNCHANGED <<story, subs, txns, charges, announced>>
  PROVE  Drafts'
<1>1. tx'[w] = u /\ \A v \in Workers \ {w} : tx'[v] = tx[v]
  BY DEF IInv, Shapes
<1>2. ASSUME NEW v \in Workers, tx'[v].phase \in Written PROVE Prepared(tx[v])'
  <2>1. Prepared(tx'[v])
    <3>1. CASE v = w
      <4>1. Prepared(tx[w]) /\ Agree(tx[w], u)
        BY <1>1, <1>2, <3>1 DEF Drafts, Rests
      <4> QED BY <1>1, <3>1, <4>1, PreparedAgree
    <3>2. CASE v # w
      BY <1>1, <1>2, <3>2 DEF Drafts
    <3> QED BY <3>1, <3>2
  <2> QED BY <2>1, PreparedStands
<1>3. ASSUME NEW v \in Workers \ {w}, tx[v].phase \in Open, u.phase \in Open
      PROVE  Disjoint(u, tx[v]) /\ Disjoint(tx[v], u)
  <2>1. CASE u.phase \in Written
    BY <1>3, <2>1 DEF Rests, Drafts, Disjoint, Agree, Open
  <2>2. CASE u.phase = "claimed"
    BY <2>2 DEF Rests, Disjoint
  <2> QED BY <1>3, <2>1, <2>2 DEF Open
<1>4. ASSUME NEW v \in Workers, NEW x \in Workers, x # v,
             tx'[x].phase \in Open, tx'[v].phase \in Open
      PROVE  Disjoint(tx[x], tx[v])'
  <2>1. CASE x = w
    BY <1>1, <1>3, <1>4, <2>1 DEF Disjoint
  <2>2. CASE v = w
    BY <1>1, <1>3, <1>4, <2>2 DEF Disjoint
  <2>3. CASE x # w /\ v # w
    BY <1>1, <1>4, <2>3 DEF Drafts, Disjoint
  <2> QED BY <2>1, <2>2, <2>3
<1>5. ReadStands'
  <2> SUFFICES ASSUME NEW v \in Workers, tx'[v].phase = "claimed"
               PROVE  /\ tx'[v].txn # NoTxn => txns[story[tx'[v].id].txn] # NoTxn
                      /\ tx'[v].charge # NoCharge =>
                           /\ story[tx'[v].id].subject \in Charges
                           /\ charges[story[tx'[v].id].subject] # NoCharge
    BY DEF ReadStands, N
  <2>1. CASE v = w
    BY <1>1, <2>1 DEF Rests
  <2>2. CASE v # w
    BY <1>1, <2>2 DEF Drafts, ReadStands, N
  <2> QED BY <2>1, <2>2
<1>6. PaidHasRow' /\ Told'
  BY DEF Drafts, PaidHasRow, Told, RowsOf
<1> QED BY <1>2, <1>4, <1>5, <1>6 DEF Drafts

LEMMA EndRests ==
  ASSUME Shapes, NEW w \in Workers, NEW p \in {"idle", "rebind"}, Ends(w, p)
  PROVE  \E u : Rests(w, u) /\ tx' = [tx EXCEPT ![w] = u] /\ u.phase = p
<1>1. CASE p = "idle"
  <2>1. tx' = [tx EXCEPT ![w] = Idle] /\ Idle.phase = p
    BY <1>1, IdleFacts DEF Ends
  <2>2. Rests(w, Idle)
    BY <1>1, <2>1 DEF Rests, Written
  <2> QED BY <2>1, <2>2
<1>2. CASE p = "rebind"
  <2> DEFINE u == [tx[w] EXCEPT !.phase = "rebind"]
  <2>1. tx' = [tx EXCEPT ![w] = u]
    BY <1>2 DEF Ends
  <2>2. u.phase = p
    BY <1>2 DEF Shapes, TxFields
  <2>3. Rests(w, u)
    BY <1>2, <2>2 DEF Rests, Written
  <2> QED BY <2>1, <2>2, <2>3
<1> QED BY <1>1, <1>2

(* Receiving, claiming, computing the perks, rebinding and rolling back.   *)
RestingStep(w) ==
  \/ \E i \in Notices : Receive(w, i)
  \/ Claim(w) \/ ReadPerks(w) \/ WritePerks(w) \/ Rebind(w) \/ Abort(w)

LEMMA Resting ==
  ASSUME Types, IInv, NEW w \in Workers, RestingStep(w)
  PROVE  /\ \E u : Rests(w, u) /\ tx' = [tx EXCEPT ![w] = u]
         /\ UNCHANGED <<story, tables>>
<1>0. Shapes /\ UNCHANGED <<story, tables>>
  BY DEF IInv, RestingStep, Receive, Claim, ReadPerks, WritePerks, Rebind, Abort, unwritten
<1>1. CASE \E i \in Notices : Receive(w, i)
  <2>1. PICK i \in Notices : Receive(w, i)
    BY <1>1
  <2> DEFINE u == [Idle EXCEPT !.phase = "resolved", !.id = i, !.person = bound[story[i].subject]]
  <2>2. tx' = [tx EXCEPT ![w] = u] /\ u.phase = "resolved"
    BY <2>1, IdleFacts DEF Receive, TxFields
  <2> HIDE DEF u
  <2>3. Rests(w, u)
    BY <2>2 DEF Rests, Written
  <2> QED BY <1>0, <2>2, <2>3
<1>2. CASE Claim(w)
  <2>1. tx[w].phase = "resolved"
    BY <1>2 DEF Claim
  <2>2. CASE tx' = [tx EXCEPT ![w] = Idle]
    <3>1. Rests(w, Idle)
      BY IdleFacts DEF Rests, Written
    <3> QED BY <1>0, <2>2, <3>1
  <2>3. CASE tx' # [tx EXCEPT ![w] = Idle]
    <3> DEFINE x == IF N(w).kind \in RefundKinds THEN txns[N(w).txn] ELSE NoTxn
               c == IF N(w).kind \in RefundKinds /\ N(w).subject \in Charges
                    THEN charges[N(w).subject] ELSE NoCharge
               u == [tx[w] EXCEPT !.phase = "claimed", !.txn = x, !.charge = c]
    <3>1. tx' = [tx EXCEPT ![w].phase = "claimed", ![w].txn = x, ![w].charge = c]
      BY <1>2, <2>3 DEF Claim
    <3>2. tx' = [tx EXCEPT ![w] = u]
      BY <1>0, <3>1 DEF Shapes
    <3>3. /\ x # NoTxn => txns[N(w).txn] # NoTxn
          /\ c # NoCharge => N(w).subject \in Charges /\ charges[N(w).subject] # NoCharge
      OBVIOUS
    <3> HIDE DEF x, c
    <3>4. /\ u.phase = "claimed" /\ u.id = tx[w].id /\ u.txn = x /\ u.charge = c
          /\ DOMAIN u.txns = {} /\ DOMAIN u.charges = {}
      BY <2>1, Blank DEF TxFields
    <3> HIDE DEF u
    <3>5. Rests(w, u)
      BY <3>3, <3>4 DEF Rests, Written, N
    <3> QED BY <1>0, <3>2, <3>5
  <2> QED BY <2>2, <2>3
<1>3. CASE ReadPerks(w)
  <2>1. PICK op, s :
          tx' = [tx EXCEPT ![w] = IF op = "none" THEN [tx[w] EXCEPT !.sync = s]
                                  ELSE [tx[w] EXCEPT !.op = op, !.phase = "read"]]
    BY <1>0, <1>3 DEF ReadPerks, Shapes
  <2>2. tx[w].phase \in Written /\ DOMAIN tx[w] = TxFields
    BY <1>0, <1>3 DEF ReadPerks, Written, Shapes
  <2>3. CASE op = "none"
    <3> DEFINE u == [tx[w] EXCEPT !.sync = s]
    <3>1. tx' = [tx EXCEPT ![w] = u]
      BY <2>1, <2>3
    <3>2. u.phase = tx[w].phase /\ Agree(tx[w], u)
      BY <2>2 DEF Agree, TxFields
    <3> HIDE DEF u
    <3>3. Rests(w, u)
      BY <2>2, <3>2 DEF Rests, Written
    <3> QED BY <1>0, <3>1, <3>3
  <2>4. CASE op # "none"
    <3> DEFINE u == [tx[w] EXCEPT !.op = op, !.phase = "read"]
    <3>1. tx' = [tx EXCEPT ![w] = u]
      BY <2>1, <2>4
    <3>2. u.phase = "read" /\ Agree(tx[w], u)
      BY <2>2 DEF Agree, TxFields
    <3> HIDE DEF u
    <3>3. Rests(w, u)
      BY <2>2, <3>2 DEF Rests, Written
    <3> QED BY <1>0, <3>1, <3>3
  <2> QED BY <2>3, <2>4
<1>4. CASE WritePerks(w)
  <2>1. PICK s, g : tx' = [tx EXCEPT ![w].phase = "written", ![w].op = "none",
                                     ![w].sync = s, ![w].grants = g]
    BY <1>4 DEF WritePerks
  <2>2. tx[w].phase \in Written /\ DOMAIN tx[w] = TxFields
    BY <1>0, <1>4 DEF WritePerks, Written, Shapes
  <2> DEFINE u == [tx[w] EXCEPT !.phase = "written", !.op = "none", !.sync = s, !.grants = g]
  <2>3. tx' = [tx EXCEPT ![w] = u]
    BY <1>0, <2>1 DEF Shapes
  <2>4. u.phase = "written" /\ Agree(tx[w], u)
    BY <2>2 DEF Agree, TxFields
  <2> HIDE DEF u
  <2>5. Rests(w, u)
    BY <2>2, <2>4 DEF Rests, Written
  <2> QED BY <1>0, <2>3, <2>5
<1>5. CASE Rebind(w)
  BY <1>0, <1>5, EndRests DEF Rebind
<1>6. CASE Abort(w)
  <2>1. Rests(w, Idle)
    BY IdleFacts DEF Rests, Written
  <2> QED BY <1>0, <1>6, <2>1 DEF Abort
<1> QED BY <1>1, <1>2, <1>3, <1>4, <1>5, <1>6 DEF RestingStep

-----------------------------------------------------------------------------
(* The committed tables, row by row.                                       *)
LEMMA CommitTables ==
  ASSUME Types, IInv, NEW w \in Workers, Commit(w)
  PROVE  LET t == tx[w]
         IN  /\ DOMAIN t.subs \subseteq Notices /\ DOMAIN t.txns \subseteq Txns
             /\ DOMAIN t.charges \subseteq Charges /\ DOMAIN t.grants \subseteq Persons
             /\ \A i \in DOMAIN t.subs : subs'[i] = t.subs[i]
             /\ \A i \in Notices \ DOMAIN t.subs : subs'[i] = subs[i]
             /\ \A x \in DOMAIN t.txns : txns'[x] = t.txns[x]
             /\ \A x \in Txns \ DOMAIN t.txns : txns'[x] = txns[x]
             /\ \A c \in DOMAIN t.charges : charges'[c] = t.charges[c]
             /\ \A c \in Charges \ DOMAIN t.charges : charges'[c] = charges[c]
             /\ \A p \in DOMAIN t.grants : grants'[p] = t.grants[p]
             /\ \A p \in Persons \ DOMAIN t.grants : grants'[p] = grants[p]
             /\ t.phase = "written" /\ t.sync = <<>> /\ t.id \in DOMAIN story
             /\ story' = story /\ DOMAIN t = TxFields
             /\ \A v \in Workers \ {w} : tx'[v] = tx[v]
             /\ tx'[w].phase \in {"idle", "rebind"}
<1> DEFINE t == tx[w]
<1>0. Shapes /\ Sound(t) /\ t.phase = "written" /\ TypeOK
  BY DEF IInv, Types, Commit
<1>1. /\ DOMAIN t.subs \subseteq Notices /\ DOMAIN t.txns \subseteq Txns
      /\ DOMAIN t.charges \subseteq Charges /\ DOMAIN t.grants \subseteq Persons
  BY <1>0 DEF Sound, Ok, TxOK
<1>2. DOMAIN subs = Notices /\ DOMAIN txns = Txns /\ DOMAIN charges = Charges
      /\ DOMAIN grants = Persons
  BY <1>0 DEF Shapes, TypeOK
<1>3. /\ \A i \in DOMAIN t.subs : subs'[i] = t.subs[i]
      /\ \A i \in Notices \ DOMAIN t.subs : subs'[i] = subs[i]
  BY <1>1, <1>2, OverFacts DEF Commit
<1>4. /\ \A x \in DOMAIN t.txns : txns'[x] = t.txns[x]
      /\ \A x \in Txns \ DOMAIN t.txns : txns'[x] = txns[x]
  BY <1>1, <1>2, OverFacts DEF Commit
<1>5. /\ \A c \in DOMAIN t.charges : charges'[c] = t.charges[c]
      /\ \A c \in Charges \ DOMAIN t.charges : charges'[c] = charges[c]
  BY <1>1, <1>2, OverFacts DEF Commit
<1>6. /\ \A p \in DOMAIN t.grants : grants'[p] = t.grants[p]
      /\ \A p \in Persons \ DOMAIN t.grants : grants'[p] = grants[p]
  BY <1>1, <1>2, OverFacts DEF Commit
<1>7. /\ \A v \in Workers \ {w} : tx'[v] = tx[v]
      /\ tx'[w].phase \in {"idle", "rebind"}
  <2>1. PICK p \in {"idle", "rebind"} : Ends(w, p)
    BY DEF Commit
  <2>2. PICK u : tx' = [tx EXCEPT ![w] = u] /\ u.phase = p
    BY <1>0, <2>1, EndRests
  <2> QED BY <1>0, <2>2 DEF Shapes
<1>8. t.sync = <<>> /\ t.id \in DOMAIN story /\ story' = story /\ DOMAIN t = TxFields
  BY <1>0 DEF Commit, Shapes
<1> QED BY <1>0, <1>1, <1>3, <1>4, <1>5, <1>6, <1>7, <1>8

(* What a commit does to the rows of a series: it opens the one its        *)
(* transaction announces, and moves rows of the transaction's own series.  *)
LEMMA CommittedRows ==
  ASSUME Types, IInv, Drafts, NEW w \in Workers, Commit(w)
  PROVE  /\ \A s \in Series : (RowsOf(subs, s))' # {} <=>
              RowsOf(subs, s) # {} \/ s \in tx[w].announce
         /\ \A s \in Series : s \in tx[w].announce => RowsOf(subs, s) = {}
         /\ \A i \in DOMAIN tx[w].subs : subs[i] # NoRow =>
              /\ subs[i].series = N(w).subject /\ subs'[i] = Updated(subs[i], N(w))
              /\ Fresher(subs[i], N(w)) /\ N(w).kind \in PatchKinds
         /\ \A i \in DOMAIN tx[w].subs : subs[i] = NoRow =>
              /\ subs'[i].series = N(w).subject /\ tx[w].locks = {N(w).subject}
<1> DEFINE t == tx[w]
           D == DOMAIN t.subs
           n == N(w)
<1>1. /\ D \subseteq Notices /\ \A i \in D : subs'[i] = t.subs[i]
      /\ \A i \in Notices \ D : subs'[i] = subs[i]
      /\ t.phase = "written" /\ t.id \in DOMAIN story
  BY CommitTables
<1>2. Prepared(t) /\ Writing(t)
  BY <1>1 DEF Drafts, IInv, Written
<1>3. ASSUME NEW i \in D
      PROVE  /\ SoundRow(i, t.subs[i]) /\ t.subs[i].series = story[i].subject
             /\ story[i].subject \in Series
             /\ subs[i] # NoRow => subs[i].series = story[i].subject
             /\ subs[i] = NoRow => RowsOf(subs, story[i].subject) = {}
  <2>1. SoundRow(i, t.subs[i]) /\ i \in Notices
        /\ (subs[i] = NoRow => RowsOf(subs, story[i].subject) = {})
    BY <1>2 DEF Writing, Writable
  <2>2. subs[i] # NoRow => SoundRow(i, subs[i])
    BY <2>1 DEF IInv, Committed
  <2> QED BY <2>1, <2>2 DEF SoundRow
<1>4. ASSUME NEW s \in Series
      PROVE  /\ s \in t.announce <=> \E i \in D : subs[i] = NoRow /\ story[i].subject = s
             /\ s \in t.announce => RowsOf(subs, s) = {}
             /\ (RowsOf(subs, s))' # {} <=> RowsOf(subs, s) # {} \/ s \in t.announce
  <2>1. s \in t.announce <=> \E i \in D : subs[i] = NoRow /\ story[i].subject = s
    BY <1>2 DEF Prepared, Announces
  <2>2. s \in t.announce => RowsOf(subs, s) = {}
    BY <1>3, <2>1
  <2>3. ASSUME NEW i \in (RowsOf(subs, s))' PROVE RowsOf(subs, s) # {} \/ s \in t.announce
    <3>1. i \in Notices /\ subs'[i].series = s
      BY <2>3 DEF RowsOf
    <3>2. CASE i \in D
      <4>1. subs[i] = NoRow => s \in t.announce
        BY <1>1, <1>3, <2>1, <3>1, <3>2
      <4>2. subs[i] # NoRow => i \in RowsOf(subs, s)
        BY <1>1, <1>3, <3>1, <3>2 DEF RowsOf
      <4> QED BY <4>1, <4>2
    <3>3. CASE i \notin D
      BY <1>1, <3>1, <3>3 DEF RowsOf
    <3> QED BY <3>2, <3>3
  <2>4. ASSUME NEW i \in RowsOf(subs, s) PROVE (RowsOf(subs, s))' # {}
    <3>1. i \in Notices /\ subs[i].series = s /\ subs[i] # NoRow
      BY PurchaseAssumption, NoRowFacts DEF RowsOf
    <3>2. subs'[i].series = s
      BY <1>1, <1>3, <3>1
    <3> QED BY <3>1, <3>2 DEF RowsOf
  <2>5. ASSUME s \in t.announce PROVE (RowsOf(subs, s))' # {}
    <3>1. PICK i \in D : subs[i] = NoRow /\ story[i].subject = s
      BY <2>1, <2>5
    <3>2. subs'[i].series = s /\ i \in Notices
      BY <1>1, <1>3, <3>1
    <3> QED BY <3>2 DEF RowsOf
  <2> QED BY <2>1, <2>2, <2>3, <2>4, <2>5
<1>5. RowsWritten(t, n)
  BY <1>2 DEF Prepared, N
<1>6. ASSUME NEW i \in D, subs[i] # NoRow
      PROVE  /\ subs[i].series = n.subject /\ subs'[i] = Updated(subs[i], n)
             /\ Fresher(subs[i], n) /\ n.kind \in PatchKinds
  <2>1. PICK j \in RowsOf(subs, n.subject) : MovesRow(t, n, j)
    BY <1>5, <1>6 DEF RowsWritten, OpensRow
  <2>2. i = j
    BY <2>1 DEF MovesRow
  <2> QED BY <1>1, <2>1, <2>2 DEF MovesRow, RowsOf
<1>7. ASSUME NEW i \in D, subs[i] = NoRow
      PROVE  subs'[i].series = n.subject /\ t.locks = {n.subject}
  <2>1. OpensRow(t, n)
    <3>1. \A j \in RowsOf(subs, n.subject) : ~MovesRow(t, n, j)
      BY <1>7 DEF MovesRow
    <3> QED BY <1>5, <1>7, <3>1 DEF RowsWritten
  <2>2. n.kind \in SubscriptionKinds /\ n.kind # "transfer"
    BY <2>1 DEF OpensRow, SubscriptionKinds, PaidKinds
  <2>3. t.locks = {n.subject} /\ t.subs[i].series = n.subject
    BY <1>5, <2>1, <2>2, NewRowFacts DEF RowsWritten, OpensRow
  <2> QED BY <1>1, <2>3
<1> QED BY <1>4, <1>6, <1>7

(* Another transaction, under its own lock, still leaves the rows alone.   *)
LEMMA LeavesStands ==
  ASSUME Types, IInv, Drafts, NEW w \in Workers, Commit(w), NEW v \in Workers \ {w},
         tx[v].phase \in Written, RowsWritten(tx[v], N(v)), Leaves(N(v))
  PROVE  Leaves(N(v))'
<1> DEFINE m == N(v)
           n == N(w)
           D == DOMAIN tx[w].subs
<1>1. /\ D \subseteq Notices /\ \A i \in D : subs'[i] = tx[w].subs[i]
      /\ \A i \in Notices \ D : subs'[i] = subs[i]
      /\ tx[w].phase = "written" /\ tx'[v] = tx[v] /\ story' = story
      /\ m' = m /\ tx[w].id \in DOMAIN story
  BY CommitTables DEF N
<1>2. CASE m.kind \in Kinds \ SubscriptionKinds
  BY <1>1, <1>2 DEF Leaves
<1>3. CASE m.kind \in SubscriptionKinds
  <2>1. m.subject \in Series /\ m.kind # "transfer" /\ m.at \in Int
    <3>1. tx[v].id \in DOMAIN story
      BY DEF IInv, Shapes, Written
    <3> QED BY <1>3, <3>1, StoryFacts
            DEF IInv, N, SubscriptionKinds, PaidKinds, KnownKinds, MutationKinds
  <2>2. tx[v].locks = {m.subject} /\ Apart(tx[w], tx[v])
    BY <1>1, <1>3, <2>1 DEF RowsWritten, IInv, Open, Written
  <2>3. CASE m.kind \notin PaidKinds /\ RowsOf(subs, m.subject) = {}
    <3>1. m.subject \notin tx[w].announce
      <4>1. SUFFICES ASSUME m.subject \in tx[w].announce PROVE FALSE
        OBVIOUS
      <4>2. Prepared(tx[w]) /\ Writing(tx[w])
        BY <1>1 DEF Drafts, IInv, Written
      <4>3. PICK i \in D : subs[i] = NoRow /\ story[i].subject = m.subject
        BY <2>1, <4>1, <4>2 DEF Prepared, Announces
      <4>4. m.subject \in tx[w].locks
        BY <4>2, <4>3 DEF Writing, Writable
      <4> QED BY <2>2, <4>4 DEF Apart
    <3>2. (RowsOf(subs, m.subject))' = {}
      <4>1. (RowsOf(subs, m.subject))' = RowsOf(subs', m.subject)
        BY <1>1 DEF RowsOf
      <4>2. \A s \in Series : RowsOf(subs', s) # {} => RowsOf(subs, s) # {} \/ s \in tx[w].announce
        BY CommittedRows DEF RowsOf
      <4> QED BY <2>1, <2>3, <3>1, <4>1, <4>2
    <3> QED BY <1>1, <2>3, <3>2 DEF Leaves
  <2>4. CASE \E i \in RowsOf(subs, m.subject) :
               ~Fresher(subs[i], m) \/ (m.kind = "start" /\ subs[i].product = m.product)
    <3>1. PICK i \in RowsOf(subs, m.subject) :
               ~Fresher(subs[i], m) \/ (m.kind = "start" /\ subs[i].product = m.product)
      BY <2>4
    <3>2. i \in Notices /\ subs[i] # NoRow /\ subs[i].series = m.subject /\ SoundRow(i, subs[i])
      BY <2>1, <3>1, FoundRows
    <3>3. CASE i \notin D
      <4>1. subs'[i] = subs[i]
        BY <1>1, <3>2, <3>3
      <4>2. i \in RowsOf(subs', m.subject)
        BY <3>2, <4>1 DEF RowsOf
      <4>3. ~Fresher(subs'[i], m) \/ (m.kind = "start" /\ subs'[i].product = m.product)
        BY <3>1, <4>1
      <4> QED BY <1>1, <4>2, <4>3 DEF Leaves, RowsOf, Fresher
    <3>4. CASE i \in D
      <4>1. /\ subs[i].series = n.subject /\ subs'[i] = Updated(subs[i], n)
            /\ Fresher(subs[i], n) /\ n.kind \in PatchKinds
        BY <3>2, <3>4, CommittedRows
      <4>2. n.kind = "transfer"
        <5>1. RowsWritten(tx[w], n)
          BY <1>1 DEF Drafts, Prepared, Written, N
        <5>2. n.kind = "transfer" \/ tx[w].locks = {m.subject}
          BY <3>2, <3>4, <4>1, <5>1 DEF RowsWritten
        <5> QED BY <2>2, <5>2 DEF Apart
      <4>3. DOMAIN subs[i] = RowFields
        BY <3>2 DEF SoundRow
      <4>4. /\ subs'[i].series = m.subject /\ subs'[i].mark = n.at
            /\ subs'[i].product = subs[i].product
        <5> DEFINE q == [subs[i] EXCEPT !.person = n.owner]
        <5>1. Updated(subs[i], n) = [q EXCEPT !.mark = n.at]
          BY <4>1, <4>2 DEF Updated, Patch, PaidKinds
        <5>2. DOMAIN q = RowFields /\ q.series = subs[i].series /\ q.product = subs[i].product
          BY <4>3 DEF RowFields
        <5> HIDE DEF q
        <5> QED BY <3>2, <4>1, <5>1, <5>2 DEF RowFields
      <4>5. ~Fresher(subs[i], m) => ~Fresher(subs'[i], m)
        <5>1. subs[i].mark \in Int /\ n.at \in Int
          <6>1. subs[i] \in RowType
            BY <3>2 DEF Types, TypeOK
          <6>2. n.at \in Int
            BY <1>1, StoryFacts DEF IInv, N
          <6> QED BY <6>1, <6>2, NullFacts DEF RowType
        <5> QED BY <2>1, <4>1, <4>4, <5>1 DEF Fresher
      <4>6. i \in RowsOf(subs', m.subject)
        BY <3>2, <4>4 DEF RowsOf
      <4>7. ~Fresher(subs'[i], m) \/ (m.kind = "start" /\ subs'[i].product = m.product)
        BY <3>1, <4>4, <4>5
      <4> QED BY <1>1, <4>6, <4>7 DEF Leaves, RowsOf, Fresher
    <3> QED BY <3>3, <3>4
  <2>5. \/ m.kind \notin PaidKinds /\ RowsOf(subs, m.subject) = {}
        \/ \E i \in RowsOf(subs, m.subject) :
             ~Fresher(subs[i], m) \/ (m.kind = "start" /\ subs[i].product = m.product)
    BY <1>3 DEF Leaves
  <2> QED BY <2>3, <2>4, <2>5
<1>4. m.kind \in Kinds \ SubscriptionKinds \/ m.kind \in SubscriptionKinds
  <2>1. tx[v].id \in DOMAIN story
    BY DEF IInv, Shapes, Written
  <2> QED BY <2>1, StoryFacts DEF IInv, N
<1> QED BY <1>2, <1>3, <1>4

(* What another worker has written stays prepared.                         *)
LEMMA OthersPrepared ==
  ASSUME Types, IInv, Drafts, NEW w \in Workers, Commit(w), NEW v \in Workers \ {w},
         tx[v].phase \in Written
  PROVE  Prepared(tx[v])'
<1> DEFINE t == tx[v]
           n == N(v)
<1>1. /\ \A i \in Notices \ DOMAIN tx[w].subs : subs'[i] = subs[i]
      /\ \A x \in Txns \ DOMAIN tx[w].txns : txns'[x] = txns[x]
      /\ \A c \in Charges \ DOMAIN tx[w].charges : charges'[c] = charges[c]
      /\ tx[w].phase = "written" /\ tx'[v] = t /\ story' = story
  BY CommitTables
<1>2. /\ \A i \in DOMAIN t.subs : i \in Notices /\ i \notin DOMAIN tx[w].subs
      /\ \A x \in DOMAIN t.txns : x \in Txns /\ x \notin DOMAIN tx[w].txns
      /\ \A c \in DOMAIN t.charges : c \in Charges /\ c \notin DOMAIN tx[w].charges
  <2>1. Apart(t, tx[w]) /\ Disjoint(t, tx[w])
    BY <1>1 DEF IInv, Drafts, Open, Written
  <2>2. TxOK(t)
    BY DEF Types, Sound, Ok
  <2> QED BY <2>1, <2>2 DEF Apart, Disjoint, TxOK
<1>3. /\ \A i \in DOMAIN t.subs : subs'[i] = subs[i]
      /\ \A x \in DOMAIN t.txns : txns'[x] = txns[x]
      /\ \A c \in DOMAIN t.charges : charges'[c] = charges[c]
  BY <1>1, <1>2
<1>4. Prepared(t) /\ RowsWritten(t, n)
  BY DEF Drafts, Prepared, N
<1>5. RowsWritten(tx[v], story[tx[v].id])'
  <2>1. CASE DOMAIN t.subs = {} /\ Leaves(n)
    <3>1. Leaves(N(v))'
      BY <1>4, <2>1, LeavesStands
    <3> QED BY <1>1, <1>4, <2>1, <3>1 DEF RowsWritten, N
  <2>2. CASE OpensRow(t, n)
    <3>1. subs'[t.id] = NoRow
      BY <1>3, <2>2 DEF OpensRow
    <3> QED BY <1>1, <1>4, <2>2, <3>1 DEF RowsWritten, OpensRow, N
  <2>3. CASE \E i \in RowsOf(subs, n.subject) : MovesRow(t, n, i)
    <3>1. PICK i \in RowsOf(subs, n.subject) : MovesRow(t, n, i)
      BY <2>3
    <3>2. subs'[i] = subs[i] /\ i \in Notices
      BY <1>2, <1>3, <3>1 DEF MovesRow
    <3>3. i \in RowsOf(subs', n.subject)
      BY <3>1, <3>2 DEF RowsOf
    <3> QED BY <1>1, <1>4, <3>1, <3>2, <3>3 DEF RowsWritten, MovesRow, N, RowsOf
  <2> QED BY <1>4, <2>1, <2>2, <2>3 DEF RowsWritten
<1>6. TxnsWritten(tx[v], story[tx[v].id])' /\ ChargesWritten(tx[v], story[tx[v].id])'
  BY <1>1, <1>3, <1>4 DEF Prepared, TxnsWritten, ChargesWritten
<1>7. Announces(tx[v])'
  <2>1. \A x \in Txns : x \in t.announce => x \in DOMAIN t.txns /\ txns[x] = NoTxn
    BY <1>4 DEF Prepared, Announces
  <2>2. \A c \in Charges : c \in t.announce <=> c \in DOMAIN t.charges /\ charges[c] = NoCharge
    BY <1>4 DEF Prepared, Announces
  <2>3. \A s \in Series : s \in t.announce <=>
          \E i \in DOMAIN t.subs : subs[i] = NoRow /\ story[i].subject = s
    BY <1>4 DEF Prepared, Announces
  <2> QED BY <1>1, <1>3, <2>1, <2>2, <2>3 DEF Announces
<1>8. ChangesTold(tx[v])'
  BY <1>1, <1>3, <1>4 DEF Prepared, ChangesTold, SubChanges, ChargeChanges
<1> QED BY <1>5, <1>6, <1>7, <1>8 DEF Prepared

LEMMA CommitDrafts ==
  ASSUME Types, IInv, Drafts, NEW w \in Workers, Commit(w)
  PROVE  Drafts'
<1> DEFINE t == tx[w]
           n == N(w)
<1>0. /\ DOMAIN t.txns \subseteq Txns /\ DOMAIN t.charges \subseteq Charges
      /\ \A x \in DOMAIN t.txns : txns'[x] = t.txns[x]
      /\ \A x \in Txns \ DOMAIN t.txns : txns'[x] = txns[x]
      /\ \A c \in DOMAIN t.charges : charges'[c] = t.charges[c]
      /\ \A c \in Charges \ DOMAIN t.charges : charges'[c] = charges[c]
      /\ t.phase = "written" /\ t.id \in DOMAIN story /\ story' = story
      /\ \A v \in Workers \ {w} : tx'[v] = tx[v]
      /\ tx'[w].phase \in {"idle", "rebind"}
  BY CommitTables
<1>1. /\ RowsWritten(t, n) /\ TxnsWritten(t, n) /\ ChargesWritten(t, n) /\ Announces(t)
      /\ n \in NoticeType
  BY <1>0, NoticeFacts DEF Drafts, Prepared, Written, N, IInv
<1>2. /\ \A x \in Txns : txns[x] # NoTxn => txns'[x] # NoTxn
      /\ \A c \in Charges : charges[c] # NoCharge => charges'[c] # NoCharge
  <2>1. \A x \in DOMAIN t.txns : t.txns[x] # NoTxn
    BY <1>1 DEF TxnsWritten
  <2>2. \A c \in DOMAIN t.charges : t.charges[c] # NoCharge
    BY <1>1 DEF ChargesWritten
  <2> QED BY <1>0, <2>1, <2>2
<1>3. ASSUME NEW v \in Workers, tx'[v].phase \in Written PROVE Prepared(tx[v])'
  <2>1. v # w /\ tx[v].phase \in Written
    BY <1>0, <1>3 DEF Written
  <2> QED BY <2>1, OthersPrepared
<1>4. ASSUME NEW u \in Workers, NEW v \in Workers, u # v,
             tx'[u].phase \in Open, tx'[v].phase \in Open
      PROVE  Disjoint(tx[u], tx[v])'
  <2>1. u # w /\ v # w /\ Disjoint(tx[u], tx[v])
    BY <1>0, <1>4 DEF Drafts, Open, Written
  <2> QED BY <1>0, <2>1 DEF Disjoint
<1>5. ReadStands'
  <2> SUFFICES ASSUME NEW v \in Workers, tx'[v].phase = "claimed"
               PROVE  /\ tx'[v].txn # NoTxn => txns'[story[tx'[v].id].txn] # NoTxn
                      /\ tx'[v].charge # NoCharge =>
                           /\ story[tx'[v].id].subject \in Charges
                           /\ charges'[story[tx'[v].id].subject] # NoCharge
    BY <1>0 DEF ReadStands, N
  <2>1. tx'[v] = tx[v] /\ v # w
    BY <1>0
  <2>2. story[tx[v].id].txn \in Txns
    <3>1. tx[v].id \in DOMAIN story
      BY <2>1 DEF IInv, Shapes
    <3> QED BY <3>1, NoticeFacts DEF IInv, NoticeType
  <2> QED BY <1>2, <2>1, <2>2 DEF Drafts, ReadStands, N
<1>6. PaidHasRow'
  <2> SUFFICES ASSUME NEW i \in DOMAIN story, story[i].subject \in Series,
                      txns'[story[i].txn] # NoTxn
               PROVE  RowsOf(subs', story[i].subject) # {}
    <3>1. \A s : (RowsOf(subs, s))' = RowsOf(subs', s)
      BY DEF RowsOf
    <3> QED BY <1>0, <3>1 DEF PaidHasRow
  <2> DEFINE x == story[i].txn
             s == story[i].subject
  <2>1. x \in Txns
    BY NoticeFacts DEF IInv, NoticeType
  <2>2. RowsOf(subs, s) # {} \/ s \in t.announce
    <3>1. CASE txns[x] # NoTxn
      BY <3>1 DEF Drafts, PaidHasRow
    <3>2. CASE txns[x] = NoTxn
      <4>1. x \in DOMAIN t.txns
        BY <1>0, <2>1, <3>2
      <4>2. x = n.txn /\ n.kind \in PaidKinds \cup {"purchase"}
        BY <1>1, <3>2, <4>1 DEF TxnsWritten
      <4>3. n.subject = s
        BY <1>0, <4>2, PurchaseAssumption DEF IInv, Shapes, N
      <4>4. n.kind # "purchase"
        BY <1>0, <4>3, NoticeFacts, KeysDiffer DEF IInv, N
      <4>5. CASE DOMAIN t.subs = {} /\ Leaves(n)
        BY <4>2, <4>3, <4>4, <4>5 DEF Leaves, SubscriptionKinds
      <4>6. CASE OpensRow(t, n)
        <5>1. t.id \in DOMAIN t.subs /\ subs[t.id] = NoRow
          BY <4>6 DEF OpensRow
        <5>2. s \in t.announce
          BY <1>1, <4>3, <5>1 DEF Announces, N
        <5> QED BY <5>2
      <4>7. CASE \E j \in RowsOf(subs, n.subject) : MovesRow(t, n, j)
        BY <4>3, <4>7
      <4> QED BY <1>1, <4>5, <4>6, <4>7 DEF RowsWritten
    <3> QED BY <3>1, <3>2
  <2>3. RowsOf(subs', s) # {} <=> RowsOf(subs, s) # {} \/ s \in t.announce
    BY CommittedRows DEF RowsOf
  <2> QED BY <2>2, <2>3
<1>7. Told'
  <2>1. \A x \in Topics : announced'[x] = IF x \in t.announce /\ announced[x] < 2
                                          THEN announced[x] + 1 ELSE announced[x]
    BY DEF Commit, Bump, Types, TypeOK
  <2>2. ASSUME NEW s \in Series
        PROVE  announced'[s] = IF RowsOf(subs', s) # {} THEN 1 ELSE 0
    <3>1. announced[s] = IF RowsOf(subs, s) # {} THEN 1 ELSE 0
      BY DEF Drafts, Told
    <3>2. RowsOf(subs', s) # {} <=> RowsOf(subs, s) # {} \/ s \in t.announce
      BY CommittedRows DEF RowsOf
    <3>3. s \in t.announce => RowsOf(subs, s) = {}
      BY CommittedRows
    <3>4. s \in Topics
      BY DEF Topics, Subjects
    <3> QED BY <2>1, <3>1, <3>2, <3>3, <3>4
  <2>3. ASSUME NEW c \in Charges
        PROVE  announced'[c] = IF charges'[c] # NoCharge THEN 1 ELSE 0
    <3>1. announced[c] = IF charges[c] # NoCharge THEN 1 ELSE 0
      BY DEF Drafts, Told
    <3>2. c \in t.announce <=> c \in DOMAIN t.charges /\ charges[c] = NoCharge
      BY <1>1 DEF Announces
    <3>3. c \in DOMAIN t.charges => charges'[c] # NoCharge
      BY <1>0, <1>1 DEF ChargesWritten
    <3>4. c \in Topics
      BY DEF Topics, Subjects
    <3> QED BY <1>0, <2>1, <3>1, <3>2, <3>3, <3>4
  <2>4. ASSUME NEW x \in Txns
        PROVE  announced'[x] = 0 \/ (announced'[x] = 1 /\ txns'[x] # NoTxn)
    <3>1. announced[x] = 0 \/ (announced[x] = 1 /\ txns[x] # NoTxn)
      BY DEF Drafts, Told
    <3>2. x \in t.announce => x \in DOMAIN t.txns /\ txns[x] = NoTxn
      BY <1>1 DEF Announces
    <3>3. x \in DOMAIN t.txns => txns'[x] # NoTxn
      BY <1>0, <1>1 DEF TxnsWritten
    <3>4. x \in Topics
      BY DEF Topics
    <3> QED BY <1>2, <2>1, <3>1, <3>2, <3>3, <3>4
  <2>5. \A s : (RowsOf(subs, s))' = RowsOf(subs', s)
    BY DEF RowsOf
  <2> QED BY <2>2, <2>3, <2>4, <2>5 DEF Told
<1> QED BY <1>3, <1>4, <1>5, <1>6, <1>7 DEF Drafts

LEMMA InitDrafts == Init => Drafts
<1> SUFFICES ASSUME Init PROVE Drafts
  OBVIOUS
<1>1. \A w \in Workers : tx[w].phase = "idle"
  BY IdleFacts DEF Init
<1>2. ReadStands
  BY <1>1 DEF ReadStands
<1>3. \A i \in DOMAIN story : story[i].txn \in Txns
  BY PurchaseAssumption DEF Init, NoticeType
<1>4. PaidHasRow
  BY <1>3 DEF Init, PaidHasRow
<1>5. \A s \in Series : RowsOf(subs, s) = {}
  BY PurchaseAssumption, NoRowFacts DEF Init, RowsOf
<1>6. Told
  BY <1>5 DEF Init, Told, Topics, Subjects
<1> QED BY <1>1, <1>2, <1>4, <1>6 DEF Drafts, Open, Written

LEMMA NextDrafts == Types /\ IInv /\ Drafts /\ [Next]_vars => Drafts'
<1> SUFFICES ASSUME Types, IInv, Drafts, [Next]_vars PROVE Drafts'
  OBVIOUS
<1>1. CASE UNCHANGED vars
  <2>1. UNCHANGED <<story, subs, txns, charges, announced>> /\ tx' = tx
    BY <1>1 DEF vars, tables
  <2>2. ASSUME NEW v \in Workers, tx'[v].phase \in Written PROVE Prepared(tx[v])'
    <3>1. Prepared(tx'[v])
      BY <2>1, <2>2 DEF Drafts
    <3> QED BY <2>1, <3>1, PreparedStands
  <2>3. ReadStands' /\ PaidHasRow' /\ Told'
    BY <2>1 DEF Drafts, ReadStands, N, PaidHasRow, Told, RowsOf
  <2>4. \A v, w \in Workers : v # w /\ tx'[v].phase \in Open /\ tx'[w].phase \in Open
                               => Disjoint(tx[v], tx[w])'
    BY <2>1 DEF Drafts, Disjoint
  <2> QED BY <2>2, <2>3, <2>4 DEF Drafts
<1>2. CASE Next
  <2>1. PICK w \in Workers : RestingStep(w) \/ WritingStep(w) \/ Commit(w)
    BY <1>2 DEF Next, Step, RestingStep, WritingStep
  <2>2. CASE RestingStep(w)
    <3>1. PICK u : Rests(w, u) /\ tx' = [tx EXCEPT ![w] = u]
      BY <2>2, Resting
    <3>2. UNCHANGED <<story, subs, txns, charges, announced>>
      BY <2>2, Resting DEF tables
    <3> QED BY <3>1, <3>2, RestDrafts
  <2>3. CASE WritingStep(w)
    <3>1. PaidHasRow /\ ReadStands
      BY DEF Drafts
    <3>2. /\ Ends(w, "idle") \/ Ends(w, "rebind") \/ \E t : Writes(w, t) /\ Draft(w, t)
          /\ UNCHANGED unwritten /\ tx[w].phase \in {"resolved", "claimed"}
      BY <2>3, <3>1, WritesADraft
    <3>3. CASE \E t : Writes(w, t) /\ Draft(w, t)
      BY <3>2, <3>3, WriteDrafts
    <3>4. CASE Ends(w, "idle") \/ Ends(w, "rebind")
      <4>1. PICK u : Rests(w, u) /\ tx' = [tx EXCEPT ![w] = u]
        BY <3>4, EndRests DEF IInv
      <4>2. UNCHANGED <<story, subs, txns, charges, announced>>
        BY <3>2 DEF unwritten, tables
      <4> QED BY <4>1, <4>2, RestDrafts
    <3> QED BY <3>2, <3>3, <3>4
  <2>4. CASE Commit(w)
    BY <2>4, CommitDrafts
  <2> QED BY <2>1, <2>2, <2>3, <2>4
<1> QED BY <1>1, <1>2

LEMMA DraftsInvariant == Spec => []Drafts
<1> QED BY InitDrafts, NextDrafts, TypesInvariant, PurchaseInvariant, PTL DEF Spec

(* Every opening of a subscription or purchase is announced by one         *)
(* transaction and with its row, whichever of its racing first events wins *)
(* the lock; a store transaction's renewal is announced once.              *)
THEOREM OpeningsAreAnnouncedOnce == Spec => []OpeningIsAnnouncedOnce
<1>1. Drafts => OpeningIsAnnouncedOnce
  <2> SUFFICES ASSUME Told PROVE OpeningIsAnnouncedOnce
    BY DEF Drafts
  <2>1. \A t \in Topics : announced[t] <= 1
    BY DEF Told, Topics, Subjects
  <2> QED BY <2>1 DEF OpeningIsAnnouncedOnce, Told
<1> QED BY <1>1, DraftsInvariant, PTL

-----------------------------------------------------------------------------
(* A notification other than a transfer is in one open transaction at most,*)
(* and in none once its key is committed.                                  *)
Keys ==
  \A w \in Workers : tx[w].phase \in Open /\ N(w).kind # "transfer" =>
    tx[w].id \notin reserved /\ \A v \in Others(w) : tx[v].id # tx[w].id

LEMMA KeysStand ==
  ASSUME Keys, NEW w \in Workers, story' = story, reserved' = reserved,
         \A v \in Workers \ {w} : tx'[v].phase = tx[v].phase /\ tx'[v].id = tx[v].id,
         tx'[w].phase \in Open =>
           \/ tx[w].phase \in Open /\ tx'[w].id = tx[w].id
           \/ tx'[w].id \notin reserved /\ \A v \in Others(w) : tx[v].id # tx'[w].id
           \/ story[tx'[w].id].kind = "transfer"
  PROVE  Keys'
<1> SUFFICES ASSUME NEW x \in Workers, tx'[x].phase \in Open, story[tx'[x].id].kind # "transfer"
             PROVE  /\ tx'[x].id \notin reserved
                    /\ \A v \in Workers \ {x} : tx'[v].phase \in Open => tx'[v].id # tx'[x].id
  BY DEF Keys, N, Others
<1>1. CASE x = w
  BY <1>1 DEF Keys, N, Others
<1>2. CASE x # w
  <2>1. tx[x].id \notin reserved /\ \A v \in Others(x) : tx[v].id # tx[x].id
    BY <1>2 DEF Keys, N
  <2>2. ASSUME NEW v \in Workers \ {x}, tx'[v].phase \in Open PROVE tx'[v].id # tx'[x].id
    <3>1. CASE v # w
      BY <1>2, <2>1, <2>2, <3>1 DEF Others
    <3>2. CASE v = w
      BY <1>2, <2>1, <2>2, <3>2 DEF Others
    <3> QED BY <3>1, <3>2
  <2> QED BY <1>2, <2>1, <2>2
<1> QED BY <1>1, <1>2

LEMMA NextKeys == Types /\ IInv /\ Drafts /\ Keys /\ [Next]_vars => Keys'
<1> SUFFICES ASSUME Types, IInv, Drafts, Keys, [Next]_vars PROVE Keys'
  OBVIOUS
<1>0. Shapes
  BY DEF IInv
<1>1. CASE UNCHANGED vars
  BY <1>1 DEF vars, tables, Keys, N, Others
<1>2. CASE Next
  <2>1. PICK w \in Workers : RestingStep(w) \/ WritingStep(w) \/ Commit(w)
    BY <1>2 DEF Next, Step, RestingStep, WritingStep
  <2>2. CASE Claim(w)
    <3>1. KeyFree(w) /\ UNCHANGED <<story, reserved>>
      BY <2>2 DEF Claim, unwritten, tables
    <3>2. /\ \A v \in Workers \ {w} : tx'[v] = tx[v]
          /\ \/ tx'[w].phase = "idle"
             \/ tx'[w].id = tx[w].id /\ tx[w].id \notin reserved
      <4>1. CASE tx[w].id \in reserved
        BY <1>0, <2>2, <4>1, IdleFacts DEF Claim, Shapes
      <4>2. CASE tx[w].id \notin reserved
        <5>1. PICK x, c : tx' = [tx EXCEPT ![w].phase = "claimed", ![w].txn = x, ![w].charge = c]
          BY <2>2, <4>2 DEF Claim
        <5>2. tx' = [tx EXCEPT ![w] = [tx[w] EXCEPT !.phase = "claimed", !.txn = x, !.charge = c]]
          BY <1>0, <5>1 DEF Shapes
        <5>3. tx'[w] = [tx[w] EXCEPT !.phase = "claimed", !.txn = x, !.charge = c]
          BY <1>0, <5>2 DEF Shapes
        <5>4. tx'[w].id = tx[w].id
          BY <1>0, <5>3 DEF Shapes, TxFields
        <5>5. \A v \in Workers \ {w} : tx'[v] = tx[v]
          BY <1>0, <5>2 DEF Shapes
        <5> QED BY <4>2, <5>4, <5>5
      <4> QED BY <4>1, <4>2
    <3>3. \A v \in Others(w) : tx[v].id # tx[w].id
      BY <3>1 DEF KeyFree
    <3> QED BY <3>1, <3>2, <3>3, KeysStand DEF Open, Written
  <2>3. CASE RestingStep(w) /\ ~Claim(w)
    <3>1. PICK u : Rests(w, u) /\ tx' = [tx EXCEPT ![w] = u]
      BY <2>3, Resting
    <3>2. UNCHANGED <<story, reserved>>
      BY <2>3, Resting DEF tables
    <3>3. tx'[w] = u /\ \A v \in Workers \ {w} : tx'[v] = tx[v]
      BY <1>0, <3>1 DEF Shapes
    <3>4. tx'[w].phase # "claimed"
      <4>1. CASE \E i \in Notices : Receive(w, i)
        <5>1. PICK i \in Notices : Receive(w, i)
          BY <4>1
        <5>2. tx'[w] = [Idle EXCEPT !.phase = "resolved", !.id = i,
                                    !.person = bound[story[i].subject]]
          BY <1>0, <5>1 DEF Receive, Shapes
        <5> QED BY <5>2, IdleFacts DEF TxFields
      <4>2. CASE ReadPerks(w)
        <5>1. PICK op, s :
                tx' = [tx EXCEPT ![w] = IF op = "none" THEN [tx[w] EXCEPT !.sync = s]
                                        ELSE [tx[w] EXCEPT !.op = op, !.phase = "read"]]
          BY <1>0, <4>2 DEF ReadPerks, Shapes
        <5>2. tx[w].phase = "written" /\ DOMAIN tx[w] = TxFields
          BY <1>0, <4>2 DEF ReadPerks, Shapes
        <5>3. tx'[w] = IF op = "none" THEN [tx[w] EXCEPT !.sync = s]
                       ELSE [tx[w] EXCEPT !.op = op, !.phase = "read"]
          BY <1>0, <5>1 DEF Shapes
        <5>4. CASE op = "none"
          BY <5>2, <5>3, <5>4 DEF TxFields
        <5>5. CASE op # "none"
          BY <5>2, <5>3, <5>5 DEF TxFields
        <5> QED BY <5>4, <5>5
      <4>3. CASE WritePerks(w)
        <5>1. PICK s, g : tx' = [tx EXCEPT ![w].phase = "written", ![w].op = "none",
                                           ![w].sync = s, ![w].grants = g]
          BY <4>3 DEF WritePerks
        <5>2. tx'[w] = [tx[w] EXCEPT !.phase = "written", !.op = "none", !.sync = s, !.grants = g]
          BY <1>0, <5>1 DEF Shapes
        <5> QED BY <1>0, <5>2 DEF Shapes, TxFields
      <4>4. CASE Rebind(w) \/ Abort(w)
        <5>1. tx' = [tx EXCEPT ![w] = Idle]
          BY <4>4 DEF Rebind, Abort, Ends
        <5> QED BY <1>0, <5>1, IdleFacts DEF Shapes
      <4> QED BY <2>3, <4>1, <4>2, <4>3, <4>4 DEF RestingStep
    <3>5. tx'[w].phase \in Open => tx[w].phase \in Open /\ tx'[w].id = tx[w].id
      BY <3>1, <3>3, <3>4 DEF Rests, Agree, Open
    <3> QED BY <3>2, <3>3, <3>5, KeysStand
  <2>4. CASE WritingStep(w)
    <3>1. PaidHasRow /\ ReadStands
      BY DEF Drafts
    <3>2. /\ Ends(w, "idle") \/ Ends(w, "rebind") \/ \E t : Writes(w, t) /\ Draft(w, t)
          /\ UNCHANGED <<story, reserved>>
          /\ tx[w].phase = "claimed" \/ N(w).kind = "transfer"
      <4>1. tx[w].phase = "claimed" \/ N(w).kind = "transfer"
        BY <2>4 DEF WritingStep, StartSubscription, RenewSubscription, MutateSubscription,
               CompleteOneTimePurchase, RefundPurchase, RevokePurchase, ReverseCharge,
               ReverseSubscription, TransferSubscription, TransferPurchase
      <4> QED BY <2>4, <3>1, <4>1, WritesADraft DEF unwritten, tables
    <3>3. CASE \E t : Writes(w, t) /\ Draft(w, t)
      <4>1. PICK t : Writes(w, t) /\ Draft(w, t)
        BY <3>3
      <4>2. DOMAIN t = TxFields /\ t.id = tx[w].id
        BY <4>1 DEF Draft
      <4>3. /\ tx'[w].id = tx[w].id
            /\ \A v \in Workers \ {w} : tx'[v].phase = tx[v].phase /\ tx'[v].id = tx[v].id
        BY <1>0, <4>1, <4>2, WritesFacts
      <4> QED BY <3>2, <4>3, KeysStand DEF Open, N
    <3>4. CASE Ends(w, "idle") \/ Ends(w, "rebind")
      <4>1. PICK u : tx' = [tx EXCEPT ![w] = u] /\ u.phase \in {"idle", "rebind"}
        BY <1>0, <3>4, EndRests
      <4>2. tx'[w] = u /\ \A v \in Workers \ {w} : tx'[v] = tx[v]
        BY <1>0, <4>1 DEF Shapes
      <4> QED BY <3>2, <4>1, <4>2, KeysStand DEF Open, Written
    <3> QED BY <3>2, <3>3, <3>4
  <2>5. CASE Commit(w)
    <3>1. /\ tx[w].phase = "written" /\ tx'[w].phase \in {"idle", "rebind"} /\ story' = story
          /\ \A v \in Workers \ {w} : tx'[v] = tx[v]
          /\ reserved' = reserved \cup {tx[w].id}
      BY <2>5, CommitTables DEF Commit
    <3> SUFFICES ASSUME NEW x \in Workers, tx'[x].phase \in Open,
                        story[tx'[x].id].kind # "transfer"
                 PROVE  /\ tx'[x].id \notin reserved'
                        /\ \A v \in Workers \ {x} : tx'[v].phase \in Open => tx'[v].id # tx'[x].id
      BY <3>1 DEF Keys, N, Others
    <3>2. x # w /\ tx'[x] = tx[x]
      BY <3>1 DEF Open, Written
    <3>3. tx[x].id \notin reserved /\ \A v \in Others(x) : tx[v].id # tx[x].id
      BY <3>2 DEF Keys, N
    <3>4. w \in Others(x)
      BY <3>1, <3>2 DEF Others, Open, Written
    <3>5. ASSUME NEW v \in Workers \ {x}, tx'[v].phase \in Open PROVE tx'[v].id # tx'[x].id
      BY <3>1, <3>2, <3>3, <3>5 DEF Others, Open, Written
    <3> QED BY <3>1, <3>2, <3>3, <3>4, <3>5
  <2> QED BY <2>1, <2>2, <2>3, <2>4, <2>5
<1> QED BY <1>1, <1>2

-----------------------------------------------------------------------------
LEMMA InitKeys == Init => Keys
BY IdleFacts DEF Init, Keys, Open, Written

LEMMA KeysInvariant == Spec => []Keys
<1> QED BY InitKeys, NextKeys, TypesInvariant, PurchaseInvariant, DraftsInvariant, PTL DEF Spec

-----------------------------------------------------------------------------
(* The serial machine reads and patches rows as the code does.             *)
LEMMA SerialRows ==
  ASSUME NEW s, NEW p, NEW row, NEW n
  PROVE  /\ Serial!FindSeries(subs, s, p) = FindSeries(subs, s, p)
         /\ Serial!RowsOf(subs, s) = RowsOf(subs, s)
         /\ Serial!Updated(row, n) = Updated(row, n)
         /\ Serial!NewRow(n, p) = NewRow(n, p)
         /\ Serial!NoRow = NoRow
<1>1. Serial!RowsOf(subs, s) = RowsOf(subs, s)
  BY DEF Serial!RowsOf, RowsOf
<1>2. Serial!Sibling(subs, s) = Sibling(subs, s)
  BY DEF Serial!Sibling, Sibling, Serial!RowsOf, RowsOf
<1>3. Serial!FindSeries(subs, s, p) = FindSeries(subs, s, p)
  BY <1>1, <1>2 DEF Serial!FindSeries, FindSeries
<1>4. Serial!PaidPeriod(row, n) = PaidPeriod(row, n)
  BY DEF Serial!PaidPeriod, PaidPeriod
<1>5. Serial!Patch(row, n) = Patch(row, n)
  BY <1>4 DEF Serial!Patch, Patch, Serial!PaidKinds, PaidKinds, Serial!StillRunning, StillRunning
<1>6. Serial!Updated(row, n) = Updated(row, n)
  BY <1>5 DEF Serial!Updated, Updated, Serial!Fresher, Fresher
<1> QED BY <1>1, <1>3, <1>6 DEF Serial!NewRow, NewRow, Serial!NoRow, NoRow

Opened(i, n, p) == [subs EXCEPT ![i] = NewRow(n, p)]
Moved(j, n) == [subs EXCEPT ![j] = Updated(@, n)]

(* What the serial machine may do, kind by kind.                           *)
LEMMA SerialEffects ==
  ASSUME NEW i, NEW n, n.kind \in Kinds
  PROVE  LET found == FindSeries(subs, n.subject, n.product)
             allowed == Serial!Effects(i, n)
         IN  /\ n.kind \in PaidKinds /\ found = {} =>
                  \A p \in Persons : Opened(i, n, p) \in allowed
             /\ n.kind = "start" => \A j \in found :
                  (IF subs[j].product = n.product THEN subs ELSE Moved(j, n)) \in allowed
             /\ n.kind \in SubscriptionKinds \ PaidKinds /\ found = {} => subs \in allowed
             /\ n.kind \in SubscriptionKinds \ {"start"} =>
                  \A j \in found : Moved(j, n) \in allowed
             /\ n.kind = "transfer" =>
                  \A j \in RowsOf(subs, n.subject) : Moved(j, n) \in allowed
             /\ n.kind = "reverse" => \A j \in found :
                  subs[j].latest = n.txn => Moved(j, n) \in allowed
             /\ n.kind \in Kinds \ SubscriptionKinds => subs \in allowed
<1> DEFINE found == FindSeries(subs, n.subject, n.product)
           rows == RowsOf(subs, n.subject)
           allowed == Serial!Effects(i, n)
<1>1. /\ Serial!FindSeries(subs, n.subject, n.product) = found
      /\ Serial!RowsOf(subs, n.subject) = rows
      /\ \A p : Serial!Opens(i, n, p) = Opened(i, n, p)
      /\ \A j : Serial!Updates(j, n) = Moved(j, n)
  BY SerialRows DEF Serial!Opens, Serial!Updates, Opened, Moved
<1>2. /\ Serial!PaidKinds = PaidKinds /\ Serial!SubscriptionKinds = SubscriptionKinds
      /\ PaidKinds \subseteq SubscriptionKinds /\ PaidKinds = {"start", "renew"}
      /\ \A k \in {"transfer", "reverse", "refund", "revokePurchase", "purchase"} :
           k \notin SubscriptionKinds
      /\ Kinds \ SubscriptionKinds =
           {"transfer", "reverse", "refund", "revokePurchase", "purchase"}
  BY DEF Serial!PaidKinds, PaidKinds, Serial!SubscriptionKinds, SubscriptionKinds,
         Serial!KnownKinds, KnownKinds, Serial!MutationKinds, MutationKinds, Kinds, RefundKinds
<1> HIDE DEF found, rows
<1>3. allowed =
        CASE n.kind \in PaidKinds /\ found = {} ->
               {Opened(i, n, p) : p \in Persons}
          [] n.kind = "start" /\ found # {} ->
               {IF subs[j].product = n.product THEN subs ELSE Moved(j, n) : j \in found}
          [] n.kind \in SubscriptionKinds \ PaidKinds /\ found = {} -> {subs}
          [] n.kind \in SubscriptionKinds \ {"start"} /\ found # {} -> {Moved(j, n) : j \in found}
          [] n.kind = "transfer" -> {Moved(j, n) : j \in rows} \cup {subs}
          [] n.kind = "reverse" ->
               {subs} \cup {Moved(j, n) : j \in {k \in found : subs[k].latest = n.txn}}
          [] OTHER -> {subs}
  BY <1>1, <1>2 DEF Serial!Effects
<1> HIDE DEF allowed
<1>4. n.kind \in PaidKinds /\ found = {} =>
        \A p \in Persons : Opened(i, n, p) \in allowed
  BY <1>2, <1>3
<1>5. n.kind = "start" => \A j \in found :
        (IF subs[j].product = n.product THEN subs ELSE Moved(j, n)) \in allowed
  BY <1>2, <1>3
<1>6. n.kind \in SubscriptionKinds \ PaidKinds /\ found = {} => subs \in allowed
  BY <1>2, <1>3
<1>7. n.kind \in SubscriptionKinds \ {"start"} => \A j \in found : Moved(j, n) \in allowed
  BY <1>2, <1>3
<1>8. n.kind = "transfer" => \A j \in rows : Moved(j, n) \in allowed
  BY <1>2, <1>3
<1>9. n.kind = "reverse" => \A j \in found : subs[j].latest = n.txn => Moved(j, n) \in allowed
  BY <1>2, <1>3
<1>10. n.kind \in Kinds \ SubscriptionKinds => subs \in allowed
  BY <1>2, <1>3
<1> QED BY <1>4, <1>5, <1>6, <1>7, <1>8, <1>9, <1>10 DEF found, rows, allowed

(* The table a commit leaves is one the serial machine may leave: the row  *)
(* its transaction wrote still is what its notification makes of the       *)
(* committed table.                                                        *)
LEMMA CommitEffects ==
  ASSUME Types, IInv, Drafts, NEW w \in Workers, Commit(w)
  PROVE  subs' \in Serial!Effects(tx[w].id, N(w))
<1> DEFINE t == tx[w]
           n == N(w)
           D == DOMAIN t.subs
           found == FindSeries(subs, n.subject, n.product)
           allowed == Serial!Effects(t.id, n)
<1>1. /\ D \subseteq Notices /\ \A i \in D : subs'[i] = t.subs[i]
      /\ \A i \in Notices \ D : subs'[i] = subs[i]
      /\ t.phase = "written" /\ t.id \in DOMAIN story
  BY CommitTables
<1>2. Prepared(t) /\ Writing(t) /\ Sound(t) /\ Shapes
  BY <1>1 DEF Drafts, IInv, Written, Types
<1>3. t.id \in Notices /\ n.kind \in Kinds /\ (n.kind \in SubscriptionKinds => n.subject \in Series)
  BY <1>1, <1>2, StoryFacts DEF N
<1>4. DOMAIN subs = Notices /\ subs = [i \in Notices |-> subs[i]]
  BY <1>2 DEF Shapes
<1>5. subs' = [i \in Notices |-> subs'[i]]
  <2>1. subs' = Over(t.subs, subs) /\ D \cup Notices = Notices
    BY <1>1 DEF Commit
  <2> QED BY <1>4, <2>1 DEF Over
<1>6. RowsWritten(t, n)
  BY <1>2 DEF Prepared, N
<1>7. ASSUME NEW i \in RowsOf(subs, n.subject),
             n.kind \in SubscriptionKinds \/ subs[i] # NoRow
      PROVE  n.subject \in Series /\ i \in Notices /\ found = {i}
  <2>1. i \in Notices /\ subs[i].series = n.subject
    BY DEF RowsOf
  <2>2. n.subject \in Series
    <3>1. CASE n.kind \in SubscriptionKinds
      BY <1>3, <3>1
    <3>2. CASE subs[i] # NoRow
      <4>1. SoundRow(i, subs[i])
        BY <2>1, <3>2 DEF IInv, Committed
      <4> QED BY <2>1, <4>1 DEF SoundRow
    <3> QED BY <1>7, <3>1, <3>2
  <2>3. found \subseteq RowsOf(subs, n.subject) /\ found # {}
        /\ \A j \in RowsOf(subs, n.subject) : j \in Notices /\ subs[j] # NoRow
                                               /\ subs[j].series = n.subject
    BY <2>2, FoundRows
  <2>4. \A j \in RowsOf(subs, n.subject) : j = i
    BY <2>3 DEF IInv, OneRowEach
  <2> QED BY <2>1, <2>2, <2>3, <2>4
<1>8. CASE D = {} /\ Leaves(n)
  <2>1. subs' = subs
    BY <1>1, <1>4, <1>5, <1>8
  <2>2. subs \in allowed
    <3>1. CASE n.kind \in Kinds \ SubscriptionKinds
      BY <1>3, <3>1, SerialEffects
    <3>2. CASE n.kind \in SubscriptionKinds \ PaidKinds /\ RowsOf(subs, n.subject) = {}
      <4>1. found = {}
        BY <1>3, <3>2, FoundRows
      <4> QED BY <1>3, <3>2, <4>1, SerialEffects
    <3>3. ASSUME NEW i \in RowsOf(subs, n.subject), n.kind \in SubscriptionKinds,
                 ~Fresher(subs[i], n) \/ (n.kind = "start" /\ subs[i].product = n.product)
          PROVE  subs \in allowed
      <4>1. i \in found /\ i \in Notices
        BY <1>7, <3>3
      <4>2. CASE n.kind = "start" /\ subs[i].product = n.product
        BY <1>3, <4>1, <4>2, SerialEffects
      <4>3. CASE ~Fresher(subs[i], n) /\ ~(n.kind = "start" /\ subs[i].product = n.product)
        <5>1. Updated(subs[i], n) = subs[i]
          BY <4>3 DEF Updated
        <5>2. Moved(i, n) = subs
          BY <1>4, <4>1, <5>1 DEF Moved
        <5>3. Moved(i, n) \in allowed
          BY <1>3, <3>3, <4>1, <4>3, SerialEffects
        <5> QED BY <5>2, <5>3
      <4> QED BY <3>3, <4>2, <4>3
    <3> QED BY <1>3, <1>8, <3>1, <3>2, <3>3 DEF Leaves
  <2> QED BY <2>1, <2>2
<1>9. CASE OpensRow(t, n)
  <2>1. /\ n.kind \in PaidKinds /\ D = {t.id} /\ subs[t.id] = NoRow
        /\ t.subs[t.id] = NewRow(n, t.person)
    BY <1>9 DEF OpensRow
  <2>2. n.kind \in SubscriptionKinds /\ t.person \in Persons
    BY <1>1, <1>2, <2>1 DEF SubscriptionKinds, Sound
  <2>3. RowsOf(subs, n.subject) = {}
    BY <1>2, <2>1 DEF Writing, Writable, N
  <2>4. found = {}
    BY <1>3, <2>2, <2>3, FoundRows
  <2>5. subs' = Opened(t.id, n, t.person)
    BY <1>1, <1>3, <1>4, <1>5, <2>1 DEF Opened
  <2>6. Opened(t.id, n, t.person) \in allowed
    BY <1>3, <2>1, <2>2, <2>4, SerialEffects
  <2> QED BY <2>5, <2>6
<1>10. ASSUME NEW i \in RowsOf(subs, n.subject), MovesRow(t, n, i)
       PROVE  subs' \in allowed
  <2>1. /\ n.kind \in PatchKinds /\ D = {i} /\ t.subs[i] = Updated(subs[i], n)
        /\ subs[i] # NoRow
        /\ n.kind = "start" => subs[i].product # n.product
        /\ n.kind = "reverse" => subs[i].latest = n.txn
    BY <1>10 DEF MovesRow
  <2>2. i \in Notices /\ i \in found
    BY <1>7, <2>1
  <2>3. subs' = Moved(i, n)
    BY <1>1, <1>4, <1>5, <2>1, <2>2 DEF Moved
  <2>4. Moved(i, n) \in allowed
    <3>1. CASE n.kind = "start"
      <4>1. (IF subs[i].product = n.product THEN subs ELSE Moved(i, n)) \in allowed
        BY <1>3, <2>2, <3>1, SerialEffects
      <4> QED BY <2>1, <3>1, <4>1
    <3>2. CASE n.kind \in SubscriptionKinds \ {"start"}
      BY <1>3, <2>2, <3>2, SerialEffects
    <3>3. CASE n.kind = "transfer"
      BY <1>3, <3>3, SerialEffects
    <3>4. CASE n.kind = "reverse"
      BY <1>3, <2>1, <2>2, <3>4, SerialEffects
    <3> QED BY <2>1, <3>1, <3>2, <3>3, <3>4 DEF PatchKinds
  <2> QED BY <2>3, <2>4
<1> QED BY <1>6, <1>8, <1>9, <1>10 DEF RowsWritten

LEMMA CommitActs ==
  ASSUME Types, IInv, Drafts, Keys, NEW w \in Workers, Commit(w)
  PROVE  Serial!SerialNext
<1>1. tx[w].phase = "written" /\ tx[w].id \in DOMAIN story /\ story' = story
  BY CommitTables
<1>2. tx[w].id \in Notices
  BY <1>1, StoryFacts DEF IInv
<1>3. tx[w].id \in reserved => story[tx[w].id].kind = "transfer"
  BY <1>1 DEF Keys, N, Open, Written
<1>4. reserved' = reserved \cup {tx[w].id}
  BY DEF Commit
<1>5. subs' \in Serial!Effects(tx[w].id, story[tx[w].id])
  BY CommitEffects DEF N
<1>6. Serial!Act(tx[w].id)
  BY <1>1, <1>3, <1>4, <1>5 DEF Serial!Act
<1> QED BY <1>2, <1>6 DEF Serial!SerialNext

LEMMA NextSerial ==
  Types /\ IInv /\ Drafts /\ Keys /\ [Next]_vars => [Serial!SerialNext]_(Serial!serialVars)
<1> SUFFICES ASSUME Types, IInv, Drafts, Keys, [Next]_vars
             PROVE  Serial!SerialNext \/ UNCHANGED Serial!serialVars
  OBVIOUS
<1>1. CASE UNCHANGED vars
  BY <1>1 DEF vars, tables, Serial!serialVars
<1>2. CASE Next
  <2>1. PICK w \in Workers : RestingStep(w) \/ WritingStep(w) \/ Commit(w)
    BY <1>2 DEF Next, Step, RestingStep, WritingStep
  <2>2. CASE RestingStep(w)
    <3>1. UNCHANGED <<story, subs, reserved>>
      BY <2>2, Resting DEF tables
    <3> QED BY <3>1 DEF Serial!serialVars
  <2>3. CASE WritingStep(w)
    <3>1. PaidHasRow /\ ReadStands
      BY DEF Drafts
    <3>2. UNCHANGED unwritten
      BY <2>3, <3>1, WritesADraft
    <3>3. UNCHANGED <<story, subs, reserved>>
      BY <3>2 DEF unwritten, tables
    <3> QED BY <3>3 DEF Serial!serialVars
  <2>4. CASE Commit(w)
    BY <2>4, CommitActs
  <2> QED BY <2>1, <2>2, <2>3, <2>4
<1> QED BY <1>1, <1>2

(* The locks, the watermark and the keys hide the interleaving: every      *)
(* behaviour of concurrent purchase processing is one of the serial        *)
(* machine, whose notifications act one at a time on the table.            *)
THEOREM PurchasesAreSerial == Spec => ImplementsSerial
<1>1. Init => Serial!SerialInit
  BY DEF Init, Serial!SerialInit, NoRow, Serial!NoRow
<1>2. Types /\ IInv /\ Drafts /\ Keys /\ [Next]_vars => [Serial!SerialNext]_(Serial!serialVars)
  BY NextSerial
<1> QED BY <1>1, <1>2, TypesInvariant, PurchaseInvariant, DraftsInvariant, KeysInvariant, PTL
        DEF Spec, ImplementsSerial, Serial!SerialSpec

-----------------------------------------------------------------------------
(* Perks.  Whose rows count, over a table and the rows written above it.   *)
Counts(row, p) == row # NoRow /\ row.person = p /\ row.status = "Active"
Pays(row, p) == row.person = p /\ row.refunded = 0 /\ row.revoked = 0

LEMMA EntitledSame ==
  ASSUME NEW s, NEW c, NEW r, NEW d, NEW p,
         \A i \in Notices : Counts(s[i], p) <=> Counts(r[i], p),
         \A k \in Charges : Pays(c[k], p) <=> Pays(d[k], p)
  PROVE  Entitled(s, c, p) <=> Entitled(r, d, p)
<1>1. ActiveSubs(s, p) = ActiveSubs(r, p)
  BY DEF ActiveSubs, Counts
<1>2. ActiveCharges(c, p) = ActiveCharges(d, p)
  BY DEF ActiveCharges, Pays
<1> QED BY <1>1, <1>2 DEF Entitled

(* A commit leaves the entitlements alone of everybody it does not name as *)
(* changed, with or without the rows another worker has written.           *)
LEMMA CommitCounts ==
  ASSUME Types, IInv, Drafts, NEW w \in Workers, Commit(w), NEW p \in Persons \ tx[w].changed
  PROVE  /\ \A i \in Notices : Counts(subs'[i], p) <=> Counts(subs[i], p)
         /\ \A c \in Charges : Pays(charges'[c], p) <=> Pays(charges[c], p)
<1> DEFINE t == tx[w]
<1>1. /\ \A i \in DOMAIN t.subs : subs'[i] = t.subs[i]
      /\ \A i \in Notices \ DOMAIN t.subs : subs'[i] = subs[i]
      /\ \A c \in DOMAIN t.charges : charges'[c] = t.charges[c]
      /\ \A c \in Charges \ DOMAIN t.charges : charges'[c] = charges[c]
      /\ t.phase = "written"
  BY CommitTables
<1>2. ChangesTold(t) /\ Writing(t)
  BY <1>1 DEF Drafts, Prepared, IInv, Written
<1>3. ASSUME NEW i \in DOMAIN t.subs PROVE Counts(t.subs[i], p) <=> Counts(subs[i], p)
  <2>1. p \notin SubChanges(i, t.subs[i])
    BY <1>2 DEF ChangesTold
  <2>2. t.subs[i] # NoRow
    <3>1. DOMAIN t.subs[i] = RowFields
      BY <1>2 DEF Writing, Writable, SoundRow
    <3> QED BY <3>1, NoRowFacts DEF RowFields
  <2> QED BY <2>1, <2>2 DEF SubChanges, Counts
<1>4. ASSUME NEW c \in DOMAIN t.charges PROVE Pays(t.charges[c], p) <=> Pays(charges[c], p)
  <2>1. p \notin ChargeChanges(c, t.charges[c])
    BY <1>2 DEF ChangesTold
  <2>2. p # None
    BY NullFacts
  <2> QED BY <2>1, <2>2 DEF ChargeChanges, Live, Pays
<1> QED BY <1>1, <1>3, <1>4

LEMMA OverSame ==
  ASSUME NEW f, NEW g, NEW h, NEW D, DOMAIN g = D, DOMAIN h = D, NEW x \in D
  PROVE  /\ x \in DOMAIN f => Over(f, g)[x] = f[x] /\ Over(f, h)[x] = f[x]
         /\ x \notin DOMAIN f => Over(f, g)[x] = g[x] /\ Over(f, h)[x] = h[x]
BY DEF Over

(* What a transaction sees of a person, with its own writes.               *)
Earns(t, p) == Entitled(Over(t.subs, subs), Over(t.charges, charges), p)
Granted(t, p) == Over(t.grants, grants)[p] = "Active"

(* A transaction decides the perks of everybody it changes or syncs.  Once *)
(* it has synced a person, its grant and its rows agree, unless it crossed *)
(* another transaction or does not know that it changed that person.       *)
Decided(t) ==
  /\ t.changed \cup Listed(t.sync) \cup DOMAIN t.grants \subseteq t.decides
  /\ \A p \in t.decides \ (t.crossed \cup (t.changed \ Known(t))) :
       p \notin Listed(t.sync) => (Granted(t, p) <=> Earns(t, p))
  /\ t.phase = "read" /\ Head(t.sync) \notin t.crossed =>
       (t.op = "Active" <=> Earns(t, Head(t.sync)))

Perks ==
  /\ PerksFollowRows
  /\ \A w \in Workers : tx[w].phase \in Written => Decided(tx[w])
  /\ \A v, w \in Workers : v # w /\ tx[v].phase \in Written /\ tx[w].phase \in Written =>
       tx[v].decides \cap tx[w].decides \subseteq tx[v].crossed

LEMMA DecidedStands ==
  ASSUME NEW v \in Workers, UNCHANGED <<story, subs, charges, grants>>, Decided(tx'[v])
  PROVE  Decided(tx[v])'
BY DEF Decided, Known, Granted, Earns

(* Crossing another transaction only takes persons out.                    *)
LEMMA DecidedCrossed ==
  ASSUME NEW t, NEW u, Decided(t), t.crossed \subseteq u.crossed,
         DOMAIN t = TxFields, \A f \in TxFields \ {"crossed"} : u[f] = t[f]
  PROVE  Decided(u)
<1>1. /\ u.changed = t.changed /\ u.sync = t.sync /\ u.grants = t.grants /\ u.decides = t.decides
      /\ u.phase = t.phase /\ u.op = t.op /\ u.id = t.id /\ u.person = t.person
      /\ u.subs = t.subs /\ u.charges = t.charges
  BY DEF TxFields
<1>2. Known(u) = Known(t) /\ \A p : (Granted(u, p) <=> Granted(t, p)) /\ (Earns(u, p) <=> Earns(t, p))
  BY <1>1 DEF Known, Granted, Earns
<1> QED BY <1>1, <1>2 DEF Decided

LEMMA RestPerks ==
  ASSUME Shapes, Perks, NEW w \in Workers, NEW u, tx' = [tx EXCEPT ![w] = u],
         UNCHANGED <<story, subs, charges, grants, doubt>>,
         u.phase \in Written =>
           /\ tx[w].phase \in Written /\ Decided(u)
           /\ u.decides = tx[w].decides /\ u.crossed = tx[w].crossed
  PROVE  Perks'
<1>1. tx'[w] = u /\ \A v \in Workers \ {w} : tx'[v] = tx[v]
  BY DEF Shapes
<1>2. PerksFollowRows'
  BY DEF Perks, PerksFollowRows, FollowsRows, Entitled, ActiveSubs, ActiveCharges
<1>3. ASSUME NEW v \in Workers, tx'[v].phase \in Written PROVE Decided(tx[v])'
  <2>1. Decided(tx'[v])
    BY <1>1, <1>3 DEF Perks
  <2> QED BY <2>1, DecidedStands
<1>4. ASSUME NEW v \in Workers, tx'[v].phase \in Written
      PROVE  /\ tx[v].phase \in Written /\ tx'[v].decides = tx[v].decides
             /\ tx'[v].crossed = tx[v].crossed
  BY <1>1, <1>4
<1> QED BY <1>2, <1>3, <1>4 DEF Perks

LEMMA WritePerksKept ==
  ASSUME IInv, Perks, NEW w \in Workers, NEW t, Draft(w, t), Writes(w, t), UNCHANGED unwritten
  PROVE  Perks'
<1>0. Shapes /\ DOMAIN t = TxFields /\ UNCHANGED <<story, subs, charges, grants, doubt>>
  BY DEF IInv, Draft, unwritten, tables
<1>1. /\ tx'[w].decides = t.changed \cup Listed(t.sync)
      /\ tx'[w].crossed = Met(w, t) /\ tx'[w].phase = "written"
      /\ \A f \in TxFields \ {"phase", "decides", "crossed"} : tx'[w][f] = t[f]
      /\ \A v \in Workers \ {w} :
           /\ tx'[v].crossed = tx[v].crossed \cup
                IF tx[v].phase \in Written THEN tx[v].decides \cap (t.changed \cup Listed(t.sync))
                ELSE {}
           /\ \A f \in TxFields \ {"crossed"} : tx'[v][f] = tx[v][f]
  BY <1>0, WritesColumns
<1>2. PerksFollowRows'
  BY <1>0 DEF Perks, PerksFollowRows, FollowsRows, Entitled, ActiveSubs, ActiveCharges
<1>3. \A v \in Workers \ {w} :
        tx'[v].phase = tx[v].phase /\ tx'[v].decides = tx[v].decides
  BY <1>1 DEF TxFields
<1>4. ASSUME NEW v \in Workers, tx'[v].phase \in Written PROVE Decided(tx'[v])
  <2>1. CASE v # w
    <3>1. Decided(tx[v]) /\ DOMAIN tx[v] = TxFields /\ tx[v].crossed \subseteq tx'[v].crossed
          /\ \A f \in TxFields \ {"crossed"} : tx'[v][f] = tx[v][f]
      BY <1>0, <1>1, <1>3, <1>4, <2>1 DEF Perks, Shapes
    <3> QED BY <3>1, DecidedCrossed
  <2>2. CASE v = w
    <3>1. /\ tx'[w].changed = t.changed /\ tx'[w].sync = t.sync /\ tx'[w].grants = t.grants
          /\ tx'[w].id = t.id /\ tx'[w].person = t.person
      BY <1>1 DEF TxFields
    <3>2. DOMAIN t.grants = {} /\ t.changed \cap Known(t) \subseteq Listed(t.sync)
      BY DEF Draft
    <3>3. Known(tx'[w]) = Known(t)
      BY <3>1 DEF Known
    <3> QED BY <1>1, <2>2, <3>1, <3>2, <3>3 DEF Decided
  <2> QED BY <2>1, <2>2
<1>5. ASSUME NEW v \in Workers \ {w}, tx[v].phase \in Written
      PROVE  tx'[v].decides \cap tx'[w].decides \subseteq tx'[v].crossed \cap tx'[w].crossed
  <2>1. tx'[v].decides \cap tx'[w].decides \subseteq tx'[v].crossed
    BY <1>1, <1>3, <1>5
  <2>2. tx[v].decides \cap (t.changed \cup Listed(t.sync)) \subseteq Met(w, t)
    BY <1>5 DEF Met
  <2> QED BY <1>1, <1>3, <2>1, <2>2
<1>6. ASSUME NEW u \in Workers, NEW v \in Workers, u # v,
             tx'[u].phase \in Written, tx'[v].phase \in Written
      PROVE  tx'[u].decides \cap tx'[v].decides \subseteq tx'[u].crossed
  <2>1. CASE u = w
    BY <1>3, <1>5, <1>6, <2>1
  <2>2. CASE v = w
    BY <1>3, <1>5, <1>6, <2>2
  <2>3. CASE u # w /\ v # w
    BY <1>1, <1>3, <1>6, <2>3 DEF Perks
  <2> QED BY <2>1, <2>2, <2>3
<1>7. ASSUME NEW v \in Workers, tx'[v].phase \in Written PROVE Decided(tx[v])'
  BY <1>0, <1>4, <1>7, DecidedStands
<1> QED BY <1>2, <1>6, <1>7 DEF Perks

LEMMA HeadAndTail ==
  ASSUME NEW s \in Seq(Persons), s # <<>>
  PROVE  /\ Head(s) \in Persons /\ Tail(s) \in Seq(Persons)
         /\ Listed(s) = {Head(s)} \cup Listed(Tail(s))
<1>1. /\ Head(s) = s[1] /\ Head(s) \in Persons /\ Tail(s) \in Seq(Persons) /\ 1 \in DOMAIN s
      /\ DOMAIN s = 1..Len(s) /\ DOMAIN Tail(s) = 1..(Len(s) - 1) /\ Len(s) \in Nat
      /\ \A k \in 1..(Len(s) - 1) : Tail(s)[k] = s[k + 1]
  OBVIOUS
<1>2. Listed(s) \subseteq {Head(s)} \cup Listed(Tail(s))
  <2> SUFFICES ASSUME NEW k \in DOMAIN s, k # 1 PROVE s[k] \in Listed(Tail(s))
    BY <1>1 DEF Listed
  <2>1. k - 1 \in DOMAIN Tail(s) /\ Tail(s)[k - 1] = s[k]
    BY <1>1
  <2> QED BY <2>1 DEF Listed
<1>3. Listed(Tail(s)) \subseteq Listed(s)
  <2> SUFFICES ASSUME NEW k \in DOMAIN Tail(s) PROVE Tail(s)[k] \in Listed(s)
    BY DEF Listed
  <2>1. k + 1 \in DOMAIN s /\ Tail(s)[k] = s[k + 1]
    BY <1>1
  <2> QED BY <2>1 DEF Listed
<1>4. Head(s) \in Listed(s)
  BY <1>1 DEF Listed
<1> QED BY <1>1, <1>2, <1>3, <1>4

(* A person is synced: found in line, or the statement is decided.         *)
LEMMA ReadPerksKept ==
  ASSUME Types, IInv, Perks, NEW w \in Workers, ReadPerks(w)
  PROVE  Perks'
<1> DEFINE t == tx[w]
           p == Head(t.sync)
<1>0. /\ Shapes /\ Sound(t) /\ DOMAIN t = TxFields /\ t.phase = "written" /\ t.sync # <<>>
      /\ Decided(t) /\ UNCHANGED <<story, subs, charges, grants, doubt>>
  BY DEF IInv, Shapes, Types, Perks, ReadPerks, Written, unwritten, tables
<1>1. p \in Persons /\ Listed(t.sync) = {p} \cup Listed(Tail(t.sync))
  BY <1>0, HeadAndTail DEF Sound, Ok
<1>2. PICK op \in GrantStatuses :
        /\ op = "none" => (Granted(t, p) <=> Earns(t, p))
        /\ op # "none" => (op = "Active" <=> Earns(t, p))
        /\ tx' = [tx EXCEPT ![w] = IF op = "none" THEN [t EXCEPT !.sync = Tail(t.sync)]
                                   ELSE [t EXCEPT !.op = op, !.phase = "read"]]
  <2> DEFINE held == Over(t.grants, grants)[p]
             ops == CASE Earns(t, p) /\ held = "Active" -> {"none", "Active"}
                      [] Earns(t, p) /\ held # "Active" -> {"Active"}
                      [] ~Earns(t, p) /\ held = "Active" -> {"Expired"}
                      [] OTHER -> {"none"}
  <2>1. PICK op \in ops : tx' = IF op = "none" THEN [tx EXCEPT ![w].sync = Tail(@)]
                                ELSE [tx EXCEPT ![w].op = op, ![w].phase = "read"]
    BY DEF ReadPerks, Earns
  <2>2. tx' = [tx EXCEPT ![w] = IF op = "none" THEN [t EXCEPT !.sync = Tail(t.sync)]
                                ELSE [t EXCEPT !.op = op, !.phase = "read"]]
    BY <1>0, <2>1 DEF Shapes
  <2>3. /\ op \in GrantStatuses
        /\ op = "none" => (Granted(t, p) <=> Earns(t, p))
        /\ op # "none" => (op = "Active" <=> Earns(t, p))
    BY DEF Granted, GrantStatuses
  <2> QED BY <2>2, <2>3
<1>3. CASE op = "none"
  <2> DEFINE u == [t EXCEPT !.sync = Tail(t.sync)]
  <2>1. tx' = [tx EXCEPT ![w] = u]
    BY <1>2, <1>3
  <2>2. /\ u.sync = Tail(t.sync) /\ u.changed = t.changed /\ u.grants = t.grants
        /\ u.decides = t.decides /\ u.crossed = t.crossed /\ u.phase = "written"
        /\ u.subs = t.subs /\ u.charges = t.charges /\ u.id = t.id /\ u.person = t.person
    BY <1>0 DEF TxFields
  <2> HIDE DEF u
  <2>3. /\ Known(u) = Known(t)
        /\ \A q : (Granted(u, q) <=> Granted(t, q)) /\ (Earns(u, q) <=> Earns(t, q))
    BY <2>2 DEF Known, Granted, Earns
  <2>4. Decided(u)
    BY <1>0, <1>1, <1>2, <1>3, <2>2, <2>3 DEF Decided
  <2> QED BY <1>0, <2>1, <2>2, <2>4, RestPerks DEF Written
<1>4. CASE op # "none"
  <2> DEFINE u == [t EXCEPT !.op = op, !.phase = "read"]
  <2>1. tx' = [tx EXCEPT ![w] = u]
    BY <1>2, <1>4
  <2>2. /\ u.sync = t.sync /\ u.changed = t.changed /\ u.grants = t.grants
        /\ u.decides = t.decides /\ u.crossed = t.crossed /\ u.phase = "read" /\ u.op = op
        /\ u.subs = t.subs /\ u.charges = t.charges /\ u.id = t.id /\ u.person = t.person
    BY <1>0 DEF TxFields
  <2> HIDE DEF u
  <2>3. /\ Known(u) = Known(t)
        /\ \A q : (Granted(u, q) <=> Granted(t, q)) /\ (Earns(u, q) <=> Earns(t, q))
    BY <2>2 DEF Known, Granted, Earns
  <2>4. Decided(u)
    BY <1>0, <1>1, <1>2, <1>4, <2>2, <2>3 DEF Decided
  <2> QED BY <1>0, <2>1, <2>2, <2>4, RestPerks DEF Written
<1> QED BY <1>3, <1>4

(* The decided statement is written, over whatever the perk shows.         *)
LEMMA WriteGrantKept ==
  ASSUME Types, IInv, Perks, NEW w \in Workers, WritePerks(w)
  PROVE  Perks'
<1> DEFINE t == tx[w]
           p == Head(t.sync)
           g == Over(Only(p, t.op), t.grants)
           u == [t EXCEPT !.phase = "written", !.op = "none", !.sync = Tail(t.sync), !.grants = g]
<1>0. /\ Shapes /\ Sound(t) /\ DOMAIN t = TxFields /\ t.phase = "read" /\ t.sync # <<>>
      /\ Decided(t) /\ UNCHANGED <<story, subs, charges, grants, doubt>> /\ TypeOK
  BY DEF IInv, Shapes, Types, Perks, WritePerks, Written, unwritten, tables, Sound
<1>1. p \in Persons /\ Listed(t.sync) = {p} \cup Listed(Tail(t.sync))
  BY <1>0, HeadAndTail DEF Sound, Ok
<1>2. tx' = [tx EXCEPT ![w] = u]
  BY <1>0 DEF WritePerks, Shapes
<1>3. DOMAIN grants = Persons /\ DOMAIN t.grants \subseteq Persons
  BY <1>0 DEF TypeOK, Sound, Ok, TxOK
<1>4. /\ DOMAIN g = DOMAIN t.grants \cup {p}
      /\ Over(g, grants)[p] = t.op
      /\ \A q \in Persons \ {p} : Over(g, grants)[q] = Over(t.grants, grants)[q]
  BY <1>1, <1>3 DEF Over, Only
<1> HIDE DEF g
<1>5. /\ u.sync = Tail(t.sync) /\ u.changed = t.changed /\ u.grants = g
      /\ u.decides = t.decides /\ u.crossed = t.crossed /\ u.phase = "written"
      /\ u.subs = t.subs /\ u.charges = t.charges /\ u.id = t.id /\ u.person = t.person
  BY <1>0 DEF TxFields
<1> HIDE DEF u
<1>6. /\ Known(u) = Known(t)
      /\ \A q : Earns(u, q) <=> Earns(t, q)
      /\ Granted(u, p) <=> t.op = "Active"
      /\ \A q \in Persons \ {p} : Granted(u, q) <=> Granted(t, q)
  BY <1>4, <1>5 DEF Known, Granted, Earns
<1>7. t.decides \subseteq Persons
  BY <1>0 DEF Sound, Ok, TxOK
<1>8. Decided(u)
  BY <1>0, <1>1, <1>4, <1>5, <1>6, <1>7 DEF Decided
<1> QED BY <1>0, <1>2, <1>5, <1>8, RestPerks DEF Written

(* What another transaction decides of a person that the committed one     *)
(* does not decide, it still decides.                                      *)
LEMMA CommitSpares ==
  ASSUME Types, IInv, Drafts, Perks, NEW w \in Workers, Commit(w),
         NEW v \in Workers \ {w}, tx[v].phase \in Written,
         NEW p \in Persons \ tx[w].decides
  PROVE  /\ Over(tx[v].grants, grants')[p] = Over(tx[v].grants, grants)[p]
         /\ Entitled(Over(tx[v].subs, subs'), Over(tx[v].charges, charges'), p) <=> Earns(tx[v], p)
<1> DEFINE t == tx[v]
<1>1. /\ tx[w].phase = "written" /\ TypeOK /\ Shapes
      /\ \A q \in Persons \ DOMAIN tx[w].grants : grants'[q] = grants[q]
  BY CommitTables DEF Types, IInv
<1>2. p \notin tx[w].changed /\ p \notin DOMAIN tx[w].grants
  BY <1>1 DEF Perks, Decided, Written
<1>3. /\ \A i \in Notices : Counts(subs'[i], p) <=> Counts(subs[i], p)
      /\ \A c \in Charges : Pays(charges'[c], p) <=> Pays(charges[c], p)
  BY <1>2, CommitCounts
<1>4. /\ DOMAIN subs = Notices /\ DOMAIN charges = Charges /\ DOMAIN grants = Persons
      /\ DOMAIN tx[w].subs \subseteq Notices /\ DOMAIN tx[w].charges \subseteq Charges
      /\ DOMAIN tx[w].grants \subseteq Persons
  BY <1>1, CommitTables DEF TypeOK, Shapes
<1>5. DOMAIN subs' = Notices /\ DOMAIN charges' = Charges /\ DOMAIN grants' = Persons
  BY <1>4 DEF Commit, Over
<1>6. Over(t.grants, grants')[p] = Over(t.grants, grants)[p]
  BY <1>1, <1>2, <1>4, <1>5, OverSame
<1>7. ASSUME NEW i \in Notices
      PROVE  Counts(Over(t.subs, subs')[i], p) <=> Counts(Over(t.subs, subs)[i], p)
  <2>1. CASE i \in DOMAIN t.subs
    BY <1>4, <1>5, <2>1, OverSame
  <2>2. CASE i \notin DOMAIN t.subs
    BY <1>3, <1>4, <1>5, <2>2, OverSame
  <2> QED BY <2>1, <2>2
<1>8. ASSUME NEW c \in Charges
      PROVE  Pays(Over(t.charges, charges')[c], p) <=> Pays(Over(t.charges, charges)[c], p)
  <2>1. CASE c \in DOMAIN t.charges
    BY <1>4, <1>5, <2>1, OverSame
  <2>2. CASE c \notin DOMAIN t.charges
    BY <1>3, <1>4, <1>5, <2>2, OverSame
  <2> QED BY <2>1, <2>2
<1>9. Entitled(Over(t.subs, subs'), Over(t.charges, charges'), p) <=> Earns(t, p)
  BY <1>7, <1>8, EntitledSame DEF Earns
<1> QED BY <1>6, <1>9

(* A commit leaves in line everybody it decided without crossing, and      *)
(* everybody it does not touch.                                            *)
LEMMA CommitFollows ==
  ASSUME Types, IInv, Drafts, Perks, NEW w \in Workers, Commit(w)
  PROVE  PerksFollowRows'
<1> DEFINE t == tx[w]
<1>1. /\ t.phase = "written" /\ t.sync = <<>> /\ Decided(t)
      /\ \A p \in Persons \ DOMAIN t.grants : grants'[p] = grants[p]
  BY CommitTables DEF Perks, Written
<1>2. /\ subs' = Over(t.subs, subs) /\ charges' = Over(t.charges, charges)
      /\ grants' = Over(t.grants, grants)
      /\ doubt' = (doubt \ t.decides) \cup t.crossed \cup (t.changed \ Known(t))
  BY DEF Commit, Overlooked, Known, N
<1> SUFFICES ASSUME NEW p \in Persons \ doubt'
             PROVE  grants'[p] = "Active" <=> Entitled(subs', charges', p)
  BY DEF PerksFollowRows, FollowsRows, Entitled, ActiveSubs, ActiveCharges
<1>3. CASE p \in t.decides
  <2>1. p \notin Listed(t.sync)
    BY <1>1 DEF Listed
  <2>2. Granted(t, p) <=> Earns(t, p)
    BY <1>1, <1>2, <1>3, <2>1 DEF Decided
  <2> QED BY <1>2, <2>2 DEF Granted, Earns
<1>4. CASE p \notin t.decides
  <2>1. p \notin t.changed /\ p \notin DOMAIN t.grants /\ p \notin doubt
    BY <1>1, <1>2, <1>4 DEF Decided
  <2>2. grants[p] = "Active" <=> Entitled(subs, charges, p)
    BY <2>1 DEF Perks, PerksFollowRows, FollowsRows
  <2>3. Entitled(subs', charges', p) <=> Entitled(subs, charges, p)
    BY <2>1, CommitCounts, EntitledSame
  <2> QED BY <1>1, <2>1, <2>2, <2>3
<1> QED BY <1>3, <1>4

LEMMA CommitPerks ==
  ASSUME Types, IInv, Drafts, Perks, NEW w \in Workers, Commit(w)
  PROVE  Perks'
<1>1. /\ tx[w].phase = "written" /\ story' = story
      /\ \A v \in Workers \ {w} : tx'[v] = tx[v]
      /\ tx'[w].phase \notin Written
  BY CommitTables DEF Written
<1>2. ASSUME NEW v \in Workers, tx'[v].phase \in Written
      PROVE  v # w /\ tx'[v] = tx[v] /\ tx[v].phase \in Written
  BY <1>1, <1>2
<1>3. ASSUME NEW v \in Workers, tx'[v].phase \in Written PROVE Decided(tx[v])'
  <2> DEFINE t == tx[v]
             Earned(p) == Entitled(Over(t.subs, subs'), Over(t.charges, charges'), p)
             Given(p) == Over(t.grants, grants')[p] = "Active"
  <2>1. v # w /\ tx'[v] = t /\ t.phase \in Written /\ Decided(t) /\ Sound(t)
    BY <1>2, <1>3 DEF Perks, Types
  <2>2. t.decides \cap tx[w].decides \subseteq t.crossed /\ t.decides \subseteq Persons
    BY <1>1, <2>1 DEF Perks, Written, Sound, Ok, TxOK
  <2>3. ASSUME NEW p \in t.decides \ t.crossed
        PROVE  (Given(p) <=> Granted(t, p)) /\ (Earned(p) <=> Earns(t, p))
    BY <2>1, <2>2, CommitSpares DEF Granted
  <2>4. t.phase = "read" => Head(t.sync) \in t.decides
    <3>1. t.phase = "read" => Head(t.sync) \in Listed(t.sync)
      BY <2>1, HeadAndTail DEF Sound, Ok
    <3> QED BY <2>1, <3>1 DEF Decided
  <2> HIDE DEF Earned, Given
  <2>5. /\ t.changed \cup Listed(t.sync) \cup DOMAIN t.grants \subseteq t.decides
        /\ \A p \in t.decides \ (t.crossed \cup (t.changed \ Known(t))) :
             p \notin Listed(t.sync) => (Given(p) <=> Earned(p))
        /\ t.phase = "read" /\ Head(t.sync) \notin t.crossed =>
             (t.op = "Active" <=> Earned(Head(t.sync)))
    BY <2>1, <2>3, <2>4 DEF Decided
  <2> QED BY <1>1, <2>1, <2>5 DEF Decided, Known, Granted, Earns, Earned, Given
<1>4. PerksFollowRows'
  BY CommitFollows
<1>5. ASSUME NEW u \in Workers, NEW v \in Workers, u # v,
             tx'[u].phase \in Written, tx'[v].phase \in Written
      PROVE  tx'[u].decides \cap tx'[v].decides \subseteq tx'[u].crossed
  BY <1>2, <1>5 DEF Perks
<1> QED BY <1>3, <1>4, <1>5 DEF Perks

LEMMA InitPerks == Init => Perks
<1> SUFFICES ASSUME Init PROVE Perks
  OBVIOUS
<1>1. \A w \in Workers : tx[w].phase \notin Written
  BY IdleFacts DEF Init, Written
<1>2. ASSUME NEW p \in Persons PROVE FollowsRows(p)
  <2>1. ActiveSubs(subs, p) = {}
    BY DEF Init, ActiveSubs
  <2>2. ActiveCharges(charges, p) = {}
    BY NullFacts DEF Init, ActiveCharges, NoCharge
  <2> QED BY <2>1, <2>2 DEF FollowsRows, Entitled, Init
<1> QED BY <1>1, <1>2 DEF Perks, PerksFollowRows

LEMMA NextPerks == Types /\ IInv /\ Drafts /\ Perks /\ [Next]_vars => Perks'
<1> SUFFICES ASSUME Types, IInv, Drafts, Perks, [Next]_vars PROVE Perks'
  OBVIOUS
<1>0. Shapes
  BY DEF IInv
<1>1. CASE UNCHANGED vars
  <2>1. UNCHANGED <<story, subs, charges, grants, doubt>> /\ tx' = tx
    BY <1>1 DEF vars, tables
  <2>2. PerksFollowRows'
    BY <2>1 DEF Perks, PerksFollowRows, FollowsRows, Entitled, ActiveSubs, ActiveCharges
  <2>3. ASSUME NEW v \in Workers, tx'[v].phase \in Written PROVE Decided(tx[v])'
    <3>1. Decided(tx'[v])
      BY <2>1, <2>3 DEF Perks
    <3> QED BY <2>1, <3>1, DecidedStands
  <2> QED BY <2>1, <2>2, <2>3 DEF Perks
<1>2. CASE Next
  <2>1. PICK w \in Workers : RestingStep(w) \/ WritingStep(w) \/ Commit(w)
    BY <1>2 DEF Next, Step, RestingStep, WritingStep
  <2>2. CASE ReadPerks(w) \/ WritePerks(w)
    BY <2>2, ReadPerksKept, WriteGrantKept
  <2>3. CASE RestingStep(w) /\ ~ReadPerks(w) /\ ~WritePerks(w)
    <3>1. UNCHANGED <<story, subs, charges, grants, doubt>>
      BY <2>3, Resting DEF tables
    <3>2. PICK u : tx' = [tx EXCEPT ![w] = u]
      BY <2>3, Resting
    <3>3. u.phase \notin Written
      <4>1. tx'[w] = u
        BY <1>0, <3>2 DEF Shapes
      <4>2. CASE \E i \in Notices : Receive(w, i)
        <5>1. PICK i \in Notices : Receive(w, i)
          BY <4>2
        <5>2. tx'[w] = [Idle EXCEPT !.phase = "resolved", !.id = i,
                                    !.person = bound[story[i].subject]]
          BY <1>0, <5>1 DEF Receive, Shapes
        <5> QED BY <4>1, <5>2, IdleFacts DEF TxFields, Written
      <4>3. CASE Claim(w)
        <5>1. CASE tx' = [tx EXCEPT ![w] = Idle]
          BY <1>0, <4>1, <5>1, IdleFacts DEF Shapes, Written
        <5>2. CASE tx' # [tx EXCEPT ![w] = Idle]
          <6>1. PICK x, c :
                  tx' = [tx EXCEPT ![w].phase = "claimed", ![w].txn = x, ![w].charge = c]
            BY <4>3, <5>2 DEF Claim
          <6>2. tx'[w] = [tx[w] EXCEPT !.phase = "claimed", !.txn = x, !.charge = c]
            BY <1>0, <6>1 DEF Shapes
          <6> QED BY <1>0, <4>1, <6>2 DEF Shapes, TxFields, Written
        <5> QED BY <5>1, <5>2
      <4>4. CASE Rebind(w) \/ Abort(w)
        <5>1. tx' = [tx EXCEPT ![w] = Idle]
          BY <4>4 DEF Rebind, Abort, Ends
        <5> QED BY <1>0, <4>1, <5>1, IdleFacts DEF Shapes, Written
      <4> QED BY <2>3, <4>2, <4>3, <4>4 DEF RestingStep
    <3> QED BY <1>0, <3>1, <3>2, <3>3, RestPerks
  <2>4. CASE WritingStep(w)
    <3>1. PaidHasRow /\ ReadStands
      BY DEF Drafts
    <3>2. /\ Ends(w, "idle") \/ Ends(w, "rebind") \/ \E t : Writes(w, t) /\ Draft(w, t)
          /\ UNCHANGED unwritten
      BY <2>4, <3>1, WritesADraft
    <3>3. CASE \E t : Writes(w, t) /\ Draft(w, t)
      BY <3>2, <3>3, WritePerksKept
    <3>4. CASE Ends(w, "idle") \/ Ends(w, "rebind")
      <4>1. PICK u : tx' = [tx EXCEPT ![w] = u] /\ u.phase \in {"idle", "rebind"}
        BY <1>0, <3>4, EndRests
      <4>2. UNCHANGED <<story, subs, charges, grants, doubt>>
        BY <3>2 DEF unwritten, tables
      <4> QED BY <1>0, <4>1, <4>2, RestPerks DEF Written
    <3> QED BY <3>2, <3>3, <3>4
  <2>5. CASE Commit(w)
    BY <2>5, CommitPerks
  <2> QED BY <2>1, <2>2, <2>3, <2>4, <2>5
<1> QED BY <1>1, <1>2

LEMMA PerksInvariant == Spec => []Perks
<1> QED BY InitPerks, NextPerks, TypesInvariant, PurchaseInvariant, DraftsInvariant, PTL DEF Spec

(* After every commit a person's perk is active exactly when a row unlocks *)
(* it, unless the person's last sync crossed another transaction that      *)
(* decides the same perks, or a row changed hands under a notification     *)
(* that was resolved to somebody else: those are the only ways to miss.    *)
THEOREM PerksFollowTheRows == Spec => []PerksFollowRows
<1>1. Perks => PerksFollowRows
  BY DEF Perks
<1> QED BY <1>1, PerksInvariant, PTL

=============================================================================
