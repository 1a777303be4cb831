---------------------------- MODULE PurchaseState ----------------------------
(***************************************************************************)
(* The purchase state machines: notifications and SDK reports of one       *)
(* project are resolved to a person and then applied, each in one database *)
(* transaction that claims the idempotency key, writes the projection rows *)
(* under a watermark, recomputes the person's perks and stages webhooks.   *)
(*                                                                         *)
(* Transactions are READ COMMITTED.  A worker keeps what it has written    *)
(* but not committed in tx[w]; others read the committed tables, and wait  *)
(* for the advisory lock of a series, for a row another worker has         *)
(* written, and for an idempotency key another worker has claimed.  A step *)
(* is one statement, or several when the locks they hold make the order    *)
(* invisible.                                                              *)
(***************************************************************************)
EXTENDS SubscriptionRows, Sequences

CONSTANTS
  Workers,   \* concurrent executions of purchase processing
  Stories,   \* the assignments of notifications the environment may send
  Buyer,     \* the person each subject is bound to at first
  MaxAborts  \* bound: aborted transactions in one behaviour

Subjects == Series \cup Charges
Topics == Subjects \cup Txns

(* Keys of different tables are different values, and a store transaction  *)
(* pays for one subscription or one purchase.                              *)
ASSUME PurchaseAssumption ==
  /\ Horizon \in Nat
  /\ None \notin Products \cup Series \cup Persons
  /\ Series \cap Charges = {} /\ Subjects \cap Txns = {}
  /\ Buyer \in [Subjects -> Persons]
  /\ MaxAborts \in Nat
  /\ \A s \in Stories : \A i \in DOMAIN s :
       /\ i \in Notices /\ s[i] \in NoticeType
       /\ s[i].kind \in SubscriptionKinds => s[i].subject \in Series
       /\ s[i].kind = "purchase" => s[i].subject \in Charges
       /\ \A j \in DOMAIN s : s[i].txn = s[j].txn => s[i].subject = s[j].subject

VARIABLES
  story,      \* what each notification says
  subs,       \* subscriptions
  txns,       \* transactions
  charges,    \* purchases: one-time purchases
  grants,     \* personUnlockedPerks: the status of each person's perk
  reserved,   \* idempotency keys of committed purchase_ledger rows
  announced,  \* staged webhooks: created, renewed, completed per topic
  bound,      \* external identifier -> person
  tx,         \* the open transaction of each worker
  doubt,      \* history: persons whose last sync may have missed a change
  obeyed,     \* history: the notifications each row has accepted
  aborts      \* aborted transactions so far

tables == <<subs, txns, charges, grants, reserved, announced, doubt, obeyed>>
vars == <<story, tables, bound, tx, aborts>>

NoTxn == [mark |-> 0, refunded |-> 0]
NoCharge == [person |-> None, mark |-> 0, refunded |-> 0, revoked |-> 0]
TxnType == [mark: 0..Horizon, refunded: 0..Horizon]
ChargeType == [person: Persons \cup {None}, mark: 0..Horizon,
               refunded: 0..Horizon, revoked: 0..Horizon]

GrantStatuses == {"none", "Active", "Expired"}
Phases == {"idle", "resolved", "claimed", "written", "read", "rebind"}
Written == {"written", "read"}
Open == Written \cup {"claimed"}

\* The rows a transaction has written, over the committed ones.
Over(f, g) == [x \in DOMAIN f \cup DOMAIN g |-> IF x \in DOMAIN f THEN f[x] ELSE g[x]]
Only(x, v) == [y \in {x} |-> v]
Nothing == [y \in {} |-> 0]

Idle == [phase |-> "idle", id |-> None, person |-> None, txn |-> NoTxn,
         charge |-> NoCharge, locks |-> {}, subs |-> Nothing, txns |-> Nothing,
         charges |-> Nothing, grants |-> Nothing, sync |-> <<>>, op |-> "none",
         announce |-> {}, changed |-> {}, decides |-> {}, crossed |-> {}]

N(w) == story[tx[w].id]

Init ==
  /\ story \in Stories
  /\ subs = [i \in Notices |-> NoRow]
  /\ txns = [t \in Txns |-> NoTxn]
  /\ charges = [c \in Charges |-> NoCharge]
  /\ grants = [p \in Persons |-> "none"]
  /\ reserved = {}
  /\ announced = [t \in Topics |-> 0]
  /\ bound = Buyer
  /\ tx = [w \in Workers |-> Idle]
  /\ doubt = {}
  /\ obeyed = [i \in Notices |-> {}]
  /\ aborts = 0

-----------------------------------------------------------------------------
(* Locks *)

Others(w) == {v \in Workers \ {w} : tx[v].phase \in Open}

KeyFree(w) == \A v \in Others(w) : tx[v].id # tx[w].id
\* Mutant: no advisory lock on the series.
LockFree_Unlocked(w, s) == TRUE
LockFree(w, s) == \A v \in Others(w) : s \notin tx[v].locks
\* Mutant: an update does not wait for another writer of the row.
RowFree_Unlocked(w, i) == TRUE
RowFree(w, i) == \A v \in Others(w) : i \notin DOMAIN tx[v].subs
TxnFree(w, t) == \A v \in Others(w) : t \notin DOMAIN tx[v].txns
ChargeFree(w, c) == \A v \in Others(w) : c \notin DOMAIN tx[v].charges
GrantFree(w, p) == \A v \in Others(w) : p \notin DOMAIN tx[v].grants

-----------------------------------------------------------------------------
(* Entitlements *)

ActiveSubs(rows, p) ==
  {i \in Notices : rows[i] # NoRow /\ rows[i].person = p /\ rows[i].status = "Active"}
ActiveCharges(rows, p) ==
  {c \in Charges : rows[c].person = p /\ rows[c].refunded = 0 /\ rows[c].revoked = 0}

Entitled(s, c, p) == ActiveSubs(s, p) # {} \/ ActiveCharges(c, p) # {}

\* Persons whose entitlements a rewritten row changes.
SubChanges(i, row) ==
  LET old == subs[i]
      was == IF old # NoRow /\ old.status = "Active" THEN {old.person} ELSE {}
      is  == IF row.status = "Active" THEN {row.person} ELSE {}
  IN  (was \ is) \cup (is \ was)

Live(c) == c.person # None /\ c.refunded = 0 /\ c.revoked = 0
ChargeChanges(c, row) ==
  LET was == IF Live(charges[c]) THEN {charges[c].person} ELSE {}
      is  == IF Live(row) THEN {row.person} ELSE {}
  IN  (was \ is) \cup (is \ was)

-----------------------------------------------------------------------------
(* Steps of a transaction *)

(* Worker w has written the rows of t.  Two transactions that decide the   *)
(* perks of one person cross when they are open together.                  *)
Writes(w, t) ==
  LET mine == t.changed \cup {t.sync[k] : k \in DOMAIN t.sync}
      shared == [v \in Workers |->
                   IF v # w /\ tx[v].phase \in Written THEN tx[v].decides \cap mine ELSE {}]
  IN  tx' = [v \in Workers |->
               IF v = w
               THEN [t EXCEPT !.phase = "written", !.decides = mine,
                              !.crossed = UNION {shared[u] : u \in Workers}]
               ELSE [tx[v] EXCEPT !.crossed = @ \cup shared[v]]]

\* The transaction of w after it rewrites row i to row.
WithRow(t, i, row) ==
  [t EXCEPT !.subs = Only(i, row), !.changed = @ \cup SubChanges(i, row)]

\* updateSubscriptionIfFresher on row i.
WithUpdate(t, i, n) == IF Fresher(subs[i], n) THEN WithRow(t, i, Updated(subs[i], n)) ELSE t

\* findOrCreateTransaction: an existing row is only completed with its price.
WithTxn(t, n) ==
  IF txns[n.txn] = NoTxn
  THEN [t EXCEPT !.txns = Only(n.txn, [mark |-> n.at, refunded |-> 0])]
  ELSE t

\* updateTransactionIfFresher with a new refundedAt.
FreshTxn(n) == txns[n.txn].mark <= n.at
WithTxnUpdate(t, n, refunded) ==
  IF FreshTxn(n) THEN [t EXCEPT !.txns = Only(n.txn, [mark |-> n.at, refunded |-> refunded])]
  ELSE t

FreshCharge(c, n) == charges[c].mark <= n.at
WithCharge(t, c, row) ==
  [t EXCEPT !.charges = Only(c, row), !.changed = @ \cup ChargeChanges(c, row)]
WithChargeUpdate(t, c, n, row) ==
  IF FreshCharge(c, n) THEN WithCharge(t, c, [row EXCEPT !.mark = n.at]) ELSE t

Synced(t, persons) == [t EXCEPT !.sync = persons]

Announcing(t, topics) == [t EXCEPT !.announce = topics]

unwritten == <<story, tables, bound, aborts>>

(* A notification arrives, for the first time or again, and is resolved to *)
(* the person its subject is bound to, before any transaction.             *)
Receive(w, i) ==
  /\ tx[w].phase = "idle"
  /\ i \in DOMAIN story
  /\ story[i].kind = "transfer" => bound[story[i].subject] # story[i].owner
  /\ tx' = [tx EXCEPT ![w] = [Idle EXCEPT !.phase = "resolved", !.id = i,
                                          !.person = bound[story[i].subject]]]
  /\ UNCHANGED unwritten

(* reservePurchaseLedgerRow: the key is inserted, or the worker waits for  *)
(* the transaction that inserted it; a committed key ends the delivery.    *)
(* Refund operations then read the rows they will update.                  *)
Claim(w) ==
  /\ tx[w].phase = "resolved"
  /\ N(w).kind # "transfer"
  /\ KeyFree(w)
  /\ IF tx[w].id \in reserved
     THEN tx' = [tx EXCEPT ![w] = Idle]
     ELSE tx' = [tx EXCEPT
            ![w].phase = "claimed",
            ![w].txn = IF N(w).kind \in RefundKinds THEN txns[N(w).txn] ELSE NoTxn,
            ![w].charge = IF N(w).kind \in RefundKinds /\ N(w).subject \in Charges
                          THEN charges[N(w).subject] ELSE NoCharge]
  /\ UNCHANGED unwritten

-----------------------------------------------------------------------------
(* PurchaseLifecycleStateMachine and PurchaseSubscriptionMutationMachine *)

Locking(w) == [tx[w] EXCEPT !.locks = {N(w).subject}]

StartSubscription(w) ==
  LET n == N(w)
      t == Synced(WithTxn(Locking(w), n), <<tx[w].person>>)
      found == FindSeries(subs, n.subject, n.product)
  IN  /\ tx[w].phase = "claimed" /\ n.kind = "start"
      /\ LockFree(w, n.subject) /\ TxnFree(w, n.txn)
      /\ \/ /\ found = {}
            /\ Writes(w, Announcing(WithRow(t, tx[w].id, NewRow(n, tx[w].person)),
                                    {n.subject}))
         \/ \E i \in found : /\ subs[i].product = n.product
                             /\ Writes(w, t)
         \/ \E i \in found : /\ subs[i].product # n.product
                             /\ RowFree(w, i)
                             /\ Writes(w, WithUpdate(t, i, n))
      /\ UNCHANGED unwritten

RenewSubscription(w) ==
  LET n == N(w)
      t == Synced(WithTxn(Locking(w), n), <<tx[w].person>>)
      found == FindSeries(subs, n.subject, n.product)
      first == txns[n.txn] = NoTxn
  IN  /\ tx[w].phase = "claimed" /\ n.kind = "renew"
      /\ LockFree(w, n.subject) /\ TxnFree(w, n.txn)
      /\ \/ /\ found = {}
            /\ Writes(w, Announcing(WithRow(t, tx[w].id, NewRow(n, tx[w].person)),
                                    IF first THEN {n.subject, n.txn} ELSE {}))
         \/ \E i \in found :
              /\ RowFree(w, i)
              /\ Writes(w, Announcing(WithUpdate(t, i, n),
                             IF first /\ Fresher(subs[i], n) THEN {n.txn} ELSE {}))
      /\ UNCHANGED unwritten

(* mutateKnownSubscription, revokeSubscription and applyMutation.  An      *)
(* unknown series ends in an empty result that keeps the key.              *)
\* Mutant: an expiry does not recompute the perks.
SyncsPerks_NotOnExpiry == (KnownKinds \ {"expire"}) \cup {"resume"}
SyncsPerks == KnownKinds \cup {"resume"}

MutateSubscription(w) ==
  LET n == N(w)
      t == Synced(Locking(w), IF n.kind \in SyncsPerks THEN <<tx[w].person>> ELSE <<>>)
      found == FindSeries(subs, n.subject, n.product)
      revoked == IF n.kind = "revoke" /\ txns[n.txn] # NoTxn
                 THEN WithTxnUpdate(t, n, txns[n.txn].refunded) ELSE t
  IN  /\ tx[w].phase = "claimed" /\ n.kind \in KnownKinds \cup MutationKinds
      /\ LockFree(w, n.subject)
      /\ n.kind = "revoke" => TxnFree(w, n.txn)
      /\ \/ /\ found = {}
            /\ Writes(w, Locking(w))
         \/ \E i \in found : /\ RowFree(w, i)
                             /\ Writes(w, WithUpdate(revoked, i, n))
      /\ UNCHANGED unwritten

CompleteOneTimePurchase(w) ==
  LET n == N(w)
      c == n.subject
      t == Synced(WithTxn(tx[w], n), <<tx[w].person>>)
  IN  /\ tx[w].phase = "claimed" /\ n.kind = "purchase"
      /\ TxnFree(w, n.txn) /\ ChargeFree(w, c)
      /\ IF charges[c] = NoCharge
         THEN Writes(w, Announcing(WithCharge(t, c, [NoCharge EXCEPT !.person = tx[w].person]),
                                   {c}))
         ELSE Writes(w, t)
      /\ UNCHANGED unwritten

-----------------------------------------------------------------------------
(* PurchaseRefundStateMachine.  What the operation read when it claimed    *)
(* its key decides which rows it updates.                                  *)

RowsUnlocked(w) == TxnFree(w, N(w).txn) /\ (N(w).subject \in Charges => ChargeFree(w, N(w).subject))

RefundPurchase(w) ==
  LET n == N(w)
      c == n.subject
      t == IF tx[w].txn = NoTxn THEN tx[w] ELSE WithTxnUpdate(tx[w], n, n.date)
  IN  /\ tx[w].phase = "claimed" /\ n.kind = "refund"
      /\ RowsUnlocked(w)
      /\ IF tx[w].charge = NoCharge THEN Writes(w, t)
         ELSE Writes(w, Synced(
                WithChargeUpdate(t, c, n, [charges[c] EXCEPT !.refunded = n.date]),
                IF FreshCharge(c, n) THEN <<tx[w].person>> ELSE <<>>))
      /\ UNCHANGED unwritten

RevokePurchase(w) ==
  LET n == N(w)
      c == n.subject
      t == IF tx[w].txn = NoTxn THEN tx[w] ELSE WithTxnUpdate(tx[w], n, txns[n.txn].refunded)
  IN  /\ tx[w].phase = "claimed" /\ n.kind = "revokePurchase"
      /\ RowsUnlocked(w)
      /\ IF tx[w].charge = NoCharge THEN Writes(w, tx[w])
         ELSE Writes(w, Synced(
                WithChargeUpdate(t, c, n, [charges[c] EXCEPT !.revoked = n.date]),
                IF FreshCharge(c, n) THEN <<tx[w].person>> ELSE <<>>))
      /\ UNCHANGED unwritten

(* The subscription the refund expired: same latest transaction, and the   *)
(* expiry is the refund's own date.                                        *)
Restorable(w) ==
  LET n == N(w)
  IN  {i \in FindSeries(subs, n.subject, n.product) :
         /\ tx[w].txn # NoTxn /\ FreshTxn(n)
         /\ tx[w].txn.refunded # 0 /\ n.date # 0
         /\ subs[i].latest = n.txn
         /\ subs[i].expires = tx[w].txn.refunded
         /\ Fresher(subs[i], n)}

ReverseCharge(w) ==
  LET n == N(w)
      c == n.subject
      t == IF tx[w].txn = NoTxn THEN tx[w] ELSE WithTxnUpdate(tx[w], n, 0)
  IN  /\ tx[w].phase = "claimed" /\ n.kind = "reverse" /\ c \in Charges
      /\ RowsUnlocked(w)
      /\ IF tx[w].charge = NoCharge THEN Writes(w, t)
         ELSE Writes(w, Synced(
                WithChargeUpdate(t, c, n, [charges[c] EXCEPT !.refunded = 0]),
                IF FreshCharge(c, n) THEN <<tx[w].person>> ELSE <<>>))
      /\ UNCHANGED unwritten

ReverseSubscription(w) ==
  LET n == N(w)
      t == IF tx[w].txn = NoTxn THEN Locking(w) ELSE WithTxnUpdate(Locking(w), n, 0)
  IN  /\ tx[w].phase = "claimed" /\ n.kind = "reverse" /\ n.subject \in Series
      /\ LockFree(w, n.subject) /\ TxnFree(w, n.txn)
      /\ \/ /\ Restorable(w) = {}
            /\ Writes(w, t)
         \/ \E i \in Restorable(w) :
              /\ RowFree(w, i)
              /\ Writes(w, Synced(WithUpdate(t, i, n), <<tx[w].person>>))
      /\ UNCHANGED unwritten

-----------------------------------------------------------------------------
(* PurchaseTransferStateMachine, called when a restore finds the subject   *)
(* bound to another person.  The row is locked FOR UPDATE; the series'     *)
(* advisory lock is not taken.                                             *)

MayMove(w, active) ==
  \/ N(w).mode = "toNewOwner"
  \/ N(w).mode = "ifNoActive" /\ active = {}

Ends(w, phase) == tx' = [tx EXCEPT ![w] = IF phase = "idle" THEN Idle ELSE [@ EXCEPT !.phase = phase]]

TransferSubscription(w) ==
  LET n == N(w)
      from == tx[w].person
      movable(i) == /\ subs[i].person = from
                    /\ MayMove(w, ActiveSubs(subs, n.owner))
                    /\ Fresher(subs[i], n)
  IN  /\ tx[w].phase = "resolved" /\ n.kind = "transfer" /\ n.subject \in Series
      /\ \/ RowsOf(subs, n.subject) = {} /\ Ends(w, "rebind")
         \/ \E i \in RowsOf(subs, n.subject) :
              /\ RowFree(w, i)
              /\ \/ subs[i].person = n.owner /\ Ends(w, "rebind")
                 \/ subs[i].person # n.owner /\ ~movable(i) /\ Ends(w, "idle")
                 \/ /\ subs[i].person # n.owner /\ movable(i)
                    /\ Writes(w, Synced(WithUpdate(tx[w], i, n), <<from, n.owner>>))
      /\ UNCHANGED unwritten

TransferPurchase(w) ==
  LET n == N(w)
      c == n.subject
      from == tx[w].person
      movable == /\ charges[c].person = from /\ Live(charges[c])
                 /\ MayMove(w, ActiveCharges(charges, n.owner))
                 /\ FreshCharge(c, n)
  IN  /\ tx[w].phase = "resolved" /\ n.kind = "transfer" /\ c \in Charges
      /\ ChargeFree(w, c)
      /\ \/ charges[c] = NoCharge /\ Ends(w, "rebind")
         \/ charges[c].person = n.owner /\ Ends(w, "rebind")
         \/ charges[c].person \notin {n.owner, None} /\ ~movable /\ Ends(w, "idle")
         \/ /\ charges[c].person # n.owner /\ movable
            /\ Writes(w, Synced(WithChargeUpdate(tx[w], c, n, [charges[c] EXCEPT !.person = n.owner]),
                                <<from, n.owner>>))
      /\ UNCHANGED unwritten

(* The identifier moves last, after the transfer's transaction.            *)
Rebind(w) ==
  /\ tx[w].phase = "rebind"
  /\ bound' = [bound EXCEPT ![N(w).subject] = N(w).owner]
  /\ Ends(w, "idle")
  /\ UNCHANGED <<story, tables, aborts>>

-----------------------------------------------------------------------------
(* PerkGrantService.syncUnlockedPerks *)

(* The person's rows are read, with the transaction's own writes, and the  *)
(* statements that bring the perk in line are decided.  An active perk may *)
(* still be rewritten, with another source or expiry.                      *)
ReadPerks(w) ==
  LET p == Head(tx[w].sync)
      held == Over(tx[w].grants, grants)[p]
      entitled == Entitled(Over(tx[w].subs, subs), Over(tx[w].charges, charges), p)
      ops == CASE entitled /\ held = "Active" -> {"none", "Active"}
               [] entitled /\ held # "Active" -> {"Active"}
               [] ~entitled /\ held = "Active" -> {"Expired"}
               [] OTHER -> {"none"}
  IN  /\ tx[w].phase = "written" /\ tx[w].sync # <<>>
      /\ \E op \in ops :
           tx' = IF op = "none" THEN [tx EXCEPT ![w].sync = Tail(@)]
                 ELSE [tx EXCEPT ![w].op = op, ![w].phase = "read"]
      /\ UNCHANGED unwritten

\* The decided statement, by perk id: it waits for another writer's commit
\* and then applies whatever that writer left.
WritePerks(w) ==
  LET p == Head(tx[w].sync)
  IN  /\ tx[w].phase = "read"
      /\ GrantFree(w, p)
      /\ tx' = [tx EXCEPT ![w].phase = "written", ![w].op = "none",
                          ![w].sync = Tail(@), ![w].grants = Over(Only(p, tx[w].op), @)]
      /\ UNCHANGED unwritten

-----------------------------------------------------------------------------
Bump(f, S) == [t \in DOMAIN f |-> IF t \in S /\ f[t] < 2 THEN f[t] + 1 ELSE f[t]]

(* Persons whose entitlements changed and whom the transaction does not    *)
(* know: the row's owner is not the person the notification resolved to.   *)
Overlooked(w) ==
  tx[w].changed \ ({tx[w].person} \cup IF N(w).kind = "transfer" THEN {N(w).owner} ELSE {})

Commit(w) ==
  /\ tx[w].phase = "written" /\ tx[w].sync = <<>>
  /\ subs' = Over(tx[w].subs, subs)
  /\ txns' = Over(tx[w].txns, txns)
  /\ charges' = Over(tx[w].charges, charges)
  /\ grants' = Over(tx[w].grants, grants)
  /\ reserved' = reserved \cup {tx[w].id}
  /\ announced' = Bump(announced, tx[w].announce)
  /\ doubt' = (doubt \ tx[w].decides) \cup tx[w].crossed \cup Overlooked(w)
  /\ obeyed' = [i \in Notices |-> obeyed[i] \cup
                  IF i \in DOMAIN tx[w].subs THEN {tx[w].id} ELSE {}]
  /\ Ends(w, IF N(w).kind = "transfer" THEN "rebind" ELSE "idle")
  /\ UNCHANGED <<story, bound, aborts>>

(* A failed statement, a deadlock, a removed product mapping or the end of *)
(* the isolate: the transaction is rolled back, or the rebind is not made. *)
Abort(w) ==
  /\ aborts < MaxAborts
  /\ tx[w].phase \in Open \cup {"rebind"}
  /\ aborts' = aborts + 1
  /\ tx' = [tx EXCEPT ![w] = Idle]
  /\ UNCHANGED <<story, tables, bound>>

Step(w) ==
  \/ Claim(w)
  \/ StartSubscription(w)
  \/ RenewSubscription(w)
  \/ MutateSubscription(w)
  \/ CompleteOneTimePurchase(w)
  \/ RefundPurchase(w)
  \/ RevokePurchase(w)
  \/ ReverseCharge(w)
  \/ ReverseSubscription(w)
  \/ TransferSubscription(w)
  \/ TransferPurchase(w)
  \/ Rebind(w)
  \/ ReadPerks(w)
  \/ WritePerks(w)
  \/ Commit(w)

Next == \E w \in Workers : \/ \E i \in Notices : Receive(w, i)
                           \/ Step(w)
                           \/ Abort(w)

Spec == Init /\ [][Next]_vars

-----------------------------------------------------------------------------
(* The tables, the bindings and every open transaction hold values of     *)
(* their columns.                                                          *)
TxOK(t) ==
  /\ t.phase \in Phases /\ t.op \in GrantStatuses
  /\ t.id \in Notices \cup {None} /\ t.person \in Persons \cup {None}
  /\ t.txn \in TxnType /\ t.charge \in ChargeType
  /\ t.locks \subseteq Series /\ t.announce \subseteq Topics
  /\ \A i \in DOMAIN t.subs : i \in Notices /\ t.subs[i] \in RowType
  /\ \A x \in DOMAIN t.txns : x \in Txns /\ t.txns[x] \in TxnType
  /\ \A c \in DOMAIN t.charges : c \in Charges /\ t.charges[c] \in ChargeType
  /\ \A p \in DOMAIN t.grants : p \in Persons /\ t.grants[p] \in GrantStatuses
  /\ \A k \in DOMAIN t.sync : t.sync[k] \in Persons
  /\ t.changed \cup t.decides \cup t.crossed \subseteq Persons

TypeOK ==
  /\ \A i \in Notices : subs[i] = NoRow \/ subs[i] \in RowType
  /\ txns \in [Txns -> TxnType]
  /\ charges \in [Charges -> ChargeType]
  /\ grants \in [Persons -> GrantStatuses]
  /\ reserved \subseteq Notices
  /\ announced \in [Topics -> 0..2]
  /\ bound \in [Subjects -> Persons]
  /\ \A w \in Workers : TxOK(tx[w])
  /\ doubt \subseteq Persons
  /\ obeyed \in [Notices -> SUBSET Notices]
  /\ aborts \in 0..MaxAborts

(* A store subscription has one row, whatever products it is billed under  *)
(* and however its first events race: findSubscriptionSeries takes the     *)
(* series' advisory lock before it looks for a row.                        *)
OneRowPerSeries == \A s \in Series : Cardinality(RowsOf(subs, s)) <= 1

(* A subscription's or purchase's created webhook is staged once, by the   *)
(* transaction that opens its row, and never without the row; a renewal is *)
(* announced once per store transaction.                                   *)
OpeningIsAnnouncedOnce ==
  /\ \A t \in Topics : announced[t] <= 1
  /\ \A s \in Series : RowsOf(subs, s) # {} <=> announced[s] = 1
  /\ \A c \in Charges : charges[c] # NoCharge <=> announced[c] = 1

(* What the event with the latest occurrence leaves in the columns that it *)
(* writes.                                                                 *)
Says(row, n) ==
  CASE n.kind \in PaidKinds -> row.status = "Active" /\ row.expires = n.date /\ row.product = n.product
    [] n.kind \in {"cancel", "revoke", "expire"} -> row.status = "Canceled"
    [] n.kind = "transfer" -> row.person = n.owner
    [] OTHER -> TRUE

(* Of the events a row has accepted, in whatever order they arrived, the   *)
(* one that occurred last is the one the row shows: an event older than    *)
(* the row's watermark changes nothing.                                    *)
NewestDecides ==
  \A i \in Notices : subs[i] # NoRow =>
    \E k \in obeyed[i] : /\ \A j \in obeyed[i] : story[j].at <= story[k].at
                         /\ subs[i].mark = story[k].at
                         /\ Says(subs[i], story[k])

Settled(p) == \A w \in Workers : tx[w].phase \in Written => p \notin tx[w].decides
FollowsRows(p) == grants[p] = "Active" <=> Entitled(subs, charges, p)
(* A person's perk is active exactly when an active subscription or a      *)
(* purchase neither refunded nor revoked unlocks it, after every commit;   *)
(* persons whose last sync ran beside another one, or whose row moved to   *)
(* them in between, are left out (doubt): syncUnlockedPerks takes no lock  *)
(* on the person.                                                          *)
PerksFollowRows == \A p \in Persons \ doubt : FollowsRows(p)

(* The same of every person, once no transaction that decides that         *)
(* person's perks is open.  PerkGrantService.ts:128 says that a sync       *)
(* 'reads and writes atomically with the surrounding purchase write'.      *)
PerksAlwaysFollow == \A p \in Persons : Settled(p) => FollowsRows(p)

Serial == INSTANCE PurchaseSerial WITH acted <- reserved
(* The subscriptions table evolves as if notifications acted one at a      *)
(* time, and none but a transfer twice: the locks and the watermark leave  *)
(* no trace of the interleaving, and no update erases another's columns.   *)
ImplementsSerial == Serial!SerialSpec

=============================================================================
