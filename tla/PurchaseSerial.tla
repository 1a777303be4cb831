--------------------------- MODULE PurchaseSerial ---------------------------
(***************************************************************************)
(* What purchase processing promises about the subscriptions table: each   *)
(* notification acts at most once, as one indivisible step on the table    *)
(* as it is at that moment, whatever runs concurrently.  A series has one  *)
(* row, opened by the first paid event that reaches it.  Only a transfer   *)
(* may act again: it takes its idempotency key after it has moved the row. *)
(***************************************************************************)
EXTENDS SubscriptionRows

VARIABLES
  story,  \* what each notification says
  subs,   \* the subscriptions table
  acted   \* notifications that have acted

serialVars == <<story, subs, acted>>

Opens(i, n, p) == [subs EXCEPT ![i] = NewRow(n, p)]
Updates(j, n) == [subs EXCEPT ![j] = Updated(@, n)]

(* The tables notification i may leave behind.                             *)
Effects(i, n) ==
  LET found == FindSeries(subs, n.subject, n.product)
  IN  CASE n.kind \in PaidKinds /\ found = {} -> {Opens(i, n, p) : p \in Persons}
        [] n.kind = "start" /\ found # {} ->
             {IF subs[j].product = n.product THEN subs ELSE Updates(j, n) : j \in found}
        [] n.kind \in SubscriptionKinds \ PaidKinds /\ found = {} -> {subs}
        [] n.kind \in SubscriptionKinds \ {"start"} /\ found # {} ->
             {Updates(j, n) : j \in found}
        [] n.kind = "transfer" -> {Updates(j, n) : j \in RowsOf(subs, n.subject)} \cup {subs}
        [] n.kind = "reverse" ->
             {subs} \cup {Updates(j, n) : j \in {k \in found : subs[k].latest = n.txn}}
        [] OTHER -> {subs}

Act(i) ==
  /\ i \in acted => story[i].kind = "transfer"
  /\ acted' = acted \cup {i}
  /\ subs' \in Effects(i, story[i])
  /\ UNCHANGED story

SerialInit ==
  /\ subs = [i \in Notices |-> NoRow]
  /\ acted = {}

SerialNext == \E i \in Notices : Act(i)

SerialSpec == SerialInit /\ [][SerialNext]_serialVars

=============================================================================
