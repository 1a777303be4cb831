--------------------------- MODULE SubscriptionRows ---------------------------
(***************************************************************************)
(* The subscriptions table and what one store notification does to it:     *)
(* the lookup of a series, the patch of each state-machine operation, and  *)
(* the watermark that rejects an event older than one already applied.     *)
(*                                                                         *)
(* Time.  occurredAt and the dates a notification carries are ticks of one *)
(* clock; 0 is a null date.  A row's id is the notification that opened    *)
(* it.  Columns no guard reads (prices, offers, trial, grace period) are   *)
(* left out: the operations that only write them still move the watermark. *)
(***************************************************************************)
EXTENDS Integers, FiniteSets

CONSTANTS
  Notices,    \* notifications and SDK reports, by idempotency key
  Persons,
  Products,   \* products of one payment provider configuration
  Series,     \* store subscription ids
  Charges,    \* provider keys of one-time purchases
  Txns,       \* store transaction ids
  None,       \* the null product
  Horizon     \* bound: last tick of the clock

PaidKinds == {"start", "renew"}
KnownKinds == {"cancel", "cancelAtEnd", "expire", "revoke"}
MutationKinds == {"resume", "extend", "prefer", "touch"}
SubscriptionKinds == PaidKinds \cup KnownKinds \cup MutationKinds
RefundKinds == {"refund", "reverse", "revokePurchase"}
Kinds == SubscriptionKinds \cup RefundKinds \cup {"purchase", "transfer"}

TransferModes == {"toNewOwner", "keepOwner", "ifNoActive"}

(* subject is the series or one-time charge; date is the one date the      *)
(* operation writes (expiresAt, canceledAt, expiredAt, revokedAt,          *)
(* extendedTo, refundedAt; for a reversal subscriptionExpiresAt); next is  *)
(* the announced product of a renewal preference; owner and mode are the   *)
(* restoring person and the configured policy of a transfer.               *)
NoticeType == [kind: Kinds, subject: Series \cup Charges, product: Products,
               txn: Txns, at: 1..Horizon, date: 0..Horizon, next: Products,
               owner: Persons, mode: TransferModes]

RowType == [series: Series, product: Products, pending: Products \cup {None},
            person: Persons, status: {"Active", "Canceled"},
            expires: 0..Horizon, atEnd: BOOLEAN, canceled: 0..Horizon,
            latest: Txns, mark: 1..Horizon]

NoRow == [series |-> None]

-----------------------------------------------------------------------------
(* DbPurchaseStateRepository.findSubscriptionSeries: the row of this       *)
(* product, else the row that announced it, else the sibling, active rows  *)
(* first and then the freshest.                                            *)
RowsOf(rows, s) == {i \in Notices : rows[i].series = s}

Sibling(rows, s) ==
  LET active == {i \in RowsOf(rows, s) : rows[i].status = "Active"}
      best == IF active # {} THEN active ELSE RowsOf(rows, s)
  IN  {i \in best : \A j \in best : rows[j].mark <= rows[i].mark}

\* Mutant: only a row of the event's own product is the series.
FindSeries_SameProduct(rows, s, p) == {i \in RowsOf(rows, s) : rows[i].product = p}

FindSeries(rows, s, p) ==
  LET current == {i \in RowsOf(rows, s) : rows[i].product = p}
      pending == {i \in RowsOf(rows, s) : rows[i].pending = p}
  IN  IF current # {} THEN current
      ELSE IF pending # {} THEN pending
      ELSE Sibling(rows, s)

\* Mutant: any event may overwrite the projection.
Fresher_Always(row, n) == TRUE

(* updateSubscriptionIfFresher: WHERE last_event_occurred_at <= occurredAt. *)
Fresher(row, n) == row.mark <= n.at

-----------------------------------------------------------------------------
NewRow(n, person) ==
  [series |-> n.subject, product |-> n.product, pending |-> None,
   person |-> person, status |-> "Active", expires |-> n.date,
   atEnd |-> FALSE, canceled |-> 0, latest |-> n.txn, mark |-> n.at]

\* Mutant: the new period is added to the old expiry.
PaidPeriod_Adds(row, n) ==
  [row EXCEPT !.status = "Active", !.expires = row.expires + n.date, !.latest = n.txn]

(* paidPeriodPatch and productSwapPatch.                                   *)
PaidPeriod(row, n) ==
  [row EXCEPT !.status = "Active", !.expires = n.date, !.atEnd = FALSE,
              !.canceled = 0, !.latest = n.txn, !.product = n.product,
              !.pending = IF row.product = n.product THEN row.pending ELSE None]

(* The period still runs when resumeAutoRenew arrives.                     *)
StillRunning(row, n) == row.expires = 0 \/ row.expires > n.at

Patch(row, n) ==
  CASE n.kind \in PaidKinds -> PaidPeriod(row, n)
    [] n.kind = "cancel" ->
         [row EXCEPT !.status = "Canceled", !.atEnd = FALSE, !.canceled = n.date]
    [] n.kind = "cancelAtEnd" -> [row EXCEPT !.atEnd = TRUE, !.canceled = n.date]
    [] n.kind = "expire" -> [row EXCEPT !.status = "Canceled", !.expires = n.date]
    [] n.kind = "revoke" ->
         [row EXCEPT !.status = "Canceled", !.expires = n.date, !.canceled = n.date]
    [] n.kind = "extend" -> [row EXCEPT !.expires = n.date]
    [] n.kind = "prefer" -> [row EXCEPT !.pending = n.next]
    [] n.kind = "touch" -> row
    [] n.kind = "resume" ->
         [row EXCEPT !.atEnd = FALSE, !.canceled = 0,
                     !.status = IF StillRunning(row, n) THEN "Active" ELSE @]
    [] n.kind = "transfer" -> [row EXCEPT !.person = n.owner]
    [] n.kind = "reverse" ->
         [row EXCEPT !.expires = n.date,
                     !.status = IF n.date > n.at THEN "Active" ELSE "Canceled"]

(* The row after the guarded update; the watermark moves with every patch. *)
Updated(row, n) ==
  IF Fresher(row, n) THEN [Patch(row, n) EXCEPT !.mark = n.at] ELSE row

=============================================================================
