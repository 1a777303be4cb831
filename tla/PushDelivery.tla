----------------------------- MODULE PushDelivery -----------------------------
(***************************************************************************)
(* One push notification: the requests that create it under one            *)
(* idempotency key, a delivery row per device, the queue message of each   *)
(* row, the handlers that claim a row, call the provider and settle it,    *)
(* the dead-letter handler, and the roll-up of the parent send.            *)
(*                                                                         *)
(* The writes of a handler, and the reads they rest on, are steps of their *)
(* own, so handlers interleave, fail and die between any two of them.      *)
(* Reading the device and the configuration is one step with the           *)
(* provider's answer, which the model leaves open in any case; inserting   *)
(* into the attempt log, which nothing reads, is one step with settling.   *)
(*                                                                         *)
(* The queue is external: it delivers a message at least once, hands it    *)
(* out again when its batch fails or takes too long, and moves it to the   *)
(* dead-letter queue when its retries are used up.                         *)
(***************************************************************************)
EXTENDS Integers, FiniteSets

CONSTANTS
  Devices,      \* each is the target of one delivery of the send
  Workers,      \* concurrent queue handlers
  Requests,     \* calls of send with the same idempotency key
  None,         \* no worker, no device
  MaxAttempts,  \* max_attempts of a delivery row
  MaxRetries,   \* max_retries of the queue
  MaxCrashes,   \* bound: handlers and dispatches that die
  MaxChanges    \* bound: registrations, removals and configuration changes

ASSUME PushAssumption ==
  /\ IsFiniteSet(Devices)
  /\ MaxAttempts \in Nat \ {0}
  /\ MaxRetries \in Nat
  /\ MaxCrashes \in Nat
  /\ MaxChanges \in Nat
  /\ None \notin Workers \cup Devices

VARIABLES
  send,      \* the parent row
  delivery,  \* push_notification_deliveries, by device
  live,      \* devices neither invalidated nor deleted
  enabled,   \* an enabled provider configuration exists
  message,   \* the queue's message of each delivery
  handler,   \* what each worker is doing
  request,   \* progress of each call of send
  accepted,  \* history: how often the provider accepted each delivery, up to 2
  missed,    \* history: a roll-up is lost, or the last one read old rows
  crashes,   \* deaths so far
  changes    \* changes of devices and configuration so far

rows == <<send, delivery>>
devices == <<live, enabled, changes>>
history == <<accepted, missed, crashes>>
vars == <<rows, devices, message, handler, request, history>>

Statuses == {"Absent", "Pending", "InProgress", "Succeeded", "Failed", "Exhausted"}
SendStatuses == {"Absent", "Pending", "InProgress", "Succeeded", "PartialFailed",
                 "Failed", "NoRecipients"}

Counts == 0..Cardinality(Devices)
DeliveryType == [status: Statuses, attempts: 0..MaxAttempts, done: BOOLEAN]
SendType == [status: SendStatuses, succeeded: Counts, failed: Counts, done: BOOLEAN]
MessageType == [state: {"absent", "ready", "held", "dead", "gone"},
                tries: 0..MaxRetries + 1, holder: Workers \cup {None}]

\* What provider.deliver answers; "hopeless" also stands for no live device and
\* no enabled configuration, which end in Exhausted like a payload too large.
Answers == {"accepted", "unregistered", "unroutable", "hopeless", "retryable"}

TallyType == [succeeded: Counts, failed: Counts, inFlight: Counts]
NoTally == [succeeded |-> 0, failed |-> 0, inFlight |-> 0]

\* renewed: a registration is newer than the clock the handler started with.
\* retry: the handler ends in an error that asks the queue to retry.
HandlerType ==
  [pc: {"idle", "claim", "lost", "deliver", "settle", "gate", "invalidate",
        "exhaust", "tally", "rollup"},
   device: Devices \cup {None}, number: 0..MaxAttempts,
   outcome: Answers \cup {"none"}, renewed: BOOLEAN, retry: BOOLEAN, seen: TallyType]

Idle == [pc |-> "idle", device |-> None, number |-> 0, outcome |-> "none",
         renewed |-> FALSE, retry |-> FALSE, seen |-> NoTally]

RequestType == [pc: {"new", "resolved", "persisted", "sent", "failed", "replayed", "rejected"},
                devices: SUBSET Devices]

Init ==
  /\ send = [status |-> "Absent", succeeded |-> 0, failed |-> 0, done |-> FALSE]
  /\ delivery = [d \in Devices |-> [status |-> "Absent", attempts |-> 0, done |-> FALSE]]
  /\ live = Devices
  /\ enabled = TRUE
  /\ message = [d \in Devices |-> [state |-> "absent", tries |-> 0, holder |-> None]]
  /\ handler = [w \in Workers |-> Idle]
  /\ request = [r \in Requests |-> [pc |-> "new", devices |-> {}]]
  /\ accepted = [d \in Devices |-> 0]
  /\ missed = FALSE
  /\ crashes = 0
  /\ changes = 0

-----------------------------------------------------------------------------
(* NotificationSendingService.send *)

RequestBecomes(r, pc, targets) ==
  request' = [request EXCEPT ![r] = [pc |-> pc, devices |-> targets]]

(* The key's row answers; else the audience's live devices are read.       *)
Look(r) ==
  /\ request[r].pc = "new"
  /\ IF send.status # "Absent" THEN RequestBecomes(r, "replayed", {})
     ELSE IF ~enabled THEN RequestBecomes(r, "rejected", {})
     ELSE RequestBecomes(r, "resolved", live)
  /\ UNCHANGED <<rows, devices, message, handler, history>>

\* Mutant: the idempotency key is not unique.
KeyTaken_Never == FALSE

\* The unique index on the project's idempotency keys.
KeyTaken == send.status # "Absent"

(* Parent and children are inserted in one transaction; when a concurrent  *)
(* request inserted the key first, this one is a replay.                   *)
Persist(r) ==
  LET targets == request[r].devices
  IN  /\ request[r].pc = "resolved"
      /\ \/ /\ KeyTaken
            /\ RequestBecomes(r, "replayed", {})
            /\ UNCHANGED rows
         \/ /\ ~KeyTaken
            /\ send' = [send EXCEPT !.status = IF targets = {} THEN "NoRecipients" ELSE "Pending",
                                    !.done = targets = {}]
            /\ delivery' = [d \in Devices |->
                 IF d \in targets THEN [status |-> "Pending", attempts |-> 0, done |-> FALSE]
                 ELSE delivery[d]]
            /\ RequestBecomes(r, "persisted", targets)
      /\ UNCHANGED <<devices, message, handler, history>>

(* The rows are enqueued after the commit.                                 *)
Dispatch(r) ==
  /\ request[r].pc = "persisted"
  /\ message' = [d \in Devices |->
       IF d \in request[r].devices THEN [message[d] EXCEPT !.state = "ready"] ELSE message[d]]
  /\ RequestBecomes(r, "sent", {})
  /\ UNCHANGED <<rows, devices, handler, history>>

\* The dispatch fails: the rows stay without a message.
LoseDispatch(r) ==
  /\ request[r].pc = "persisted"
  /\ crashes < MaxCrashes
  /\ crashes' = crashes + 1
  /\ RequestBecomes(r, "failed", {})
  /\ UNCHANGED <<rows, devices, message, handler, accepted, missed>>

-----------------------------------------------------------------------------
(* The queue *)

Returned(m) ==
  [m EXCEPT !.holder = None, !.state = IF m.tries > MaxRetries THEN "dead" ELSE "ready"]

\* The messages after worker w failed on d, or ended well: who no longer
\* holds the message changes nothing.
Retried(d, w) ==
  IF message[d].holder = w THEN [message EXCEPT ![d] = Returned(@)] ELSE message
Acked(d, w) ==
  IF message[d].holder = w THEN [message EXCEPT ![d].state = "gone", ![d].holder = None]
  ELSE message

Goto(w, pc) == handler' = [handler EXCEPT ![w].pc = pc]
Starts(w, d, pc) == handler' = [handler EXCEPT ![w] = [Idle EXCEPT !.pc = pc, !.device = d]]
Ends(w) == handler' = [handler EXCEPT ![w] = Idle]

(* processDelivery begins with the attempt's clock.                        *)
Take(w, d) ==
  /\ handler[w].pc = "idle"
  /\ message[d].state = "ready"
  /\ message' = [message EXCEPT ![d].state = "held", ![d].tries = @ + 1, ![d].holder = w]
  /\ Starts(w, d, "claim")
  /\ UNCHANGED <<rows, devices, request, history>>

(* The dead-letter queue hands the message to markExhausted.               *)
TakeDead(w, d) ==
  /\ handler[w].pc = "idle"
  /\ message[d].state = "dead" /\ message[d].holder = None
  /\ message' = [message EXCEPT ![d].holder = w]
  /\ Starts(w, d, "exhaust")
  /\ UNCHANGED <<rows, devices, request, history>>

(* A handler takes too long: the queue hands the message out again while   *)
(* the handler goes on.                                                    *)
Overdue(d) ==
  /\ message[d].state = "held"
  /\ message' = [message EXCEPT ![d] = Returned(@)]
  /\ UNCHANGED <<rows, devices, handler, request, history>>

-----------------------------------------------------------------------------
(* PushDeliveryService.processDelivery *)

\* Mutant: the claim forgets that a row may be in progress.
Claimable_InProgress(row) == row.status \in {"Pending", "Failed", "InProgress"} /\ ~row.done

\* Mutant: the claim does not look at the completion date.
Claimable_Completed(row) == row.status \in {"Pending", "Failed"}

(* The compare-and-set of the claim.                                       *)
Claimable(row) == row.status \in {"Pending", "Failed"} /\ ~row.done

Claim(w) ==
  LET d == handler[w].device
  IN  /\ handler[w].pc = "claim"
      /\ IF Claimable(delivery[d])
         THEN /\ delivery' = [delivery EXCEPT ![d].status = "InProgress", ![d].attempts = @ + 1]
              /\ handler' = [handler EXCEPT ![w].pc = "deliver",
                                            ![w].number = delivery[d].attempts + 1]
         ELSE Goto(w, "lost") /\ UNCHANGED delivery
      /\ UNCHANGED <<send, devices, message, request, history>>

\* Mutant: a claim in progress is acknowledged like a finished delivery.
Acknowledges_InProgress(row) == TRUE

(* Who lost the claim reads the row again: a finished delivery is          *)
(* acknowledged, one in progress fails so that the queue retries it.       *)
Acknowledges(row) == row.done \/ row.status \in {"Succeeded", "Exhausted"}

Lose(w) ==
  LET d == handler[w].device
  IN  /\ handler[w].pc = "lost"
      /\ message' = IF Acknowledges(delivery[d]) THEN Acked(d, w) ELSE Retried(d, w)
      /\ Ends(w)
      /\ UNCHANGED <<rows, devices, request, history>>

(* The device and the configuration are read again, then the provider is   *)
(* called.                                                                 *)
Deliver(w) ==
  LET d == handler[w].device
  IN  /\ handler[w].pc = "deliver"
      /\ \E answer \in IF d \in live /\ enabled THEN Answers ELSE {"hopeless"} :
           /\ handler' = [handler EXCEPT ![w].pc = "settle", ![w].outcome = answer]
           /\ accepted' = [accepted EXCEPT
                ![d] = IF answer = "accepted" /\ @ < 2 THEN @ + 1 ELSE @]
      /\ UNCHANGED <<rows, devices, message, request, missed, crashes>>

\* Mutant: one attempt too many.
Retries_OffByOne(h) == h.outcome = "retryable" /\ h.number <= MaxAttempts

(* A retryable answer is retried while the row has attempts left.          *)
Retries(h) == h.outcome = "retryable" /\ h.number < MaxAttempts

Verdict(h) ==
  CASE h.outcome = "accepted" -> "Succeeded"
    [] h.outcome \in {"unregistered", "unroutable"} \/ Retries(h) -> "Failed"
    [] OTHER -> "Exhausted"

(* The attempt is logged and the row updated by its id: finalizeDelivery   *)
(* stamps completedAt, scheduleRetry leaves it as it is.                   *)
Settle(w) ==
  LET h == handler[w]
  IN  /\ h.pc = "settle"
      /\ delivery' = [delivery EXCEPT ![h.device].status = Verdict(h),
                                      ![h.device].done = @ \/ ~Retries(h)]
      /\ handler' = [handler EXCEPT
           ![w] = IF h.outcome = "unregistered"
                  THEN [Idle EXCEPT !.pc = "gate", !.device = h.device, !.renewed = h.renewed]
                  ELSE [Idle EXCEPT !.pc = "tally", !.device = h.device, !.retry = Retries(h)]]
      /\ UNCHANGED <<send, devices, message, request, history>>

(* NotificationTokenService.invalidate reads the device: a registration    *)
(* after the attempt's clock spares it.  The update that follows is by id. *)
Gate(w) ==
  /\ handler[w].pc = "gate"
  /\ handler' = [handler EXCEPT ![w].renewed = FALSE,
       ![w].pc = IF handler[w].renewed THEN "tally" ELSE "invalidate"]
  /\ UNCHANGED <<rows, devices, message, request, history>>

Invalidate(w) ==
  /\ handler[w].pc = "invalidate"
  /\ live' = live \ {handler[w].device}
  /\ Goto(w, "tally")
  /\ UNCHANGED <<rows, enabled, changes, message, request, history>>

(* markExhausted settles a row that is still open.                         *)
MarkExhausted(w) ==
  LET d == handler[w].device
  IN  /\ handler[w].pc = "exhaust"
      /\ IF delivery[d].done
         THEN Ends(w) /\ message' = Acked(d, w) /\ UNCHANGED delivery
         ELSE /\ delivery' = [delivery EXCEPT ![d].status = "Exhausted", ![d].done = TRUE]
              /\ Goto(w, "tally")
              /\ UNCHANGED message
      /\ UNCHANGED <<send, devices, request, history>>

-----------------------------------------------------------------------------
(* rollupParentSend: the children are read and counted, then the parent is *)
(* overwritten with what was counted.                                      *)

Settled(row) ==
  \/ row.status \in {"Succeeded", "Exhausted"}
  \/ row.status = "Failed" /\ row.done

Children == {d \in Devices : delivery[d].status # "Absent"}

Tallies ==
  LET succeeded == {d \in Children : delivery[d].status = "Succeeded"}
      settled == {d \in Children : Settled(delivery[d])}
  IN  [succeeded |-> Cardinality(succeeded), failed |-> Cardinality(settled \ succeeded),
       inFlight |-> Cardinality(Children \ settled)]

Tally(w) ==
  /\ handler[w].pc = "tally"
  /\ handler' = [handler EXCEPT ![w].pc = "rollup", ![w].seen = Tallies]
  /\ UNCHANGED <<rows, devices, message, request, history>>

RolledUp(t) ==
  CASE t.succeeded + t.failed + t.inFlight = 0 -> "NoRecipients"
    [] t.inFlight > 0 -> "InProgress"
    [] t.inFlight = 0 /\ t.failed = 0 /\ t.succeeded > 0 -> "Succeeded"
    [] t.inFlight = 0 /\ t.succeeded = 0 /\ t.failed > 0 -> "Failed"
    [] OTHER -> "PartialFailed"

\* Mutant: the completion date is not written.
Shown_NeverDone(t) ==
  [send EXCEPT !.status = RolledUp(t), !.succeeded = t.succeeded, !.failed = t.failed]

Shown(t) ==
  [send EXCEPT !.status = RolledUp(t), !.succeeded = t.succeeded, !.failed = t.failed,
               !.done = @ \/ t.inFlight = 0]

(* The handler ends.  An error returns the message, and so does an error   *)
(* of another message of its batch.                                        *)
RollUp(w) ==
  LET h == handler[w]
  IN  /\ h.pc = "rollup"
      /\ send' = Shown(h.seen)
      /\ missed' = (h.seen # Tallies)
      /\ \/ message' = Retried(h.device, w)
         \/ message' = Acked(h.device, w) /\ ~h.retry
      /\ Ends(w)
      /\ UNCHANGED <<delivery, devices, request, accepted, crashes>>

-----------------------------------------------------------------------------
(* The environment *)

\* The row has changed and the parent does not show it yet.
OwesRollUp(w) == handler[w].pc \in {"gate", "invalidate", "tally", "rollup"}

(* A statement fails or the isolate dies: the queue hands the message out  *)
(* again, a dead letter included.                                          *)
Crash(w) ==
  /\ handler[w].pc # "idle"
  /\ crashes < MaxCrashes
  /\ crashes' = crashes + 1
  /\ missed' = (missed \/ OwesRollUp(w))
  /\ message' = Retried(handler[w].device, w)
  /\ Ends(w)
  /\ UNCHANGED <<rows, devices, request, accepted>>

Change == changes < MaxChanges /\ changes' = changes + 1

\* Handlers of d that have yet to compare the device's date with their clock.
BeforeGate(w, d) ==
  handler[w].device = d /\ handler[w].pc \in {"claim", "deliver", "settle", "gate"}

(* The device's date is set to now, which may be the millisecond that a    *)
(* handler's clock shows.                                                  *)
Dated(d) ==
  \E later \in SUBSET {w \in Workers : BeforeGate(w, d)} :
    handler' = [w \in Workers |->
      IF w \in later THEN [handler[w] EXCEPT !.renewed = TRUE] ELSE handler[w]]

Register(d) ==
  /\ Change
  /\ live' = live \cup {d} /\ Dated(d)
  /\ UNCHANGED <<rows, enabled, message, request, history>>

(* A new platform token under the same id; an invalidated device is not    *)
(* revived.                                                                *)
Refresh(d) ==
  /\ Change
  /\ Dated(d)
  /\ UNCHANGED <<rows, live, enabled, message, request, history>>

(* The last owner unregisters the device, or its person is deleted.        *)
Unregister(d) ==
  /\ Change
  /\ live' = live \ {d} /\ Dated(d)
  /\ UNCHANGED <<rows, enabled, message, request, history>>

Configure ==
  /\ Change
  /\ enabled' = ~enabled
  /\ UNCHANGED <<rows, live, message, handler, request, history>>

Handle(w) ==
  \/ Claim(w) \/ Lose(w) \/ Deliver(w) \/ Settle(w) \/ Gate(w) \/ Invalidate(w)
  \/ MarkExhausted(w) \/ Tally(w) \/ RollUp(w)

Queue == \E w \in Workers, d \in Devices : Take(w, d) \/ TakeDead(w, d)

Next ==
  \/ \E r \in Requests : Look(r) \/ Persist(r) \/ Dispatch(r) \/ LoseDispatch(r)
  \/ Queue
  \/ \E w \in Workers : Handle(w) \/ Crash(w)
  \/ \E d \in Devices : Overdue(d) \/ Register(d) \/ Refresh(d) \/ Unregister(d)
  \/ Configure

Spec == Init /\ [][Next]_vars

(* Handlers end or are killed, the queue keeps delivering what is waiting, *)
(* and a request goes on to its dispatch unless that fails.                *)
Fairness ==
  /\ WF_vars(Queue)
  /\ \A w \in Workers : WF_vars(Handle(w))
  /\ \A r \in Requests : WF_vars(Dispatch(r))

FairSpec == Spec /\ Fairness

-----------------------------------------------------------------------------
(* Every variable holds values of its columns; in particular no row counts *)
(* more attempts than its budget.                                          *)
TypeOK ==
  /\ send \in SendType
  /\ delivery \in [Devices -> DeliveryType]
  /\ live \subseteq Devices
  /\ enabled \in BOOLEAN /\ missed \in BOOLEAN
  /\ message \in [Devices -> MessageType]
  /\ handler \in [Workers -> HandlerType]
  /\ request \in [Requests -> RequestType]
  /\ accepted \in [Devices -> 0..2]
  /\ crashes \in 0..MaxCrashes
  /\ changes \in 0..MaxChanges

Claimed(w) == handler[w].pc \in {"deliver", "settle"}

(* At most one handler is between its claim and its verdict on a delivery, *)
(* however often the queue repeats the message and whoever died before.    *)
OneClaimant ==
  \A v, w \in Workers :
    Claimed(v) /\ Claimed(w) /\ handler[v].device = handler[w].device => v = w

(* The provider accepts a delivery at most once, and a row that says       *)
(* Succeeded was accepted.                                                 *)
AcceptedOnce ==
  \A d \in Devices :
    /\ accepted[d] <= 1
    /\ delivery[d].status = "Succeeded" => accepted[d] = 1

(* A completed delivery stays completed and is not attempted again, also   *)
(* when a handler that was given up for dead settles it once more.         *)
FinishedStays ==
  [][\A d \in Devices : delivery[d].done =>
       delivery'[d].done /\ delivery'[d].attempts = delivery[d].attempts]_vars

(* A parent is completed only when every delivery is settled for good, in  *)
(* every behaviour.  Once no roll-up is on its way it shows the deliveries *)
(* as they are, except after a roll-up that was lost or that read old      *)
(* rows.                                                                   *)
ParentTells ==
  /\ send.done => \A d \in Children : delivery[d].done
  /\ (send.status # "Absent" /\ ~missed /\ \A w \in Workers : ~OwesRollUp(w)) =>
       /\ send.succeeded = Tallies.succeeded
       /\ send.failed = Tallies.failed
       /\ \/ send.status = RolledUp(Tallies)
          \/ send.status = "Pending" /\ Tallies.inFlight > 0
       /\ send.done <=> Tallies.inFlight = 0

(* Requests with one idempotency key create one send, also when all of     *)
(* them found no row.                                                      *)
OneSendPerKey ==
  Cardinality({r \in Requests : request[r].pc \in {"persisted", "sent", "failed"}}) <= 1

(* Every delivery of a send is settled in the end unless the dispatch of   *)
(* the send failed: a handler that dies with the claim leaves the row      *)
(* InProgress, the retries find it so until the dead-letter handler        *)
(* exhausts it.                                                            *)
DispatchFailed == \E r \in Requests : request[r].pc = "failed"

EveryDeliverySettles ==
  \A d \in Devices :
    delivery[d].status # "Absent" ~> delivery[d].done \/ DispatchFailed

=============================================================================
