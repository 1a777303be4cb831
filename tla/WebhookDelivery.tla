--------------------------- MODULE WebhookDelivery ---------------------------
(***************************************************************************)
(* Outbound webhooks of one endpoint: delivery rows written as an outbox,  *)
(* the durable DeliverWebhook workflow that drives them through their      *)
(* attempts, the periodic sweep that re-dispatches stalled rows, a         *)
(* person's manual retry, and the endpoint's status and failure counter.   *)
(* Endpoints do not share state, so one is enough.                         *)
(*                                                                         *)
(* Instances.  The runner keys an instance by (deliveryId, dispatched      *)
(* attempt number) and an id runs at most once, whatever became of it.     *)
(* instance[d][n] is that instance; its own attempt counts on from n.  A   *)
(* step is executed again when it fails before its result is persisted.    *)
(*                                                                         *)
(* Time.  age saturates at StaleAfter; due is nextAttemptAt minus now,     *)
(* kept down to -StaleAfter, and 0 for null.  Nothing reads them beyond.   *)
(***************************************************************************)
EXTENDS Integers, FiniteSets

CONSTANTS
  Deliveries,   \* webhook_delivery rows of the endpoint
  MaxAttempts,  \* length of RETRY_DELAYS_SECONDS
  Delays,       \* RETRY_DELAYS_SECONDS, in ticks
  MaxDelay,     \* the longest of them
  StaleAfter,   \* STALE_AFTER of the sweep, in ticks
  SweepBatch,   \* SWEEP_BATCH_SIZE
  Threshold,    \* AUTO_DISABLE_CONSECUTIVE_FAILURES
  MaxRetries,   \* bound: manual retries of a delivery
  MaxFaults     \* bound: lost dispatches, failed steps and failed instances

ASSUME WebhookAssumption ==
  /\ MaxAttempts \in Nat \ {0}
  /\ MaxDelay \in Nat
  /\ Delays \in [1..MaxAttempts -> 0..MaxDelay]
  /\ StaleAfter \in Nat
  /\ SweepBatch \in Nat
  /\ Threshold \in Nat \ {0}
  /\ MaxRetries \in Nat
  /\ MaxFaults \in Nat

VARIABLES
  endpoint,  \* the webhook_endpoint row: status and consecutiveFailures
  delivery,  \* the webhook_delivery table
  log,       \* webhook_delivery_attempt: <<attempt, succeeded>> of each row
  instance,  \* workflow instances, by the attempt they were dispatched for
  inbox,     \* dispatches on their way to the runner
  retrying,  \* manual retries between their read and their update
  retries,   \* manual retries made so far
  acked,     \* attempts the receiver answered with a 2xx
  faults     \* faults so far

vars == <<endpoint, delivery, log, instance, inbox, retrying, retries, acked, faults>>

Numbers == 1..(MaxAttempts + MaxRetries)
Running == {"load", "post", "record", "mark", "count", "disable", "settled", "sleep"}
Ended == {"done", "skipped", "errored"}

EndpointType == [status: {"Active", "Disabled", "Failed", "Deleted"},
                 failures: 0..Threshold]
DeliveryType ==
  [status: {"Absent", "Pending", "InProgress", "Succeeded", "Failed", "Exhausted"},
   attempts: {0} \cup Numbers, age: 0..StaleAfter, due: (-StaleAfter)..MaxDelay]
InstanceType == [pc: {"none"} \cup Running \cup Ended, attempt: {0} \cup Numbers,
                 ok: BOOLEAN, wait: 0..MaxDelay]

TypeOK ==
  /\ endpoint \in EndpointType
  /\ delivery \in [Deliveries -> DeliveryType]
  /\ log \in [Deliveries -> SUBSET (Numbers \X BOOLEAN)]
  /\ instance \in [Deliveries -> [Numbers -> InstanceType]]
  /\ inbox \subseteq Deliveries \X Numbers
  /\ retrying \subseteq Deliveries \X Numbers
  /\ retries \in [Deliveries -> 0..MaxRetries]
  /\ acked \in [Deliveries -> SUBSET Numbers]
  /\ faults \in 0..MaxFaults

NoInstance == [pc |-> "none", attempt |-> 0, ok |-> FALSE, wait |-> 0]
Over(pc) == [NoInstance EXCEPT !.pc = pc]  \* nothing reads an ended instance

Init ==
  /\ endpoint = [status |-> "Active", failures |-> 0]
  /\ delivery = [d \in Deliveries |->
                   [status |-> "Absent", attempts |-> 0, age |-> 0, due |-> 0]]
  /\ log = [d \in Deliveries |-> {}]
  /\ instance = [d \in Deliveries |-> [n \in Numbers |-> NoInstance]]
  /\ inbox = {}
  /\ retrying = {}
  /\ retries = [d \in Deliveries |-> 0]
  /\ acked = [d \in Deliveries |-> {}]
  /\ faults = 0

retryVars == <<retrying, retries>>
historyVars == <<log, acked>>

-----------------------------------------------------------------------------
(* Producers.  The row commits first; its dispatch is a detached fiber.    *)

Insert(d) ==
  /\ delivery[d].status = "Absent"
  /\ delivery' = [delivery EXCEPT ![d].status = "Pending"]
  /\ inbox' = inbox \cup {<<d, 1>>}
  /\ UNCHANGED <<endpoint, instance, faults>>
  /\ UNCHANGED retryVars
  /\ UNCHANGED historyVars

(* WebhookDispatchService.stage and dispatch: only active endpoints.       *)
Emit(d) == endpoint.status = "Active" /\ Insert(d)

(* WebhookManagerService.testEndpoint: any endpoint that exists.           *)
TestEndpoint(d) == endpoint.status # "Deleted" /\ Insert(d)

-----------------------------------------------------------------------------
(* The runner *)

Key(n) == n

(* dispatch: create the instance, or join the one that has the id.         *)
Dispatch(d, n) ==
  /\ <<d, n>> \in inbox
  /\ inbox' = inbox \ {<<d, n>>}
  /\ instance' = IF instance[d][Key(n)].pc = "none"
                 THEN [instance EXCEPT ![d][Key(n)].pc = "load",
                                       ![d][Key(n)].attempt = n]
                 ELSE instance
  /\ UNCHANGED <<endpoint, delivery, faults>>
  /\ UNCHANGED retryVars
  /\ UNCHANGED historyVars

Fault == faults < MaxFaults /\ faults' = faults + 1

(* The isolate dies with the detached fiber, or the dispatch call fails.   *)
LoseDispatch(d, n) ==
  /\ <<d, n>> \in inbox
  /\ Fault
  /\ inbox' = inbox \ {<<d, n>>}
  /\ UNCHANGED <<endpoint, delivery, instance>>
  /\ UNCHANGED retryVars
  /\ UNCHANGED historyVars

(* A step fails, or its result is not persisted: it is executed again.     *)
Restart(pc) == CASE pc \in {"post", "record"} -> "load"
                 [] pc \in {"count", "disable", "settled"} -> "mark"

RetryStep(d, n) ==
  /\ instance[d][n].pc \in {"post", "record", "count", "disable", "settled"}
  /\ Fault
  /\ instance' = [instance EXCEPT ![d][n].pc = Restart(@)]
  /\ UNCHANGED <<endpoint, delivery, inbox>>
  /\ UNCHANGED retryVars
  /\ UNCHANGED historyVars

(* A step runs out of retries: the instance fails for good.                *)
FailInstance(d, n) ==
  /\ instance[d][n].pc \in Running \ {"sleep"}
  /\ Fault
  /\ instance' = [instance EXCEPT ![d][n] = Over("errored")]
  /\ UNCHANGED <<endpoint, delivery, inbox>>
  /\ UNCHANGED retryVars
  /\ UNCHANGED historyVars

-----------------------------------------------------------------------------
(* The DeliverWebhook workflow *)

At(d, n, pc) == instance[d][n].pc = pc
Goto(d, n, pc) == instance' = [instance EXCEPT ![d][n].pc = pc]

(* send, first half: the endpoint row is read again for every attempt.     *)
Load(d, n) ==
  /\ At(d, n, "load")
  /\ IF endpoint.status = "Active" THEN Goto(d, n, "post")
     ELSE instance' = [instance EXCEPT ![d][n] = Over("skipped")]
  /\ UNCHANGED <<endpoint, delivery, inbox, faults>>
  /\ UNCHANGED retryVars
  /\ UNCHANGED historyVars

(* send, second half: the receiver answers a 2xx or it does not; an answer *)
(* lost on the way counts as a failure.                                    *)
Post(d, n, accepted, ok) ==
  /\ At(d, n, "post")
  /\ ok => accepted
  /\ acked' = IF accepted
              THEN [acked EXCEPT ![d] = @ \cup {instance[d][n].attempt}]
              ELSE acked
  /\ instance' = [instance EXCEPT ![d][n].pc = "record", ![d][n].ok = ok]
  /\ UNCHANGED <<endpoint, delivery, log, inbox, faults>>
  /\ UNCHANGED retryVars

(* recordAttempt.  Executed twice it leaves two rows with one content.     *)
Record(d, n) ==
  /\ At(d, n, "record")
  /\ log' = [log EXCEPT ![d] = @ \cup {<<instance[d][n].attempt, instance[d][n].ok>>}]
  /\ Goto(d, n, "mark")
  /\ UNCHANGED <<endpoint, delivery, inbox, acked, faults>>
  /\ UNCHANGED retryVars

\* Mutant: the schedule ends one attempt early.
HasRetry_OffByOne(attempt) == attempt + 1 < MaxAttempts

(* nextWebhookDeliveryRetryTime(attempt + 1) is Some.                      *)
HasRetry(attempt) == attempt + 1 <= MaxAttempts

RetryDelay(attempt) == Delays[attempt + 1]

\* Mutant: any answer at all marks the delivery succeeded.
MarkedRow_AnyAnswer(row, attempt, ok) ==
  [row EXCEPT !.status = "Succeeded", !.attempts = attempt, !.due = 0]

(* First update of markSucceeded, markFailed and markExhausted: by id,     *)
(* whatever the row has become.                                            *)
MarkedRow(row, attempt, ok) ==
  IF ok THEN [row EXCEPT !.status = "Succeeded", !.attempts = attempt, !.due = 0]
  ELSE IF HasRetry(attempt)
  THEN [row EXCEPT !.status = "Failed", !.attempts = attempt,
                   !.due = RetryDelay(attempt)]
  ELSE [row EXCEPT !.status = "Exhausted", !.attempts = attempt, !.due = 0]

Mark(d, n) ==
  LET i == instance[d][n] IN
  /\ At(d, n, "mark")
  /\ delivery' = [delivery EXCEPT ![d] = MarkedRow(@, i.attempt, i.ok)]
  /\ instance' = [instance EXCEPT
       ![d][n].pc = "count",
       ![d][n].wait = IF ~i.ok /\ HasRetry(i.attempt) THEN RetryDelay(i.attempt) ELSE 0]
  /\ UNCHANGED <<endpoint, inbox, faults>>
  /\ UNCHANGED retryVars
  /\ UNCHANGED historyVars

\* Mutant: the endpoint is stopped one failure late.
TooMany_OffByOne(failures) == failures > Threshold

TooMany(failures) == failures >= Threshold

(* Their second update: the endpoint's counter, saturated at Threshold.    *)
Count(d, n) ==
  LET raised == IF endpoint.failures < Threshold THEN endpoint.failures + 1
                                                  ELSE Threshold
      failures == IF instance[d][n].ok THEN 0 ELSE raised IN
  /\ At(d, n, "count")
  /\ IF endpoint.status = "Deleted"
     THEN UNCHANGED endpoint /\ Goto(d, n, "settled")
     ELSE /\ endpoint' = [endpoint EXCEPT !.failures = failures]
          /\ Goto(d, n, IF TooMany(failures) THEN "disable" ELSE "settled")
  /\ UNCHANGED <<delivery, inbox, faults>>
  /\ UNCHANGED retryVars
  /\ UNCHANGED historyVars

(* recordEndpointFailure's last update: an active endpoint becomes Failed. *)
Disable(d, n) ==
  /\ At(d, n, "disable")
  /\ endpoint' = IF endpoint.status = "Active"
                 THEN [endpoint EXCEPT !.status = "Failed"] ELSE endpoint
  /\ Goto(d, n, "settled")
  /\ UNCHANGED <<delivery, inbox, faults>>
  /\ UNCHANGED retryVars
  /\ UNCHANGED historyVars

(* The mark step is persisted: the workflow ends or sleeps.                *)
Leave(d, n) ==
  /\ At(d, n, "settled")
  /\ IF instance[d][n].ok \/ ~HasRetry(instance[d][n].attempt)
     THEN instance' = [instance EXCEPT ![d][n] = Over("done")]
     ELSE Goto(d, n, "sleep")
  /\ UNCHANGED <<endpoint, delivery, inbox, faults>>
  /\ UNCHANGED retryVars
  /\ UNCHANGED historyVars

(* sleepUntil returns, on time or late, and the next attempt begins.       *)
Wake(d, n) ==
  /\ At(d, n, "sleep")
  /\ instance[d][n].wait = 0
  /\ instance' = [instance EXCEPT ![d][n].pc = "load", ![d][n].attempt = @ + 1]
  /\ UNCHANGED <<endpoint, delivery, inbox, faults>>
  /\ UNCHANGED retryVars
  /\ UNCHANGED historyVars

-----------------------------------------------------------------------------
(* WebhookDeliverySweep *)

NextNumber(row) == row.attempts + 1

\* Mutant: the status filter is dropped.
Stalled_AnyStatus(row) == row.status \notin {"Absent", "Succeeded"} /\ row.age = StaleAfter

\* Mutant: rows that a manual retry left in progress are not drained.
Stalled_NotRetried(row) ==
  \/ row.status = "Pending" /\ row.age = StaleAfter
  \/ row.status = "Failed" /\ row.due = -StaleAfter

Stalled(row) ==
  \/ row.status \in {"Pending", "InProgress"} /\ row.age = StaleAfter
  \/ row.status = "Failed" /\ row.due = -StaleAfter

(* The candidates are cut at SweepBatch in no particular order.            *)
Sweep ==
  /\ endpoint.status = "Active"
  /\ LET stalled == {d \in Deliveries : Stalled(delivery[d])} IN
     \E S \in SUBSET stalled :
       /\ Cardinality(S) <= SweepBatch
       /\ S = stalled \/ Cardinality(S) = SweepBatch
       /\ inbox' = inbox \cup {<<d, NextNumber(delivery[d])>> : d \in S}
  /\ UNCHANGED <<endpoint, delivery, instance, faults>>
  /\ UNCHANGED retryVars
  /\ UNCHANGED historyVars

-----------------------------------------------------------------------------
(* WebhookManagerService *)

Retryable(row) == row.status \in {"Failed", "Exhausted"}

(* retryDelivery reads the row and its endpoint ...                        *)
BeginRetry(d) ==
  /\ Retryable(delivery[d])
  /\ endpoint.status # "Deleted"
  /\ retries[d] + Cardinality({p \in retrying : p[1] = d}) < MaxRetries
  /\ retrying' = retrying \cup {<<d, NextNumber(delivery[d])>>}
  /\ UNCHANGED <<endpoint, delivery, instance, inbox, retries, faults>>
  /\ UNCHANGED historyVars

(* ... and updates the row by id and forks a dispatch.                     *)
FinishRetry(d, n) ==
  /\ <<d, n>> \in retrying
  /\ retrying' = retrying \ {<<d, n>>}
  /\ retries' = [retries EXCEPT ![d] = @ + 1]
  /\ delivery' = [delivery EXCEPT ![d].status = "InProgress", ![d].due = 0]
  /\ inbox' = inbox \cup {<<d, n>>}
  /\ UNCHANGED <<endpoint, instance, faults>>
  /\ UNCHANGED historyVars

(* updateEndpoint with status "active" or "disabled"; deleteEndpoint.      *)
SetEndpoint(row) ==
  /\ endpoint.status # "Deleted"
  /\ endpoint' = row
  /\ UNCHANGED <<delivery, instance, inbox, faults>>
  /\ UNCHANGED retryVars
  /\ UNCHANGED historyVars

Enable == SetEndpoint([status |-> "Active", failures |-> 0])
Suspend == SetEndpoint([endpoint EXCEPT !.status = "Disabled"])
DeleteEndpoint == SetEndpoint([status |-> "Deleted", failures |-> 0])

-----------------------------------------------------------------------------
Older(row) ==
  [row EXCEPT !.age = IF row.status # "Absent" /\ @ < StaleAfter THEN @ + 1 ELSE @,
              !.due = IF row.status = "Failed" /\ @ > -StaleAfter THEN @ - 1 ELSE @]

Tick ==
  /\ delivery' = [d \in Deliveries |-> Older(delivery[d])]
  /\ instance' = [d \in Deliveries |-> [n \in Numbers |->
       [instance[d][n] EXCEPT !.wait = IF @ > 0 THEN @ - 1 ELSE @]]]
  /\ UNCHANGED <<endpoint, inbox, faults>>
  /\ UNCHANGED retryVars
  /\ UNCHANGED historyVars

Run(d, n) ==
  \/ Load(d, n)
  \/ \E accepted, ok \in BOOLEAN : Post(d, n, accepted, ok)
  \/ Record(d, n) \/ Mark(d, n) \/ Count(d, n) \/ Disable(d, n)
  \/ Leave(d, n) \/ Wake(d, n)

Next ==
  \/ \E d \in Deliveries : Emit(d) \/ TestEndpoint(d) \/ BeginRetry(d)
  \/ \E d \in Deliveries, n \in Numbers :
       \/ Dispatch(d, n) \/ LoseDispatch(d, n)
       \/ Run(d, n) \/ RetryStep(d, n) \/ FailInstance(d, n)
       \/ FinishRetry(d, n)
  \/ Sweep
  \/ Enable \/ Suspend \/ DeleteEndpoint
  \/ Tick

Spec == Init /\ [][Next]_vars

-----------------------------------------------------------------------------
(* Safety *)

(* Succeeded is never claimed in vain: the receiver answered the attempt   *)
(* the row shows with a 2xx, and that attempt is in the delivery's log,    *)
(* whatever retries, sweeps and parallel instances wrote to the row.       *)
SucceededIsAcknowledged ==
  \A d \in Deliveries :
    delivery[d].status = "Succeeded" =>
      /\ delivery[d].attempts \in acked[d]
      /\ <<delivery[d].attempts, TRUE>> \in log[d]

(* A delivery is given up only after its schedule is used up: the last     *)
(* attempt it shows failed, is logged, and is at least the last scheduled. *)
ExhaustedIsSpent ==
  \A d \in Deliveries :
    delivery[d].status = "Exhausted" =>
      /\ delivery[d].attempts >= MaxAttempts
      /\ <<delivery[d].attempts, FALSE>> \in log[d]

(* The schedule is the ceiling: only a person's retry takes a delivery     *)
(* beyond MaxAttempts, by one attempt per retry, however often the sweep   *)
(* and slow instances race each other in between.                          *)
AttemptsAreBounded ==
  \A d \in Deliveries : delivery[d].attempts <= MaxAttempts + retries[d]

Live(d, n) == instance[d][n].pc \in Running

(* A delivery without an attempt on record is driven by one instance at    *)
(* most: a duplicate dispatch of the first attempt joins it.               *)
PendingHasOneDriver ==
  \A d \in Deliveries :
    delivery[d].status = "Pending" =>
      \A m, n \in Numbers : Live(d, m) /\ Live(d, n) => m = n

(* An endpoint that reached the threshold does not stay active unless a    *)
(* fault interrupts the instance that is about to stop it.                 *)
FailingEndpointIsStopped ==
  endpoint.status = "Active" /\ endpoint.failures = Threshold /\ faults = 0
    => \E d \in Deliveries, n \in Numbers : At(d, n, "disable")

-----------------------------------------------------------------------------
(* Liveness *)

(* The runner starts what it accepted and keeps running instances, wakes   *)
(* sleepers, and the cron keeps sweeping.                                  *)
Fairness ==
  /\ WF_vars(Tick) /\ WF_vars(Sweep)
  /\ \A d \in Deliveries, n \in Numbers :
       /\ WF_vars(Dispatch(d, n) \/ LoseDispatch(d, n))
       /\ WF_vars(Run(d, n))
       /\ WF_vars(FinishRetry(d, n))

FairSpec == Spec /\ Fairness

Settles ==
  \A d \in Deliveries :
    delivery[d].status # "Absent"
      ~> delivery[d].status \in {"Succeeded", "Exhausted"}

NeverFailed(d) == \A n \in Numbers : instance[d][n].pc # "errored"

(* While the endpoint stays active and no instance fails for good, every   *)
(* delivery ends Succeeded or Exhausted: lost dispatches, repeated steps   *)
(* and a manual retry delay it, the sweep finds it again.                  *)
SettlesWhileActive ==
  []( /\ endpoint.status = "Active"
      /\ \A d \in Deliveries : NeverFailed(d) /\ retries[d] <= 1 ) => Settles

-----------------------------------------------------------------------------
(* What the comments and messages of the code say, and the code does not   *)

(* "The delivery row is left as-is: the sweep only picks up deliveries of  *)
(* `Active` endpoints, so it resumes if the endpoint is re-enabled."       *)
ResumesWhenEnabled ==
  /\ []\A d \in Deliveries : NeverFailed(d)
  /\ <>[](endpoint.status = "Active")
  => Settles

=============================================================================
