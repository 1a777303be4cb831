------------------------- MODULE ParkedNotifications -------------------------
(***************************************************************************)
(* Store notifications that arrive before what they refer to: before the   *)
(* product is mapped, before the transaction they refund, or, for an App   *)
(* Store configuration that tracks only purchases its SDK has confirmed,   *)
(* before that confirmation.  They are acknowledged and parked in the      *)
(* notification table, replayed when the mapping or the confirmation       *)
(* appears, retried by a sweep every five minutes and expired when they    *)
(* are too old or have failed too often.                                   *)
(*                                                                         *)
(* The events of one configuration are numbered by the time at which they  *)
(* occurred.  A purchase names the product; a dependent event refers to    *)
(* the purchase Original says.  For Stripe a dependent event is a refund   *)
(* or a dispute; for the App Store a purchase is a report of the SDK and   *)
(* its dependent events are the store's notifications of that series.      *)
(*                                                                         *)
(* Looking up what an event needs and committing it is one step when it is *)
(* there: the purchase core checks the key and the row again.  When it is  *)
(* not there, inserting the parked row, or counting the attempt, is a step *)
(* of its own.  There is one request at a time for each event: two would   *)
(* meet at the purchase core's key and at the row's unique index.          *)
(***************************************************************************)
EXTENDS Integers, FiniteSets

CONSTANTS
  Providers,    \* the kinds of configuration considered: stripe, app-store
  Events,       \* numbers, in the order in which the events occurred
  Original,     \* dependent event -> its purchase
  Sweeps,       \* concurrent runs of the sweep
  Workflows,    \* concurrent replay workflows
  MaxAttempts,  \* PARKED_MAX_ATTEMPTS
  MaxChanges,   \* bound: activations and deactivations of the mapping
  MaxFaults,    \* bound: failed or killed requests, replays and runs
  MaxAged       \* bound: events that are parked for more than 90 days

Dependents == DOMAIN Original
Purchases == Events \ Dependents
Runs == Sweeps \cup Workflows

ASSUME ParkedAssumption ==
  /\ Providers \subseteq {"stripe", "app-store"}
  /\ Events \subseteq Nat \ {0} /\ IsFiniteSet(Events)
  /\ Dependents \subseteq Events
  /\ \A e \in Dependents : Original[e] \in Purchases
  /\ MaxAttempts \in Nat \ {0}
  /\ MaxChanges \in Nat /\ MaxFaults \in Nat /\ MaxAged \in Nat

VARIABLES
  provider,  \* the configuration's provider
  mapped,    \* the product has an active mapping
  row,       \* payment_provider_notification_processed, by event
  recorded,  \* events the purchase core has committed
  acked,     \* events the sender was told are accepted
  due,       \* replay workflows dispatched and not started
  aged,      \* events parked for more than 90 days
  request,   \* what the request that delivers each event is doing
  run,       \* what each replay workflow or sweep is doing
  changes, faults  \* counts of what is bounded

counts == <<changes, faults>>
vars == <<provider, mapped, row, recorded, acked, due, aged, request, run, counts>>

\* The replay workflow of the product's mapping.
Mapping == 0

\* Replay workflows: that of the mapping, and one per purchase of an SDK.
Jobs == {Mapping} \cup Purchases
ParkedResults == {"parked_mapping", "parked_transaction", "parked_sdk"}

\* "none": no row.  Attempts are counted up to the cap.
RowType == [result: ParkedResults \cup {"none", "applied", "expired"}, attempts: 0..MaxAttempts]
\* reason: what it found missing.
RequestType == [pc: {"idle", "gate", "record", "park", "note"}, reason: ParkedResults]
\* job: the workflow that runs, or {} for a sweep.  wave: purchases whose
\* dependent events are replayed next.
RunType == [pc: {"idle", "find", "replay", "mark"}, job: SUBSET Jobs,
            stage: {"product", "dependents"}, todo: SUBSET Events, applied: BOOLEAN,
            wave: SUBSET Purchases]

IdleRequest == [pc |-> "idle", reason |-> "parked_mapping"]
IdleRun == [pc |-> "idle", job |-> {}, stage |-> "product", todo |-> {},
            applied |-> FALSE, wave |-> {}]

Init ==
  /\ provider \in Providers
  /\ mapped = FALSE
  /\ row = [e \in Events |-> [result |-> "none", attempts |-> 0]]
  /\ recorded = {} /\ acked = {} /\ due = {} /\ aged = {}
  /\ request = [e \in Events |-> IdleRequest]
  /\ run = [r \in Runs |-> IdleRun]
  /\ changes = 0 /\ faults = 0

-----------------------------------------------------------------------------
(* Events and their rows *)

Parked(e) == row[e].result \in ParkedResults

\* A refund needs the transaction its purchase wrote, every other event the
\* product's mapping.
NeedsTransaction(e) == provider = "stripe" /\ e \in Dependents
Available(e) == IF NeedsTransaction(e) THEN Original[e] \in recorded ELSE mapped
Lacking(e) == IF NeedsTransaction(e) THEN "parked_transaction" ELSE "parked_mapping"

\* hasAnyAppStoreRecordForOriginalTransactionId
Confirmed(e) == Original[e] \in recorded
Gated(e) == provider = "app-store" /\ e \in Dependents
IsReport(e) == provider = "app-store" /\ e \in Purchases

\* The unique index keeps the first row of a notification.
InsertedIfAbsent(e, result) ==
  IF row[e].result = "none" THEN [row EXCEPT ![e].result = result] ELSE row

-----------------------------------------------------------------------------
(* Requests of the store and of the SDK *)

(* An event is sent until its acknowledgement is received.                 *)
Arrive(e) ==
  /\ request[e].pc = "idle"
  /\ e \notin acked
  /\ request' = [request EXCEPT ![e].pc = IF Gated(e) THEN "gate" ELSE "record"]
  /\ UNCHANGED <<provider, mapped, row, recorded, acked, due, aged, run, counts>>

\* The request has found something missing.
ToPark(e, reason) == request' = [request EXCEPT ![e] = [pc |-> "park", reason |-> reason]]

(* The deferred-replay gate of the App Store handler.                      *)
PassGate(e) ==
  /\ request[e].pc = "gate"
  /\ IF Confirmed(e) THEN request' = [request EXCEPT ![e].pc = "record"]
     ELSE ToPark(e, "parked_sdk")
  /\ UNCHANGED <<provider, mapped, row, recorded, acked, due, aged, run, counts>>

(* A record method: what the event needs is looked up and the event is     *)
(* committed, or the lookup fails with the error that parks it.            *)
Accept(e) ==
  /\ request[e].pc = "record"
  /\ \/ /\ Available(e)
        /\ recorded' = recorded \cup {e}
        /\ request' = [request EXCEPT ![e].pc = "note"]
     \/ /\ ~Available(e)
        /\ ToPark(e, Lacking(e))
        /\ UNCHANGED recorded
  /\ UNCHANGED <<provider, mapped, row, acked, due, aged, run, counts>>

(* The acknowledgement reaches the sender, or is lost.                     *)
Answer(e) ==
  /\ request' = [request EXCEPT ![e] = IdleRequest]
  /\ \/ acked' = acked \cup {e} /\ UNCHANGED faults
     \/ faults < MaxFaults /\ faults' = faults + 1 /\ UNCHANGED acked

Park(e) ==
  /\ request[e].pc = "park"
  /\ row' = InsertedIfAbsent(e, request[e].reason)
  /\ Answer(e)
  /\ UNCHANGED <<provider, mapped, recorded, due, aged, run, changes>>

\* Rows that wait for the confirmation of purchase o.
WaitingFor(o) == {e \in Dependents : row[e].result = "parked_sdk" /\ Original[e] = o}

(* A notification is entered as applied; a report of the SDK dispatches    *)
(* the replay of what waits for it, which may get lost.                    *)
Note(e) ==
  /\ request[e].pc = "note"
  /\ \/ /\ ~IsReport(e)
        /\ row' = InsertedIfAbsent(e, "applied")
        /\ UNCHANGED due
     \/ /\ IsReport(e)
        /\ due' \in {due} \cup {due \cup {e} : d \in WaitingFor(e)}
        /\ UNCHANGED row
  /\ Answer(e)
  /\ UNCHANGED <<provider, mapped, recorded, aged, run, changes>>

(* A request fails or is killed and is not acknowledged.                   *)
Reject(e) ==
  /\ request[e].pc # "idle"
  /\ faults < MaxFaults
  /\ faults' = faults + 1
  /\ request' = [request EXCEPT ![e] = IdleRequest]
  /\ UNCHANGED <<provider, mapped, row, recorded, acked, due, aged, run, changes>>

-----------------------------------------------------------------------------
(* Replay workflows and the sweep *)

\* Mutant: the sweep looks for rows that wait for a mapping only.
Waves_MappingOnly(e) == FALSE

\* Rows that make the sweep replay the dependent events of their purchase.
Waves(e) == row[e].result \in {"parked_transaction", "parked_sdk"}

\* Past the time to live or the attempt cap; rows that wait for the SDK have
\* a daily expiry of their own.
Expires(e) ==
  /\ row[e].result \in {"parked_mapping", "parked_transaction"}
  /\ e \in aged \/ row[e].attempts >= MaxAttempts

ExpireRows(rows) ==
  row' = [e \in Events |-> IF e \in rows THEN [row[e] EXCEPT !.result = "expired"] ELSE row[e]]

(* One run of the cron: expire, then choose what to replay.  A replay for  *)
(* the mapping of a Stripe product covers the dependent events.            *)
Sweep(r) ==
  LET expired == {e \in Events : Expires(e)}
      product == mapped /\ \E e \in Events \ expired : row[e].result = "parked_mapping"
      wave == {Original[e] : e \in {d \in Dependents \ expired : Waves(d)}}
      all == IF provider = "stripe" /\ (product \/ wave # {}) THEN Purchases ELSE wave
  IN  /\ run[r].pc = "idle"
      /\ ExpireRows(expired)
      /\ run' = [run EXCEPT ![r] =
           IF product THEN [IdleRun EXCEPT !.pc = "find", !.wave = all]
           ELSE IF wave # {}
           THEN [IdleRun EXCEPT !.pc = "find", !.stage = "dependents", !.wave = all]
           ELSE IdleRun]
      /\ UNCHANGED <<provider, mapped, recorded, acked, due, aged, request, counts>>

(* A dispatched workflow starts: the replay of a mapping, or of what waits *)
(* for one purchase.                                                       *)
Start(r, j) ==
  /\ run[r].pc = "idle"
  /\ j \in due
  /\ due' = due \ {j}
  /\ run' = [run EXCEPT ![r] =
       IF j = Mapping
       THEN [IdleRun EXCEPT !.pc = "find", !.job = {j},
                            !.wave = IF provider = "stripe" THEN Purchases ELSE {}]
       ELSE [IdleRun EXCEPT !.pc = "find", !.job = {j}, !.stage = "dependents", !.wave = {j}]]
  /\ UNCHANGED <<provider, mapped, row, recorded, acked, aged, request, counts>>

\* The state of a run that has no more rows in its stage.
Advanced(s) ==
  IF s.stage = "product" /\ s.wave # {}
  THEN [s EXCEPT !.pc = "find", !.stage = "dependents", !.todo = {}, !.applied = FALSE]
  ELSE IdleRun

\* findParkedNotifications, findParkedTransactionNotifications and
\* findParkedNotificationsByOriginalTransactionId; the sweep looks for the
\* confirmation first.
Found(s) ==
  IF s.stage = "product" THEN {e \in Events : row[e].result = "parked_mapping"}
  ELSE {e \in Dependents : /\ Original[e] \in s.wave
                           /\ \/ row[e].result = "parked_transaction"
                              \/ row[e].result = "parked_sdk" /\ Confirmed(e)}

Find(r) ==
  LET s == run[r]
      rows == Found(s)
  IN  /\ s.pc = "find"
      /\ run' = [run EXCEPT ![r] =
           IF rows = {} THEN Advanced(s)
           ELSE [s EXCEPT !.pc = "replay", !.todo = rows]]
      /\ UNCHANGED <<provider, mapped, row, recorded, acked, due, aged, request, counts>>

\* Rows are replayed in the order in which the events occurred, reports of
\* the SDK after the notifications.
Precedes(d, e) ==
  IF IsReport(d) = IsReport(e) THEN d < e ELSE IsReport(e)
Foremost(s) == {e \in s.todo : \A d \in s.todo \ {e} : Precedes(e, d)}

(* acceptWebhookEvent and acceptServerNotification with isReplay: the gate *)
(* is skipped, and what is still missing is not parked again.              *)
Replay(r) ==
  /\ run[r].pc = "replay"
  /\ \E e \in Foremost(run[r]) :
       \/ /\ Available(e)
          /\ recorded' = recorded \cup {e}
          /\ run' = [run EXCEPT ![r].pc = "mark", ![r].applied = TRUE]
          /\ UNCHANGED faults
       \/ /\ ~Available(e)
          /\ run' = [run EXCEPT ![r].pc = "mark", ![r].applied = FALSE]
          /\ UNCHANGED <<recorded, faults>>
       \/ /\ faults < MaxFaults
          /\ faults' = faults + 1
          /\ run' = [run EXCEPT ![r].pc = "mark", ![r].applied = FALSE]
          /\ UNCHANGED recorded
  /\ UNCHANGED <<provider, mapped, row, acked, due, aged, request, changes>>

\* Mutant: a replay that ended without an error resolves its row.
Handled_Always(s) == TRUE

\* Only a replay that was handled resolves its row.
Handled(s) == s.applied

\* Mutant: attempts are counted past the cap.
Tried_Uncapped(e) == row[e].attempts + 1

\* The attempts of a row after one more.
Tried(e) == IF row[e].attempts < MaxAttempts THEN row[e].attempts + 1 ELSE MaxAttempts

\* A run after row e: a report it applied has its dependent events replayed.
Left(s, e) ==
  [s EXCEPT !.pc = "replay", !.todo = s.todo \ {e}, !.applied = FALSE,
            !.wave = IF s.stage = "product" /\ IsReport(e) /\ s.applied
                     THEN s.wave \cup {e} ELSE s.wave]

(* markParkedNotificationResolved or markParkedNotificationAttempted, by   *)
(* id, whatever the row has become since it was read.                      *)
Mark(r) ==
  /\ run[r].pc = "mark"
  /\ \E e \in Foremost(run[r]) :
       /\ row' = [row EXCEPT ![e] =
            [result |-> IF Handled(run[r]) THEN "applied" ELSE row[e].result,
             attempts |-> Tried(e)]]
       /\ run' = [run EXCEPT ![r] = IF Left(run[r], e).todo = {} THEN Advanced(Left(run[r], e))
                                   ELSE Left(run[r], e)]
  /\ UNCHANGED <<provider, mapped, recorded, acked, due, aged, request, counts>>

(* A run dies.  The runner executes the step of a workflow again, unless   *)
(* it has given up.                                                        *)
Die(r) ==
  /\ run[r].pc # "idle"
  /\ faults < MaxFaults
  /\ faults' = faults + 1
  /\ due' \in {due, due \cup run[r].job}
  /\ run' = [run EXCEPT ![r] = IdleRun]
  /\ UNCHANGED <<provider, mapped, row, recorded, acked, aged, request, changes>>

-----------------------------------------------------------------------------
(* The surroundings *)

(* An operator creates or activates the mapping; the dispatch of its       *)
(* replay may fail, which is only logged.                                  *)
Map ==
  /\ ~mapped /\ changes < MaxChanges
  /\ mapped' = TRUE /\ changes' = changes + 1
  /\ due' \in {due, due \cup {Mapping}}
  /\ UNCHANGED <<provider, row, recorded, acked, aged, request, run, faults>>

(* The mapping is deleted, deactivated or given another key.               *)
Unmap ==
  /\ mapped /\ changes < MaxChanges
  /\ mapped' = FALSE /\ changes' = changes + 1
  /\ UNCHANGED <<provider, row, recorded, acked, due, aged, request, run, faults>>

Age(e) ==
  /\ Parked(e) /\ e \notin aged /\ Cardinality(aged) < MaxAged
  /\ aged' = aged \cup {e}
  /\ UNCHANGED <<provider, mapped, row, recorded, acked, due, request, run, counts>>

(* The daily expiry of rows that wait for the SDK.                         *)
ExpireUnconfirmed ==
  LET expired == {e \in aged : row[e].result = "parked_sdk"}
  IN  /\ expired # {}
      /\ ExpireRows(expired)
      /\ UNCHANGED <<provider, mapped, recorded, acked, due, aged, request, run, counts>>

-----------------------------------------------------------------------------
Handle(e) == Arrive(e) \/ PassGate(e) \/ Accept(e) \/ Park(e) \/ Note(e) \/ Reject(e)
Work(r) == Find(r) \/ Replay(r) \/ Mark(r)

Next ==
  \/ \E e \in Events : Handle(e) \/ Age(e)
  \/ \E r \in Runs : Work(r) \/ Die(r)
  \/ \E r \in Sweeps : Sweep(r)
  \/ \E r \in Workflows, j \in Jobs : Start(r, j)
  \/ Map \/ Unmap \/ ExpireUnconfirmed

Spec == Init /\ [][Next]_vars

(* The cron keeps starting sweeps, and a run that started goes on unless   *)
(* it dies.  Nothing is assumed of requests and dispatched workflows.      *)
Fairness == /\ \A r \in Sweeps : WF_vars(Sweep(r))
            /\ \A r \in Runs : WF_vars(Work(r))

FairSpec == Spec /\ Fairness

-----------------------------------------------------------------------------
(* Every variable holds values of its columns, and a run has rows exactly  *)
(* while it replays.                                                       *)
TypeOK ==
  /\ provider \in Providers
  /\ mapped \in BOOLEAN
  /\ row \in [Events -> RowType]
  /\ recorded \subseteq Events /\ acked \subseteq Events /\ aged \subseteq Events
  /\ due \subseteq Jobs
  /\ request \in [Events -> RequestType]
  /\ run \in [Runs -> RunType]
  /\ \A r \in Runs : run[r].pc \in {"replay", "mark"} <=> run[r].todo # {}
  /\ changes \in 0..MaxChanges /\ faults \in 0..MaxFaults

(* An acknowledged event is committed, or still parked, or was expired;    *)
(* and a row that says applied was committed.  The store does not send an  *)
(* acknowledged event again, so anything else would lose revenue.          *)
NothingIsLost ==
  \A e \in Events :
    /\ e \in acked => e \in recorded \/ Parked(e) \/ row[e].result = "expired"
    /\ row[e].result = "applied" => e \in recorded

(* A parked row whose product is mapped and whose purchase is recorded is  *)
(* settled in the end, also when it was parked after the replay that was   *)
(* meant for it had run, or when that replay was never dispatched.         *)
Ready(e) == Parked(e) /\ mapped /\ (e \in Dependents => Original[e] \in recorded)

ReadyIsReplayed == \A e \in Events : Ready(e) ~> ~Parked(e) \/ ~mapped

=============================================================================
