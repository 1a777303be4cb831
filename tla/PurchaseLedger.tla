--------------------------- MODULE PurchaseLedger ---------------------------
(***************************************************************************)
(* The purchase ledger as a transactional outbox: rows staged by purchase  *)
(* transactions are claimed in batches by ledger-drain workers, delivered  *)
(* to the revenue event sink, and settled by compare-and-set on the claim  *)
(* token.  Workers crash, claims go stale and are released to others, and  *)
(* an operator and a sweep put dead letters back in the queue.             *)
(*                                                                         *)
(* Time.  The code compares claimedAt, nextAttemptAt and updatedAt with    *)
(* NOW().  Here each row keeps the distance instead, saturated where the   *)
(* comparison stops changing: claimAge counts up to StaleAfter, wait       *)
(* counts down to 0 (0 is a null or past nextAttemptAt), deadAge counts up *)
(* to SweepAge.  So time is unbounded and the state is not.                *)
(*                                                                         *)
(* Tokens.  claim mints a fresh id for every call.  An id no row and no    *)
(* worker remembers cannot be told from a fresh one, so a finite pool of   *)
(* tokens, reused only when forgotten, loses no behaviour.                 *)
(***************************************************************************)
EXTENDS Integers, FiniteSets

CONSTANTS
  NumRows,      \* rows are 1..NumRows, numbered by createdAt
  Workers,      \* concurrent executions of PurchaseLedgerWorker.poll
  Tokens,       \* pool of claim tokens
  Nobody,       \* the null claimedBy
  Events,       \* event identifiers one row may carry
  BatchSize,    \* batchSize of a poll
  MaxAttempts,  \* maxAttempts of a poll
  StaleAfter,   \* staleClaimSeconds, in ticks
  BackoffCap,   \* longest retry delay, in ticks
  Backoff,      \* retry delay after each failed attempt, in ticks
  SweepAge,     \* minimum dead-letter age of the sweep, in ticks
  MaxCrashes    \* bound: worker crashes in one behaviour

Rows == 1..NumRows

ASSUME LedgerAssumption ==
  /\ NumRows \in Nat
  /\ BatchSize \in Nat \ {0}
  /\ MaxAttempts \in Nat \ {0}
  /\ StaleAfter \in Nat
  /\ BackoffCap \in Nat
  /\ Backoff \in [1..MaxAttempts -> 0..BackoffCap]
  /\ SweepAge \in Nat
  /\ MaxCrashes \in Nat
  /\ Nobody \notin Tokens

VARIABLES
  ledger,   \* the purchase_ledger table
  payload,  \* events staged on each row (eventsPayload)
  corrupt,  \* rows whose eventsPayload the deployed decoder refuses
  sunk,     \* events of each row the sink has durably accepted
  token,    \* claim token of each worker's current poll
  todo,     \* rows a worker claimed and has not looked at yet
  seen,     \* attemptCount of each held row as read by the claim
  flight,   \* the row a worker is delivering, and the sink's answer
  crashes   \* crashes so far

vars == <<ledger, payload, corrupt, sunk, token, todo, seen, flight, crashes>>

Statuses == {"Absent", "Pending", "InProgress", "Published", "DeadLetter"}
Errors == {"none", "transient", "poison"}
Answers == {"stored", "poison", "failed"}

RowType == [status: Statuses, attempts: 0..MaxAttempts,
            claimedBy: Tokens \cup {Nobody}, claimAge: 0..StaleAfter,
            wait: 0..BackoffCap, lastError: Errors, deadAge: 0..SweepAge]

NoFlight == [row |-> 0, answer |-> "failed"]
FlightType == {NoFlight} \cup [row: Rows, answer: Answers]

TypeOK ==
  /\ ledger \in [Rows -> RowType]
  /\ payload \in [Rows -> SUBSET Events]
  /\ corrupt \in SUBSET Rows
  /\ sunk \in [Rows -> SUBSET Events]
  /\ token \in [Workers -> Tokens \cup {Nobody}]
  /\ todo \in [Workers -> SUBSET Rows]
  /\ seen \in [Workers -> [Rows -> 0..MaxAttempts]]
  /\ flight \in [Workers -> FlightType]
  /\ crashes \in 0..MaxCrashes

-----------------------------------------------------------------------------
AbsentRow == [status |-> "Absent", attempts |-> 0, claimedBy |-> Nobody,
              claimAge |-> 0, wait |-> 0, lastError |-> "none", deadAge |-> 0]

Init ==
  /\ ledger = [r \in Rows |-> AbsentRow]
  /\ payload = [r \in Rows |-> {}]
  /\ corrupt = {}
  /\ sunk = [r \in Rows |-> {}]
  /\ token = [w \in Workers |-> Nobody]
  /\ todo = [w \in Workers |-> {}]
  /\ seen = [w \in Workers |-> [r \in Rows |-> 0]]
  /\ flight = [w \in Workers |-> NoFlight]
  /\ crashes = 0

workerVars == <<token, todo, seen, flight, crashes>>
payloadVars == <<payload, corrupt, sunk>>

(* A purchase transaction commits with a reserved row and its events.      *)
(* createdAt is the start of that transaction, so rows may appear out of   *)
(* createdAt order; a finalized row carries no event.                      *)
Stage(r) ==
  /\ ledger[r].status = "Absent"
  /\ ledger' = [ledger EXCEPT ![r].status = "Pending"]
  /\ \/ /\ \E S \in SUBSET Events : payload' = [payload EXCEPT ![r] = S]
        /\ UNCHANGED corrupt
     \/ /\ payload' = [payload EXCEPT ![r] = Events]
        /\ corrupt' = corrupt \cup {r}
  /\ UNCHANGED sunk
  /\ UNCHANGED workerVars

-----------------------------------------------------------------------------
(* PurchaseLedgerStore.claim *)

\* Mutant: crashed workers' claims are never released.
StaleClaims_NeverReleased == {}

StaleClaims == {r \in Rows : /\ ledger[r].status = "InProgress"
                             /\ ledger[r].claimAge = StaleAfter}

Due == {r \in Rows : /\ ledger[r].status = "Pending" \/ r \in StaleClaims
                     /\ ledger[r].wait = 0}

Oldest(S) == {r \in S : Cardinality({q \in S : q < r}) < BatchSize}

\* Mutant: the worker id is minted once per process, not once per claim.
FreshTokens_Reused == Tokens

FreshTokens ==
  Tokens \ ({ledger[r].claimedBy : r \in Rows} \cup {token[w] : w \in Workers})

Released(row) == [row EXCEPT !.status = "Pending", !.claimedBy = Nobody,
                             !.claimAge = 0]
Claimed(row, t) == [row EXCEPT !.status = "InProgress", !.claimedBy = t,
                               !.claimAge = 0]

(* One poll starts: stale claims go back to the queue and the oldest due   *)
(* rows are claimed under a fresh token, in one transaction.               *)
Claim(w) ==
  /\ token[w] = Nobody
  /\ LET batch == Oldest(Due) IN
       \E t \in FreshTokens :
         /\ ledger' = [r \in Rows |->
                         IF r \in batch THEN Claimed(ledger[r], t)
                         ELSE IF r \in StaleClaims THEN Released(ledger[r])
                         ELSE ledger[r]]
         /\ todo' = [todo EXCEPT ![w] = batch]
         /\ token' = [token EXCEPT ![w] = IF batch = {} THEN Nobody ELSE t]
         /\ seen' = [seen EXCEPT ![w] =
                       [r \in Rows |-> IF r \in batch THEN ledger[r].attempts
                                       ELSE 0]]
  /\ UNCHANGED <<flight, crashes>>
  /\ UNCHANGED payloadVars

-----------------------------------------------------------------------------
(* The store's guarded transitions.  An update that matches no row is      *)
(* silently accepted: the worker cannot tell.                              *)

\* Mutant: the guard tests the status but not the claim token.
OwnedClaim_AnyToken(w, r) == ledger[r].status = "InProgress"

OwnedClaim(w, r) == /\ ledger[r].claimedBy = token[w]
                    /\ ledger[r].status = "InProgress"

Settled(row) == [row EXCEPT !.claimedBy = Nobody, !.claimAge = 0]

PublishedRow(row) ==
  [Settled(row) EXCEPT !.status = "Published", !.lastError = "none"]

DeadRow(row, attempt, error) ==
  [Settled(row) EXCEPT !.status = "DeadLetter", !.attempts = attempt,
                       !.lastError = error, !.deadAge = 0]

RetriedRow(row, attempt, delay) ==
  [Settled(row) EXCEPT !.status = "Pending", !.attempts = attempt,
                       !.lastError = "transient", !.wait = delay]

CompareAndSet(w, r, row) ==
  ledger' = IF OwnedClaim(w, r) THEN [ledger EXCEPT ![r] = row] ELSE ledger

\* Mutant: the row may be tried once more than maxAttempts.
Exhausted_OffByOne(attempt) == attempt > MaxAttempts

Exhausted(attempt) == attempt >= MaxAttempts

(* processRow is done with row r; the poll ends with its last row.         *)
Finish(w, r) ==
  LET last == todo[w] \ {r} = {} IN
  /\ todo' = [todo EXCEPT ![w] = @ \ {r}]
  /\ flight' = [flight EXCEPT ![w] = NoFlight]
  /\ seen' = [seen EXCEPT ![w][r] = 0]
  /\ token' = [token EXCEPT ![w] = IF last THEN Nobody ELSE @]
  /\ UNCHANGED crashes

-----------------------------------------------------------------------------
(* PurchaseLedgerWorker.processRow *)

(* A payload that does not decode is dead-lettered without a delivery.     *)
RejectCorrupt(w, r) ==
  /\ flight[w] = NoFlight /\ r \in todo[w]
  /\ r \in corrupt
  /\ CompareAndSet(w, r, DeadRow(ledger[r], seen[w][r] + 1, "poison"))
  /\ Finish(w, r)
  /\ UNCHANGED payloadVars

(* A row without events is published without a delivery.                   *)
PublishEmpty(w, r) ==
  /\ flight[w] = NoFlight /\ r \in todo[w]
  /\ r \notin corrupt /\ payload[r] = {}
  /\ CompareAndSet(w, r, PublishedRow(ledger[r]))
  /\ Finish(w, r)
  /\ UNCHANGED payloadVars

Honest(r, S, answer) == /\ answer = "stored" => S = payload[r]
                        /\ answer = "poison" => S # payload[r]

(* The sink call.  It may store all events; store some and reject others   *)
(* for good (poison); or fail, time out or report an incomplete batch      *)
(* after storing any of them.                                              *)
Deliver(w, r, S, answer) ==
  /\ flight[w] = NoFlight /\ r \in todo[w]
  /\ r \notin corrupt /\ payload[r] # {}
  /\ S \subseteq payload[r]
  /\ Honest(r, S, answer)
  /\ sunk' = [sunk EXCEPT ![r] = @ \cup S]
  /\ flight' = [flight EXCEPT ![w] = [row |-> r, answer |-> answer]]
  /\ UNCHANGED <<ledger, payload, corrupt, token, todo, seen, crashes>>

\* Mutant: an answered delivery counts as stored, whatever it rejected.
Outcome_AnsweredIsStored(row, attempt, answer) ==
  IF answer # "failed" THEN PublishedRow(row)
  ELSE IF Exhausted(attempt) THEN DeadRow(row, attempt, "transient")
  ELSE RetriedRow(row, attempt, Backoff[attempt])

(* What the answer makes of the row: publish, dead-letter or retry.        *)
Outcome(row, attempt, answer) ==
  CASE answer = "stored" -> PublishedRow(row)
    [] answer = "poison" -> DeadRow(row, attempt, "poison")
    [] answer = "failed" /\ Exhausted(attempt) -> DeadRow(row, attempt, "transient")
    [] answer = "failed" /\ ~Exhausted(attempt)
         -> RetriedRow(row, attempt, Backoff[attempt])

Settle(w, r) ==
  /\ flight[w].row = r
  /\ CompareAndSet(w, r, Outcome(ledger[r], seen[w][r] + 1, flight[w].answer))
  /\ Finish(w, r)
  /\ UNCHANGED payloadVars

(* The isolate dies, or a store update fails and aborts the whole poll:    *)
(* rows stay InProgress under a token nobody uses any more.                *)
Crash(w) ==
  /\ token[w] # Nobody
  /\ crashes < MaxCrashes
  /\ crashes' = crashes + 1
  /\ token' = [token EXCEPT ![w] = Nobody]
  /\ todo' = [todo EXCEPT ![w] = {}]
  /\ flight' = [flight EXCEPT ![w] = NoFlight]
  /\ seen' = [seen EXCEPT ![w] = [r \in Rows |-> 0]]
  /\ UNCHANGED ledger
  /\ UNCHANGED payloadVars

-----------------------------------------------------------------------------
(* Dead letters come back *)

Requeued(row) == [Settled(row) EXCEPT !.status = "Pending", !.attempts = 0,
                                      !.wait = 0, !.deadAge = 0]

\* Mutant: the replay does not check that the row is a dead letter.
Replayable_AnyStatus(r) == ledger[r].status # "Absent"

Replayable(r) == ledger[r].status = "DeadLetter"

(* requeueDeadLetters: an operator replays chosen rows, poison included.   *)
Requeue(ids) ==
  /\ \E r \in ids : Replayable(r)
  /\ ledger' = [r \in Rows |->
                  IF r \in ids /\ Replayable(r) THEN Requeued(ledger[r]) ELSE ledger[r]]
  /\ UNCHANGED payloadVars
  /\ UNCHANGED workerVars

\* Mutant: the sweep replays poison rows too.
TransientDead_WithPoison ==
  {r \in Rows : ledger[r].status = "DeadLetter" /\ ledger[r].deadAge = SweepAge}

TransientDead == {r \in Rows : /\ ledger[r].status = "DeadLetter"
                               /\ ledger[r].lastError # "poison"
                               /\ ledger[r].deadAge = SweepAge}

(* sweepTransientDeadLetters.  Its limit (200) is above NumRows here.      *)
Sweep ==
  /\ TransientDead # {}
  /\ ledger' = [r \in Rows |-> IF r \in TransientDead
                               THEN Requeued(ledger[r]) ELSE ledger[r]]
  /\ UNCHANGED payloadVars
  /\ UNCHANGED workerVars

(* The database clock advances.                                            *)
Aged(row) ==
  [row EXCEPT
    !.claimAge = IF row.status = "InProgress" /\ @ < StaleAfter THEN @ + 1 ELSE @,
    !.wait = IF @ > 0 THEN @ - 1 ELSE @,
    !.deadAge = IF row.status = "DeadLetter" /\ @ < SweepAge THEN @ + 1 ELSE @]

Tick ==
  /\ ledger' = [r \in Rows |-> Aged(ledger[r])]
  /\ UNCHANGED payloadVars
  /\ UNCHANGED workerVars

-----------------------------------------------------------------------------
Work(w) ==
  \E r \in Rows :
    \/ RejectCorrupt(w, r)
    \/ PublishEmpty(w, r)
    \/ \E S \in SUBSET Events, answer \in Answers : Deliver(w, r, S, answer)
    \/ Settle(w, r)

Next ==
  \/ \E r \in Rows : Stage(r)
  \/ \E w \in Workers : Claim(w) \/ Work(w) \/ Crash(w)
  \/ \E ids \in SUBSET Rows : Requeue(ids)
  \/ Sweep
  \/ Tick

Spec == Init /\ [][Next]_vars

-----------------------------------------------------------------------------
(* Safety *)

Holds(w, r) == token[w] # Nobody /\ ledger[r].claimedBy = token[w]

(* A row is InProgress exactly when it carries a token; two polls never    *)
(* share one; and a poll whose token is still on a row has that row left   *)
(* to do and read the attempt count the row still has.  This is what makes *)
(* the compare-and-set of publish, retry and deadLetter safe to ignore     *)
(* when it matches no row.                                                 *)
ClaimsAreBacked ==
  /\ \A r \in Rows : ledger[r].status = "InProgress"
                     <=> ledger[r].claimedBy # Nobody
  /\ \A w, v \in Workers : token[w] = token[v] /\ token[w] # Nobody => w = v
  /\ \A w \in Workers, r \in Rows :
       Holds(w, r) => r \in todo[w] /\ seen[w][r] = ledger[r].attempts

(* A poll without a token has nothing left to do, every row a worker still *)
(* has to do is a staged one, and an answer in flight is still true when   *)
(* it is written: whatever happened to the row since, the sink holds what  *)
(* a "stored" answer said it holds.                                        *)
AnswersStayTrue ==
  \A w \in Workers :
    /\ token[w] = Nobody => todo[w] = {}
    /\ \A r \in todo[w] : ledger[r].status # "Absent"
    /\ flight[w] # NoFlight =>
         /\ flight[w].row \in todo[w]
         /\ flight[w].answer = "stored"
              => payload[flight[w].row] \subseteq sunk[flight[w].row]

(* No revenue event is lost: a row becomes Published only when the sink    *)
(* has durably accepted every event staged on it, whatever crashes, stale  *)
(* claims and replays came before.                                         *)
PublishedIsDelivered ==
  \A r \in Rows : ledger[r].status = "Published" => payload[r] \subseteq sunk[r]

(* Only a dead letter has used up its attempts: a queued row can always be *)
(* tried once more, whatever failures, stale claims and replays it has     *)
(* behind it.                                                              *)
OnlyDeadLettersAreExhausted ==
  \A r \in Rows : ledger[r].status # "DeadLetter"
                  => ledger[r].attempts < MaxAttempts

-----------------------------------------------------------------------------
(* What a step may never do *)

(* A claimed row changes hands only through the poll that holds its token, *)
(* or because the claim is StaleAfter old.  A worker that lost its claim   *)
(* cannot publish, retry or bury the row under the new claimant.           *)
OnlyTheClaimantSettles ==
  [][\A r \in Rows :
       /\ ledger[r].status = "InProgress"
       /\ <<ledger'[r].status, ledger'[r].claimedBy>>
            # <<ledger[r].status, ledger[r].claimedBy>>
       => \/ ledger[r].claimAge = StaleAfter
          \/ \E w \in Workers : /\ Holds(w, r)
                                /\ r \in todo[w] /\ r \notin todo'[w]]_vars

(* Failed attempts are counted one by one and never forgotten, except by   *)
(* the two replays that start a dead letter's cycle again.                 *)
AttemptsCountFailures ==
  [][\A r \in Rows :
       LET before == ledger[r]
           after == ledger'[r] IN
       before.attempts # after.attempts =>
         \/ /\ after.attempts = before.attempts + 1
            /\ before.status = "InProgress"
            /\ after.status \in {"Pending", "DeadLetter"}
         \/ /\ after.attempts = 0
            /\ before.status = "DeadLetter" /\ after.status = "Pending"]_vars

(* The sweep never brings back a row whose payload does not decode.  It    *)
(* sees only lastError, which survives operator replays and claims, so the *)
(* row's last burial must always have been for poison.                     *)
SweepSparesCorruptRows ==
  [][Sweep => \A r \in corrupt : ledger'[r] = ledger[r]]_vars

-----------------------------------------------------------------------------
(* The outbox the ledger implements *)

Phase(status) == CASE status \in {"Pending", "InProgress"} -> "queued"
                   [] status = "Absent" -> "absent"
                   [] status = "Published" -> "published"
                   [] status = "DeadLetter" -> "buried"

Outbox == INSTANCE RevenueOutbox
            WITH phase <- [r \in Rows |-> Phase(ledger[r].status)]

(* The ledger table, its workers and its sweeps together behave as an      *)
(* outbox that delivers at least once and publishes once.                  *)
ImplementsOutbox == Outbox!Spec

-----------------------------------------------------------------------------
(* Liveness *)

(* The cron keeps polling and sweeping and every poll makes progress.  Two *)
(* things are asked of the environment: a row delivered again and again is *)
(* accepted by the sink some day, and a row claimed again and again is     *)
(* some day settled, both before its claim goes stale.  Without that, slow *)
(* workers could hand the row to each other for ever.                      *)
Accepted(r) ==
  \E w \in Workers : OwnedClaim(w, r) /\ Deliver(w, r, payload[r], "stored")

SettledInTime(r) ==
  \E w \in Workers :
    /\ OwnedClaim(w, r)
    /\ \/ RejectCorrupt(w, r)
       \/ PublishEmpty(w, r)
       \/ Settle(w, r) /\ flight[w].answer = "stored"

Fairness ==
  /\ WF_vars(Tick) /\ WF_vars(Sweep)
  /\ \A w \in Workers : WF_vars(Claim(w)) /\ WF_vars(Work(w))
  /\ \A r \in Rows : SF_vars(Accepted(r)) /\ SF_vars(SettledInTime(r))

FairSpec == Spec /\ Fairness

(* Every row a purchase staged ends Published, or as a poison dead letter  *)
(* that waits for an operator; it is never stranded InProgress by a crash  *)
(* nor left as a transient dead letter.                                    *)
EveryRowSettles ==
  \A r \in Rows :
    ledger[r].status # "Absent" ~>
      \/ ledger[r].status = "Published"
      \/ ledger[r].status = "DeadLetter" /\ ledger[r].lastError = "poison"

=============================================================================
