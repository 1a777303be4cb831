# Verification of voidhash

voidhash is a subscription and paywall platform: app stores and payment
providers report purchases, the backend turns them into entitlements, revenue
events and outbound webhooks, and SDKs send analytics and receive paywalls. This
directory holds TLA+ models of its protocols, the TLC runs that check them on
small instances, and proofs of their safety for every instance.

Paths below are relative to the repository; `core-v2`, `core`, `backend`,
`platform`, `agent` and `db` are directories of `packages/`.

## Running it

    tlc -config PurchaseLedgerSafety.cfg MCPurchaseLedger.tla
    tlc -config PurchaseState.cfg MCPurchaseState.tla
    tlapm WebhookDeliveryProofs.tla

and the same for every other `.cfg` and `*Proofs.tla`; section 10 lists the runs.
`PROJECT.json` lists every run, the mutant that shows each property can fail,
and the source lines each definition models.

## 1. The system

### Components

| Component | State it keeps | Operations | What makes it correct |
|---|---|---|---|
| Purchase lifecycle (`core-v2/.../processing/application`) | subscription, transaction and one-time purchase rows, each with the time of the last event applied; one `purchase_ledger` row per idempotency key | start, renew, cancel, expire, revoke, billing retry, extension, offers, price increases, one-time purchase | an event is applied once; an older event never undoes a newer one; entitlements follow the rows |
| Refunds and transfers (same directory) | the same rows, and their owner | refund, revoke, reverse refund; transfer with an ownership rule | a transfer happens once; a refund is reversed only if nothing newer happened; perks follow the owner |
| Purchase ledger outbox (`PurchaseLedgerWorker.ts`, `DbPurchaseLedgerStoreLive.ts`, `PurchaseLedgerDrain.ts`, `PurchaseLedgerSweep.ts`) | status, attempts, claim and retry times, last error of each ledger row | claim, publish, retry, dead-letter, operator replay, sweep | no staged event is lost, a claim is exclusive, every row settles |
| Outbound webhooks (`core/src/services/webhookDispatch`, `core/src/workflows`) | delivery and attempt rows; the endpoint's status and failure counter | stage, dispatch, deliver, mark, sweep, disable | a status is earned, the schedule bounds the attempts, no delivery is stranded |
| Webhook management (`core/src/services/webhookManager`) | endpoint rows | create, update, enable, disable, delete, test, retry | a person's action is not undone by a running workflow |
| Workflow runner (`platform/cloudflare/src/WorkflowRunner.ts`) | an instance per idempotency key, persisted step results | dispatch, execute, sleep, step retry | one instance per key, a completed step is not executed again |
| Perk grants (`core/src/services/perkGrants`) | grants of a person | sync from active purchases, manual grant and revoke | grants equal what the active purchases unlock |
| Provider adapters (`backend/src/purchases/providers`) | none | verify and decode store notifications into purchase actions | each notification becomes the right action |
| Parked notifications (`PendingRevenueReplaySweep.ts`, the webhook handlers) | notification rows: what each waits for, its attempts, its result | park, replay, sweep, expire | nothing acknowledged is lost; what has become ready is replayed |
| Person identity (`core/src/services/personIdentity`) | persons, distinct-id mappings, merge pointers, traits with per-key time | identify, alias, merge, archive, set traits, rebuild | merges end at one live person; traits do not depend on event order |
| Push delivery (`core/src/services/notifications`) | send and delivery rows, tokens | send, claim, deliver, retry, exhaust, roll up | every delivery settles; the parent's counts equal its children |
| Analytics ingest (`core-v2/src/analytics/ingest`) | events in ClickHouse and Postgres, credential cache | capture, admit, process a queue batch | accepted means stored; a replay does not duplicate |
| Paywall releases and deploys (`core/src/services/paywallReleases`, `paywallDeploys`) | paywall, draft and release rows; which release is active | draft, publish, deploy from code, activate an older release | one active release; what is shown of a code paywall follows it |
| Paywall locations and experiments (`paywallLocations`, `experiments`) | showings: what each location shows, since when; experiment status and placements | assign, clear, archive; start, pause, conclude | a location shows one thing; a concluded experiment gives its locations up |
| Analytics query, feature flags, paywall builder, assets, thumbnails | definitions, revisions, files | CRUD; compile, render and evaluate | pure evaluation |
| Agent sessions (`agent/src`) | an append-only log per session | submit, stream, tool call, abort, resume | a turn ends exactly once, the log replays to the same state |
| Platform (`platform/src`) | queues, durable entities, cron | enqueue, consume, alarm | at-least-once |
| API keys, organizations, projects, products, audit log, RPC, CLI, web app, SDKs, mimic | single rows, views | CRUD | - |

### How they interact

    store / provider ──webhook──> provider adapter ──action──> purchase lifecycle
                                        │ unknown product            │ one transaction:
                                        v                            │  projections, perks,
                                 parked notifications                │  ledger row, deliveries
                                                                     v
                   ledger drain (cron, workers) <── purchase_ledger   webhook_delivery
                          │ sink.deliver                                   │ dispatch after commit
                          v                                                v
                   analytics ingest                            workflow runner: DeliverWebhook
                                                                     │ POST, mark, sleep
                   sweep: dead letters                               v
                                                        receiver;  sweep: stalled deliveries

Everything that leaves a transaction goes through one of two outboxes: the
purchase ledger (revenue events) and the webhook deliveries. Both are drained by
workers that race each other, crash, and hold rows while they talk to somebody
else; both have a cron that repairs what was lost. They carry the system's
promise that what was committed is eventually announced, so they are modelled
first.

### What is hard here

- *Interleaving*: claims that go stale under a slow worker; updates by id of a
  row that was read earlier (marking a delivery, retrying it, rolling up a
  push send); a sweep that takes a slow workflow for a lost one.
- *Crashes*: a detached fiber that dies with its isolate between the commit and
  the dispatch; a poll aborted in the middle of its batch.
- *Partial failure*: a sink that stores part of a batch; a step of two
  statements that is executed again from its start; an instance that fails for good.
- *Order*: store notifications arrive late, twice and out of order; traits are
  written with older timestamps than the stored ones.
- *Boundaries*: the last attempt of a schedule, the failure threshold, batches
  that are cut.

The full list, line by line, is `hazards` in `PROJECT.json`.

## 2. Plan

| Order | Module | Content | State |
|---|---|---|---|
| 1 | `RevenueOutbox` | abstract: an outbox that delivers at least once and publishes once | written |
| 1 | `PurchaseLedger` | claims, delivery, settlement, replay, sweep; implements `RevenueOutbox` | checked, safety proved |
| 2 | `WebhookDelivery` | rows, workflow instances, sweep, manual retry, endpoint | checked, safety proved |
| 3 | `SubscriptionRows` | the subscriptions table and what one notification does to it (pure) | written |
| 3 | `PurchaseSerial` | abstract: notifications act alone, and none but a transfer twice | written |
| 3 | `PurchaseState` | lifecycle, refunds, transfers and perks as concurrent transactions; implements `PurchaseSerial` | checked, safety and refinement proved |
| 4 | `PushDelivery` | send, claim, crash, dead-letter queue, roll-up of the parent | checked, safety proved |
| 5 | `PersonIdentity` | resolve, identify, merge, traits, rebuild as concurrent transactions | checked, safety proved |
| 6 | `ParkedNotifications` | park, replay, sweep, expiry | checked, safety proved |
| 7 | `PaywallServing` | drafts, releases, deploys, showings, experiments as concurrent requests | checked, safety proved |
| - | analytics ingest, agent sessions, SDKs | - | not modelled, see section 12 |

How they compose. `PurchaseState` and `PurchaseSerial` both extend
`SubscriptionRows`; `PurchaseState` is the machine in which `ParkedNotifications`
says "the purchase core commits the event", and its `reserved` keys are the rows
`PurchaseLedger` stages and drains. The two modules are kept apart from their
neighbours on purpose: the only thing that crosses is a committed row, and each
neighbour's `Stage`, `Receive` or `Accept` allows every order in which those rows
can appear. `PaywallServing` shares no table with the others.

## 3. The purchase ledger (`PurchaseLedger`, `RevenueOutbox`)

### Model

`ledger` is the `purchase_ledger` table: `status`, `attempts` (`attemptCount`),
`claimedBy`, `lastError` as none, transient or poison, and three times kept as
distances to now and saturated where the comparison they occur in no longer
changes: `claimAge` (`claimedAt`, up to `StaleAfter`), `wait` (`nextAttemptAt`,
down to 0) and `deadAge` (`updatedAt` of a dead letter, up to `SweepAge`). Time is
thus unbounded and the state finite. `payload` and `corrupt` are the events of a
row and whether the deployed decoder refuses them; `sunk` is what the sink has
accepted.

A worker is one execution of `PurchaseLedgerWorker.poll`: `token`, `todo`, `seen`
and `flight` are its local variables - the worker id minted by the claim, the rows left in its batch, the
attempt counts the claim returned, and the delivery that is out. Two workers are
two overlapping executions of the cron's workflow.

| Action | Code |
|---|---|
| `Stage` | a purchase transaction commits its ledger row (`DbPurchaseTransactionPortsLive`) |
| `Claim` | `claim`: release stale claims and take the oldest due rows, one transaction |
| `RejectCorrupt`, `PublishEmpty`, `Deliver`, `Settle` | the branches of `processRow`, the sink call apart from the update that follows it |
| `Crash` | the isolate dies, or a store update fails and aborts the poll |
| `Requeue`, `Sweep` | `requeueDeadLetters`, `sweepTransientDeadLetters` |
| `Tick` | the database clock |

`publish`, `retry` and `deadLetter` are compare-and-sets on (token, InProgress)
that silently match nothing when the claim is gone; `CompareAndSet` says so.

### Checks

- `ledger_safety` - two workers, two rows, one crash, two attempts: claims
  (`ClaimsAreBacked`), `PublishedIsDelivered`, the step properties `OnlyTheClaimantSettles` and
  `SweepSparesCorruptRows`, and the refinement `ImplementsOutbox`.
- `ledger_liveness` - one row with two events, three attempts and a crash:
  partial deliveries accumulate over whole retry cycles, attempts are counted one
  by one (`AttemptsCountFailures`), and every row settles (`EveryRowSettles`)
  under `FairSpec`.

Bounds. Two workers are what a race over a claim needs: one with a stale token
and one with the fresh one. Three tokens allow one per worker and one on a row
whose worker crashed; a token nobody remembers is as good as a new one, so the
pool loses no behaviour. With `BatchSize` 1 and two rows the batch is cut;
`StaleAfter`, `SweepAge` 1 let every timer be both running and expired.

Fairness. The cron starts a drain every minute and a sweep after it: weak
fairness of `Claim`, `Work`, `Sweep` and the clock. Two strong-fairness conditions
are asked of the environment, because the code alone does not give them: a row
that is delivered again and again is some day accepted, and a row that is claimed
again and again is some day settled before its claim goes stale. Without the
second, slow workers hand a row to each other for ever.

### Proofs (`PurchaseLedgerProofs`)

For any number of rows and workers, any batch size, attempt limit and retry
schedule, from `LedgerAssumption` alone (the constants are naturals, the backoff
stays below its cap, the null worker is not a token):

- `LedgerInvariant`: `Spec => []IInv`, with `IInv` the conjunction of `TypeOK`,
  `ClaimsAreBacked`, `AnswersStayTrue`, `PublishedIsDelivered`,
  `OnlyDeadLettersAreExhausted`. `PublishedIsDelivered` alone is not inductive: a
  "stored" answer in flight has to be true of the sink when it is written
  (`AnswersStayTrue`), and the row it is written to has to be the row it is about
  (`ClaimsAreBacked`).
- `LedgerTypes`, `ClaimsStayExclusive`, `AnswersOutliveTheWait`, `NothingIsLost`,
  `QueuedRowsCanBeTried`: its parts. `AnswersStayTrue` and
  `OnlyDeadLettersAreExhausted` (only a dead letter has used up its attempts) are
  proved and not among the runs.
- `LedgerImplementsOutbox`: `Spec => Outbox!Spec`; each action maps to an action
  of the outbox or a stutter.

The second half proves the action properties. `NextRowStep` lists the
five ways a step can change a row (nothing, staged, taken or released, settled by
its holder, replayed); from it follow

- `ClaimsAreSettledByTheirOwner` (`OnlyTheClaimantSettles`) and
  `AttemptsAreNeverRewound` (`AttemptsCountFailures`);
- `SweepNeverRevivesCorruptRows` (`SweepSparesCorruptRows`), which needs one more
  invariant, `CorruptIsPoison`: the sweep sees only `lastError`, so a dead letter
  that does not decode must always have been buried for poison, and never be out
  with the sink.

Only model-checked: `EveryRowSettles` (liveness).

## 4. Outbound webhooks (`WebhookDelivery`)

### Model

One endpoint with its deliveries; endpoints share no state. `endpoint` is its row
(`status`, `consecutiveFailures` saturated at the threshold), `delivery` the
`webhook_delivery` rows (`attempts` is `attemptCount`, `age` the time since the
row was created up to `StaleAfter`, `due` is `nextAttemptAt` minus now), `log` the
attempt rows. `acked` records what the receiver answered with a 2xx; no action
reads it.

`instance[d][n]` is the durable workflow instance with the idempotency key
(delivery, n), n being the attempt it was dispatched for; its own `attempt`
counts on from there. An id runs once: dispatching it again joins the instance,
also one that has ended. `pc` is its place in `DeliverWebhook`:

    load ─> post ─> record ─> mark ─> count ─> disable ─> settled ─> sleep
      │ endpoint not active            └──────────────┘     │          │
      v                                                     v          └─> load
    skipped                                                done

The delay after attempt n is entry n + 1 of the ladder
(`WebhookDeliveryService.ts:75` indexes it by the next attempt number), so its first
entry, the one minute the comment at `:45` starts with, is never waited for.

`mark`, `count` and `disable` are the statements of one step, so other actors run
between them, and a step that fails is executed again from its start
(`RetryStep`); one that runs out of retries ends the instance (`FailInstance`).

| Action | Code |
|---|---|
| `Emit`, `TestEndpoint` | `WebhookDispatchService.stage` and `dispatch`, `WebhookManagerService.testEndpoint` |
| `Dispatch`, `LoseDispatch` | the runner receives the dispatch, or it dies with its detached fiber |
| `Load` ... `Wake` | the workflow body and the service functions it calls |
| `Sweep` | `WebhookDeliverySweep` |
| `BeginRetry`, `FinishRetry` | `retryDelivery`: its read, and its update by id with the dispatch |
| `Enable`, `Suspend`, `DeleteEndpoint` | `updateEndpoint`, `deleteEndpoint` |
| `Tick` | the clock; a sleeper may wake late |

### Checks

- `webhook_safety` - one delivery, two attempts, one manual retry, an endpoint
  that stops after two failures: `SucceededIsAcknowledged`, `ExhaustedIsSpent` and
  `FailingEndpointIsStopped`, which is proved for any number of deliveries. They hold
  although a retry may reopen a Succeeded row (below).
- `webhook_liveness` - two attempts, and one fault or one manual retry:
  `SettlesWhileActive` (while the endpoint stays active and no instance fails for
  good, every delivery ends Succeeded or Exhausted).
- `webhook_resume` - the finding below.

`SettlesWhileActive` allows one manual retry, and the run takes it: its mutant, a sweep that
passes over the rows a retry has left InProgress, is caught. With two retries that
overlap it fails: the second update may rewind the row to an attempt number
whose instance has already run, and the sweep's dispatch of that number is then
absorbed.

Bounds. A two-attempt schedule has a first, a last and a sleeping attempt;
`StaleAfter` 1 lets the sweep overtake a slow instance, which is the only way two
instances of a delivery run at once without a person. One fault is one lost
dispatch, one repeated step or one failed instance; the liveness run has one fault
or one retry in a behaviour, not both (`OneDisturbance`), and stops where the endpoint is no
longer active or an instance has failed for good (`WhileActive`), since
`SettlesWhileActive` promises nothing there. `FailingEndpointIsStopped` claims nothing
once a fault has happened; its run has none, the theorem any number.
The batch holds every row, so that
liveness does not depend on the order in which the database returns rows.

Fairness. The runner starts what it accepted, keeps executing instances and wakes
sleepers; the cron keeps sweeping; a request that read a row goes on to update it.
Nothing is assumed of the receiver or of people.

### Where the code and its comments disagree

`webhook_resume`: `DeliverWebhook.ts:55` says that a skipped delivery "resumes if the
endpoint is re-enabled". The instance of that number has ended, every later
dispatch of it is absorbed, and the row stays Pending.

`WebhookManagerService.ts:726` says "Can only retry failed or exhausted deliveries".
The check is made on a row read earlier and the update (`:746`) is by id alone, so
a delivery that has succeeded in between is put in progress and sent again. The
model contains this (`BeginRetry`, `FinishRetry`), and no property forbids it.

### Proofs (`WebhookDeliveryProofs`)

For any number of deliveries, any schedule, sweep batch and threshold, and any
number of manual retries and faults, from `WebhookAssumption` alone.

- `WebhookInvariant`: `Spec => []IInv`. What the rows say is not inductive by
  itself, because a late actor writes what it learned long before. `IInv` therefore
  says of every such actor what the row will need when it writes: the answer an
  instance carries from its request to its last mark is logged, and acknowledged if
  it is a success (`InstancesOK`); dispatches and retries under way carry numbers
  below the ceiling `MaxAttempts + retries` (`MessagesOK`); retries done and under
  way together are at most `MaxRetries` (`RetriesOK`, by the cardinality of a finite
  set); a row never marked is known by its first number alone (`UntriedIsFirst`);
  and a failed row still has an attempt left (`RowsOK`).
- `WebhookTypes`, `SuccessIsEarned`, `ExhaustionIsEarned`, `ScheduleIsTheCeiling`,
  `FirstAttemptIsDrivenOnce`: its parts and consequences. `ScheduleIsTheCeiling`
  (attempts never exceed the schedule plus one per manual retry) and
  `PendingHasOneDriver` (a delivery never marked has one instance at most) are
  proved and not among the runs.
- `FailingEndpointStops`: `FailingEndpointIsStopped` is inductive given the types.

Only model-checked: `SettlesWhileActive` (liveness).


## 5. Purchase state (`SubscriptionRows`, `PurchaseState`, `PurchaseSerial`)

### Model

`SubscriptionRows` is the subscriptions table and what one event does to one row:
which row an event finds (`FindSeries`), when it is newer than the row
(`Fresher`), and the columns each kind of event writes (`Patch`). It has no state.
`PurchaseState` is the machine around it. A worker is one execution of a purchase
action: it resolves the person outside the transaction (`Receive`), claims the
idempotency key (`Claim`, the insert of the ledger row), does the work of one
state-machine operation, recomputes perks (`ReadPerks`, `WritePerks`) and commits
or aborts. Transactions are READ COMMITTED: what a worker has written is in
`tx[w]` until `Commit`; the others read the committed tables and wait for a
series' advisory lock (`LockFree`), a written row (`RowFree`, `ChargeFree`,
`TxnFree`, `GrantFree`) and a claimed key (`KeyFree`). Statements between which the
locks hide the order are one step.

| Action | Code |
|---|---|
| `StartSubscription`, `RenewSubscription`, `MutateSubscription`, `CompleteOneTimePurchase` | `PurchaseLifecycleStateMachine`, the six mutations of `PurchaseSubscriptionMutationMachine` |
| `RefundPurchase`, `RevokePurchase`, `ReverseCharge`, `ReverseSubscription` | `PurchaseRefundStateMachine` |
| `TransferSubscription`, `TransferPurchase`, `Rebind` | `PurchaseTransferStateMachine` with its three policies, and the identifier rebound after it |
| `ReadPerks`, `WritePerks` | `PerkGrantService.syncUnlockedPerks` |

Time is the order of occurrence of the events, up to `Horizon`. One perk stands
for all: every product unlocks it, so a person's perk is active exactly when some
row of the person is. `doubt` records the persons whose last sync crossed another
transaction that decides their perks, or whose row was changed by a notification
that had resolved somebody else; `obeyed` the events each row accepted; no action
reads them.

`PurchaseAssumption` says of the data what the schema and the stores do: keys of
different tables are different values, a notification of a subscription names a
series and one of a purchase a charge, and a store transaction pays for one subject
(its row has one `subscriptionId` or `purchaseId`).

A transfer takes no key before it works: it inserts its ledger row when the row has
moved. A transfer delivered twice may so move a row again, after another transfer
moved it back, and the serial machine allows it (`Act`).

### Checks

- `purchase_state` - two workers, four events, one abort. The stories cover a
  series billed under two products with any two later events, a subscription and a
  one-time purchase of one person, the same purchase reported by store and SDK
  under two keys, a refund with its expiry and its reversal, and transfers under
  each policy; every event may come at any time, twice, and beside any other.
  Properties: `OneRowPerSeries`, `OpeningIsAnnouncedOnce`, `NewestDecides`,
  `PerksFollowRows` (except persons in `doubt`), and `ImplementsSerial`: seen from
  the subscriptions table, the machine implements `PurchaseSerial`, in which each
  event acts alone, on the table as it is, and none but a transfer acts twice.
- `purchase_perks` - a finding. `PerksAlwaysFollow` is the same without `doubt`, as
  `PerkGrantService.ts:127` has it ("reads and writes atomically with the
  surrounding purchase write"). One transaction expires a subscription, another
  completes a purchase of the same person; each reads the rows before the other
  commits, and the perk ends Expired beside an active purchase.

Two workers are what a race needs; a third would meet the same locks. Two products
and two series let a sibling lookup miss or find; four events fit an event, its
consequence, its reversal and a repeat.

A cancellation or expiry that arrives before its subscription's first event spends
its key without an effect, and the later start leaves the row active; the model
follows the code in this, and no property promises otherwise.

### Proofs (`PurchaseStateProofs`, `PurchaseCommitProofs`)

From `PurchaseAssumption` alone, for any stories, workers, series, products and
aborts. Every safety property of the run is a theorem, the refinement too. Each
argument needs the ones before it.

1. *Rows.* `SeriesHaveOneRow` (`OneRowPerSeries`) and `RowsShowTheNewest`
   (`NewestDecides`). Neither is inductive by itself. `IInv` adds what an open
   transaction may hold (`Writing`): the row it writes says what its own notification
   says, over nothing newer than that notification, and it opens a row only under
   the advisory lock of a series that has none; and that two open transactions share
   neither a lock nor a row (`Apart`). A lookup then finds the row of a series
   whenever there is one (`FoundRows`), and a commit leaves what the others hold true
   (`CommitStep`). Every operation reduces to one lemma, `WriteStep`: what it writes
   is `Fit`.
2. *Types.* `PurchasesKeepTheirTypes` (`TypeOK`). Patching keeps a row a row
   (`RowTypes`), so the invariant `Types` need only say what a worker holds in each
   phase.
3. *What will be committed.* `Prepared(t)` says, from the committed tables as they
   are now, what an open transaction is about to commit: it leaves the subscriptions
   alone because there is nothing for it to do, or opens the row of its series, or
   moves the one row of it to what its notification makes of it; it announces
   exactly the rows it opens; and it names everybody whose entitlements its rows
   change. Each operation writes a `Draft` (`WritesADraft`). That no other commit makes a draft
   wrong (`OthersPrepared`) is the heart of it: rows are `Disjoint`, a series that is
   empty stays so under its lock, and a newer row does not become older. From it
   `OpeningsAreAnnouncedOnce` (`OpeningIsAnnouncedOnce`), with `PaidHasRow`: once a
   payment is recorded its series has a row, so the next renewal does not open one.
4. *Serial.* `PurchasesAreSerial` (`ImplementsSerial`): every step but `Commit` leaves
   the subscriptions and the keys alone, and a commit is one step of the serial machine on
   the committed table (`CommitEffects`), by a notification whose key nobody else
   holds (`Keys`).
5. *Perks.* `PerksFollowTheRows` (`PerksFollowRows`). A transaction that has synced a
   person and crossed nobody has granted what its own view of the rows says
   (`Decided`), and stays right under other commits, because whoever changes that
   person's rows decides the person too, and would have been crossed
   (`CommitSpares`). So `doubt` is complete: without such an overlap a perk is never
   wrong after a commit. `purchase_perks` shows that with one it can be.

`PerksAlwaysFollow` is refuted by its run.

## 6. Push delivery (`PushDelivery`)

### Model

One send with one delivery row per device, the queue message of each row, the
requests that race to create the send under one idempotency key, and the handlers.
The consumer that calls `processDelivery` and `markExhausted` is not in the
repository; the queue is modelled from `QueueConsumer.ts` as one that delivers at
least once, hands a message out again when it is overdue or its batch failed
(`Overdue`, `Returned`) and dead-letters it after `MaxRetries`. A handler's writes
and the reads they rest on are separate steps:

    claim ─> deliver ─> settle ─> tally ─> rollup
      │ lost claim         └─> gate ─> invalidate ─> settle

`Crash` kills a handler at any of them. `Register`, `Refresh`, `Unregister` and
`Configure` change what it reads in between. `accepted` counts what the provider
took; `missed` says that a roll-up was lost or read old rows.

### Checks

- `push_delivery` - two devices, two handlers, two requests, a crash, one queue
  retry: `OneClaimant`, `AcceptedOnce`, `FinishedStays` and `ParentTells`. The last
  has two parts: a parent that is completed has settled deliveries only, always;
  and its counts equal its children once no roll-up is under way, except where one
  was lost or raced.
- `push_liveness` - one device, two queue retries, two changes of device or
  configuration: `TypeOK`, `OneSendPerKey`, and `EveryDeliverySettles` unless the
  dispatch of the send failed.

Two devices are needed for the roll-up's race, two handlers for every other one.
With one retry a message is repeated once and then dead-lettered. All work ends, so
a state without successors is the normal outcome and deadlock is not checked.

Fairness: handlers go on or are killed, the queue delivers what waits, a request
that committed dispatches unless that fails. Nothing is assumed of devices.

Three limits of the code are in the model and left out of the properties. The
roll-up counts children in one statement and writes in another, so of two that
finish at once the older count may win, without any fault; the comment at
`PushDeliveryService.ts:216` calls it "Race-free". A roll-up lost with its handler is
not made up for. And `invalidate` updates by id after its freshness gate, so a
registration in between is undone (`NotificationTokenService.ts:427` says a stale
410 can never kill a live device).

### Proofs (`PushDeliveryProofs`)

For any devices, handlers, requests and bounds, from `PushAssumption`: an inductive
invariant `IInv` says what each handler may rely on (`HandlersOK`: between claim
and verdict its row is in progress and unfinished; `OneClaimant`), what a message
may do (`MessagesOK`), that nothing exists before the send (`EmptyUntilSent`,
`UndispatchedOK`, `OneInserter`) and what a row's columns say together (`RowsOK`).
`OneClaimant` is not inductive alone: a claim is refused because the row says
InProgress, so every handler past its claim must be tied to such a row. From it:
`DeliveriesKeepTheirTypes`, `OneHandlerPerDelivery`, `PushedAtMostOnce`,
`SentOncePerKey` and the step property `FinishedForGood`.

`ParentShowsItsDeliveries` (`ParentTells`) rests on `ParentInv` besides. A handler
writes the parent from counts that it took in an earlier step, so the parent could
be completed from old ones. It is not: a delivery that is done stays settled
(`CompletedIsSettled`), so a count with nothing in flight goes on being right however
late it is written (`CountedDone`).

Only model-checked: `EveryDeliverySettles`.

## 7. Person identity (`PersonIdentity`)

### Model

`persons`, `mapping` (distinct id to person), `log` (the assertions) and `token`
(account-token bindings) are tables; a worker is one transaction of
`resolveDistinctId`, `identifyDistinctId` or `rebuildProject`. The two requests take
advisory locks on their distinct ids and on mapped rows, read (`Aim`, `Sight`), and
write and commit in one step (`Resolve`, `Merge`, `UpdateTarget`), taken when nobody
holds a row they update. Joining the writes is sound because a transaction locks
person rows only after it has read them: whatever another one does between its
first write and its commit, it does to rows this one no longer reads. The copies a
transaction has read travel in `tx[w]` and may be stale when they are written back;
so may the lists of a rebuild, which takes no lock (`List`, `Plan`, `Rebuild`; its
reads of assertions and persons are one step).

A person is named by the distinct id that created it. Trait values are the events
that wrote them; `Fold` and `CombineCells` are the code's per-key merge. `torn` says
that some commit overwrote a row another had changed since it was read; `born` and
`wrote` record who created what and where each write went.

### Checks

`person_identity` - three workers, five distinct ids (two anonymous), stories of up
to four events: logins, two devices of a user, devices passed from user to user,
chains, and two devices that part to two users during a rebuild. Each event may be
processed twice. `BornOnce` and `NothingStitchedUnasserted` hold in every behaviour;
`TraitsAreFolded`, `LeadsToElder` and `RebuildAgrees` (the projection is the one the
log defines, and account tokens lead where their distinct ids do) in those without a
torn commit. Deadlock is not checked, since all events get processed.

A torn commit is not caught by these properties. The model contains two of its
consequences:

- Person rows are read without a lock and written back, so of two transactions that
  share a person the later one undoes the other's trait, and nothing repairs it.
  `IdentityMutationService.ts:395` says "Order-independent, so out-of-order events
  can't regress a newer trait value".
- A merge chooses its survivor on a first-seen time that another commit has lowered
  since, and a rebuild that read the mappings before and the persons after it marks
  the survivor merged into the loser. The two point at each other, and `followMerge`
  does not return. `IdentityGraph.ts:233` says that every distinct id resolves to the
  canonical person of its component.

Left out: identities without a person, mapping versions and projection events,
names and e-mail, and the push links a merge moves. `followMerge` has no bound; that
it returns is part of `LeadsToElder`. Which merges happen at all depends on the order
of the events, through the rule that a source identified as someone else is not
merged, although `IdentityGraph.ts:190` wants the survivor independent of it;
`RebuildAgrees` compares the projection with the log that came out.

### Proof (`PersonIdentityProofs`)

`OnePersonPerDistinctId`: `BornOnce` for any workers, ids and redeliveries. `IInv`
says that readers with a common distinct id exclude each other (`LocksOK`), that one
about to create a person holds the lock of an id that has created none
(`ReadersOK`), and that no distinct id is ever unmapped (`ListedOK`, `BornIsMapped`).

The other five invariants of the run are theorems too, from three more inductive
invariants; each is kept by every step given those before it.

- `KInv` gives `IdentityTypes` (`TypeOK`) and `OnlyAssertionsStitch`
  (`NothingStitchedUnasserted`). A mapping, a merge pointer and the copies a
  transaction carries name persons of the component they are about. Neither a stale
  copy nor an old plan breaks that, because a component only grows: what was
  connected when it was read is connected when it is written. A merge appends its
  assertion in the commit that stitches.
- `RInv`: what the log, a token or a trait write mentions is mapped, and a reader's
  finding that a distinct id has no person is still true when it commits. Only a
  transaction that holds the lock of a distinct id maps it.
- `WInv` is `Whole` while no commit was torn. Connected distinct ids that are mapped
  are mapped to one person (`Agree`), a person is live while its own distinct id is
  mapped to it (`AtHome`), merges lead to older persons (`EldersLead`), and a live
  person's cell is the winner of the writes that went to its distinct ids
  (`TraitsFold`). A commit keeps this if the rows it overwrites are the copies it has
  read: then both sides of a merge are live and together they hold every row of both
  components. A rebuild of whole tables has an empty difference
  (`NothingToRebuild`). It gives `ChainsEndAtAnElder` (`LeadsToElder`),
  `TraitsFoldEveryWrite` (`TraitsAreFolded`) and `RebuildFindsNothing`
  (`RebuildAgrees`).

The model defines components, merge chains and the reference fold by recursive
functions and `CHOOSE`; the first lemmas replace them. `ComponentIsLeastClosed`: a
component is the least set that contains its distinct id and is closed under the
assertions, because a round that adds nothing is a fixed point and there are no more
rounds that add something than distinct ids. `ChainsEnd`: a chain whose hops lead to
older persons ends within that many hops, because each leaves fewer persons that are
as old. `CellsAreOrdered`, `FoldTakesWrite`, `FoldCombines` and `FoldIsReference`:
the order of writes is total, so taking writes one by one, combining two cells and
folding the whole set agree on the winner, in any order and with repetitions. These
inductions go by the least counterexample (`LeastNat`), since the library's
induction theorems take an operator that the provers cannot instantiate.

Assumed is only `IdentityAssumption`: finitely many distinct ids and persons named by
them, ordered as the code orders person ids, and events ordered by their ids that are
well typed. Only model-checked: nothing of the run.

## 8. Parked notifications (`ParkedNotifications`)

### Model

The events of one configuration, Stripe or an App Store one that tracks only what
its SDK confirms: a purchase that names one product, and events that depend on it.
`row` is `payment_provider_notification_processed`; `recorded` are the events the
purchase core has committed; `acked` those whose sender was told so. A request
delivers an event (`Arrive`, `PassGate`, `Accept`, `Park`, `Note`); `Map` and `Unmap`
change the product mapping and dispatch the replay; a run is a replay workflow or a
sweep (`Sweep`, `Start`, `Find`, `Replay`, `Mark`). Look-up and commit are one step
when what is needed is there, because the purchase core checks again; when it is
not, parking the row is a step of its own, and what was missing may appear before it.
Requests and runs die between any two steps, dispatches are lost, the
acknowledgement may be lost after the commit, and rows grow old.

One request per event at a time; the sweep's expiry and its choice of candidates
are one step; attempts are counted up to the cap. Failures that end an event,
ignored events, payloads that do not decode and the reconciliation rows are left
out. Google Play parks in the form of the product mapping alone.

### Checks

`parked` - a purchase and a dependent event, one sweep and one workflow, a cap of
two attempts, three mapping changes, one fault, one row that grows old:
`NothingIsLost` (an acknowledged event is recorded, still parked, or was expired)
and `ReadyIsReplayed` (a row whose needs are met is settled in the end), under
weak fairness of sweeps and runs only. The sweep is what makes the second true: the
dispatched replay may run before the row it was meant for is inserted.

The model also shows that the attempt cap counts waiting: the sweep replays every
Stripe row parked for its transaction, whether or not the purchase can be there
(`PendingRevenueReplaySweep.ts:215`), each miss counts, and a refund whose purchase
waits for its product mapping expires after about eight hours. The comment at
`PendingRevenueReplaySweep.ts:43` says the cap trips "on persistent replay failures,
not on waiting for a mapping". `NothingIsLost` counts an expired row as kept.

### Proofs (`ParkedNotificationsProofs`)

`ParkedInvariant` (`TypeOK`, `NotesRecorded`, `MarksRecorded`, `RowsKept`),
`ParkedTypes` and `AcknowledgedEventsSurvive`, for any events, runs and bounds. A run
marks rows by the ids it read long before, so the invariant says of every run about
to mark that its rows' events are recorded. `ReadyIsReplayed` stays with TLC.

## 9. Paywall serving (`PaywallServing`)

### Model

What a location shows is decided by three services that share tables and no locks
but those of the statements: releases (`PaywallReleaseService`,
`PaywallDeployService`), showings (`PaywallLocationService`) and experiments
(`ExperimentService`). `source`, `draft`, `release`, `open`, `archived` and
`experiment` are the tables; a request is one service call, `call` what it asks
for, `at` how far it is, `seen` what it has read and not yet used. A request may fail
at any step (`Fail`), which rolls its transaction back.

Transactions are READ COMMITTED. An UPDATE collects the rows it matches
(`Snapshot`, `SnapshotShowings`), waits for those another transaction has locked and
skips the ones that no longer match; rows committed after it collected are not
seen. Writes are visible at commit. The per-location statements of one transaction
are one step; `concludeExperiment` reads the winners' releases in a step of its own.

| Steps | Code |
|---|---|
| `ReadDraft`, `WriteDraft` | `createRelease` |
| `ReadPublish`, `LookUpReleased` | `publishRelease`, before its transaction |
| `ReadActivate` | `setActivePaywallRelease`, before its transaction |
| `ReadPaywall`, `KeepActive`, `ChooseRelease` | `commitPaywall`: reuse the active release, activate an older one, or make a new version |
| `Snapshot`, `Apply`, `Commit` | the activation all three share, with `propagateActiveReleaseToOpenShowings` |
| `ReadAssign`, `SnapshotShowings`, `Assign`, `Clear` | `assignLocationShowing`, `clearLocationShowing`, `archiveLocation` |
| `ReadSave`, `Save` ... `Restore` | `saveSetup` (placements), start, pause, conclude, archive, restore, with `setInternalFlagState` |

A showing pins a release of a paywall, or an experiment: never both, never neither
(`Pin`). Rows are inserted by `assignLocationShowing`, `startExperiment`,
`concludeExperiment` (`ExperimentService.ts:813`) and the propagation of an activation
(`PaywallDeployService.ts:757`), and ended by these, `clearLocationShowing` and
`archiveLocation`. A placement names a paywall, and in rows older than that rule
(`schema.ts:2488`) also a release, which a conclusion promotes whether or not it is
active (`Promotable`); `saveSetup` writes none. Locations are finite in number. A
database may start in any state in which what is open of a code paywall is its active
release, a shown experiment has been started and is placed where it is shown
(`StartsAssumption`), and a release that a placement names is one of its paywall
(`PlacementsAssumption`, which no proof needs).

Three history variables name the overlaps the code does not order: `overtaken`, what
a request wrote to although its rows had changed since it read them; `astray`,
paywalls with a showing no activation moved; `moved`, experiments whose placements
were saved after a start. A fourth, `named`, is the set of showings that pin a release because a
placement named it.

### Checks

`paywall_serving` - three requests, all under way at once, over two paywalls, two
locations and one experiment, from four initial databases: a code paywall shown at
a location, one edited in Studio that a deploy adopts, one never deployed, and a
running experiment whose control is an old row: it names a release of the code
paywall that is not the active one.

- `ActiveRelease`: a released paywall always has an active release, and one only
  unless two activations crossed.
- `OneShowing`: a location shows one thing, unless two replacements crossed there.
- `CodeFollows`: what is pinned of a code paywall is its active release, unless a
  conclusion promoted the release that its placement names, active or not. That needs
  no overlap and is what the code means to do; the next activation moves the showing.
- `ConcludedLetsGo`: a concluded experiment is shown nowhere.

Three requests let two of them cross and a third act on the result; four versions
are more than three requests reach from two. Every call ends, so deadlock is not
checked.

What the history variables leave out happens in the model as in the code, and no
property catches it, although the code says otherwise:

- Two activations at once leave two active releases. `schema.ts:1588` says "Only one
  version can be active per paywall"; no index does.
- An assignment pins the release it read before an activation committed.
  `PaywallDeployService.ts:1905` says "Activation pins open showings to the
  newly-active release for CODE-source paywalls".
- With one call at a time: an experiment is paused, its placements are changed, it is
  concluded, and a location it was shown at keeps it. `ExperimentService.ts:750` says
  "so no location is ever left dangling".
- A start under way during a conclusion sets the experiment running again.
  `ExperimentService.ts:558` says "A concluded experiment cannot be restarted".

Two more behaviours the model contains, which nothing in the code speaks of: a
propagation replaces showings that were ended after it read them, so a location may
show two things; and finalizing an older ready deploy again makes a new version of
its content instead of returning its result.

### Proofs (`PaywallServingProofs`)

From `NoneAssumption`, `CallsAssumption`, `StartsAssumption` and `BoundsAssumption`,
for any requests, paywalls, locations, experiments and bounds.

- `OneActiveRelease` (`ActiveRelease`). Its invariant `IInv` says what a request
  knows of the paywall it activates at each step (`Knows`): the version it activates
  is released, or it has a document to insert under it (`Activates`); and about to
  commit it holds every row that was active when it collected, unless another
  activation came first (`Holds`). Neither half of `ActiveRelease` is inductive
  without them, because the step that clears the others is not the step that looked
  for them.
- `OneShowingPerLocation` (`OneShowing`). `ShowInv` adds that what a request has
  prepared names each location once, among those it clears.
- `ConcludedForGood`: a concluded experiment is never started or paused again,
  except by a request that read its status before (`ConcludedIsFinal`, proved and
  not among the runs).
- `ServingTypes` (`TypeOK`): `Types` adds the shape of what a request has read at
  each step, and that what it prepared of an experiment pins that experiment and
  what it prepared of a release pins none.
- `CodeIsShownAsDeployed` (`CodeFollows`) and `ConcludedIsShownNowhere`
  (`ConcludedLetsGo`). `Follows` joins them with `Placement`: an experiment that is
  open somewhere has been started, and is open where its placements say. Without
  it a conclusion, which frees the placed locations, could miss one. For the releases:
  what a conclusion or an assignment pins is active, or its row is put into `named`, or
  its paywall is `astray`; a commit either moves every open showing of its paywall or makes the paywall `astray`
  (`CommitActivates`), and no other step changes which release is active.

Only model-checked: nothing of the run.

## 10. Runs

| Run | Module | Expected | Asks |
|---|---|---|---|
| `ledger_safety` | `MCPurchaseLedger` | pass | are claims exclusive and nothing lost; does it implement the outbox |
| `ledger_liveness` | `MCPurchaseLedger` | pass | does every row settle |
| `webhook_safety` | `MCWebhookDelivery` | pass | are final states earned, is a failing endpoint stopped |
| `webhook_liveness` | `MCWebhookDelivery` | pass | does every delivery settle, also one retried by hand |
| `webhook_resume` | `MCWebhookDelivery` | violation | does a skipped delivery resume |
| `purchase_state` | `MCPurchaseState` | pass | do concurrent events act as if alone |
| `purchase_perks` | `MCPurchaseState` | violation | do perks always follow the rows |
| `push_delivery` | `MCPushDelivery` | pass | one handler, one push, a truthful parent |
| `push_liveness` | `MCPushDelivery` | pass | one send per key, does every delivery settle |
| `person_identity` | `MCPersonIdentity` | pass | do racing events converge |
| `parked` | `MCParkedNotifications` | pass | is every acknowledged event kept and replayed |
| `paywall_serving` | `MCPaywallServing` | pass | does a location show the one right thing |

Each property of a passing run has a mutant in `PROJECT.json`: a plausible bug in a
mapped definition under which TLC finds the property violated.

## 11. What is proved and what is only checked

A theorem holds for every value of the constants that satisfies the module's named
assumptions; a run holds for its instance. Proved are the safety invariants and
action properties of the ledger, webhooks, purchase state, push delivery, person
identity, parked notifications and paywall serving, and the two refinements: the ledger implements
`RevenueOutbox`, purchase processing implements `PurchaseSerial`. Liveness properties
are only checked: TLAPS proves neither liveness under fairness nor facts about
`ENABLED`. What a section above lists as only model-checked is so as well.

Properties with a history variable in them (`doubt`, `missed`, `torn`, `overtaken`,
`astray`, `moved`, `named`) promise something except where the code does not. They do
not catch the overlap they leave out: the sections above and the hazards in
`PROJECT.json` without a property say what happens there, and `purchase_perks` shows
it for perks. The mutants show that the remainder is not empty.

## 12. Not modelled

- *Analytics ingest*: a queue consumer without state of its own between batches;
  rows are deduplicated by event id in ClickHouse. The ledger meets it as a sink
  that may store any part of a batch.
- *Analytics query, feature-flag evaluation, exchange rates, paywall builder and
  renderers*: functions of one request over large data.
- *Agent sessions*: a durable object per session with a log of its own; not reached.
- *Deploy uploads, blobs, components, artifacts, thumbnails*: content-addressed
  files; the release that points at them is modelled.
- *API keys, organizations, projects, products, audit log, RPC, CLI, web app*:
  single-row CRUD, views and transport.
- *SDKs*: programs on other machines, which the backend meets as repeated requests.
- *Vendored code (mimic), examples, generated clients*: not this program's logic.
- *Reads* (dead-letter and delivery listings, health counters, resolving a location
  for an SDK) change no state.
- *Data*: signatures, URLs, secrets, payloads, prices, error texts. A change of an
  endpoint's URL while a delivery sleeps is data in this sense.
- *External systems* are modelled as the code uses them: the event sink may store
  any subset and answers honestly, receivers and stores may answer anything,
  PostgreSQL runs statements atomically at READ COMMITTED with row and advisory
  locks, queues deliver at least once, and the workflow host executes a step at
  least once.
- *Starvation by full batches*: with a full batch of older rows always due, the
  ledger drain (`DbPurchaseLedgerStoreLive.ts:87`) or the webhook sweep
  (`WebhookDeliverySweep.ts:88`) may not reach a newer row. This depends on rates
  that the models do not tie to their clocks; the liveness runs use batches that
  hold every row.
