# Food delivery over RabbitMQ: models, checks and proofs

This directory is the formal side of the repository. `src/README.md` explains the
program; this file says which parts of it are modelled in TLA+, how the models follow
the code, what TLC checks on small instances, what TLAPS proves for every instance,
and what is still open.

## 1. Inventory

| Component | Code | State | Operations |
|---|---|---|---|
| Order store | `app/store.py`, `migrations/002_workflow_gate.sql` | `orders`, `order_workflow`, `order_events` | one transaction per function, from `create_order` to `mark_failure_published` |
| Topology | `app/config.py`, `broker.declare_topology` | exchanges, five work queues, one shared DLQ | publish, deliver, ack, nack |
| Asynchronous API | `api.create_order_async`, `broker.Publisher.publish` | the request in progress | insert, publish with two tries, compensate on failure |
| Worker runtime | `workers/base.py` | connection, the one unacknowledged delivery | `on_message`, `emit`, `retry`, `dead_letter`, exit and restart |
| Payment, inventory | `workers/payment_worker.py`, `workers/inventory_worker.py` | none | `handle` |
| Coordinator | `workers/coordinator_worker.py` | none | `handle`: join, or fail |
| Restaurant | `workers/restaurant_worker.py` | none | `handle`: gate, idempotence check, confirm |
| Notification | `workers/notification_worker.py` | none | `handle`: receipt, completion, failure notice |
| Synchronous API | `api.create_order_sync` | the request in progress | all five steps in one request |
| Publisher connection | `broker.Publisher` | lazily opened connection, lock | `_ensure`, `publish`, `healthy`, `start`, `close` |
| Database pool | `app/db.py` | lazily created pool | `pool`, `wait_for_db`, `cursor`, `healthy`, `close` |
| Dashboard | `static/app.js` | two lanes, a polling token each | submit, poll, render, pause, refresh |
| Reset script | `scripts/reset.py` | none | purge each queue, then truncate |
| Migration runner | `scripts/migrate.py` | `schema_migrations` | read the ledger, apply what is missing |
| Models, logs, demos, diagrams | `models.py`, `logs.py`, `demo/`, `scripts/render_diagrams.py` | none | validation, formatting, measuring |

How they interact: processes share nothing but PostgreSQL and RabbitMQ. The API
commits an order, then publishes `order.created` to three queues. Payment and
inventory each commit a step and publish a result to the coordinator. The coordinator
joins the two results and publishes `order.ready`. The restaurant confirms and
publishes `order.confirmed`. The notification worker completes the order. Each handler
does some transactions and a publish, and acknowledges last, so **between any two of
its calls every other process may run, and any of its calls may be the last one**.

What is hard, and what must therefore hold:

* *A failure against a success in flight.* Payment may exhaust its attempts while
  inventory commits, or fail after the join. Compensation must be recorded exactly when
  it is owed (`CompensatedIffFailed`), nothing may succeed afterwards
  (`NothingSucceedsAfterFailure`), and the status must agree with the workflow columns
  (`StatusAgrees`).
* *At-least-once delivery.* Retries, redeliveries and scaled consumers run one step
  several times, even at once. The status must not go back (`StatusOnlyAdvances`), and a
  repeated step must still announce its result (`NeverSilentlyLost`).
* *A crash between commit, publish and mark.* Nobody may receive a message that the
  database does not bear out (`MessagesTruthful`), and no order, or notice of a failure,
  may be dropped (`NeverSilentlyLost`, `FailureReachesCustomer`).
* *A request and the workers disagree.* 503 is answered for an order that may have been
  published: it must fail and stay failed (`RejectedOrdersFail`). A request that is cut
  short may leave an order behind, but none that was paid for and reserved and that nothing
  drives (`NeverSilentlyLost`); a synchronous one leaves nothing that the status does
  not show (`ResidueIsVisible`).
* *One connection, one pool, many threads.* FastAPI runs requests on a thread pool; they
  share a channel that is not thread-safe and a pool that is created on first use
  (`ChannelKeptForSender`, `PoolOpensInTheEnd`, `LockIsReleased`).
* *A reset under running workers.* Queues go one by one, tables last; handlers in between
  keep what they hold (`ResetStrandsNobody`, `WipedOrdersStayGone`, `NothingResurrected`, `ResidueDrains`).
* *Replies that overtake each other* in the browser (`ShownOnlyAdvances`,
  `LaneCatchesUp`), and reads in two statements (`TimelineCoversStatus`).
* *Something is owed.* An accepted order ends and its customer hears of it
  (`AcceptedOrdersEnd`, `CustomersHearTheEnd`).

`PROJECT.json` lists every hazard at its line with the properties that watch it.

## 2. Modules

```
OrderStore          rows of one order, each transaction of store.py as an operator
  Broker            queues, bindings, messages, what publishing does to the queues
    OrderWorkflow   API + workers + faults: the state machine
      OrderProperties       invariants, action properties, liveness, refinement mapping
        MCOrderWorkflow       instances for TLC
        OrderWorkflowProofs   theorems about rows
          OrderMessageProofs    theorems about messages
            OrderCareProofs       no order is dropped
              OrderOutcomeProofs    no failure goes unsaid, completed orders are alike
        Reset                 scripts/reset.py composed with the workflow
          MCReset               its instance
          ResetProofs           theorems, from those of OrderCareProofs
  SyncOrder         POST /orders/sync on the same rows
    SyncOrderProofs   theorems
OrderSaga           abstract specification of an order (INSTANCEd by OrderProperties)

ApiProcess          request threads, publisher and pool of the API process
  ApiProcessProofs    theorems
PublishCall         abstract specification of publish() (INSTANCEd by ApiProcess)
Dashboard           the async lane of the console, against get_order()
  DashboardProofs     theorems
```

**OrderStore.** A `Row` joins what the three tables hold for one order: `status`, `done`
(the step columns `payment_succeeded`, `inventory_reserved`, `restaurant_notified`),
`readyPublished`, `failurePublished`, `failedStep`, and `events`, the set of event keys.
The code never inserts a key twice (`ON CONFLICT DO NOTHING` on the unique index), so a
set loses nothing but the order of rows, and "a before b" is stated as "no state has b
without a". Each transaction is one step because the statement that decides holds the
row lock until the commit. Text, timestamps and customer data are left out.

**Broker.** A queue is a bag. RabbitMQ keeps no order between two consumers of a queue
nor after a requeue, and the code relies on none. A message is its routing key, the
order, `x-attempt` and, for `workflow.failed`, the failed step.

**OrderWorkflow.** One action per call a process makes:

| Variable | Code |
|---|---|
| `db[o]` | the committed row of order `o` |
| `queues[q]`, `dlq` | ready messages |
| `worker[w]` | `pc` names the next call of the handler, `msg` the unacknowledged delivery, `up` whether its channel is alive |
| `api[o]` | how far `create_order_async` got |
| `faults` | how many faults may still come |

| Actions | Code |
|---|---|
| `ApiCreate`, `ApiPublish`, `ApiUnreachable`, `ApiFail`, `ApiCrash` | `create_order_async`, `Publisher.publish` |
| `Deliver`, `Ack`, `Retry`, `Exhaust`, `RecordDeliveryFailure`, `DeadLetter` | `on_message` around the handler |
| `MoveToProcessing`, `CheckStepDone`, `Decline`, `RecordSuccess` | payment and inventory |
| `Join`, `FailOrder`, `MarkPublished` | coordinator |
| `GateOnFailure`, `CheckStepDone`, `Decline`, `ConfirmTicket` | restaurant |
| `Notify` | notification |
| `Emit` | `ctx.emit` of every handler |
| `Crash`, `Disconnect`, `Exit` | the end of a worker and its restart |

Choices worth knowing:

* A **database error** leaves it open whether the commit took effect; the handler then
  goes to the `except` branch. A **publish error** on a live channel leaves it open
  whether the message was stored (a nack, or a mandatory message that some queue took).
  For `order.created` any subset of the three queues may have it. A publish on a
  connection that is gone is `Disconnect` (or `Crash`) followed by `Exit`. An outage of the
  broker that fails the API's first try may fail its second as the same fault, so that one
  fault reaches the 503 of an order whose `order.created` was routed.
* **`ApiCrash`** (fault kind `apicrash`) ends a request between its insert and its answer and
  leaves its order as it is. An `order.created` that was under way is lost or is routed to all its
  queues, so that with this one fault the workers charge, reserve and complete an order whose
  customer was never answered.
* **`Disconnect`** requeues the delivery while its handler keeps running: with
  BlockingConnection the handler learns of it at its next publish or ack. It may still
  commit transactions. This is where two handlers of one delivery come from.
* A **crash** and the restart by `restart: unless-stopped` are one step, since a worker
  keeps nothing in memory. The `docker compose stop` and `start` of the chaos demo, with a
  delivery in hand, is an instance.
* The **decline** of a worker (`*_FAIL_RATE`) is a free choice for the roles in
  `Declining`.
* `RecordDeliveryFailure` stands for `_store_notification_failed` under one event key
  for all routing keys; no property distinguishes them.
* Definitions marked "Variant" are plausible bugs; `PROJECT.json` names, for each
  property of each run, the variant under which TLC must find the property violated.

**OrderSaga** is the promise without broker, retries or processes: an order holds a
payment and a reservation before its restaurant confirms it, holds both while it is
confirmed or completed, and has given both back once it has failed. The mapping
(`PhaseOf`, `HeldBy`) computes phase and holdings from the row. The saga lets an order
fail from any phase, since that is what the code does (finding 1).

**Reset.** `ResetNext` interleaves the workflow's `Next` with the script: a purge per
queue in the order of `config.QUEUES`, the DLQ, then `TruncateAll`. A purge removes ready
messages only, so what a handler holds survives and is published into queues that have been
purged. After the truncation every transaction of such a handler finds no row. `GiveUp` is
the script's failure at any step.

**SyncOrder.** `request[o]` names the next store call of `create_order_sync`. `Call` is one
call: it commits, or raises with or without effect. `Crash` ends every running request,
`Truncate` is a reset at any moment. The handler looks at no return value, and neither do
the actions.

**ApiProcess.** A thread has a `stage` (the part of the request) and a `pc` (its place in
`Publisher` or `pool()`).

| Variable | Code |
|---|---|
| `lock` | `Publisher._lock` |
| `link`, `alive` | what `is_open` says of `_conn` and `_ch`; whether the broker agrees |
| `pool`, `opened` | the object that `_pool` names; the pools that were opened |
| `thread`, `copies` | the requests, and what the broker stored for each publish |
| `broker`, `life`, `faults` | the broker's state, the lifespan, the faults left |

`link` and `alive` differ because a `BlockingConnection` does no I/O between two calls:
nobody answers heartbeats, the broker drops the connection, and `is_open` stays true.
`calm` is a ghost: nothing failed since the lock was taken. `GiveUp` stands for the whole
of `connect()`'s retries. **PublishCall** is what a caller relies on, and what
`OrderWorkflow` takes `publish()` for in `ApiPublish` and `ApiUnreachable`: two tries at
most, a copy when it returns, up to two when it raises.

**Dashboard.** One handler runs at a time; `tracker[k]` is the call of `trackOrder` whose
token is `k`, at one of its awaits. Statuses are abstracted to how far they are, and the
two `SELECT`s of `get_order` are two steps, as READ COMMITTED allows. `Accepted` leaves the
drawn timeline alone, as `submitOrder` does.

## 3. Runs

The workflow's instances have **one order**. Orders share no row and no message, and a worker
holds one delivery at a time, so a second order could only delay the first; the proofs cover
any number. `MaxRetries` is 2 (3 by default in the code), so that the first attempt, a retry
and exhaustion all occur, and 1 in `core` and `notice`, so that one fault or decline
makes any role give up at any call; `Retry` is never enabled there, and it is `scaled`,
`liveness` and `reset` that retry. One fault suffices for every single-failure scenario
at every point; the runs about double failures have two.

| Run | Instance | Shows |
|---|---|---|
| `core` | one worker per role, no second attempt, payment and restaurant may decline, one fault of any kind | all safety properties of the workflow, and that it implements `OrderSaga`; whatever any role gives up on is in the DLQ or fails the order |
| `scaled` | two payment workers that may decline (`make scale` starts several), two coordinators (nothing starts them, the same option of docker compose could), a retry, one fault of any kind | a charge that races its own redelivery and the failure of the order is compensated; the join fires when it should, never without both results; nothing is lost |
| `liveness` | one worker per role, payment may decline, one crash or lost connection | accepted orders end, customers hear of it |
| `reset` | one worker per role, payment and restaurant may decline, a retry, a reset at any moment | whoever is left after a reset is driven by a message; no step brings a wiped order back; what is left of it drains |
| `sync` | two requests, two errors, crashes or resets | 200 COMPLETED is true unless a reset took the order away; what a request that failed half way leaves behind shows in the status; no call inserts an order again |
| `api` | two threads, two broker or database faults | the channel is its sender's, a publish or check without new faults succeeds, the lock comes back, `publish()` keeps `PublishCall`, a pool that `_pool` names is opened by somebody |
| `dashboard` | two orders, four tokens: two submissions, or one and a refresh | the timeline covers the status; the status shown for one order only advances; the refresh is the lane's own; the lane's own tracker reads the end or offers to look again (not: that no card of a superseded order comes back, see section 4) |
| `outcome`, `exhausted`, `notice`, `ticket`, `health` | see findings | TLC finds each violation |

Two threads suffice in `api` because a third could only wait for the lock or repeat what the
first two do to `_pool`; two faults allow a dropped connection and a failure of the
reconnect. Four tokens allow a superseded tracker with a reply under way, which is what the
token is for.

`CompletedOrdersAlike` compares an accepted order that has completed, none of whose messages
is dead-lettered, with `DeliveredRow`, the row that the
synchronous request leaves (`AnswerIsTrue` says so), so the two paths are shown to end
alike.

**Fairness.** `OrderWorkflow!FairSpec` has weak fairness of each worker's step and of each
request that has begun. A worker whose next step stays possible takes it, as a running
process (or its restarted container) does. Nothing is assumed about which message of a queue
comes first, about declines, or about faults: they are bounded by `MaxFaults` and never owed.
`FairResetSpec` is the same; nobody has to run the script. In `ApiProcess` each thread's step
is weakly fair (a thread runs, and `connect()` ends), the broker's are not, and who gets a
free lock is left open, so a waiting thread is not promised the lock, only its release. In
`Dashboard` a tracker goes on and its minute passes; workers and clicks are not owed. The
stutter `Rest` of each module is a system in which everything has been answered and drained,
so deadlock is checked everywhere else.

## 4. Findings

1. **`outcome`**: `store.py:324-325` says an ambiguous publisher retry must not reverse an
   outcome already accepted. `fail_workflow(.., "api", ..)` is not stopped by the gates
   under that comment: two publishes of `order.created` without a confirm fail, and
   refund, an order that the workers have already confirmed.
2. **`exhausted`**: README line 97 says an exhausted critical step leads to `FAILED` and a
   customer notice. If the restaurant's last attempt commits and then raises, its failure is
   refused by the gate of `store.py:328`; the order stays CONFIRMED with its `order.ready` in
   the DLQ.
3. **`notice`**: with two coordinators, `mark_ready_published` after a concurrent failure
   arms the gate of `store.py:326`, and the redelivered `workflow.failed` is taken for
   stale: the order is FAILED and the customer is never told. It needs a crash or an
   error between the commit of the failure and the publish of `order.failed`.
4. **`ticket`**: with two restaurant workers and a lost connection, the handler that can
   still publish gets False from `record_restaurant_confirmation` and acknowledges; the
   one that confirmed cannot publish. The order stays CONFIRMED, with nothing in any queue.

5. **`health`**: README line 69 calls `GET /health` readiness. `healthy()` reads `is_open`
   before and after an `_ensure()` that does nothing on an open-looking connection; after the
   broker has stopped for good, it says online until a publish fails.

Findings 1, 2 and 5 contradict a sentence of the repository; 3 and 4 are lost messages
that a few lines would prevent (condition the mark on `failed_step IS NULL`; emit
when the step is found done).

Behaviours that the models show, that no sentence of the repository rules out, and that
the properties are worded around:

* *A stale card.* A tracker compares its token before a request and not after it. The reply
  of a superseded tracker is drawn over the new order's card, and if the new order's tracker
  has ended, it stays there. `LaneCatchesUp` therefore speaks of what the lane's own tracker
  has drawn.
* *A reset under load.* `reset.py` may log "queues and order tables are empty" while
  handlers still publish for orders that are gone; `ResidueDrains` says where that ends. If it
  fails after some purges, unfinished orders stay in the tables with no message.
* *200 for an order that a reset has truncated*: `create_order_sync` answers a literal.
* *Two pools.* `pool()` binds its name before it opens the pool, so a request that races the
  first one may get an error from a closed pool, and a pool that was overwritten before it
  was opened is never used. `PoolOpensInTheEnd` says that it heals.
* *A synchronous request that is cut short* leaves its charge and its reservation as they
  are. `ResidueIsVisible` says what can be read off the status of such an order.
* *A charge that nothing drives.* An asynchronous request whose publish raised, reached
  payment and not inventory, and whose API process died before `fail_workflow`, leaves a
  charged order in PROCESSING without a message. It takes two faults. `NeverSilentlyLost`
  speaks of orders that were accepted, or that are both paid for and reserved: from then
  on nothing is lost, which `core` and `scaled` check with one fault (the API dies while
  `order.created` goes out, and is routed) and `NothingLost` proves for any number and kind.
* *A completed order without a receipt*, in the same way: if `order.created` reached all
  queues but the notification's and the API died, nobody was told that the order is accepted,
  but it completes. `CompletedOrdersAlike` therefore speaks of accepted orders.

## 5. Proofs

`OrderWorkflowProofs` holds for any set of orders and workers, any assignment of roles,
any `MaxRetries >= 1`, any declining roles, any kinds and number of faults. It assumes
only the named ASSUMEs of `Broker` and `OrderWorkflow`.

The properties of the rows are not inductive one by one: that a success message implies
three steps needs that a confirmed order had its prerequisites, and that the status is
FAILED exactly when `failed_step` is set. Their conjunction, with "a row that does not
exist is empty", is `RowOK`. The inductive invariant is

    Inv == TypeOK /\ Fresh /\ \A o \in Orders : RowOK(db[o])

where `Fresh` says that an order not yet requested has no rows, so that `create_order`
never overwrites one. The argument has four layers:

1. *Rows*: an Effect lemma and an OK lemma per transaction (`StoreStepOK`). This layer
   knows nothing of queues or workers.
2. *Steps*: every action keeps the types, takes each row through one transaction or none,
   and touches the rows of one order only (`StepsAreTransactions`, one case per action).
3. *Requests*: `Compensated` says that a request past its insert has an order, so that the
   `fail_workflow` of a 503 finds its row; with `StepsAdvance` (a failure is never taken back)
   it is inductive relative to `Inv` and gives `RejectionsStand`.
4. *Theorems*: `Invariance`, and from it `TypeCorrect`, `CompensationCorrect`,
   `SuccessGated`, `StatusesAgree`, the action properties `StatusAdvances` and
   `FailureIsFinal`, and `SagaImplemented`, that the workflow implements `OrderSaga`.

So no schedule of handlers, however scaled, retried or duplicated, breaks these: the
guards in the SQL carry them alone.

**Messages** (`OrderMessageProofs`, under the same assumptions). Rows only grow
(`RowsGrow`), so a message stays true once it is; what must be shown is that it is true when
it is sent. The inductive invariant, per order, is `Borne`: its messages are borne out by its
row, and so is the result of every handler that is at its emit. `Fits` says that a handler is at a
call of its own role, without which "at the emit" would say nothing about the commit before
it. The proof does not look at each action's messages: a worker's step takes a delivery,
advances, lets go of the delivery or loses its channel (`WorkerEffects`), and each message
afterwards is an old one with its key or a failure of it, the result of an emit, or
`order.created` (`NewMessages`). `TruthfulMessages` follows.

**No order is dropped** (`OrderCareProofs`). Beyond `Borne`, the invariant `CareOf` has
four parts. `CheckHolds`: a restaurant handler that has looked and found no ticket still has
none when it confirms. `ReadySafe`: once `order.ready` is about to be marked, it is with the
restaurant, or `order.confirmed` is with the notification worker, or one of them is dead.
`Driven`, for orders that were accepted or have both steps recorded: until the join, each missing
step has its `order.created`, and if none is missing some result is still to come, unless the order
has failed or a `workflow.failed` is on its way that will be accepted. And `Backed`, which an order
needs whose request was cut off: of a step that somebody still works on, perhaps without a
channel, the `order.created` is alive, or the step is recorded, or it no longer matters
(`Superseded`). So when the second step is recorded, by whatever handler, the order is `Driven` from
then on. `Routed` says that each message is in a queue it is routed to. The proof rests on what
becomes of a message that somebody has (`KeptStays`
and `LiveStays`): it is kept until its handler settles it, and a handler settles a delivery because
it sent its result, was refused by a row, or had nothing to do (`Settlements`).

The only assumption is `OneOf("restaurant")`: one process consumes the restaurant's queue, as
with `docker compose up` and `make scale`, which scales payment only. Without it the statement is
false (finding 4). This is where `CheckHolds` breaks. The kinds and the number of faults are free.

**No failure goes unsaid** (`OrderOutcomeProofs`). Once an order that may be accepted has
failed, its notice is recorded or with the notification worker or dead, or a `workflow.failed`
is with the coordinator that will not be refused (`NoticeOf`). Refusal comes from the flags that the marks
set, so the invariant also says that a coordinator never releases an order that has failed
(`ReleasesUnfailed`). It is this that needs `OneOf("coordinator")`, and finding 3 is its failure
with two. `TakenBack` says that the broker has requeued what a coordinator without a
channel still works on.

**Nothing rests undecided** (`RestIsTheEnd`, same module). When no message is ready or held and
no request is running, every accepted order has completed or its customer was told of the
failure, or the message that would have told is dead. It follows from `Driven`, `ReadySafe` and
`NoticeOf` with all queues empty, for any number and kind of faults, one restaurant and one
coordinator, and a worker for each queue. It is the half of `CustomersHearTheEnd` that needs no fairness: that the workers do
not all wait for each other; that they get there is left to TLC.

**Completed orders are alike** (`CompletedAlike`, same module). The invariant `RecordOf` has a
part for each entry of `DeliveredRow`. What a row says has its event (`Recorded`), and a handler
past its first call has moved its order on (`PastEnsure`), so every event up to the completion
is there. Its receipt is recorded or on its way (`Receipted`), and the notification worker that
completed it exists (`Staffed`), so at rest its queue is empty and nothing is on its way. And nothing else may be
there: a `notification.delivery_failed` comes only with a delivery that is dead or about to be
(`Undelivered`). That last part is where two faults matter: after a database error a handler
that gives up may record `delivery_failed`, lose its channel before the DLQ, and the redelivery may
succeed, which makes a completed order that says it was not delivered. So the theorem assumes
`RecordsApart`: at most one fault, or no database errors, or neither crashes nor lost connections.
This restricts the behaviour as a whole, not each delivery: a behaviour with an error on one order and
a crash on another is outside it. `core` (one fault) satisfies it, and so does any number of
crashes alone. The number of workers per role, of orders and of retries is free.

**Reset** (`ResetProofs`). A purge takes messages and so breaks `CareOf`, but only for orders
that the truncation is about to remove. The invariant is split by time: `SilentBefore`, an order not
yet requested has no messages, at all times; `SoundAfter`, the invariants above hold after the truncation
for each order that is there or not yet requested. `NobodyStranded` takes the
assumption of `NothingLost`. `WipedStayGone` takes none: it goes through every transaction that a
step may make and finds that only `create_order` inserts an order, which a request does once.

`SyncOrderProofs` holds for any number of requests, database errors, crashes and resets.
The properties are not inductive: a step is known to build the next row only if the pc tells
which row it found. `Built(row, pc)` is that row, and the invariant `OrderOK` says that the
order of a request at `pc` has it or, after a reset, `NoRow`, and that the order of a request that
did not get to its answer has the row of one of the calls (`Stages`). One lemma per transaction takes
`Built` from call to call, `NoRowStays` says that none but the first makes a row, and what is
built after the last call is `DeliveredRow`. `TrueAnswers` and `ResidueVisible` follow (each stage
is visible, `StagesAreVisible`); `ResetStands` looks at the calls themselves.

`ApiProcessProofs` holds for any number of threads and faults. `ChannelKeptForSender` needs
that whoever is between `Acquire` and `Leave` holds the lock (so that there is only one), and
that in turn needs that a thread's stage fits its pc, since only the stage says whether a call that
ends gives the lock back: that is `Inv`, and `ChannelKept` follows. `PoolOpens` needs no more.
`CallInv` adds what a call has found by its pc (`CallFits`) and, while it is `calm`, that the broker
is up and a connection that looks open is alive (`Connected`): then only a fault of its own can
make a call fail (`CalmCalls`). `PublishCallImplemented` shows step by step that what happens under the lock is a try, a
return or a raise of `PublishCall`, or a stutter.

`DashboardProofs` holds for any number of orders, submissions and refreshes. The tokens do not keep
a superseded tracker from drawing one last reply; what keeps a card from going back is that
an order never has two trackers at work (`OneTracker`), as it is tracked again only from a refresh
button that appears when its tracker has ended. With `TokensInOrder`, `RepliesTrue` and `CardTrue`
(what a tracker has read, and what is drawn, is no newer than the order) this is inductive.

**Only model-checked**: `LockIsReleased`, `AcceptedOrdersEnd`, `CustomersHearTheEnd`,
`ResidueDrains` and `LaneCatchesUp`, which are liveness, as TLAPS has no practical way to reason
about fairness and ENABLED here; and the five properties of section 4, which are false. Every
other property of a passing run is stated by a theorem. In `scaled`, with its two coordinators,
`FailureReachesCustomer` is outside the theorem's assumption: there it is the single fault that
keeps it true, as finding 3 takes two, and TLC is what says so.

## 6. Not modelled, and the plan

Not modelled:

* Validation, logs, message wording, demos, diagrams, and read-only queries other than
  `get_order`: no state, or none that anything else depends on.
* `set_status` and `add_event`, which nothing calls.
* Consumers of the DLQ: there are none.
* `migrate.py`: compose starts it once, before everything else, and each file commits
  together with its ledger row. A second one would be stopped by the ledger's primary key.
* The sync lane of the dashboard, which runs the functions of the async lane on an order that
  has ended, and its pollers of `/health` and `/stats`, which keep nothing.
* `TRUNCATE` as a victim of a deadlock with a transaction, except as a failure of the script.

What is left of the plan: theorems whose assumptions are the weakest that the code allows
(`CompletedAlike` bounds the kinds of faults of the whole behaviour, where a bound per delivery
would do), and what can be promised after a reset that fails half way (`GiveUp`).

## 7. Running

    tlc -workers 2 -config core.cfg MCOrderWorkflow.tla   # and likewise the other runs of this module
    tlc -workers 2 -config reset.cfg MCReset.tla
    tlc -workers 2 -config sync.cfg SyncOrder.tla
    tlc -workers 2 -config api.cfg ApiProcess.tla
    tlc -workers 2 -config dashboard.cfg Dashboard.tla
    tlapm OrderWorkflowProofs.tla     # 924 obligations
    tlapm OrderMessageProofs.tla      # 811
    tlapm OrderCareProofs.tla         # 1176
    tlapm OrderOutcomeProofs.tla      # 1315
    tlapm ResetProofs.tla             # 214
    tlapm SyncOrderProofs.tla         # 269
    tlapm ApiProcessProofs.tla        # 1004
    tlapm DashboardProofs.tla         # 442

The largest runs, `scaled` and `core`, have 680,173 and 672,438 distinct states and
take a minute or two each; each proof module takes one to three minutes from nothing.
