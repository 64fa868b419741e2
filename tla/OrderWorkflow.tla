--------------------------- MODULE OrderWorkflow ---------------------------
(***************************************************************************)
(* POST /orders and the five workers behind it: the path of an order from  *)
(* the API's insert to COMPLETED or FAILED, through RabbitMQ, with the     *)
(* crashes, lost connections, refused publishes and database errors that   *)
(* base.run_worker() handles.                                              *)
(*                                                                         *)
(* A step is what one process does up to its next visible effect: one      *)
(* transaction of store.py, one publish, one ack or nack.  Between two     *)
(* steps of a handler everything else may happen.  The pc of a worker      *)
(* names the call it makes next.                                           *)
(***************************************************************************)
EXTENDS Broker

CONSTANTS
  Workers,     \* the worker processes; scaling adds processes of one role
  Role,        \* the queue each of them consumes, and its failed_step name
  Declining,   \* the roles whose *_FAIL_RATE is above zero
  FaultKinds,  \* the faults that may happen
  MaxFaults    \* how many of them in one behaviour: the bound of a run

ASSUME RoleAssumption == Role \in [Workers -> Queues]
ASSUME DecliningAssumption == Declining \subseteq Steps
ASSUME FaultAssumption ==
  /\ FaultKinds \subseteq {"apicrash", "crash", "disconnect", "publish", "db"}
  /\ MaxFaults \in Nat

VARIABLES
  db,      \* the committed row of each order
  queues,  \* the ready messages of each work queue
  dlq,     \* orders.dlq
  worker,  \* each worker's handler: pc, the delivery it holds, connection up?
  api,     \* how far create_order_async got with each order
  faults   \* how many faults may still come

vars == <<db, queues, dlq, worker, api, faults>>

HandlerPcs ==
  {"ensure", "check", "act", "gate", "decide", "emit", "mark", "notify",
   "except", "ack", "deadletter"}

Idle == [pc |-> "idle", msg |-> NoMessage, up |-> TRUE]

WorkerStates ==
  [pc : HandlerPcs, msg : Message, up : BOOLEAN] \cup {Idle}

ApiPcs == {"new", "try1", "try2", "fail", "accepted", "rejected", "error"}

\* The first call of each role's handle().
Entry ==
  [payment |-> "ensure", inventory |-> "ensure", coordinator |-> "decide",
   restaurant |-> "gate", notification |-> "notify"]

\* run_worker(critical=...) of each role.
Critical == Queues \ {"notification"}

Init ==
  /\ db = [o \in Orders |-> NoRow]
  /\ queues = [q \in Queues |-> EmptyBag]
  /\ dlq = EmptyBag
  /\ worker = [w \in Workers |-> Idle]
  /\ api = [o \in Orders |-> "new"]
  /\ faults = MaxFaults

-----------------------------------------------------------------------------
(***************************************************************************)
(* What the steps share.                                                   *)
(***************************************************************************)
Delivery(w) == worker[w].msg

Subject(w) == Delivery(w).order

RowOf(w) == db[Subject(w)]

At(w, pc) == worker[w].pc = pc

Goto(w, pc) == worker' = [worker EXCEPT ![w].pc = pc]

Release(w) == worker' = [worker EXCEPT ![w] = Idle]

Spend(kind) ==
  /\ kind \in FaultKinds
  /\ faults > 0
  /\ faults' = faults - 1

\* Variant that a run must reject: handle() swallows a database error.
SwallowingTransaction(w, row, next) ==
  /\ db' \in {db, [db EXCEPT ![Subject(w)] = row]}
  /\ Goto(w, next)
  /\ UNCHANGED <<queues, dlq, api, faults>>

\* One transaction of the handler that w runs.  When the database fails, the
\* exception cannot tell a lost commit from a lost answer to a commit.
Transaction(w, row, next) ==
  /\ \/ /\ db' = [db EXCEPT ![Subject(w)] = row]
        /\ Goto(w, next)
        /\ UNCHANGED faults
     \/ /\ Spend("db")
        /\ db' \in {db, [db EXCEPT ![Subject(w)] = row]}
        /\ Goto(w, "except")
  /\ UNCHANGED <<queues, dlq, api>>

\* The queues after nack(requeue) of w's delivery, or after its connection dropped.
Requeued(qs, w) == Stored(qs, {Role[w]}, Delivery(w))

-----------------------------------------------------------------------------
(***************************************************************************)
(* create_order_async.                                                     *)
(***************************************************************************)
ApiGoto(o, pc) == api' = [api EXCEPT ![o] = pc]

ApiCreate(o) ==
  /\ api[o] = "new"
  /\ \/ /\ db' = [db EXCEPT ![o] = CreateOrder]
        /\ ApiGoto(o, "try1")
        /\ UNCHANGED faults
     \/ /\ Spend("db")
        /\ db' \in {db, [db EXCEPT ![o] = CreateOrder]}
        /\ ApiGoto(o, "error")
  /\ UNCHANGED <<queues, dlq, worker>>

\* Publisher.publish(): two tries; a try that fails may have reached any of
\* the bound queues, since its exception only says that no confirm came back.
ApiPublish(o) ==
  LET created == Event("order.created", o) IN
  /\ api[o] \in {"try1", "try2"}
  /\ \/ /\ queues' = Stored(queues, Targets(created.key), created)
        /\ ApiGoto(o, "accepted")
        /\ UNCHANGED faults
     \/ /\ Spend("publish")
        /\ \E reached \in SUBSET Targets(created.key) :
             queues' = Stored(queues, reached, created)
        /\ ApiGoto(o, IF api[o] = "try1" THEN "try2" ELSE "fail")
  /\ UNCHANGED <<db, dlq, worker>>

\* _ensure() had to reconnect and connect() gave up: its RuntimeError is not
\* one of the exceptions publish() retries.  The outage that failed the first try
\* may fail the second one too, as a single fault.
ApiUnreachable(o) ==
  /\ \/ api[o] = "try1" /\ Spend("publish")
     \/ api[o] = "try2" /\ UNCHANGED faults
  /\ ApiGoto(o, "fail")
  /\ UNCHANGED <<db, queues, dlq, worker>>

\* The except branch: compensate, then answer 503.
ApiFail(o) ==
  /\ api[o] = "fail"
  /\ \/ /\ db' = [db EXCEPT ![o] = FailWorkflow(@, "api")]
        /\ ApiGoto(o, "rejected")
        /\ UNCHANGED faults
     \/ /\ Spend("db")
        /\ db' \in {db, [db EXCEPT ![o] = FailWorkflow(@, "api")]}
        /\ ApiGoto(o, "error")
  /\ UNCHANGED <<queues, dlq, worker>>

\* The API process dies and the request gets no answer.  A try to publish that was
\* under way may have been routed.
ApiCrash(o) ==
  LET created == Event("order.created", o) IN
  /\ api[o] \in {"try1", "try2", "fail"}
  /\ Spend("apicrash")
  /\ ApiGoto(o, "error")
  /\ \/ UNCHANGED queues
     \/ api[o] # "fail" /\ queues' = Stored(queues, Targets(created.key), created)
  /\ UNCHANGED <<db, dlq, worker>>

-----------------------------------------------------------------------------
(***************************************************************************)
(* The handlers.                                                           *)
(***************************************************************************)
Deliver(w) ==
  /\ At(w, "idle")
  /\ \E m \in BagToSet(queues[Role[w]]) :
       /\ queues' = Taken(queues, Role[w], m)
       /\ worker' = [worker EXCEPT
            ![w] = [pc |-> Entry[Role[w]], msg |-> m, up |-> TRUE]]
  /\ UNCHANGED <<db, dlq, api, faults>>

\* payment and inventory: store.ensure_processing().
MoveToProcessing(w) ==
  /\ At(w, "ensure")
  /\ Transaction(w, EnsureProcessing(RowOf(w)), "check")

\* restaurant: store.workflow_is_failed().
GateOnFailure(w) ==
  /\ At(w, "gate")
  /\ Transaction(w, RowOf(w), IF Failed(RowOf(w)) THEN "ack" ELSE "check")

\* Variant: a redelivery of a step already done is acknowledged silently.
CheckStepDoneSilently(w) ==
  /\ At(w, "check")
  /\ Transaction(w, RowOf(w), IF Role[w] \in RowOf(w).done THEN "ack" ELSE "act")

\* store.workflow_step_done(): a step already done is only announced again.
CheckStepDone(w) ==
  /\ At(w, "check")
  /\ Transaction(w, RowOf(w),
                 IF Role[w] \in RowOf(w).done THEN "emit" ELSE "act")

Decline(w) ==
  /\ At(w, "act")
  /\ Role[w] \in Declining
  /\ Goto(w, "except")
  /\ UNCHANGED <<db, queues, dlq, api, faults>>

RecordSuccess(w) ==
  /\ At(w, "act")
  /\ Role[w] \in Prerequisites
  /\ Transaction(w, RecordStepSuccess(RowOf(w), Role[w]), "emit")

ConfirmTicket(w) ==
  /\ At(w, "act")
  /\ Role[w] = "restaurant"
  /\ Transaction(w, RecordRestaurantConfirmation(RowOf(w)),
                 IF ConfirmAccepted(RowOf(w)) THEN "emit" ELSE "ack")

\* Variant: ready_published is set in the transaction that decides to publish.
JoinMarkingFirst(w) ==
  /\ At(w, "decide")
  /\ Delivery(w).key # "workflow.failed"
  /\ Transaction(w,
       IF Joined(RowOf(w)) THEN MarkReadyPublished(PrepareOrderReady(RowOf(w)))
                           ELSE RowOf(w),
       IF ReadyNeedsPublishing(RowOf(w)) THEN "emit" ELSE "ack")

Join(w) ==
  /\ At(w, "decide")
  /\ Delivery(w).key # "workflow.failed"
  /\ Transaction(w, PrepareOrderReady(RowOf(w)),
                 IF ReadyNeedsPublishing(RowOf(w)) THEN "emit" ELSE "ack")

\* Variant: failure_published is set before order.failed is out.
FailOrderMarkingFirst(w) ==
  LET step == Delivery(w).step IN
  /\ At(w, "decide")
  /\ Delivery(w).key = "workflow.failed"
  /\ Transaction(w, MarkFailurePublished(FailWorkflow(RowOf(w), step)),
                 IF FailureNeedsPublishing(RowOf(w), step)
                 THEN "emit" ELSE "ack")

FailOrder(w) ==
  LET step == Delivery(w).step IN
  /\ At(w, "decide")
  /\ Delivery(w).key = "workflow.failed"
  /\ Transaction(w, FailWorkflow(RowOf(w), step),
                 IF FailureNeedsPublishing(RowOf(w), step)
                 THEN "emit" ELSE "ack")

\* ctx.emit(): a publish that raises may still have been routed.
Emit(w) ==
  LET result == Event(ResultKey(Role[w], Delivery(w)), Subject(w))
      sent   == Stored(queues, Targets(result.key), result)
  IN  /\ At(w, "emit")
      /\ worker[w].up
      /\ \/ /\ queues' = sent
            /\ Goto(w, IF Role[w] = "coordinator" THEN "mark" ELSE "ack")
            /\ UNCHANGED faults
         \/ /\ Spend("publish")
            /\ queues' \in {queues, sent}
            /\ Goto(w, "except")
      /\ UNCHANGED <<db, dlq, api>>

\* Variant: one flag serves both messages.
MarkOneFlag(w) ==
  /\ At(w, "mark")
  /\ Transaction(w, MarkFailurePublished(RowOf(w)), "ack")

MarkPublished(w) ==
  /\ At(w, "mark")
  /\ Transaction(w, IF Delivery(w).key = "workflow.failed"
                    THEN MarkFailurePublished(RowOf(w))
                    ELSE MarkReadyPublished(RowOf(w)), "ack")

\* order_events refers to orders, so add_event_once raises when the order's
\* rows are gone (which only a reset can do); complete_order returns False instead.
Notify(w) ==
  LET row == RowOf(w)
      key == Delivery(w).key
  IN  /\ At(w, "notify")
      /\ \/ /\ key = "order.confirmed"
            /\ Transaction(w, CompleteOrder(row), "ack")
         \/ /\ key # "order.confirmed" /\ ~row.exists
            /\ Transaction(w, row, "except")
         \/ /\ key = "order.created" /\ row.exists
            /\ Transaction(w, AddEventOnce(row, "notification.received"), "ack")
         \/ /\ key = "order.failed" /\ row.exists
            /\ Transaction(w, AddEventOnce(row, "notification.failed_order"), "ack")

-----------------------------------------------------------------------------
(***************************************************************************)
(* on_message() around the handler.                                        *)
(***************************************************************************)
Ack(w) ==
  /\ At(w, "ack")
  /\ worker[w].up
  /\ Release(w)
  /\ UNCHANGED <<db, queues, dlq, api, faults>>

\* Variant: one attempt too many.
RetryOnceMore(w) ==
  /\ At(w, "except")
  /\ worker[w].up
  /\ Delivery(w).attempt <= MaxRetries
  /\ queues' = Stored(queues, {Role[w]}, [Delivery(w) EXCEPT !.attempt = @ + 1])
  /\ Goto(w, "ack")
  /\ UNCHANGED <<db, dlq, api, faults>>

\* Variant: x-attempt is not counted up.
RetryUncounted(w) ==
  /\ At(w, "except")
  /\ worker[w].up
  /\ Delivery(w).attempt < MaxRetries
  /\ queues' = Stored(queues, {Role[w]}, Delivery(w))
  /\ Goto(w, "ack")
  /\ UNCHANGED <<db, dlq, api, faults>>

\* retry() to the worker's own queue; when that publish fails too the original
\* goes back to the queue, where the retry may already be.
Retry(w) ==
  LET again   == [Delivery(w) EXCEPT !.attempt = @ + 1]
      retried == Stored(queues, {Role[w]}, again)
  IN  /\ At(w, "except")
      /\ worker[w].up
      /\ Delivery(w).attempt < MaxRetries
      /\ \/ /\ queues' = retried
            /\ Goto(w, "ack")
            /\ UNCHANGED faults
         \/ /\ Spend("publish")
            /\ queues' \in {Requeued(queues, w), Requeued(retried, w)}
            /\ Release(w)
      /\ UNCHANGED <<db, dlq, api>>

Exhaust(w) ==
  LET failure == FailureEvent(Subject(w), Role[w])
      sent    == Stored(queues, Targets(failure.key), failure)
  IN  /\ At(w, "except")
      /\ worker[w].up
      /\ Role[w] \in Critical
      /\ Delivery(w).attempt = MaxRetries
      /\ \/ /\ queues' = sent
            /\ Goto(w, "deadletter")
            /\ UNCHANGED faults
         \/ /\ Spend("publish")
            /\ queues' \in {Requeued(queues, w), Requeued(sent, w)}
            /\ Release(w)
      /\ UNCHANGED <<db, dlq, api>>

\* _store_notification_failed() swallows its own exceptions: whether the event was
\* written makes no difference to the handler.
RecordDeliveryFailure(w) ==
  LET row      == RowOf(w)
      recorded == IF row.exists
                  THEN AddEventOnce(row, "notification.delivery_failed") ELSE row
  IN  /\ At(w, "except")
      /\ Role[w] \notin Critical
      /\ Delivery(w).attempt = MaxRetries
      /\ db' \in {db, [db EXCEPT ![Subject(w)] = recorded]}
      /\ Goto(w, "deadletter")
      /\ UNCHANGED <<queues, dlq, api, faults>>

\* Variant: the delivery is acknowledged without a copy in the DLQ.
DeadLetterDropped(w) ==
  /\ At(w, "deadletter")
  /\ worker[w].up
  /\ Release(w)
  /\ UNCHANGED <<db, queues, dlq, api, faults>>

DeadLetter(w) ==
  /\ At(w, "deadletter")
  /\ worker[w].up
  /\ dlq' = BagAdd(dlq, Delivery(w))
  /\ Release(w)
  /\ UNCHANGED <<db, queues, api, faults>>

-----------------------------------------------------------------------------
(***************************************************************************)
(* Faults.                                                                 *)
(***************************************************************************)
\* The process dies and is restarted; an unacknowledged delivery is ready again.
Crash(w) ==
  /\ ~At(w, "idle")
  /\ Spend("crash")
  /\ queues' = IF worker[w].up THEN Requeued(queues, w) ELSE queues
  /\ Release(w)
  /\ UNCHANGED <<db, dlq, api>>

\* The broker drops the connection under a running handler (a missed heartbeat,
\* a broker restart): the delivery is ready for others while the handler, which
\* only meets the dead channel at its next publish or ack, goes on.
Disconnect(w) ==
  /\ ~At(w, "idle")
  /\ worker[w].up
  /\ Spend("disconnect")
  /\ queues' = Requeued(queues, w)
  /\ worker' = [worker EXCEPT ![w].up = FALSE]
  /\ UNCHANGED <<db, dlq, api>>

\* Every exit from a handler uses the channel in the end; on a closed one the
\* exception leaves start_consuming() and the process ends and is restarted.
NeedsChannel(w) ==
  \/ worker[w].pc \in {"emit", "ack", "deadletter"}
  \/ /\ At(w, "except")
     /\ Role[w] \in Critical \/ Delivery(w).attempt < MaxRetries

Exit(w) ==
  /\ NeedsChannel(w)
  /\ ~worker[w].up
  /\ Release(w)
  /\ UNCHANGED <<db, queues, dlq, api, faults>>

-----------------------------------------------------------------------------
ApiStep(o) == ApiPublish(o) \/ ApiUnreachable(o) \/ ApiFail(o)

WorkerStep(w) ==
  \/ Deliver(w)
  \/ MoveToProcessing(w) \/ CheckStepDone(w) \/ Decline(w) \/ RecordSuccess(w)
  \/ GateOnFailure(w) \/ ConfirmTicket(w)
  \/ Join(w) \/ FailOrder(w) \/ MarkPublished(w)
  \/ Emit(w) \/ Notify(w)
  \/ Ack(w) \/ Retry(w) \/ Exhaust(w) \/ RecordDeliveryFailure(w)
  \/ DeadLetter(w) \/ Exit(w)

\* Nothing is left to do: every request was answered and every queue that an
\* instance has a worker for is drained.
Quiescent ==
  /\ \A o \in Orders : api[o] \in {"accepted", "rejected", "error"}
  /\ \A w \in Workers : worker[w] = Idle /\ queues[Role[w]] = EmptyBag

Rest == Quiescent /\ UNCHANGED vars

Next ==
  \/ \E o \in Orders : ApiCreate(o) \/ ApiStep(o) \/ ApiCrash(o)
  \/ \E w \in Workers : WorkerStep(w) \/ Crash(w) \/ Disconnect(w)
  \/ Rest

Spec == Init /\ [][Next]_vars

(***************************************************************************)
(* Customers need not order, but a request runs to its answer, and a       *)
(* running worker takes what is ready and finishes its handler.  Faults    *)
(* are never owed: MaxFaults bounds them and nothing makes them happen.   *)
(***************************************************************************)
FairSpec ==
  /\ Spec
  /\ \A o \in Orders : WF_vars(ApiStep(o))
  /\ \A w \in Workers : WF_vars(WorkerStep(w))

=============================================================================
