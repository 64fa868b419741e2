------------------------ MODULE OrderWorkflowProofs ------------------------
(***************************************************************************)
(* Proofs about the order workflow, for every number of orders, workers,   *)
(* retries and faults.                                                     *)
(*                                                                         *)
(* The argument goes through the rows: every step of the system leaves an  *)
(* order's row alone or takes it through one transaction of OrderStore     *)
(* (StepsAreTransactions), and RowOK is preserved by each transaction.     *)
(***************************************************************************)
EXTENDS OrderProperties, TLAPS

-----------------------------------------------------------------------------
(***************************************************************************)
(* Rows.                                                                   *)
(***************************************************************************)
\* What holds of every row: the parts of CompensatedIffFailed, SuccessIsGated
\* and StatusAgrees, and that an order without an orders row has nothing else.
RowOK(r) ==
  /\ r \in Row
  /\ r.exists \/ r = NoRow
  /\ \A s \in Prerequisites :
       Compensation[s] \in r.events <=> (Failed(r) /\ s \in r.done)
  /\ "workflow.ready" \in r.events => Prerequisites \subseteq r.done
  /\ (r.status = "COMPLETED" \/ "notification.success" \in r.events)
       => Steps \subseteq r.done
  /\ r.status = "FAILED" <=> Failed(r)
  /\ r.status = "READY" => Prerequisites \subseteq r.done /\ "restaurant" \notin r.done
  /\ r.status = "CONFIRMED" =>
       Steps \subseteq r.done /\ "notification.success" \notin r.events
  /\ r.status = "COMPLETED" => "notification.success" \in r.events
  /\ r.status \in {"PENDING", "PROCESSING"} => "restaurant" \notin r.done

Notices ==
  {"notification.received", "notification.failed_order",
   "notification.delivery_failed"}

\* One transaction of store.py, or none, on a row.
StoreStep(r, r2) ==
  \/ r2 = r
  \/ r2 = EnsureProcessing(r)
  \/ \E s \in Prerequisites : r2 = RecordStepSuccess(r, s)
  \/ r2 = PrepareOrderReady(r)
  \/ r2 = MarkReadyPublished(r)
  \/ r2 = RecordRestaurantConfirmation(r)
  \/ r2 = CompleteOrder(r)
  \/ \E step \in FailedSteps : r2 = FailWorkflow(r, step)
  \/ r2 = MarkFailurePublished(r)
  \/ r.exists /\ \E key \in Notices : r2 = AddEventOnce(r, key)

USE DEF Prerequisites, Steps, NoStep, FailedSteps, Statuses, Failed

\* A transaction without a row to update does nothing.
LEMMA NoRowStays ==
  ASSUME NEW r, ~r.exists, NEW r2, StoreStep(r, r2)
  PROVE  r2 = r
  BY DEF StoreStep, EnsureProcessing, RecordStepSuccess, PrepareOrderReady, Joined,
         MarkReadyPublished, RecordRestaurantConfirmation, ConfirmAccepted,
         CompleteOrder, CompleteAccepted, FailWorkflow, FailAccepted,
         MarkFailurePublished

LEMMA CreateOrderOK == RowOK(CreateOrder)
<1> DEFINE n == CreateOrder
<1>1. /\ n \in Row
      /\ n.exists /\ n.done = {} /\ n.failedStep = NoStep /\ n.status = "PENDING"
      /\ n.events = {"order.accepted"}
  <2>1. "order.accepted" \in EventKeys
    BY DEF EventKeys
  <2> QED
    BY <2>1 DEF CreateOrder, NoRow, Row
<1> QED
  BY <1>1 DEF RowOK, Compensation

LEMMA NoRowOK == RowOK(NoRow)
  BY DEF RowOK, NoRow, Row, Compensation

LEMMA EventKeysAre ==
  /\ \A s \in Steps : StepSucceeded[s] \in EventKeys
  /\ \A s \in Prerequisites : Compensation[s] \in EventKeys
  /\ {"workflow.processing", "workflow.ready", "workflow.confirmed",
      "workflow.completed", "workflow.failed", "notification.success"}
       \subseteq EventKeys
  /\ Notices \subseteq EventKeys
  BY DEF EventKeys, Notices

LEMMA CompensationKeys ==
  \A s \in Prerequisites :
    Compensation[s] \notin {"workflow.processing", "workflow.ready",
       "workflow.confirmed", "workflow.completed", "workflow.failed",
       "notification.success"} \cup Notices \cup {StepSucceeded[t] : t \in Steps}
  BY DEF Compensation, StepSucceeded, Notices

(***************************************************************************)
(* The effect of each transaction that gets past its guard, field by field.*)
(***************************************************************************)
LEMMA EnsureProcessingEffect ==
  ASSUME NEW r \in Row, r.exists, r.status = "PENDING"
  PROVE  LET n == EnsureProcessing(r) IN
         /\ n \in Row
         /\ n.exists = r.exists /\ n.done = r.done /\ n.failedStep = r.failedStep
         /\ n.status = "PROCESSING"
         /\ n.events = r.events \cup {"workflow.processing"}
  BY EventKeysAre DEF EnsureProcessing, Row

LEMMA RecordCompensationsEffect ==
  ASSUME NEW r \in Row
  PROVE  LET n == RecordCompensations(r) IN
         /\ n \in Row
         /\ n.exists = r.exists /\ n.status = r.status
         /\ n.failedStep = r.failedStep /\ n.done = r.done
         /\ n.events = r.events
              \cup {Compensation[t] : t \in r.done \cap Prerequisites}
  BY EventKeysAre DEF RecordCompensations, Row

LEMMA RecordStepSuccessEffect ==
  ASSUME NEW r \in Row, NEW s \in Prerequisites, r.exists, s \notin r.done
  PROVE  LET n == RecordStepSuccess(r, s) IN
         /\ n \in Row
         /\ n.exists = r.exists /\ n.status = r.status /\ n.failedStep = r.failedStep
         /\ n.done = r.done \cup {s}
         /\ n.events = r.events \cup {StepSucceeded[s]} \cup
              IF Failed(r)
              THEN {Compensation[t] : t \in (r.done \cup {s}) \cap Prerequisites}
              ELSE {}
<1> DEFINE marked == [r EXCEPT !.done = @ \cup {s},
                               !.events = @ \cup {StepSucceeded[s]}]
<1>1. marked \in Row
  <2>1. /\ r.events \cup {StepSucceeded[s]} \subseteq EventKeys
        /\ r.done \cup {s} \subseteq Steps
    BY EventKeysAre DEF Row
  <2> QED
    BY <2>1 DEF Row
<1>2. /\ marked.exists = r.exists /\ marked.status = r.status
      /\ marked.failedStep = r.failedStep
      /\ marked.done = r.done \cup {s}
      /\ marked.events = r.events \cup {StepSucceeded[s]}
  BY DEF Row
<1>3. RecordStepSuccess(r, s) =
        IF Failed(r) THEN RecordCompensations(marked) ELSE marked
  BY DEF RecordStepSuccess
<1> HIDE DEF marked
<1>4. CASE Failed(r)
  BY <1>1, <1>3, <1>4, <1>2, RecordCompensationsEffect
<1>5. CASE ~Failed(r)
  BY <1>1, <1>3, <1>5, <1>2
<1> QED
  BY <1>4, <1>5

LEMMA PrepareOrderReadyEffect ==
  ASSUME NEW r \in Row, Joined(r)
  PROVE  LET n == PrepareOrderReady(r) IN
         /\ n \in Row
         /\ n.exists = r.exists /\ n.done = r.done /\ n.failedStep = r.failedStep
         /\ n.status = IF r.status \in {"PENDING", "PROCESSING"}
                       THEN "READY" ELSE r.status
         /\ n.events = r.events \cup {"workflow.ready"}
  BY EventKeysAre DEF PrepareOrderReady, Row

LEMMA ConfirmationEffect ==
  ASSUME NEW r \in Row, ConfirmAccepted(r)
  PROVE  LET n == RecordRestaurantConfirmation(r) IN
         /\ n \in Row
         /\ n.exists = r.exists /\ n.failedStep = r.failedStep
         /\ n.done = r.done \cup {"restaurant"}
         /\ n.status = IF r.status # "FAILED" THEN "CONFIRMED" ELSE r.status
         /\ n.events = r.events \cup {StepSucceeded["restaurant"], "workflow.confirmed"}
  BY EventKeysAre DEF RecordRestaurantConfirmation, Row

LEMMA CompleteOrderEffect ==
  ASSUME NEW r \in Row, CompleteAccepted(r)
  PROVE  LET n == CompleteOrder(r) IN
         /\ n \in Row
         /\ n.exists = r.exists /\ n.done = r.done /\ n.failedStep = r.failedStep
         /\ n.status = IF r.status # "FAILED" THEN "COMPLETED" ELSE r.status
         /\ n.events = r.events \cup {"notification.success", "workflow.completed"}
  BY EventKeysAre DEF CompleteOrder, Row

LEMMA FailWorkflowEffect ==
  ASSUME NEW r \in Row, NEW step \in FailedSteps, FailAccepted(r, step)
  PROVE  LET n == FailWorkflow(r, step) IN
         /\ n \in Row
         /\ n.exists = r.exists /\ n.done = r.done
         /\ n.status = "FAILED"
         /\ Failed(n)
         /\ n.events = r.events \cup {"workflow.failed"}
              \cup {Compensation[t] : t \in r.done \cap Prerequisites}
<1> DEFINE failed == [r EXCEPT !.failedStep = IF Failed(r) THEN @ ELSE step,
                               !.status     = "FAILED",
                               !.events     = @ \cup {"workflow.failed"}]
<1>1. /\ failed \in Row
      /\ failed.exists = r.exists /\ failed.done = r.done
      /\ failed.status = "FAILED" /\ Failed(failed)
      /\ failed.events = r.events \cup {"workflow.failed"}
  BY EventKeysAre DEF Row
<1>2. FailWorkflow(r, step) = RecordCompensations(failed)
  BY DEF FailWorkflow
<1> HIDE DEF failed
<1> QED
  BY <1>1, <1>2, RecordCompensationsEffect

\* The two marks and the notices touch nothing that the other fields depend on.
LEMMA MarkEffect ==
  ASSUME NEW r \in Row, r.exists,
         NEW n \in {MarkReadyPublished(r), MarkFailurePublished(r)}
  PROVE  /\ n \in Row
         /\ n.exists = r.exists /\ n.done = r.done /\ n.failedStep = r.failedStep
         /\ n.status = r.status /\ n.events = r.events
<1>1. CASE n = MarkReadyPublished(r)
  BY <1>1 DEF MarkReadyPublished, Row
<1>2. CASE n = MarkFailurePublished(r)
  BY <1>2 DEF MarkFailurePublished, Row
<1> QED
  BY <1>1, <1>2

LEMMA AddEventOnceEffect ==
  ASSUME NEW r \in Row, NEW key \in Notices
  PROVE  LET n == AddEventOnce(r, key) IN
         /\ n \in Row
         /\ n.exists = r.exists /\ n.done = r.done /\ n.failedStep = r.failedStep
         /\ n.status = r.status /\ n.events = r.events \cup {key}
  BY EventKeysAre DEF AddEventOnce, Row

(***************************************************************************)
(* RowOK is preserved by every transaction.                                *)
(***************************************************************************)
LEMMA EnsureProcessingOK ==
  ASSUME NEW r, RowOK(r) PROVE RowOK(EnsureProcessing(r))
<1>1. CASE r.exists /\ r.status = "PENDING"
  BY <1>1, EnsureProcessingEffect, CompensationKeys DEF RowOK
<1>2. CASE ~(r.exists /\ r.status = "PENDING")
  BY <1>2 DEF EnsureProcessing
<1> QED
  BY <1>1, <1>2

LEMMA RecordStepSuccessOK ==
  ASSUME NEW r, RowOK(r), NEW s \in Prerequisites
  PROVE  RowOK(RecordStepSuccess(r, s))
<1>1. CASE r.exists /\ s \notin r.done
  BY <1>1, RecordStepSuccessEffect, CompensationKeys DEF RowOK, Compensation, StepSucceeded
<1>2. CASE ~(r.exists /\ s \notin r.done)
  BY <1>2 DEF RecordStepSuccess
<1> QED
  BY <1>1, <1>2

LEMMA PrepareOrderReadyOK ==
  ASSUME NEW r, RowOK(r) PROVE RowOK(PrepareOrderReady(r))
<1>1. CASE Joined(r)
  BY <1>1, PrepareOrderReadyEffect, CompensationKeys DEF RowOK, Joined
<1>2. CASE ~Joined(r)
  BY <1>2 DEF PrepareOrderReady
<1> QED
  BY <1>1, <1>2

LEMMA ConfirmationOK ==
  ASSUME NEW r, RowOK(r) PROVE RowOK(RecordRestaurantConfirmation(r))
<1>1. CASE ConfirmAccepted(r)
  BY <1>1, ConfirmationEffect, CompensationKeys
  DEF RowOK, ConfirmAccepted, StepSucceeded
<1>2. CASE ~ConfirmAccepted(r)
  BY <1>2 DEF RecordRestaurantConfirmation
<1> QED
  BY <1>1, <1>2

LEMMA CompleteOrderOK ==
  ASSUME NEW r, RowOK(r) PROVE RowOK(CompleteOrder(r))
<1>1. CASE CompleteAccepted(r)
  BY <1>1, CompleteOrderEffect, CompensationKeys DEF RowOK, CompleteAccepted, Row
<1>2. CASE ~CompleteAccepted(r)
  BY <1>2 DEF CompleteOrder
<1> QED
  BY <1>1, <1>2

LEMMA FailWorkflowOK ==
  ASSUME NEW r, RowOK(r), NEW step \in FailedSteps
  PROVE  RowOK(FailWorkflow(r, step))
<1>1. CASE FailAccepted(r, step)
  <2> DEFINE n == FailWorkflow(r, step)
  <2>1. /\ n \in Row /\ n.exists = r.exists /\ n.done = r.done /\ r \in Row
        /\ n.status = "FAILED" /\ Failed(n) /\ r.exists
        /\ n.events = r.events \cup {"workflow.failed"}
             \cup {Compensation[t] : t \in r.done \cap Prerequisites}
    BY <1>1, FailWorkflowEffect DEF RowOK, FailAccepted
  <2> HIDE DEF n
  <2>2. \A s \in Prerequisites : Compensation[s] \in n.events <=> s \in n.done
    BY <2>1, CompensationKeys DEF RowOK, Compensation
  <2>3. /\ "notification.success" \in n.events => Steps \subseteq n.done
        /\ "workflow.ready" \in n.events => Prerequisites \subseteq n.done
    BY <2>1, CompensationKeys DEF RowOK
  <2>4. RowOK(n)
    BY <2>1, <2>2, <2>3 DEF RowOK
  <2> QED
    BY <2>4 DEF n
<1>2. CASE ~FailAccepted(r, step)
  BY <1>2 DEF FailWorkflow
<1> QED
  BY <1>1, <1>2

LEMMA MarksOK ==
  ASSUME NEW r, RowOK(r)
  PROVE  RowOK(MarkReadyPublished(r)) /\ RowOK(MarkFailurePublished(r))
<1>1. CASE r.exists
  BY <1>1, MarkEffect DEF RowOK
<1>2. CASE ~r.exists
  BY <1>2 DEF MarkReadyPublished, MarkFailurePublished
<1> QED
  BY <1>1, <1>2

LEMMA AddEventOnceOK ==
  ASSUME NEW r, RowOK(r), r.exists, NEW key \in Notices
  PROVE  RowOK(AddEventOnce(r, key))
  BY AddEventOnceEffect, CompensationKeys DEF RowOK, Notices

LEMMA StoreStepOK ==
  ASSUME NEW r, RowOK(r), NEW r2, StoreStep(r, r2)
  PROVE  RowOK(r2)
  BY EnsureProcessingOK, RecordStepSuccessOK, PrepareOrderReadyOK, ConfirmationOK,
     CompleteOrderOK, FailWorkflowOK, MarksOK, AddEventOnceOK DEF StoreStep

-----------------------------------------------------------------------------
(***************************************************************************)
(* Messages and workers keep their types.                                  *)
(***************************************************************************)
LEMMA BagAddType ==
  ASSUME NEW bag, IsQueueContent(bag), NEW m \in Message
  PROVE  IsQueueContent(BagAdd(bag, m))
  BY DEF IsQueueContent, IsABag, BagToSet, BagAdd

LEMMA BagRemoveType ==
  ASSUME NEW bag, IsQueueContent(bag), NEW m
  PROVE  IsQueueContent(BagRemove(bag, m))
  BY DEF IsQueueContent, IsABag, BagToSet, BagRemove

QueuesOK(qs) ==
  /\ DOMAIN qs = Queues
  /\ \A q \in Queues : IsQueueContent(qs[q])

LEMMA StoredType ==
  ASSUME NEW qs, QueuesOK(qs), NEW S, NEW m \in Message
  PROVE  QueuesOK(Stored(qs, S, m))
  BY BagAddType DEF QueuesOK, Stored

LEMMA TakenType ==
  ASSUME NEW qs, QueuesOK(qs), NEW q, NEW m
  PROVE  QueuesOK(Taken(qs, q, m))
  BY BagRemoveType DEF QueuesOK, Taken

LEMMA EventType ==
  ASSUME NEW key \in RoutingKeys, key # "workflow.failed", NEW o \in Orders
  PROVE  Event(key, o) \in Message
  BY MaxRetriesAssumption DEF Event, Message

LEMMA FailureEventType ==
  ASSUME NEW o \in Orders, NEW step \in FailedSteps
  PROVE  FailureEvent(o, step) \in Message
  BY MaxRetriesAssumption DEF FailureEvent, Message, RoutingKeys

LEMMA ResultKeyType ==
  ASSUME NEW q \in Queues, NEW m
  PROVE  ResultKey(q, m) \in RoutingKeys \ {"workflow.failed"}
  BY DEF ResultKey, RoutingKeys, Queues

LEMMA RetryType ==
  ASSUME NEW m \in Message, m.attempt < MaxRetries
  PROVE  [m EXCEPT !.attempt = @ + 1] \in Message
  BY MaxRetriesAssumption DEF Message

BusyStates == [pc : HandlerPcs, msg : Message, up : BOOLEAN]

\* A worker that is at some step of a handler holds a delivery.
LEMMA Busy ==
  ASSUME TypeOK, NEW w \in Workers, ~At(w, "idle")
  PROVE  /\ worker[w] \in BusyStates
         /\ Delivery(w) \in Message
         /\ Subject(w) \in Orders
         /\ Role[w] \in Queues
  BY RoleAssumption
  DEF TypeOK, At, WorkerStates, Idle, BusyStates, Delivery, Subject, Message

LEMMA GotoType ==
  ASSUME TypeOK, NEW w \in Workers, ~At(w, "idle"), NEW pc \in HandlerPcs, Goto(w, pc)
  PROVE  worker' \in [Workers -> WorkerStates]
<1>1. [worker[w] EXCEPT !.pc = pc] \in BusyStates
  BY Busy DEF BusyStates
<1> QED
  BY <1>1 DEF Goto, TypeOK, WorkerStates, BusyStates

LEMMA ReleaseType ==
  ASSUME TypeOK, NEW w \in Workers, Release(w)
  PROVE  worker' \in [Workers -> WorkerStates]
  BY DEF Release, TypeOK, WorkerStates

LEMMA SpendType ==
  ASSUME TypeOK, NEW kind, Spend(kind)
  PROVE  faults' \in Nat
  BY DEF TypeOK, Spend

-----------------------------------------------------------------------------
(***************************************************************************)
(* Every step is typed, and takes each row through one transaction.        *)
(***************************************************************************)
\* A request that has not been made yet has no rows.
Fresh == \A o \in Orders : api[o] = "new" => ~db[o].exists

Inv == TypeOK /\ Fresh /\ \A o \in Orders : RowOK(db[o])

RowChange(o) ==
  \/ StoreStep(db[o], db'[o])
  \/ api[o] = "new" /\ api'[o] # "new" /\ db'[o] = CreateOrder

\* No step touches the rows of two orders.
OneOrder ==
  \A o, p \in Orders : db'[o] # db[o] /\ db'[p] # db[p] => o = p

SafeStep ==
  /\ TypeOK'
  /\ \A o \in Orders : RowChange(o)
  /\ OneOrder
  /\ \A o \in Orders : api'[o] = "new" => api[o] = "new"

LEMMA TransactionRows ==
  ASSUME Inv, NEW o \in Orders, NEW row, StoreStep(db[o], row),
         db' \in {db, [db EXCEPT ![o] = row]}
  PROVE  /\ db' \in [Orders -> Row]
         /\ \A p \in Orders : StoreStep(db[p], db'[p])
         /\ OneOrder
<1>1. row \in Row
  BY StoreStepOK DEF Inv, RowOK
<1>2. \A p \in Orders : StoreStep(db[p], db[p])
  BY DEF StoreStep
<1> QED
  BY <1>1, <1>2 DEF Inv, TypeOK, OneOrder

LEMMA TransactionSafe ==
  ASSUME Inv, NEW w \in Workers, ~At(w, "idle"),
         NEW row, StoreStep(RowOf(w), row), NEW next \in HandlerPcs,
         Transaction(w, row, next)
  PROVE  SafeStep
<1>1. TypeOK /\ Subject(w) \in Orders
  BY Busy DEF Inv
<1>2. /\ db' \in [Orders -> Row]
      /\ \A o \in Orders : StoreStep(db[o], db'[o])
      /\ OneOrder
  <2>1. db' \in {db, [db EXCEPT ![Subject(w)] = row]}
    BY DEF Transaction
  <2> QED
    BY <1>1, <2>1, TransactionRows DEF RowOf
<1>3. worker' \in [Workers -> WorkerStates]
  <2>1. Goto(w, next) \/ Goto(w, "except")
    BY DEF Transaction
  <2> QED
    BY <1>1, <2>1, GotoType DEF HandlerPcs
<1>4. faults' \in Nat
  BY <1>1, SpendType DEF Transaction, TypeOK
<1> QED
  BY <1>1, <1>2, <1>3, <1>4 DEF Transaction, SafeStep, TypeOK, RowChange

\* A worker step that leaves the rows alone.
LEMMA NoTransactionSafe ==
  ASSUME Inv, UNCHANGED <<db, api>>,
         QueuesOK(queues'), IsQueueContent(dlq'),
         worker' \in [Workers -> WorkerStates], faults' \in Nat
  PROVE  SafeStep
  BY DEF Inv, SafeStep, TypeOK, QueuesOK, RowChange, StoreStep, OneOrder

\* The steps of the handlers that call the store.
LEMMA StoreCallsSafe ==
  ASSUME Inv, NEW w \in Workers,
         \/ MoveToProcessing(w) \/ GateOnFailure(w) \/ CheckStepDone(w)
         \/ RecordSuccess(w) \/ ConfirmTicket(w) \/ Join(w) \/ FailOrder(w)
         \/ MarkPublished(w) \/ Notify(w)
  PROVE  SafeStep
<1> DEFINE row == RowOf(w)
<1>1. CASE MoveToProcessing(w)
  BY <1>1, TransactionSafe DEF MoveToProcessing, At, StoreStep, HandlerPcs
<1>2. CASE GateOnFailure(w)
  BY <1>2, TransactionSafe DEF GateOnFailure, At, StoreStep, HandlerPcs
<1>3. CASE CheckStepDone(w)
  BY <1>3, TransactionSafe DEF CheckStepDone, At, StoreStep, HandlerPcs
<1>4. CASE RecordSuccess(w)
  BY <1>4, TransactionSafe DEF RecordSuccess, At, StoreStep, HandlerPcs
<1>5. CASE ConfirmTicket(w)
  BY <1>5, TransactionSafe DEF ConfirmTicket, At, StoreStep, HandlerPcs
<1>6. CASE Join(w)
  BY <1>6, TransactionSafe DEF Join, At, StoreStep, HandlerPcs
<1>7. CASE FailOrder(w)
  <2>1. ~At(w, "idle")
    BY <1>7 DEF FailOrder, At
  <2>2. Delivery(w).step \in FailedSteps
    BY <1>7, <2>1, Busy DEF FailOrder, Inv, Message
  <2> QED
    BY <1>7, <2>1, <2>2, TransactionSafe DEF FailOrder, StoreStep, HandlerPcs
<1>8. CASE MarkPublished(w)
  <2>1. ~At(w, "idle")
    BY <1>8 DEF MarkPublished, At
  <2>2. StoreStep(row, MarkFailurePublished(row)) /\ StoreStep(row, MarkReadyPublished(row))
    BY DEF StoreStep
  <2> QED
    BY <1>8, <2>1, <2>2, TransactionSafe DEF MarkPublished, HandlerPcs
<1>9. CASE Notify(w)
  <2>1. ~At(w, "idle")
    BY <1>9 DEF Notify, At
  <2>2. /\ StoreStep(row, row) /\ StoreStep(row, CompleteOrder(row))
        /\ row.exists => \A key \in Notices : StoreStep(row, AddEventOnce(row, key))
    BY DEF StoreStep
  <2>3. \/ Transaction(w, CompleteOrder(row), "ack")
        \/ Transaction(w, row, "except")
        \/ row.exists /\ \E key \in Notices : Transaction(w, AddEventOnce(row, key), "ack")
    BY <1>9 DEF Notify, Notices
  <2> QED
    BY <2>1, <2>2, <2>3, TransactionSafe DEF HandlerPcs
<1> QED
  BY <1>1, <1>2, <1>3, <1>4, <1>5, <1>6, <1>7, <1>8, <1>9

\* The steps that publish, acknowledge, or fail, and leave the rows alone.
LEMMA ChannelStepsSafe ==
  ASSUME Inv, NEW w \in Workers,
         \/ Decline(w) \/ Emit(w) \/ Ack(w) \/ Retry(w) \/ Exhaust(w)
         \/ DeadLetter(w) \/ Crash(w) \/ Disconnect(w) \/ Exit(w)
  PROVE  SafeStep
<1>1. /\ TypeOK /\ QueuesOK(queues) /\ IsQueueContent(dlq) /\ faults \in Nat
      /\ \A kind : Spend(kind) => faults' \in Nat
  BY SpendType DEF Inv, TypeOK, QueuesOK
<1>2. ~At(w, "idle")
  BY DEF Decline, Emit, Ack, Retry, Exhaust, DeadLetter, Crash, Disconnect, Exit,
         NeedsChannel, At
<1>3. /\ Delivery(w) \in Message /\ Subject(w) \in Orders
      /\ Role[w] \in Queues /\ worker[w] \in BusyStates
  BY <1>1, <1>2, Busy
<1>4. \A qs : QueuesOK(qs) => QueuesOK(Requeued(qs, w))
  BY <1>3, StoredType DEF Requeued
<1>5. CASE Decline(w)
  BY <1>1, <1>2, <1>5, GotoType, NoTransactionSafe DEF Decline, HandlerPcs
<1>6. CASE Emit(w)
  <2> DEFINE result == Event(ResultKey(Role[w], Delivery(w)), Subject(w))
  <2>1. result \in Message
    BY <1>3, EventType, ResultKeyType
  <2>2. QueuesOK(queues')
    BY <1>1, <1>6, <2>1, StoredType DEF Emit
  <2>3. worker' \in [Workers -> WorkerStates]
    BY <1>1, <1>2, <1>6, GotoType DEF Emit, HandlerPcs
  <2> QED
    BY <1>1, <1>6, <2>2, <2>3, NoTransactionSafe DEF Emit
<1>7. CASE Ack(w)
  BY <1>1, <1>7, ReleaseType, NoTransactionSafe DEF Ack
<1>8. CASE Retry(w)
  <2> DEFINE again == [Delivery(w) EXCEPT !.attempt = @ + 1]
             retried == Stored(queues, {Role[w]}, again)
  <2>1. again \in Message
    BY <1>3, <1>8, RetryType DEF Retry
  <2>2. QueuesOK(retried)
    BY <1>1, <2>1, StoredType
  <2>3. QueuesOK(queues')
    BY <1>1, <1>4, <1>8, <2>2 DEF Retry
  <2>4. worker' \in [Workers -> WorkerStates]
    BY <1>1, <1>2, <1>8, GotoType, ReleaseType DEF Retry, HandlerPcs
  <2> QED
    BY <1>1, <1>8, <2>3, <2>4, NoTransactionSafe DEF Retry
<1>9. CASE Exhaust(w)
  <2> DEFINE failure == FailureEvent(Subject(w), Role[w])
             sent    == Stored(queues, Targets(failure.key), failure)
  <2>1. failure \in Message
    BY <1>3, <1>9, FailureEventType DEF Exhaust, Critical, Queues
  <2>2. QueuesOK(sent)
    BY <1>1, <2>1, StoredType
  <2>3. QueuesOK(queues')
    BY <1>1, <1>4, <1>9, <2>2 DEF Exhaust
  <2>4. worker' \in [Workers -> WorkerStates]
    BY <1>1, <1>2, <1>9, GotoType, ReleaseType DEF Exhaust, HandlerPcs
  <2> QED
    BY <1>1, <1>9, <2>3, <2>4, NoTransactionSafe DEF Exhaust
<1>10. CASE DeadLetter(w)
  BY <1>1, <1>3, <1>10, BagAddType, ReleaseType, NoTransactionSafe DEF DeadLetter
<1>11. CASE Crash(w)
  BY <1>1, <1>4, <1>11, ReleaseType, NoTransactionSafe DEF Crash
<1>12. CASE Disconnect(w)
  <2>1. [worker[w] EXCEPT !.up = FALSE] \in BusyStates
    BY <1>3 DEF BusyStates
  <2>2. worker' \in [Workers -> WorkerStates]
    BY <1>1, <1>12, <2>1 DEF Disconnect, TypeOK, WorkerStates, BusyStates
  <2> QED
    BY <1>1, <1>4, <1>12, <2>2, NoTransactionSafe DEF Disconnect
<1>13. CASE Exit(w)
  BY <1>1, <1>13, ReleaseType, NoTransactionSafe DEF Exit
<1> QED
  BY <1>5, <1>6, <1>7, <1>8, <1>9, <1>10, <1>11, <1>12, <1>13

LEMMA DeliverSafe ==
  ASSUME Inv, NEW w \in Workers, Deliver(w)
  PROVE  SafeStep
<1>1. PICK m \in BagToSet(queues[Role[w]]) :
        /\ queues' = Taken(queues, Role[w], m)
        /\ worker' = [worker EXCEPT
             ![w] = [pc |-> Entry[Role[w]], msg |-> m, up |-> TRUE]]
  BY DEF Deliver
<1>2. TypeOK /\ Role[w] \in Queues /\ QueuesOK(queues)
  BY RoleAssumption DEF Inv, TypeOK, QueuesOK
<1>3. m \in Message
  BY <1>2 DEF QueuesOK, IsQueueContent
<1>4. [pc |-> Entry[Role[w]], msg |-> m, up |-> TRUE] \in WorkerStates
  BY <1>2, <1>3 DEF WorkerStates, Entry, Queues, HandlerPcs
<1> QED
  BY <1>1, <1>2, <1>4, TakenType, NoTransactionSafe DEF Deliver, TypeOK

LEMMA RecordDeliveryFailureSafe ==
  ASSUME Inv, NEW w \in Workers, RecordDeliveryFailure(w)
  PROVE  SafeStep
<1> DEFINE row == RowOf(w)
           recorded == IF row.exists
                       THEN AddEventOnce(row, "notification.delivery_failed") ELSE row
<1>1. TypeOK /\ ~At(w, "idle")
  BY DEF Inv, RecordDeliveryFailure, At
<1>2. Subject(w) \in Orders
  BY <1>1, Busy
<1>3. StoreStep(row, recorded)
  BY DEF StoreStep, Notices
<1>4. db' \in {db, [db EXCEPT ![Subject(w)] = recorded]}
  BY DEF RecordDeliveryFailure
<1>5. /\ db' \in [Orders -> Row] /\ \A o \in Orders : StoreStep(db[o], db'[o])
      /\ OneOrder
  BY <1>2, <1>3, <1>4, TransactionRows DEF RowOf
<1>6. worker' \in [Workers -> WorkerStates] /\ faults' \in Nat
  BY <1>1, GotoType, SpendType DEF RecordDeliveryFailure, HandlerPcs, TypeOK
<1> QED
  BY <1>1, <1>5, <1>6 DEF RecordDeliveryFailure, SafeStep, TypeOK, RowChange

\* The steps of create_order_async().
LEMMA ApiSafe ==
  ASSUME Inv, NEW o \in Orders,
         ApiCreate(o) \/ ApiStep(o) \/ ApiCrash(o)
  PROVE  SafeStep
<1>1. /\ TypeOK /\ QueuesOK(queues)
      /\ \A kind : Spend(kind) => faults' \in Nat
      /\ \A pc \in ApiPcs : ApiGoto(o, pc) => api' \in [Orders -> ApiPcs]
  BY SpendType DEF Inv, TypeOK, QueuesOK, ApiGoto
<1>2. CASE ApiCreate(o)
  <2>1. CreateOrder \in Row
    BY CreateOrderOK DEF RowOK
  <2>2. /\ db' \in {db, [db EXCEPT ![o] = CreateOrder]}
        /\ api[o] = "new"
        /\ \E pc \in {"try1", "error"} : ApiGoto(o, pc)
        /\ faults' \in Nat
        /\ UNCHANGED <<queues, dlq, worker>>
    BY <1>1, <1>2 DEF ApiCreate, TypeOK
  <2>3. TypeOK'
    BY <1>1, <2>1, <2>2 DEF TypeOK, ApiPcs
  <2>4. api'[o] # "new" /\ \A p \in Orders \ {o} : api'[p] = api[p]
    BY <1>1, <2>2 DEF TypeOK, ApiGoto
  <2>5. \A p \in Orders : RowChange(p)
    BY <1>1, <2>2, <2>4 DEF RowChange, StoreStep, TypeOK
  <2>6. OneOrder
    BY <1>1, <2>2 DEF OneOrder, TypeOK
  <2> QED
    BY <2>3, <2>4, <2>5, <2>6 DEF SafeStep
<1>3. CASE ApiPublish(o)
  <2> DEFINE created == Event("order.created", o)
  <2>1. created \in Message
    BY EventType DEF RoutingKeys
  <2>2. QueuesOK(queues')
    BY <1>1, <1>3, <2>1, StoredType DEF ApiPublish
  <2>3. /\ \E pc \in {"accepted", "try2", "fail"} : ApiGoto(o, pc)
        /\ api[o] # "new"
        /\ faults' \in Nat
        /\ UNCHANGED <<db, dlq, worker>>
    BY <1>1, <1>3 DEF ApiPublish, TypeOK
  <2>4. TypeOK'
    BY <1>1, <2>2, <2>3 DEF TypeOK, ApiPcs, QueuesOK
  <2> QED
    BY <1>1, <2>3, <2>4 DEF SafeStep, RowChange, StoreStep, OneOrder, ApiGoto, TypeOK
<1>4. CASE ApiUnreachable(o) \/ ApiCrash(o)
  <2> DEFINE created == Event("order.created", o)
  <2>1. created \in Message
    BY EventType DEF RoutingKeys
  <2>2. QueuesOK(queues')
    BY <1>1, <1>4, <2>1, StoredType DEF ApiUnreachable, ApiCrash
  <2>3. /\ \E pc \in {"fail", "error"} : ApiGoto(o, pc)
        /\ api[o] # "new"
        /\ faults' \in Nat
        /\ UNCHANGED <<db, dlq, worker>>
    BY <1>1, <1>4 DEF ApiUnreachable, ApiCrash, TypeOK
  <2>4. TypeOK'
    BY <1>1, <2>2, <2>3 DEF TypeOK, ApiPcs, QueuesOK
  <2> QED
    BY <1>1, <2>3, <2>4 DEF SafeStep, RowChange, StoreStep, OneOrder, ApiGoto, TypeOK
<1>5. CASE ApiFail(o)
  <2> DEFINE row == FailWorkflow(db[o], "api")
  <2>1. StoreStep(db[o], row)
    BY DEF StoreStep
  <2>2. /\ db' \in {db, [db EXCEPT ![o] = row]}
        /\ \E pc \in {"rejected", "error"} : ApiGoto(o, pc)
        /\ api[o] # "new"
        /\ faults' \in Nat
        /\ UNCHANGED <<queues, dlq, worker>>
    BY <1>1, <1>5 DEF ApiFail, TypeOK
  <2>3. /\ db' \in [Orders -> Row] /\ \A p \in Orders : StoreStep(db[p], db'[p])
        /\ OneOrder
    BY <2>1, <2>2, TransactionRows
  <2>4. TypeOK'
    BY <1>1, <2>2, <2>3 DEF TypeOK, ApiPcs
  <2> QED
    BY <1>1, <2>2, <2>3, <2>4 DEF SafeStep, RowChange, ApiGoto, TypeOK
<1> QED
  BY <1>2, <1>3, <1>4, <1>5 DEF ApiStep

LEMMA StutterSafe ==
  ASSUME Inv, UNCHANGED vars
  PROVE  SafeStep
  BY DEF Inv, SafeStep, TypeOK, RowChange, StoreStep, OneOrder, vars

\* Whatever happens next, types hold and each row goes
\* through at most one transaction.
LEMMA StepsAreTransactions ==
  ASSUME Inv, [Next]_vars
  PROVE  SafeStep
<1>1. CASE UNCHANGED vars
  BY <1>1, StutterSafe
<1>2. CASE \E o \in Orders : ApiCreate(o) \/ ApiStep(o) \/ ApiCrash(o)
  BY <1>2, ApiSafe
<1>3. CASE \E w \in Workers : WorkerStep(w) \/ Crash(w) \/ Disconnect(w)
  BY <1>3, StoreCallsSafe, ChannelStepsSafe, DeliverSafe, RecordDeliveryFailureSafe
  DEF WorkerStep
<1> QED
  BY <1>1, <1>2, <1>3 DEF Next, Rest

-----------------------------------------------------------------------------
(***************************************************************************)
(* The inductive invariant.                                                *)
(***************************************************************************)
LEMMA InitInv ==
  ASSUME Init
  PROVE  Inv
<1>1. IsQueueContent(EmptyBag)
  BY DEF IsQueueContent, IsABag, BagToSet, EmptyBag, SetToBag
<1>2. TypeOK
  BY <1>1, NoRowOK, FaultAssumption
  DEF Init, TypeOK, RowOK, WorkerStates, ApiPcs
<1> QED
  BY <1>2, NoRowOK DEF Init, Inv, Fresh, NoRow

LEMMA NextInv ==
  ASSUME Inv, SafeStep
  PROVE  Inv'
<1>1. \A o \in Orders : RowOK(db'[o])
  BY StoreStepOK, CreateOrderOK DEF Inv, SafeStep, RowChange
<1>2. ASSUME NEW o \in Orders, api'[o] = "new"
      PROVE  ~db'[o].exists
  <2>1. StoreStep(db[o], db'[o]) /\ ~db[o].exists
    BY <1>2 DEF Inv, Fresh, SafeStep, RowChange
  <2> QED
    BY <2>1, NoRowStays
<1> QED
  BY <1>1, <1>2 DEF Inv, Fresh, SafeStep

\* Inv holds of every reachable state: after each step the rows are still what the
\* transactions of store.py can make of them.
THEOREM Invariance == Spec => []Inv
<1>1. Init => Inv
  BY InitInv
<1>2. Inv /\ [Next]_vars => Inv'
  BY StepsAreTransactions, NextInv
<1> QED
  BY <1>1, <1>2, PTL DEF Spec

\* Every variable keeps its type and every attempt stays within MAX_RETRIES, however
\* many orders, workers, retries and faults.
THEOREM TypeCorrect == Spec => []TypeOK
<1>1. Inv => TypeOK
  BY DEF Inv
<1> QED
  BY <1>1, Invariance, PTL

\* A refund or a release is recorded exactly for the steps of a failed order that
\* had succeeded: compensation is neither forgotten nor done twice or too early.
THEOREM CompensationCorrect == Spec => []CompensatedIffFailed
<1>1. Inv => CompensatedIffFailed
  BY DEF Inv, RowOK, CompensatedIffFailed
<1> QED
  BY <1>1, Invariance, PTL

\* COMPLETED and the success message wait for payment, inventory and restaurant.
THEOREM SuccessGated == Spec => []SuccessIsGated
<1>1. Inv => SuccessIsGated
  BY DEF Inv, RowOK, SuccessIsGated
<1> QED
  BY <1>1, Invariance, PTL

\* orders.status and the columns of order_workflow agree after every transaction.
THEOREM StatusesAgree == Spec => []StatusAgrees
<1>1. Inv => StatusAgrees
  BY DEF Inv, RowOK, StatusAgrees
<1> QED
  BY <1>1, Invariance, PTL

-----------------------------------------------------------------------------
(***************************************************************************)
(* What a transaction may never do.                                        *)
(***************************************************************************)
RowAdvance(r, r2) ==
  /\ Rank[r.status] <= Rank[r2.status]
  /\ r.exists => r2.exists
  /\ Failed(r) =>
       /\ Failed(r2)
       /\ "restaurant" \in r2.done => "restaurant" \in r.done
       /\ "notification.success" \in r2.events => "notification.success" \in r.events

LEMMA StoreStepAdvances ==
  ASSUME NEW r, RowOK(r), NEW r2, StoreStep(r, r2)
  PROVE  RowAdvance(r, r2)
<1>1. r \in Row /\ (r.status = "FAILED" <=> Failed(r))
  BY DEF RowOK
<1>2. CASE r2 = r
  BY <1>1, <1>2 DEF RowAdvance, Rank, Row
<1>3. CASE r2 = EnsureProcessing(r) /\ r.exists /\ r.status = "PENDING"
  BY <1>1, <1>3, EnsureProcessingEffect DEF RowAdvance, Rank
<1>4. ASSUME NEW s \in Prerequisites, r2 = RecordStepSuccess(r, s), r.exists, s \notin r.done
      PROVE  RowAdvance(r, r2)
  BY <1>1, <1>4, RecordStepSuccessEffect, CompensationKeys
  DEF RowAdvance, Rank, Row, StepSucceeded
<1>5. CASE r2 = PrepareOrderReady(r) /\ Joined(r)
  BY <1>1, <1>5, PrepareOrderReadyEffect DEF RowAdvance, Rank, Row
<1>6. CASE r2 = RecordRestaurantConfirmation(r) /\ ConfirmAccepted(r)
  <2>1. r.status # "COMPLETED" /\ ~Failed(r)
    BY <1>6 DEF ConfirmAccepted, RowOK
  <2> QED
    BY <1>1, <1>6, <2>1, ConfirmationEffect DEF RowAdvance, Rank, Row
<1>7. CASE r2 = CompleteOrder(r) /\ CompleteAccepted(r)
  BY <1>1, <1>7, CompleteOrderEffect DEF RowAdvance, Rank, Row, CompleteAccepted
<1>8. ASSUME NEW step \in FailedSteps, r2 = FailWorkflow(r, step), FailAccepted(r, step)
      PROVE  RowAdvance(r, r2)
  BY <1>1, <1>8, FailWorkflowEffect, CompensationKeys DEF RowAdvance, Rank, Row
<1>9. CASE r2 \in {MarkReadyPublished(r), MarkFailurePublished(r)} /\ r.exists
  BY <1>1, <1>9, MarkEffect DEF RowAdvance, Rank, Row
<1>10. ASSUME NEW key \in Notices, r2 = AddEventOnce(r, key)
       PROVE  RowAdvance(r, r2)
  BY <1>1, <1>10, AddEventOnceEffect DEF RowAdvance, Rank, Row, Notices
<1> QED
  BY <1>2, <1>3, <1>4, <1>5, <1>6, <1>7, <1>8, <1>9, <1>10
  DEF StoreStep, EnsureProcessing, RecordStepSuccess, PrepareOrderReady,
      RecordRestaurantConfirmation, CompleteOrder, FailWorkflow,
      MarkReadyPublished, MarkFailurePublished

LEMMA StepsAdvance ==
  ASSUME Inv, SafeStep, NEW o \in Orders
  PROVE  RowAdvance(db[o], db'[o])
<1>1. CASE StoreStep(db[o], db'[o])
  BY <1>1, StoreStepAdvances DEF Inv
<1>2. CASE api[o] = "new" /\ db'[o] = CreateOrder
  <2>1. db[o] = NoRow
    BY <1>2 DEF Inv, Fresh, RowOK
  <2> QED
    BY <1>2, <2>1 DEF RowAdvance, NoRow, CreateOrder, Rank
<1> QED
  BY <1>1, <1>2 DEF SafeStep, RowChange

\* No late, repeated or concurrent delivery takes orders.status back.
THEOREM StatusAdvances == Spec => StatusOnlyAdvances
<1>1. Inv /\ [Next]_vars =>
        [\A o \in Orders : Rank[db[o].status] <= Rank[db'[o].status]]_vars
  BY StepsAreTransactions, StepsAdvance DEF RowAdvance
<1> QED
  BY <1>1, Invariance, PTL DEF Spec, StatusOnlyAdvances

\* After a failure is committed no ticket is confirmed and no success announced,
\* whatever the handlers had read before.
THEOREM FailureIsFinal == Spec => NothingSucceedsAfterFailure
<1>1. Inv /\ [Next]_vars =>
        [\A o \in Orders :
           Failed(db[o]) =>
             /\ "restaurant" \in db'[o].done => "restaurant" \in db[o].done
             /\ "notification.success" \in db'[o].events =>
                  "notification.success" \in db[o].events]_vars
  BY StepsAreTransactions, StepsAdvance DEF RowAdvance
<1> QED
  BY <1>1, Invariance, PTL DEF Spec, NothingSucceedsAfterFailure

-----------------------------------------------------------------------------
(***************************************************************************)
(* Customers who were told 503.                                            *)
(***************************************************************************)
\* A request past its insert has an order, so fail_workflow() of the API finds its
\* row and cannot be refused; and a failure is never taken back.
Compensated ==
  \A o \in Orders :
    /\ api[o] \in {"try1", "try2", "fail"} => db[o].exists
    /\ api[o] = "rejected" => Failed(db[o])

\* How a request may move, and what its last transaction does.
ApiMove(o) ==
  \/ api'[o] = api[o]
  \/ api'[o] \in {"accepted", "error"}
  \/ api[o] = "new" /\ api'[o] = "try1" /\ db'[o] = CreateOrder
  \/ api[o] \in {"try1", "try2"} /\ api'[o] \in {"try2", "fail"}
  \/ api[o] = "fail" /\ api'[o] = "rejected" /\ db'[o] = FailWorkflow(db[o], "api")

LEMMA ApiMoves ==
  ASSUME Inv, [Next]_vars, NEW o \in Orders
  PROVE  ApiMove(o)
<1>1. api \in [Orders -> ApiPcs] /\ DOMAIN db = Orders
  BY DEF Inv, TypeOK
<1>2. ASSUME NEW p \in Orders, ApiCreate(p) \/ ApiStep(p) \/ ApiCrash(p)
      PROVE  ApiMove(o)
  <2>1. CASE ApiCreate(p)
    BY <1>1, <2>1 DEF ApiCreate, ApiGoto, ApiMove
  <2>2. CASE ApiPublish(p)
    BY <1>1, <2>2 DEF ApiPublish, ApiGoto, ApiMove
  <2>3. CASE ApiUnreachable(p) \/ ApiCrash(p)
    BY <1>1, <2>3 DEF ApiUnreachable, ApiCrash, ApiGoto, ApiMove
  <2>4. CASE ApiFail(p)
    BY <1>1, <2>4 DEF ApiFail, ApiGoto, ApiMove
  <2> QED
    BY <1>2, <2>1, <2>2, <2>3, <2>4 DEF ApiStep
<1>3. CASE UNCHANGED api
  BY <1>3 DEF ApiMove
<1>4. ASSUME NEW w \in Workers, WorkerStep(w) \/ Crash(w) \/ Disconnect(w)
      PROVE  UNCHANGED api
  BY <1>4
  DEF WorkerStep, Deliver, MoveToProcessing, CheckStepDone, Decline, RecordSuccess,
      GateOnFailure, ConfirmTicket, Join, FailOrder, Emit, MarkPublished, Notify, Ack,
      Retry, Exhaust, RecordDeliveryFailure, DeadLetter, Exit, Crash, Disconnect,
      Transaction
<1>5. CASE UNCHANGED vars
  BY <1>3, <1>5 DEF vars
<1> QED
  BY <1>2, <1>3, <1>4, <1>5 DEF Next, Rest

LEMMA CompensatedNext ==
  ASSUME Inv, Compensated, [Next]_vars
  PROVE  Compensated'
<1> SUFFICES ASSUME NEW o \in Orders
             PROVE  /\ api'[o] \in {"try1", "try2", "fail"} => db'[o].exists
                    /\ api'[o] = "rejected" => Failed(db'[o])
  BY DEF Compensated
<1>1. RowAdvance(db[o], db'[o])
  BY StepsAreTransactions, StepsAdvance
<1>2. CASE api'[o] = api[o] \/ api[o] \in {"try1", "try2"}
  BY <1>1, <1>2, ApiMoves DEF Compensated, RowAdvance, ApiMove
<1>3. CASE api[o] = "new" /\ db'[o] = CreateOrder /\ api'[o] = "try1"
  BY <1>3 DEF CreateOrder
<1>4. CASE api[o] = "fail" /\ db'[o] = FailWorkflow(db[o], "api") /\ api'[o] = "rejected"
  <2>1. db[o] \in Row /\ FailAccepted(db[o], "api")
    BY <1>4 DEF Inv, TypeOK, Compensated, FailAccepted
  <2> QED
    BY <1>4, <2>1, FailWorkflowEffect
<1> QED
  BY <1>2, <1>3, <1>4, ApiMoves DEF ApiMove

\* Whoever is answered 503 has an order that is FAILED and owes him nothing, and it
\* stays so, whatever the workers make of an order.created that was routed.
THEOREM RejectionsStand == Spec => []RejectedOrdersFail
<1>1. Init => Compensated
  BY DEF Init, Compensated
<1>2. Inv /\ Compensated /\ [Next]_vars => Compensated'
  BY CompensatedNext
<1>3. Inv /\ Compensated => RejectedOrdersFail
  BY DEF Inv, RowOK, Compensated, RejectedOrdersFail, HeldBy
<1> QED
  BY <1>1, <1>2, <1>3, Invariance, PTL DEF Spec

-----------------------------------------------------------------------------
(***************************************************************************)
(* The workflow implements the saga.                                       *)
(***************************************************************************)
\* What a step of OrderSaga, or a stutter, does to one order.
SagaRow(r, r2) ==
  \/ PhaseOf(r2) = PhaseOf(r) /\ HeldBy(r2) = HeldBy(r)
  \/ PhaseOf(r) = "none" /\ PhaseOf(r2) = "open" /\ HeldBy(r2) = HeldBy(r)
  \/ /\ PhaseOf(r) = "open" /\ PhaseOf(r2) = "open"
     /\ \E h \in Prerequisites : HeldBy(r2) = HeldBy(r) \cup {h}
  \/ /\ PhaseOf(r) = "open" /\ HeldBy(r) = Prerequisites
     /\ PhaseOf(r2) = "confirmed" /\ HeldBy(r2) = HeldBy(r)
  \/ PhaseOf(r) = "confirmed" /\ PhaseOf(r2) = "completed" /\ HeldBy(r2) = HeldBy(r)
  \/ /\ PhaseOf(r) \in {"open", "confirmed", "completed"}
     /\ PhaseOf(r2) = "failed" /\ HeldBy(r2) = {}

\* In a row that is OK, what is held is what was done, until the order fails.
LEMMA HeldByIs ==
  ASSUME NEW r, RowOK(r)
  PROVE  HeldBy(r) = IF Failed(r) THEN {} ELSE Prerequisites \cap r.done
  BY DEF HeldBy, RowOK

\* PhaseOf by cases, for a row that exists.
LEMMA PhaseOfIs ==
  ASSUME NEW r
  PROVE  /\ ~r.exists => PhaseOf(r) = "none"
         /\ r.exists /\ Failed(r) => PhaseOf(r) = "failed"
         /\ r.exists /\ ~Failed(r) =>
              PhaseOf(r) = IF "notification.success" \in r.events THEN "completed"
                           ELSE IF "restaurant" \in r.done THEN "confirmed"
                           ELSE "open"
<1>1. CASE ~r.exists
  BY <1>1 DEF PhaseOf
<1>2. CASE r.exists /\ Failed(r)
  BY <1>2 DEF PhaseOf
<1>3. CASE r.exists /\ ~Failed(r) /\ "notification.success" \in r.events
  BY <1>3 DEF PhaseOf
<1>4. CASE r.exists /\ ~Failed(r) /\ "notification.success" \notin r.events
             /\ "restaurant" \in r.done
  BY <1>4 DEF PhaseOf
<1>5. CASE r.exists /\ ~Failed(r) /\ "notification.success" \notin r.events
             /\ "restaurant" \notin r.done
  BY <1>5 DEF PhaseOf
<1> QED
  BY <1>1, <1>2, <1>3, <1>4, <1>5

\* A transaction that neither fails, confirms nor completes the order, and does
\* no step of it, is a stutter of the saga.
LEMMA SamePhase ==
  ASSUME NEW r, RowOK(r), NEW r2, RowOK(r2),
         r2.exists = r.exists, Failed(r2) <=> Failed(r), r2.done = r.done,
         "notification.success" \in r2.events <=> "notification.success" \in r.events
  PROVE  SagaRow(r, r2)
<1>1. r.exists \in BOOLEAN /\ r2.exists \in BOOLEAN
  BY DEF RowOK, Row
<1>2. PhaseOf(r2) = PhaseOf(r)
  BY <1>1, PhaseOfIs
<1> QED
  BY <1>2, HeldByIs DEF SagaRow

LEMMA StoreStepSaga ==
  ASSUME NEW r, RowOK(r), NEW r2, StoreStep(r, r2)
  PROVE  SagaRow(r, r2)
<1>1. /\ r \in Row /\ RowOK(r2)
      /\ r.exists \in BOOLEAN /\ r2.exists \in BOOLEAN
  BY StoreStepOK DEF RowOK, Row
<1>2. CASE r2 = r
  BY <1>2 DEF SagaRow
<1>3. CASE r2 = EnsureProcessing(r) /\ r.exists /\ r.status = "PENDING"
  BY <1>1, <1>3, EnsureProcessingEffect, SamePhase
<1>4. ASSUME NEW s \in Prerequisites, r2 = RecordStepSuccess(r, s), r.exists, s \notin r.done
      PROVE  SagaRow(r, r2)
  <2>1. /\ r2.exists /\ r2.done = r.done \cup {s} /\ r2.failedStep = r.failedStep
        /\ "notification.success" \in r2.events <=> "notification.success" \in r.events
    BY <1>1, <1>4, RecordStepSuccessEffect, CompensationKeys DEF StepSucceeded
  <2>2. PhaseOf(r2) = PhaseOf(r)
    BY <1>1, <1>4, <2>1, PhaseOfIs
  <2>3. CASE Failed(r)
    BY <1>1, <2>1, <2>2, <2>3, HeldByIs DEF SagaRow
  <2>4. CASE ~Failed(r)
    <3>1. HeldBy(r2) = HeldBy(r) \cup {s}
      BY <1>1, <2>1, <2>4, HeldByIs
    <3>2. PhaseOf(r) = "open"
      BY <1>1, <1>4, <2>4, PhaseOfIs DEF RowOK, Row
    <3> QED
      BY <2>2, <3>1, <3>2 DEF SagaRow
  <2> QED
    BY <2>3, <2>4
<1>5. CASE r2 = PrepareOrderReady(r) /\ Joined(r)
  BY <1>1, <1>5, PrepareOrderReadyEffect, SamePhase
<1>6. CASE r2 = RecordRestaurantConfirmation(r) /\ ConfirmAccepted(r)
  <2>1. /\ r2.exists /\ r.exists /\ ~Failed(r) /\ ~Failed(r2)
        /\ Prerequisites \subseteq r.done /\ "restaurant" \notin r.done
        /\ r2.done = r.done \cup {"restaurant"}
        /\ "notification.success" \in r2.events <=> "notification.success" \in r.events
    BY <1>1, <1>6, ConfirmationEffect DEF ConfirmAccepted, StepSucceeded
  <2>2. "notification.success" \notin r.events
    BY <2>1 DEF RowOK
  <2>3. PhaseOf(r) = "open" /\ PhaseOf(r2) = "confirmed"
    BY <1>1, <2>1, <2>2, PhaseOfIs
  <2>4. HeldBy(r) = Prerequisites /\ HeldBy(r2) = Prerequisites
    BY <1>1, <2>1, HeldByIs
  <2> QED
    BY <2>3, <2>4 DEF SagaRow
<1>7. CASE r2 = CompleteOrder(r) /\ CompleteAccepted(r)
  <2>1. /\ r2.exists /\ r.exists /\ ~Failed(r) /\ ~Failed(r2) /\ r2.done = r.done
        /\ "restaurant" \in r.done /\ "notification.success" \notin r.events
        /\ "notification.success" \in r2.events
    BY <1>1, <1>7, CompleteOrderEffect DEF CompleteAccepted
  <2>2. PhaseOf(r) = "confirmed" /\ PhaseOf(r2) = "completed"
    BY <1>1, <2>1, PhaseOfIs
  <2> QED
    BY <1>1, <2>1, <2>2, HeldByIs DEF SagaRow
<1>8. ASSUME NEW step \in FailedSteps, r2 = FailWorkflow(r, step), FailAccepted(r, step)
      PROVE  SagaRow(r, r2)
  <2>1. /\ r2.exists /\ r.exists /\ Failed(r2) /\ r2.done = r.done
        /\ "notification.success" \in r2.events <=> "notification.success" \in r.events
    BY <1>1, <1>8, FailWorkflowEffect, CompensationKeys DEF FailAccepted
  <2>2. CASE Failed(r)
    BY <1>1, <2>1, <2>2, SamePhase
  <2>3. CASE ~Failed(r)
    <3>1. PhaseOf(r) \in {"open", "confirmed", "completed"} /\ PhaseOf(r2) = "failed"
      BY <1>1, <2>1, <2>3, PhaseOfIs
    <3> QED
      BY <1>1, <2>1, <3>1, HeldByIs DEF SagaRow
  <2> QED
    BY <2>2, <2>3
<1>9. CASE r2 \in {MarkReadyPublished(r), MarkFailurePublished(r)} /\ r.exists
  BY <1>1, <1>9, MarkEffect, SamePhase
<1>10. ASSUME NEW key \in Notices, r2 = AddEventOnce(r, key)
       PROVE  SagaRow(r, r2)
  BY <1>1, <1>10, AddEventOnceEffect, SamePhase DEF Notices
<1> QED
  BY <1>2, <1>3, <1>4, <1>5, <1>6, <1>7, <1>8, <1>9, <1>10
  DEF StoreStep, EnsureProcessing, RecordStepSuccess, PrepareOrderReady,
      RecordRestaurantConfirmation, CompleteOrder, FailWorkflow,
      MarkReadyPublished, MarkFailurePublished

LEMMA StepsSaga ==
  ASSUME Inv, SafeStep, NEW o \in Orders
  PROVE  SagaRow(db[o], db'[o])
<1>1. CASE StoreStep(db[o], db'[o])
  BY <1>1, StoreStepSaga DEF Inv
<1>2. CASE api[o] = "new" /\ db'[o] = CreateOrder
  <2>1. db[o] = NoRow
    BY <1>2 DEF Inv, Fresh, RowOK
  <2>2. PhaseOf(NoRow) = "none" /\ PhaseOf(CreateOrder) = "open"
    BY DEF PhaseOf, NoRow, CreateOrder
  <2>3. HeldBy(NoRow) = {} /\ HeldBy(CreateOrder) = {}
    BY DEF HeldBy, NoRow, CreateOrder
  <2> QED
    BY <1>2, <2>1, <2>2, <2>3 DEF SagaRow
<1> QED
  BY <1>1, <1>2 DEF SafeStep, RowChange

LEMMA SagaStep ==
  ASSUME Inv, SafeStep
  PROVE  [Saga!SagaNext]_(Saga!sagaVars)
<1> DEFINE phase == [o \in Orders |-> PhaseOf(db[o])]
           held  == [o \in Orders |-> HeldBy(db[o])]
           phase2 == [o \in Orders |-> PhaseOf(db'[o])]
           held2  == [o \in Orders |-> HeldBy(db'[o])]
<1>1. CASE \A o \in Orders : db'[o] = db[o]
  BY <1>1 DEF Saga!sagaVars
<1>2. ASSUME NEW o \in Orders, db'[o] # db[o]
      PROVE  Saga!SagaNext \/ UNCHANGED Saga!sagaVars
  <2>1. \A p \in Orders \ {o} : db'[p] = db[p]
    BY <1>2 DEF SafeStep, OneOrder
  <2>2. /\ phase2 = [phase EXCEPT ![o] = PhaseOf(db'[o])]
        /\ held2 = [held EXCEPT ![o] = HeldBy(db'[o])]
    BY <2>1
  <2>3. /\ phase[o] = PhaseOf(db[o]) /\ held[o] = HeldBy(db[o])
        /\ (PhaseOf(db'[o]) = PhaseOf(db[o])) => phase2 = phase
        /\ (HeldBy(db'[o]) = HeldBy(db[o])) => held2 = held
    BY <2>1
  <2> USE DEF Saga!sagaVars, Saga!SagaNext
  <2>4. CASE PhaseOf(db'[o]) = PhaseOf(db[o]) /\ HeldBy(db'[o]) = HeldBy(db[o])
    BY <2>3, <2>4
  <2>5. CASE /\ PhaseOf(db[o]) = "none" /\ PhaseOf(db'[o]) = "open"
             /\ HeldBy(db'[o]) = HeldBy(db[o])
    <3>1. Saga!Accept(o)
      BY <2>2, <2>3, <2>5 DEF Saga!Accept
    <3> QED
      BY <3>1
  <2>6. ASSUME PhaseOf(db[o]) = "open", PhaseOf(db'[o]) = "open",
               NEW h \in Prerequisites, HeldBy(db'[o]) = HeldBy(db[o]) \cup {h}
        PROVE  Saga!SagaNext
    <3>1. Saga!Hold(o, h)
      BY <2>2, <2>3, <2>6 DEF Saga!Hold
    <3> QED
      BY <3>1
  <2>7. CASE /\ PhaseOf(db[o]) = "open" /\ HeldBy(db[o]) = Prerequisites
             /\ PhaseOf(db'[o]) = "confirmed" /\ HeldBy(db'[o]) = HeldBy(db[o])
    <3>1. Saga!Confirm(o)
      BY <2>2, <2>3, <2>7 DEF Saga!Confirm
    <3> QED
      BY <3>1
  <2>8. CASE /\ PhaseOf(db[o]) = "confirmed" /\ PhaseOf(db'[o]) = "completed"
             /\ HeldBy(db'[o]) = HeldBy(db[o])
    <3>1. Saga!Complete(o)
      BY <2>2, <2>3, <2>8 DEF Saga!Complete
    <3> QED
      BY <3>1
  <2>9. CASE /\ PhaseOf(db[o]) \in {"open", "confirmed", "completed"}
             /\ PhaseOf(db'[o]) = "failed" /\ HeldBy(db'[o]) = {}
    <3>1. Saga!Fail(o)
      BY <2>2, <2>3, <2>9 DEF Saga!Fail
    <3> QED
      BY <3>1
  <2> QED
    BY <2>4, <2>5, <2>6, <2>7, <2>8, <2>9, StepsSaga DEF SagaRow
<1> QED
  BY <1>1, <1>2

LEMMA SagaStart ==
  ASSUME Init
  PROVE  Saga!SagaInit
<1>1. PhaseOf(NoRow) = "none"
  BY PhaseOfIs DEF NoRow
<1>2. HeldBy(NoRow) = {}
  BY DEF HeldBy, NoRow
<1> QED
  BY <1>1, <1>2 DEF Init, Saga!SagaInit

\* The five workers, their retries and their crashes implement OrderSaga: nothing
\* is confirmed without both a payment and a reservation held, they stay held as
\* long as it is, and a failure gives both back in the same commit.
THEOREM SagaImplemented == Spec => ImplementsSaga
<1>1. Init => Saga!SagaInit
  BY SagaStart
<1>2. Inv /\ [Next]_vars => [Saga!SagaNext]_(Saga!sagaVars)
  BY StepsAreTransactions, SagaStep
<1> QED
  BY <1>1, <1>2, Invariance, PTL DEF Spec, ImplementsSaga, Saga!SagaSpec

=============================================================================
