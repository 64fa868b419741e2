------------------------- MODULE OrderMessageProofs -------------------------
(***************************************************************************)
(* What the steps of the order workflow do to the messages, and the proof  *)
(* that no message ever says more than the rows of its order.              *)
(*                                                                         *)
(* The steps of a worker have four effects: it takes a delivery, advances  *)
(* in its handler, lets go of the delivery, or loses its channel           *)
(* (WorkerEffects).  What follows about messages is argued from these      *)
(* effects; the actions are looked at again only where their rows matter.  *)
(***************************************************************************)
EXTENDS OrderWorkflowProofs

USE DEF Prerequisites, Steps, NoStep, FailedSteps, Statuses, Failed

-----------------------------------------------------------------------------
(***************************************************************************)
(* Bags as the sets of what is in them.                                    *)
(***************************************************************************)
Ready(q) == BagToSet(queues[q])

DeadLetters == BagToSet(dlq)

\* What a publish adds to a queue is there.
LEMMA BagAddHas ==
  ASSUME NEW bag, NEW m
  PROVE  BagToSet(BagAdd(bag, m)) = BagToSet(bag) \cup {m}
  BY DEF BagToSet, BagAdd

\* A delivery takes one copy, which may have been the last.
LEMMA BagRemoveHas ==
  ASSUME NEW bag, NEW m
  PROVE  /\ BagToSet(BagRemove(bag, m)) \subseteq BagToSet(bag)
         /\ BagToSet(bag) \ {m} \subseteq BagToSet(BagRemove(bag, m))
  BY DEF BagToSet, BagRemove

\* A publish reaches the queues it is routed to, and changes nothing else.
LEMMA StoredHas ==
  ASSUME NEW qs, NEW S, NEW m, NEW q \in Queues
  PROVE  BagToSet(Stored(qs, S, m)[q]) = BagToSet(qs[q]) \cup (IF q \in S THEN {m} ELSE {})
  BY BagAddHas DEF Stored

\* The same for a delivery, seen from every queue.
LEMMA TakenHas ==
  ASSUME NEW qs, DOMAIN qs = Queues, NEW q \in Queues, NEW p \in Queues, NEW m
  PROVE  /\ BagToSet(Taken(qs, q, m)[p]) \subseteq BagToSet(qs[p])
         /\ BagToSet(qs[p]) \ (IF p = q THEN {m} ELSE {}) \subseteq BagToSet(Taken(qs, q, m)[p])
  BY BagRemoveHas DEF Taken

\* Where each routing key leads.
LEMMA Routes ==
  /\ Targets("order.created") = {"payment", "inventory", "notification"}
  /\ Targets("payment.succeeded") = {"coordinator"}
  /\ Targets("inventory.reserved") = {"coordinator"}
  /\ Targets("workflow.failed") = {"coordinator"}
  /\ Targets("order.ready") = {"restaurant"}
  /\ Targets("order.confirmed") = {"notification"}
  /\ Targets("order.failed") = {"notification"}
  BY DEF Targets, Bindings, Queues

-----------------------------------------------------------------------------
(***************************************************************************)
(* The effects of a step.                                                  *)
(***************************************************************************)
\* Copies of one message, retries included.
Alike(m, n) == m.key = n.key /\ m.order = n.order /\ m.step = n.step

Again(m) == [m EXCEPT !.attempt = @ + 1]

\* What w emits from its handler.
Result(w) == Event(ResultKey(Role[w], Delivery(w)), Subject(w))

\* The messages that w may store in q.
Publishes(w, q, m) ==
  \/ At(w, "emit") /\ m = Result(w) /\ q \in Targets(m.key)
  \/ At(w, "except") /\ m = Again(Delivery(w)) /\ q = Role[w]
  \/ /\ At(w, "except") /\ Role[w] \in Critical
     /\ m = FailureEvent(Subject(w), Role[w]) /\ q = "coordinator"
  \/ m = Delivery(w) /\ q = Role[w]

Stores(w) ==
  \A q \in Queues :
    /\ Ready(q) \subseteq Ready(q)'
    /\ \A m \in Ready(q)' \ Ready(q) : Publishes(w, q, m)

Took(w) ==
  /\ worker[w] = Idle
  /\ \E m \in Ready(Role[w]) :
       /\ worker' = [worker EXCEPT ![w] = [pc |-> Entry[Role[w]], msg |-> m, up |-> TRUE]]
       /\ \A q \in Queues :
            /\ Ready(q)' \subseteq Ready(q)
            /\ Ready(q) \ (IF q = Role[w] THEN {m} ELSE {}) \subseteq Ready(q)'
  /\ UNCHANGED <<db, dlq>>

Advanced(w) ==
  /\ \E pc \in HandlerPcs : Goto(w, pc)
  /\ Stores(w)
  /\ UNCHANGED dlq

LetGo(w) ==
  /\ Release(w)
  /\ Stores(w)
  /\ DeadLetters \subseteq DeadLetters'
  /\ DeadLetters' \subseteq DeadLetters \cup {Delivery(w)}
  /\ worker[w].up =>
       \/ At(w, "ack")
       \/ \E m \in Ready(Role[w])' : Alike(m, Delivery(w))
       \/ At(w, "deadletter") /\ Delivery(w) \in DeadLetters'
  /\ UNCHANGED db

CutOff(w) ==
  /\ worker[w].up
  /\ worker' = [worker EXCEPT ![w].up = FALSE]
  /\ Stores(w)
  /\ Delivery(w) \in Ready(Role[w])'
  /\ UNCHANGED <<db, dlq>>

\* The effect on the queues of whatever w does to messages.
LEMMA QueuesKept ==
  ASSUME NEW w, UNCHANGED queues
  PROVE  Stores(w)
  BY DEF Stores, Ready

\* A requeued delivery is ready again, and nothing else is stored.
LEMMA RequeueStores ==
  ASSUME NEW w, queues' = Requeued(queues, w), Role[w] \in Queues
  PROVE  Stores(w) /\ Delivery(w) \in Ready(Role[w])'
<1>1. \A q \in Queues :
        Ready(q)' = Ready(q) \cup (IF q = Role[w] THEN {Delivery(w)} ELSE {})
  BY StoredHas DEF Ready, Requeued
<1> QED
  BY <1>1 DEF Stores, Publishes

\* An emit stores the result of its handler at most.
LEMMA EmitStores ==
  ASSUME NEW w, At(w, "emit"),
         queues' \in {queues, Stored(queues, Targets(Result(w).key), Result(w))}
  PROVE  Stores(w)
<1>1. CASE queues' = Stored(queues, Targets(Result(w).key), Result(w))
  <2>1. \A q \in Queues :
          Ready(q)' = Ready(q) \cup
            (IF q \in Targets(Result(w).key) THEN {Result(w)} ELSE {})
    BY <1>1, StoredHas DEF Ready
  <2> QED
    BY <2>1 DEF Stores, Publishes
<1> QED
  BY <1>1, QueuesKept

\* A retry stores the next attempt of the delivery; it may requeue the delivery too.
LEMMA RetryStores ==
  ASSUME NEW w, At(w, "except"), Role[w] \in Queues,
         NEW retried, retried = Stored(queues, {Role[w]}, Again(Delivery(w))),
         queues' \in {retried, Requeued(retried, w)}
  PROVE  /\ Stores(w)
         /\ Again(Delivery(w)) \in Ready(Role[w])'
         /\ queues' = Requeued(retried, w) => Delivery(w) \in Ready(Role[w])'
<1>1. \A q \in Queues :
        BagToSet(retried[q]) =
          Ready(q) \cup (IF q = Role[w] THEN {Again(Delivery(w))} ELSE {})
  BY StoredHas DEF Ready
<1>2. \A q \in Queues :
        BagToSet(Requeued(retried, w)[q]) =
          BagToSet(retried[q]) \cup (IF q = Role[w] THEN {Delivery(w)} ELSE {})
  BY StoredHas DEF Requeued
<1>3. Again(Delivery(w)) \in BagToSet(retried[Role[w]])
  BY <1>1
<1>4. /\ Delivery(w) \in BagToSet(Requeued(retried, w)[Role[w]])
      /\ Again(Delivery(w)) \in BagToSet(Requeued(retried, w)[Role[w]])
  BY <1>2, <1>3
<1>5. \A q \in Queues : Ready(q)' = BagToSet(queues'[q])
  BY DEF Ready
<1>6. CASE queues' = retried
  <2>1. Stores(w)
    <3> SUFFICES ASSUME NEW q \in Queues
                 PROVE  /\ Ready(q) \subseteq Ready(q)'
                        /\ \A m \in Ready(q)' \ Ready(q) : Publishes(w, q, m)
      BY DEF Stores
    <3> QED
      BY <1>1, <1>5, <1>6 DEF Publishes
  <2> QED
    BY <1>3, <1>4, <1>5, <1>6, <2>1
<1>7. CASE queues' = Requeued(retried, w)
  <2>1. Stores(w)
    <3> SUFFICES ASSUME NEW q \in Queues
                 PROVE  /\ Ready(q) \subseteq Ready(q)'
                        /\ \A m \in Ready(q)' \ Ready(q) : Publishes(w, q, m)
      BY DEF Stores
    <3> QED
      BY <1>1, <1>2, <1>5, <1>7 DEF Publishes
  <2> QED
    BY <1>4, <1>5, <1>7, <2>1
<1> QED
  BY <1>6, <1>7

\* The last attempt of a critical role stores a workflow.failed.
LEMMA ExhaustStores ==
  ASSUME NEW w, At(w, "except"), Role[w] \in Queues, Role[w] \in Critical,
         NEW failure, failure = FailureEvent(Subject(w), Role[w]),
         NEW sent, sent = Stored(queues, Targets(failure.key), failure),
         queues' \in {sent, Requeued(sent, w)}
  PROVE  /\ Stores(w)
         /\ failure \in Ready("coordinator")'
         /\ queues' = Requeued(sent, w) => Delivery(w) \in Ready(Role[w])'
<1>1. Targets(failure.key) = {"coordinator"} /\ "coordinator" \in Queues
  BY Routes DEF FailureEvent, Queues
<1>2. \A q \in Queues :
        /\ BagToSet(sent[q]) = Ready(q) \cup (IF q = "coordinator" THEN {failure} ELSE {})
        /\ BagToSet(Requeued(sent, w)[q]) =
             BagToSet(sent[q]) \cup (IF q = Role[w] THEN {Delivery(w)} ELSE {})
  BY <1>1, StoredHas DEF Ready, Requeued
<1>3. CASE queues' = sent
  <2>1. \A q \in Queues : Ready(q)' = BagToSet(sent[q])
    BY <1>3 DEF Ready
  <2> QED
    BY <1>1, <1>2, <1>3, <2>1 DEF Stores, Publishes
<1>4. CASE queues' = Requeued(sent, w)
  <2>1. \A q \in Queues : Ready(q)' = BagToSet(Requeued(sent, w)[q])
    BY <1>4 DEF Ready
  <2> QED
    BY <1>1, <1>2, <2>1 DEF Stores, Publishes
<1> QED
  BY <1>3, <1>4

\* Deliver is a Took.
LEMMA DeliverTakes ==
  ASSUME Inv, NEW w \in Workers, Deliver(w)
  PROVE  Took(w)
<1>1. TypeOK /\ Role[w] \in Queues /\ DOMAIN queues = Queues
  BY RoleAssumption DEF Inv, TypeOK
<1>2. worker[w] = Idle
  BY <1>1 DEF Deliver, At, TypeOK, WorkerStates, HandlerPcs
<1>3. PICK m \in Ready(Role[w]) :
        /\ queues' = Taken(queues, Role[w], m)
        /\ worker' = [worker EXCEPT
             ![w] = [pc |-> Entry[Role[w]], msg |-> m, up |-> TRUE]]
  BY DEF Deliver, Ready
<1>4. \A q \in Queues :
        /\ Ready(q)' \subseteq Ready(q)
        /\ Ready(q) \ (IF q = Role[w] THEN {m} ELSE {}) \subseteq Ready(q)'
  BY <1>1, <1>3, TakenHas DEF Ready
<1> QED
  BY <1>2, <1>3, <1>4 DEF Took, Deliver

\* Every step of a worker, every fault included, has one of the four effects.
LEMMA EffectOf ==
  ASSUME Inv, NEW w \in Workers, WorkerStep(w) \/ Crash(w) \/ Disconnect(w)
  PROVE  Took(w) \/ Advanced(w) \/ LetGo(w) \/ CutOff(w)
<1>1. /\ TypeOK /\ Role[w] \in Queues
      /\ DOMAIN queues = Queues
      /\ dlq' = dlq => DeadLetters' = DeadLetters
  BY RoleAssumption DEF Inv, TypeOK, DeadLetters
<1>2. CASE Deliver(w)
  BY <1>2, DeliverTakes
<1>3. ASSUME NEW row, NEW next \in HandlerPcs, Transaction(w, row, next)
      PROVE  Advanced(w)
  BY <1>3, QueuesKept DEF Transaction, Advanced, HandlerPcs
<1>4. CASE \/ MoveToProcessing(w) \/ GateOnFailure(w) \/ CheckStepDone(w)
           \/ RecordSuccess(w) \/ ConfirmTicket(w) \/ Join(w) \/ FailOrder(w)
           \/ MarkPublished(w) \/ Notify(w)
  BY <1>3, <1>4
  DEF MoveToProcessing, GateOnFailure, CheckStepDone, RecordSuccess, ConfirmTicket,
      Join, FailOrder, MarkPublished, Notify, HandlerPcs
<1>5. CASE Decline(w) \/ RecordDeliveryFailure(w)
  BY <1>5, QueuesKept DEF Decline, RecordDeliveryFailure, Advanced, HandlerPcs
<1>6. CASE Emit(w)
  <2>1. At(w, "emit") /\ queues' \in {queues, Stored(queues, Targets(Result(w).key), Result(w))}
    BY <1>6 DEF Emit, Result
  <2> QED
    BY <1>6, <2>1, EmitStores DEF Emit, Advanced, HandlerPcs
<1>7. CASE Ack(w) \/ Exit(w)
  <2>1. /\ Release(w) /\ UNCHANGED <<db, queues, dlq>>
        /\ worker[w].up => At(w, "ack")
    BY <1>7 DEF Ack, Exit
  <2>2. Stores(w)
    BY <2>1, QueuesKept
  <2>3. LetGo(w)
    BY <1>1, <2>1, <2>2 DEF LetGo
  <2> QED
    BY <2>3
<1>8. CASE Retry(w)
  <2> DEFINE retried == Stored(queues, {Role[w]}, Again(Delivery(w)))
  <2>1. /\ At(w, "except") /\ UNCHANGED <<db, dlq>>
        /\ \/ queues' = retried /\ Goto(w, "ack")
           \/ queues' \in {Requeued(queues, w), Requeued(retried, w)} /\ Release(w)
    BY <1>8 DEF Retry, Again
  <2>2. Alike(Delivery(w), Delivery(w))
    BY DEF Alike
  <2>3. CASE queues' = retried /\ Goto(w, "ack")
    BY <1>1, <2>1, <2>3, RetryStores DEF Advanced, HandlerPcs
  <2>4. CASE queues' = Requeued(queues, w) /\ Release(w)
    BY <1>1, <2>1, <2>2, <2>4, RequeueStores DEF LetGo
  <2>5. CASE queues' = Requeued(retried, w) /\ Release(w)
    BY <1>1, <2>1, <2>2, <2>5, RetryStores DEF LetGo
  <2> QED
    BY <2>1, <2>3, <2>4, <2>5
<1>9. CASE Exhaust(w)
  <2> DEFINE failure == FailureEvent(Subject(w), Role[w])
             sent    == Stored(queues, Targets(failure.key), failure)
  <2>1. /\ At(w, "except") /\ Role[w] \in Critical /\ UNCHANGED <<db, dlq>>
        /\ \/ queues' = sent /\ Goto(w, "deadletter")
           \/ queues' \in {Requeued(queues, w), Requeued(sent, w)} /\ Release(w)
    BY <1>9 DEF Exhaust
  <2>2. Alike(Delivery(w), Delivery(w))
    BY DEF Alike
  <2>3. CASE queues' = sent /\ Goto(w, "deadletter")
    BY <1>1, <2>1, <2>3, ExhaustStores DEF Advanced, HandlerPcs
  <2>4. CASE queues' = Requeued(queues, w) /\ Release(w)
    BY <1>1, <2>1, <2>2, <2>4, RequeueStores DEF LetGo
  <2>5. CASE queues' = Requeued(sent, w) /\ Release(w)
    BY <1>1, <2>1, <2>2, <2>5, ExhaustStores DEF LetGo
  <2> QED
    BY <2>1, <2>3, <2>4, <2>5
<1>10. CASE DeadLetter(w)
  <2>1. DeadLetters' = DeadLetters \cup {Delivery(w)}
    BY <1>10, BagAddHas DEF DeadLetter, DeadLetters
  <2> QED
    BY <1>1, <1>10, <2>1, QueuesKept DEF DeadLetter, LetGo
<1>11. CASE Crash(w)
  <2>1. Alike(Delivery(w), Delivery(w))
    BY DEF Alike
  <2>2. CASE worker[w].up
    BY <1>1, <1>11, <2>1, <2>2, RequeueStores DEF Crash, LetGo
  <2>3. CASE ~worker[w].up
    BY <1>1, <1>11, <2>3, QueuesKept DEF Crash, LetGo
  <2> QED
    BY <2>2, <2>3
<1>12. CASE Disconnect(w)
  BY <1>1, <1>12, RequeueStores DEF Disconnect, CutOff
<1> QED
  BY <1>2, <1>4, <1>5, <1>6, <1>7, <1>8, <1>9, <1>10, <1>11, <1>12 DEF WorkerStep

\* Only a delivery finds a worker with empty hands.
LEMMA WorkerEffects ==
  ASSUME Inv, NEW w \in Workers, WorkerStep(w) \/ Crash(w) \/ Disconnect(w)
  PROVE  Took(w) \/ (Held(w) /\ (Advanced(w) \/ LetGo(w) \/ CutOff(w)))
<1>1. CASE Deliver(w)
  BY <1>1, DeliverTakes
<1>2. CASE ~Deliver(w)
  <2>1. Held(w)
    BY <1>2
    DEF WorkerStep, MoveToProcessing, CheckStepDone, Decline, RecordSuccess,
        GateOnFailure, ConfirmTicket, Join, FailOrder, Emit, MarkPublished, Notify, Ack,
        Retry, Exhaust, RecordDeliveryFailure, DeadLetter, Exit, NeedsChannel, Crash,
        Disconnect, At, Held, Idle
  <2> QED
    BY <2>1, EffectOf
<1> QED
  BY <1>1, <1>2

-----------------------------------------------------------------------------
(***************************************************************************)
(* Who does what: which handler a worker can be in, which messages are     *)
(* new, and who wrote a row.                                               *)
(***************************************************************************)
\* A step is one worker's or one request's.
WorkerMoves(w) == WorkerStep(w) \/ Crash(w) \/ Disconnect(w)

RequestMoves(o) == ApiCreate(o) \/ ApiStep(o) \/ ApiCrash(o)

\* Every step is one of a worker, one of a request, or none.
LEMMA StepBy ==
  ASSUME [Next]_vars
  PROVE  \/ \E w \in Workers : WorkerMoves(w)
         \/ \E o \in Orders : RequestMoves(o)
         \/ UNCHANGED vars
  BY DEF Next, Rest, WorkerMoves, RequestMoves

\* A worker at a step of a handler holds a delivery of its role's queue.
LEMMA HeldIs ==
  ASSUME TypeOK, NEW w \in Workers
  PROVE  /\ Held(w) <=> ~At(w, "idle")
         /\ Held(w) => /\ worker[w] \in BusyStates
                       /\ Delivery(w) \in Message
                       /\ Subject(w) \in Orders
         /\ Role[w] \in Queues
  BY Busy, RoleAssumption DEF Held, At, TypeOK, WorkerStates, Idle, HandlerPcs

\* Only the worker that steps changes its state, and what it does to it.
LEMMA OthersStay ==
  ASSUME Inv, NEW w \in Workers, WorkerMoves(w), NEW v \in Workers, v # w
  PROVE  worker'[v] = worker[v]
  BY WorkerEffects
  DEF WorkerMoves, Took, Advanced, LetGo, CutOff, Goto, Release, Inv, TypeOK

\* The calls of each role's handle().
HandlerOf ==
  [payment      |-> {"ensure", "check", "act", "emit"},
   inventory    |-> {"ensure", "check", "act", "emit"},
   coordinator  |-> {"decide", "emit", "mark"},
   restaurant   |-> {"gate", "check", "act", "emit"},
   notification |-> {"notify"}]

Fits ==
  \A w \in Workers :
    Held(w) => worker[w].pc \in HandlerOf[Role[w]] \cup {"except", "ack", "deadletter"}

\* Handlers only make the calls of their role.
LEMMA FitsNext ==
  ASSUME Inv, Fits, [Next]_vars
  PROVE  Fits'
<1> SUFFICES ASSUME NEW v \in Workers, Held(v)'
             PROVE  worker'[v].pc \in HandlerOf[Role[v]] \cup {"except", "ack", "deadletter"}
  BY DEF Fits
<1>1. TypeOK /\ Role[v] \in Queues
  BY HeldIs DEF Inv
<1>2. CASE worker'[v] = worker[v]
  BY <1>2 DEF Fits, Held
<1>3. CASE WorkerMoves(v)
  <2>1. /\ Held(v) => worker[v].pc \in HandlerOf[Role[v]] \cup {"except", "ack", "deadletter"}
        /\ Held(v) => \A pc : Goto(v, pc) => worker'[v].pc = pc
        /\ ~Release(v)
    BY <1>1, HeldIs DEF Fits, Goto, BusyStates, TypeOK, Release, Held
  <2>2. CASE Deliver(v)
    BY <1>1, <2>2 DEF Deliver, TypeOK, Entry, HandlerOf, Queues
  <2>3. CASE Disconnect(v)
    BY <1>1, <2>1, <2>3, HeldIs DEF Disconnect, BusyStates, TypeOK
  <2>4. CASE \/ Ack(v) \/ DeadLetter(v) \/ Exit(v) \/ Crash(v)
    BY <2>1, <2>4 DEF Ack, DeadLetter, Exit, Crash
  <2>5. CASE \/ Decline(v) \/ Retry(v) \/ Exhaust(v) \/ RecordDeliveryFailure(v)
    BY <1>1, <2>1, <2>5, HeldIs DEF Decline, Retry, Exhaust, RecordDeliveryFailure, At
  <2>6. CASE \/ MoveToProcessing(v) \/ CheckStepDone(v) \/ RecordSuccess(v)
             \/ GateOnFailure(v) \/ ConfirmTicket(v)
    BY <1>1, <2>1, <2>6, HeldIs
    DEF MoveToProcessing, CheckStepDone, RecordSuccess, GateOnFailure, ConfirmTicket,
        Transaction, At, HandlerOf, Queues
  <2>7. CASE \/ Join(v) \/ FailOrder(v) \/ MarkPublished(v) \/ Emit(v) \/ Notify(v)
    BY <1>1, <2>1, <2>7, HeldIs
    DEF Join, FailOrder, MarkPublished, Emit, Notify, Transaction, At, HandlerOf, Queues
  <2> QED
    BY <1>3, <2>2, <2>3, <2>4, <2>5, <2>6, <2>7 DEF WorkerMoves, WorkerStep
<1>4. CASE \E w \in Workers : WorkerMoves(w)
  BY <1>2, <1>3, <1>4, OthersStay
<1>5. CASE \E o \in Orders : RequestMoves(o)
  BY <1>2, <1>5
  DEF RequestMoves, ApiCreate, ApiStep, ApiPublish, ApiUnreachable, ApiFail, ApiCrash
<1> QED
  BY <1>2, <1>4, <1>5, StepBy DEF vars

\* Where a message can be.
LEMMA MessagesAre ==
  ASSUME NEW m
  PROVE  /\ m \in Messages <=> \/ \E q \in Queues : m \in Ready(q)
                               \/ m \in DeadLetters
                               \/ \E w \in Workers : Held(w) /\ m = Delivery(w)
         /\ m \in Messages' <=> \/ \E q \in Queues : m \in Ready(q)'
                                \/ m \in DeadLetters'
                                \/ \E w \in Workers : Held(w)' /\ m = Delivery(w)'
  BY DEF Messages, Ready, DeadLetters

\* A request that may have sent an order.created.
Publishing(o) == api[o] \in {"try1", "try2"} /\ RequestMoves(o)

\* A message is new only as a copy of another for the same order, as the report of
\* its failure, as a worker's result, or as the order.created of a request.
NewFrom(m) ==
  \/ \E n \in Messages : m.order = n.order /\ m.key \in {n.key, "workflow.failed"}
  \/ \E w \in Workers : At(w, "emit") /\ m = Result(w)
  \/ \E o \in Orders : Publishing(o) /\ m = Event("order.created", o)

\* Where a message comes from that is there after a worker's step.
LEMMA WorkerMessages ==
  ASSUME Inv, NEW w \in Workers, WorkerMoves(w), NEW m \in Messages'
  PROVE  NewFrom(m)
<1>1. \A n \in Messages : NewFrom(n)
  BY DEF NewFrom
<1>2. CASE Took(w)
  <2>1. PICK n \in Ready(Role[w]) : Delivery(w)' = n
    BY <1>2 DEF Took, Delivery, Inv, TypeOK
  <2>2. n \in Messages
    BY <2>1, MessagesAre, HeldIs DEF Inv
  <2>3. \A q \in Queues : Ready(q)' \subseteq Ready(q)
    BY <1>2 DEF Took
  <2>4. DeadLetters' = DeadLetters
    BY <1>2 DEF Took, DeadLetters
  <2>5. \A v \in Workers \ {w} : Held(v)' => Held(v) /\ Delivery(v)' = Delivery(v)
    BY OthersStay DEF Held, Delivery
  <2>6. m \in Messages
    BY <2>1, <2>2, <2>3, <2>4, <2>5, MessagesAre
  <2> QED
    BY <1>1, <2>6
<1>3. CASE Held(w) /\ (Advanced(w) \/ LetGo(w) \/ CutOff(w))
  <2>1. Delivery(w) \in Messages /\ Delivery(w) \in Message /\ Subject(w) = Delivery(w).order
    BY <1>3, MessagesAre, HeldIs DEF Inv, Subject
  <2>2. Stores(w) /\ DeadLetters' \subseteq DeadLetters \cup {Delivery(w)}
    BY <1>3 DEF Advanced, LetGo, CutOff, DeadLetters
  <2>3. Held(w)' => Delivery(w)' = Delivery(w)
    BY <1>3, HeldIs
    DEF Advanced, LetGo, CutOff, Goto, Release, Held, Delivery, Inv, TypeOK, BusyStates
  <2>4. \A v \in Workers \ {w} : Held(v)' => Held(v) /\ Delivery(v)' = Delivery(v)
    BY OthersStay DEF Held, Delivery
  <2>5. m \in Messages \/ \E q \in Queues : m \in Ready(q)' \ Ready(q)
    BY <2>1, <2>2, <2>3, <2>4, MessagesAre
  <2>6. CASE \E q \in Queues : Publishes(w, q, m)
    <3>1. /\ Again(Delivery(w)).order = Delivery(w).order
          /\ Again(Delivery(w)).key = Delivery(w).key
          /\ FailureEvent(Subject(w), Role[w]).order = Subject(w)
          /\ FailureEvent(Subject(w), Role[w]).key = "workflow.failed"
      BY <2>1 DEF Again, FailureEvent, Message
    <3> QED
      BY <2>1, <2>6, <3>1 DEF Publishes, NewFrom
  <2> QED
    BY <1>1, <2>2, <2>5, <2>6 DEF Stores
<1> QED
  BY <1>2, <1>3, WorkerEffects DEF WorkerMoves

\* What a request does to the queues.
LEMMA RequestStores ==
  ASSUME Inv, NEW o \in Orders, RequestMoves(o)
  PROVE  /\ \A q \in Queues :
              /\ Ready(q) \subseteq Ready(q)'
              /\ \A m \in Ready(q)' \ Ready(q) :
                   /\ Publishing(o)
                   /\ m = Event("order.created", o)
                   /\ q \in Targets("order.created")
         /\ UNCHANGED <<dlq, worker>>
<1>1. UNCHANGED <<dlq, worker>>
  BY DEF RequestMoves, ApiStep, ApiCreate, ApiPublish, ApiUnreachable, ApiFail, ApiCrash
<1>2. CASE api[o] \in {"try1", "try2"} /\ ~UNCHANGED queues
  <2> DEFINE created == Event("order.created", o)
  <2>1. PICK reached \in SUBSET Targets(created.key) :
          queues' = Stored(queues, reached, created)
    BY <1>2
    DEF RequestMoves, ApiStep, ApiCreate, ApiPublish, ApiUnreachable, ApiFail, ApiCrash
  <2>2. created.key = "order.created"
    BY DEF Event
  <2> HIDE DEF created
  <2>3. \A q \in Queues :
          Ready(q)' = Ready(q) \cup (IF q \in reached THEN {created} ELSE {})
    BY <2>1, StoredHas DEF Ready
  <2> QED
    BY <1>1, <1>2, <2>2, <2>3 DEF created, Publishing
<1>3. CASE UNCHANGED queues
  BY <1>1, <1>3 DEF Ready
<1>4. CASE api[o] \notin {"try1", "try2"} /\ ~UNCHANGED queues
  BY <1>4
  DEF RequestMoves, ApiStep, ApiCreate, ApiPublish, ApiUnreachable, ApiFail, ApiCrash
<1> QED
  BY <1>2, <1>3, <1>4

\* Where a message comes from that is there after a step.
LEMMA NewMessages ==
  ASSUME Inv, [Next]_vars, NEW m \in Messages'
  PROVE  NewFrom(m)
<1>1. \A n \in Messages : NewFrom(n)
  BY DEF NewFrom
<1>2. ASSUME NEW o \in Orders, RequestMoves(o)
      PROVE  NewFrom(m)
  <2>1. UNCHANGED <<dlq, worker>>
    BY <1>2, RequestStores
  <2>2. m \in Messages \/ \E q \in Queues : m \in Ready(q)' \ Ready(q)
    BY <2>1, MessagesAre DEF DeadLetters, Held, Delivery
  <2> QED
    BY <1>1, <1>2, <2>2, RequestStores DEF NewFrom
<1>3. CASE UNCHANGED vars
  BY <1>1, <1>3, MessagesAre DEF vars, Ready, DeadLetters, Held, Delivery
<1> QED
  BY <1>2, <1>3, WorkerMessages, StepBy

-----------------------------------------------------------------------------
(***************************************************************************)
(* Who writes a row.                                                       *)
(***************************************************************************)
\* The transaction of w's handler, or of the failure that it records.
Writes(w, r, r2) ==
  \/ MoveToProcessing(w) /\ r2 = EnsureProcessing(r)
  \/ RecordSuccess(w) /\ r2 = RecordStepSuccess(r, Role[w])
  \/ ConfirmTicket(w) /\ r2 = RecordRestaurantConfirmation(r)
  \/ Join(w) /\ r2 = PrepareOrderReady(r)
  \/ /\ FailOrder(w) /\ Delivery(w).step \in FailedSteps
     /\ r2 = FailWorkflow(r, Delivery(w).step)
  \/ /\ MarkPublished(w)
     /\ r2 = IF Delivery(w).key = "workflow.failed"
             THEN MarkFailurePublished(r) ELSE MarkReadyPublished(r)
  \/ Notify(w) /\ r2 = CompleteOrder(r)
  \/ /\ Notify(w) \/ RecordDeliveryFailure(w)
     /\ r.exists /\ \E key \in Notices : r2 = AddEventOnce(r, key)

WrittenBy(o) ==
  \/ db'[o] = db[o]
  \/ ApiCreate(o) /\ db'[o] = CreateOrder
  \/ ApiFail(o) /\ db'[o] = FailWorkflow(db[o], "api")
  \/ \E w \in Workers :
       /\ WorkerMoves(w) /\ Held(w) /\ Subject(w) = o
       /\ Writes(w, db[o], db'[o])

\* A row that changes was written by the request or by a worker with a delivery
\* of that order.
LEMMA WhoWrites ==
  ASSUME Inv, [Next]_vars, NEW o \in Orders
  PROVE  WrittenBy(o)
<1>1. TypeOK /\ DOMAIN db = Orders
  BY DEF Inv, TypeOK
<1>2. CASE UNCHANGED db
  BY <1>2 DEF WrittenBy
<1>3. ASSUME NEW p \in Orders, RequestMoves(p)
      PROVE  WrittenBy(o)
  BY <1>1, <1>2, <1>3
  DEF RequestMoves, ApiCreate, ApiStep, ApiPublish, ApiUnreachable, ApiFail, ApiCrash,
      WrittenBy
<1>4. ASSUME NEW w \in Workers, WorkerMoves(w)
      PROVE  WrittenBy(o)
  <2>1. CASE ~Held(w)
    BY <1>2, <1>4, <2>1, WorkerEffects DEF WorkerMoves, Took
  <2> SUFFICES ASSUME Held(w), db'[o] # db[o]
               PROVE  Subject(w) = o /\ Writes(w, db[o], db'[o])
    BY <1>4, <2>1 DEF WrittenBy
  <2>2. Delivery(w) \in Message
    BY <1>1, HeldIs
  <2>3. \A row : db' \in {db, [db EXCEPT ![Subject(w)] = row]} =>
          Subject(w) = o /\ db'[o] = row /\ RowOf(w) = db[o]
    BY <1>1 DEF RowOf
  <2>4. \A row, next : Transaction(w, row, next) =>
          Subject(w) = o /\ db'[o] = row /\ RowOf(w) = db[o]
    BY <2>3 DEF Transaction
  <2>5. CASE \/ GateOnFailure(w) \/ CheckStepDone(w)
    BY <2>4, <2>5 DEF GateOnFailure, CheckStepDone
  <2>6. CASE \/ MoveToProcessing(w) \/ RecordSuccess(w) \/ ConfirmTicket(w) \/ Join(w)
             \/ MarkPublished(w)
    BY <2>4, <2>6
    DEF MoveToProcessing, RecordSuccess, ConfirmTicket, Join, MarkPublished, Writes
  <2>7. CASE FailOrder(w)
    <3>1. Delivery(w).step \in FailedSteps
      BY <2>2, <2>7 DEF FailOrder, Message
    <3> QED
      BY <2>4, <2>7, <3>1 DEF FailOrder, Writes
  <2>8. CASE Notify(w)
    BY <2>4, <2>8 DEF Notify, Writes, Notices
  <2>9. CASE RecordDeliveryFailure(w)
    BY <2>3, <2>9 DEF RecordDeliveryFailure, Writes, Notices
  <2> QED
    BY <1>1, <1>4, <2>5, <2>6, <2>7, <2>8, <2>9
    DEF WorkerMoves, WorkerStep, Deliver, Decline, Emit, Ack, Retry, Exhaust, DeadLetter,
        Exit, Crash, Disconnect
<1> QED
  BY <1>2, <1>3, <1>4, StepBy DEF vars

-----------------------------------------------------------------------------
(***************************************************************************)
(* Rows only grow.                                                         *)
(***************************************************************************)
Flags(r) == <<r.readyPublished, r.failurePublished>>

\* The two flags are set by their own transactions and by no other.
LEMMA FlagsKept ==
  ASSUME NEW r \in Row
  PROVE  /\ Flags(EnsureProcessing(r)) = Flags(r)
         /\ \A s \in Prerequisites : Flags(RecordStepSuccess(r, s)) = Flags(r)
         /\ Flags(PrepareOrderReady(r)) = Flags(r)
         /\ Flags(RecordRestaurantConfirmation(r)) = Flags(r)
         /\ Flags(CompleteOrder(r)) = Flags(r)
         /\ \A step \in FailedSteps : Flags(FailWorkflow(r, step)) = Flags(r)
         /\ \A key \in Notices : Flags(AddEventOnce(r, key)) = Flags(r)
         /\ MarkReadyPublished(r).failurePublished = r.failurePublished
         /\ MarkFailurePublished(r).readyPublished = r.readyPublished
         /\ r.readyPublished => MarkReadyPublished(r).readyPublished
         /\ r.failurePublished => MarkFailurePublished(r).failurePublished
<1>1. Flags(EnsureProcessing(r)) = Flags(r)
  BY DEF Flags, EnsureProcessing, Row
<1>2. \A n \in Row : Flags(RecordCompensations(n)) = Flags(n)
  BY DEF Flags, RecordCompensations, Row
<1>3. ASSUME NEW s \in Prerequisites
      PROVE  Flags(RecordStepSuccess(r, s)) = Flags(r)
  <2> DEFINE marked == [r EXCEPT !.done = @ \cup {s},
                                 !.events = @ \cup {StepSucceeded[s]}]
  <2>1. marked \in Row /\ Flags(marked) = Flags(r)
    BY EventKeysAre DEF Row, Flags
  <2>2. RecordStepSuccess(r, s) \in {r, marked, RecordCompensations(marked)}
    BY DEF RecordStepSuccess
  <2> HIDE DEF marked
  <2> QED
    BY <1>2, <2>1, <2>2
<1>4. ASSUME NEW step \in FailedSteps
      PROVE  Flags(FailWorkflow(r, step)) = Flags(r)
  <2> DEFINE failed == [r EXCEPT !.failedStep = IF Failed(r) THEN @ ELSE step,
                                 !.status     = "FAILED",
                                 !.events     = @ \cup {"workflow.failed"}]
  <2>1. failed \in Row /\ Flags(failed) = Flags(r)
    BY EventKeysAre DEF Row, Flags
  <2>2. FailWorkflow(r, step) \in {r, RecordCompensations(failed)}
    BY DEF FailWorkflow
  <2> HIDE DEF failed
  <2> QED
    BY <1>2, <2>1, <2>2
<1>5. Flags(PrepareOrderReady(r)) = Flags(r)
  BY DEF Flags, PrepareOrderReady, Row
<1>6. Flags(RecordRestaurantConfirmation(r)) = Flags(r)
  BY DEF Flags, RecordRestaurantConfirmation, Row
<1>7. Flags(CompleteOrder(r)) = Flags(r)
  BY DEF Flags, CompleteOrder, Row
<1>8. \A key \in Notices : Flags(AddEventOnce(r, key)) = Flags(r)
  BY DEF Flags, AddEventOnce, Row
<1>9. /\ MarkReadyPublished(r).failurePublished = r.failurePublished
      /\ MarkFailurePublished(r).readyPublished = r.readyPublished
      /\ r.readyPublished => MarkReadyPublished(r).readyPublished
      /\ r.failurePublished => MarkFailurePublished(r).failurePublished
  BY DEF MarkReadyPublished, MarkFailurePublished, Row
<1> QED
  BY <1>1, <1>3, <1>4, <1>5, <1>6, <1>7, <1>8, <1>9

RowGrows(r, r2) ==
  /\ r.exists => r2.exists
  /\ r.done \subseteq r2.done
  /\ r.events \subseteq r2.events
  /\ Failed(r) => Failed(r2)
  /\ r.readyPublished => r2.readyPublished
  /\ r.failurePublished => r2.failurePublished

\* No transaction takes back what another one recorded.
LEMMA StoreStepGrows ==
  ASSUME NEW r, RowOK(r), NEW r2, StoreStep(r, r2)
  PROVE  RowGrows(r, r2)
<1>1. /\ r \in Row /\ RowAdvance(r, r2)
      /\ r.readyPublished => r2.readyPublished
      /\ r.failurePublished => r2.failurePublished
  BY StoreStepAdvances, FlagsKept DEF RowOK, StoreStep, Flags
<1> SUFFICES r.done \subseteq r2.done /\ r.events \subseteq r2.events
  BY <1>1 DEF RowGrows, RowAdvance
<1>2. CASE r2 = r
  BY <1>2
<1>3. CASE r2 = EnsureProcessing(r) /\ r.exists /\ r.status = "PENDING"
  BY <1>1, <1>3, EnsureProcessingEffect
<1>4. ASSUME NEW s \in Prerequisites, r2 = RecordStepSuccess(r, s), r.exists, s \notin r.done
      PROVE  r.done \subseteq r2.done /\ r.events \subseteq r2.events
  BY <1>1, <1>4, RecordStepSuccessEffect
<1>5. CASE r2 = PrepareOrderReady(r) /\ Joined(r)
  BY <1>1, <1>5, PrepareOrderReadyEffect
<1>6. CASE r2 = RecordRestaurantConfirmation(r) /\ ConfirmAccepted(r)
  BY <1>1, <1>6, ConfirmationEffect
<1>7. CASE r2 = CompleteOrder(r) /\ CompleteAccepted(r)
  BY <1>1, <1>7, CompleteOrderEffect
<1>8. ASSUME NEW step \in FailedSteps, r2 = FailWorkflow(r, step), FailAccepted(r, step)
      PROVE  r.done \subseteq r2.done /\ r.events \subseteq r2.events
  BY <1>1, <1>8, FailWorkflowEffect
<1>9. CASE r2 \in {MarkReadyPublished(r), MarkFailurePublished(r)} /\ r.exists
  BY <1>1, <1>9, MarkEffect
<1>10. ASSUME NEW key \in Notices, r2 = AddEventOnce(r, key)
       PROVE  r.done \subseteq r2.done /\ r.events \subseteq r2.events
  BY <1>1, <1>10, AddEventOnceEffect
<1> QED
  BY <1>2, <1>3, <1>4, <1>5, <1>6, <1>7, <1>8, <1>9, <1>10
  DEF StoreStep, EnsureProcessing, RecordStepSuccess, PrepareOrderReady,
      RecordRestaurantConfirmation, CompleteOrder, FailWorkflow,
      MarkReadyPublished, MarkFailurePublished

\* No step takes anything back from a row.
LEMMA RowsGrow ==
  ASSUME Inv, [Next]_vars, NEW o \in Orders
  PROVE  /\ RowGrows(db[o], db'[o])
         /\ RowOK(db[o]) /\ RowOK(db'[o])
         /\ RowAdvance(db[o], db'[o])
<1>1. SafeStep /\ RowOK(db[o]) /\ RowOK(db'[o]) /\ RowAdvance(db[o], db'[o])
  BY StepsAreTransactions, NextInv, StepsAdvance DEF Inv
<1>2. CASE StoreStep(db[o], db'[o])
  BY <1>1, <1>2, StoreStepGrows
<1>3. CASE api[o] = "new" /\ db'[o] = CreateOrder
  <2>1. db[o] = NoRow
    BY <1>3 DEF Inv, Fresh, RowOK
  <2> QED
    BY <1>1, <1>3, <2>1 DEF RowGrows, NoRow, CreateOrder
<1> QED
  BY <1>1, <1>2, <1>3 DEF SafeStep, RowChange

-----------------------------------------------------------------------------
(***************************************************************************)
(* Messages say no more than the rows.                                     *)
(***************************************************************************)
\* What a row must hold for m to be true of it.
Bears(r, m) ==
  /\ r.exists
  /\ m.key = "payment.succeeded" => "payment" \in r.done
  /\ m.key = "inventory.reserved" => "inventory" \in r.done
  /\ m.key = "order.ready" =>
       Prerequisites \subseteq r.done /\ "workflow.ready" \in r.events
  /\ m.key = "order.confirmed" => "restaurant" \in r.done
  /\ m.key = "order.failed" => Failed(r)

\* Every message of an order is true, and so is every one that is about to be sent.
\* An order has messages only once its request has inserted it.
Borne(o) ==
  /\ api[o] = "new" => \A m \in Messages : m.order # o
  /\ api[o] \in {"try1", "try2", "fail"} => db[o].exists
  /\ api[o] = "rejected" => Failed(db[o])
  /\ \A m \in Messages : m.order = o => Bears(db[o], m)
  /\ \A w \in Workers :
       (Held(w) /\ Subject(w) = o /\ worker[w].pc \in {"emit", "mark"})
         => Bears(db[o], Result(w))

\* A handler comes to its emit with a row that bears its result.
LEMMA EntersEmit ==
  ASSUME Inv, Fits, NEW w \in Workers, WorkerMoves(w), Held(w), RowOf(w).exists,
         worker'[w].pc \in {"emit", "mark"}
  PROVE  /\ worker'[w].msg = worker[w].msg
         /\ worker[w].pc \in {"emit", "mark"} \/ Bears(db'[Subject(w)], Result(w))
<1> DEFINE r == RowOf(w)
           r2 == db'[Subject(w)]
<1>1. /\ TypeOK /\ Role[w] \in Queues /\ Delivery(w) \in Message
      /\ Subject(w) \in Orders /\ worker[w] \in BusyStates
      /\ r = db[Subject(w)] /\ r \in Row /\ RowOK(r)
      /\ worker[w].pc \in HandlerOf[Role[w]] \cup {"except", "ack", "deadletter"}
  BY HeldIs DEF Inv, Fits, RowOf, RowOK
<1>2. /\ \A pc : Goto(w, pc) => worker'[w].pc = pc /\ worker'[w].msg = worker[w].msg
      /\ ~Release(w)
  BY <1>1 DEF Goto, Release, TypeOK, BusyStates, Idle
<1>3. \A row, next :
        (Transaction(w, row, next) /\ next # "except" /\ worker'[w].pc = next) => r2 = row
  BY <1>1, <1>2 DEF Transaction, TypeOK
<1>4. \A row, next : Transaction(w, row, next) =>
        /\ worker'[w].pc \in {next, "except"}
        /\ worker'[w].msg = worker[w].msg
  BY <1>2 DEF Transaction
<1>5. CASE Disconnect(w) \/ Emit(w)
  BY <1>1, <1>2, <1>5 DEF Disconnect, Emit, At, TypeOK, BusyStates
<1>6. CASE Deliver(w)
  BY <1>1, <1>6, HeldIs DEF Deliver
<1>7. CASE \/ Ack(w) \/ DeadLetter(w) \/ Exit(w) \/ Crash(w) \/ Decline(w) \/ Retry(w)
           \/ Exhaust(w) \/ RecordDeliveryFailure(w)
  BY <1>2, <1>7
  DEF Ack, DeadLetter, Exit, Crash, Decline, Retry, Exhaust, RecordDeliveryFailure
<1>8. CASE MoveToProcessing(w) \/ GateOnFailure(w) \/ MarkPublished(w) \/ Notify(w)
  BY <1>4, <1>8 DEF MoveToProcessing, GateOnFailure, MarkPublished, Notify
<1>9. \A s \in Steps : (Role[w] = s /\ s \in r2.done /\ r2.exists) => Bears(r2, Result(w))
  BY DEF Bears, Result, ResultKey, Event
<1>10. CASE CheckStepDone(w)
  <2>1. r2 = r /\ Role[w] \in r.done
    BY <1>3, <1>4, <1>10 DEF CheckStepDone
  <2> QED
    BY <1>1, <1>4, <1>9, <1>10, <2>1 DEF CheckStepDone, Row
<1>11. CASE RecordSuccess(w)
  <2>1. r2 = RecordStepSuccess(r, Role[w]) /\ Role[w] \in Prerequisites
    BY <1>3, <1>4, <1>11 DEF RecordSuccess
  <2>2. CASE Role[w] \in r.done
    <3>1. r2 = r
      BY <2>1, <2>2 DEF RecordStepSuccess
    <3> QED
      BY <1>4, <1>9, <1>11, <2>1, <2>2, <3>1 DEF RecordSuccess
  <2>3. CASE Role[w] \notin r.done
    <3>1. Role[w] \in r2.done /\ r2.exists
      BY <1>1, <2>1, <2>3, RecordStepSuccessEffect
    <3> QED
      BY <1>4, <1>9, <1>11, <2>1, <3>1 DEF RecordSuccess
  <2> QED
    BY <2>2, <2>3
<1>12. CASE ConfirmTicket(w)
  <2>1. r2 = RecordRestaurantConfirmation(r) /\ Role[w] = "restaurant" /\ ConfirmAccepted(r)
    BY <1>3, <1>4, <1>12 DEF ConfirmTicket
  <2> QED
    BY <1>1, <1>4, <1>9, <1>12, <2>1, ConfirmationEffect DEF ConfirmTicket
<1>13. CASE Join(w)
  <2>1. /\ r2 = PrepareOrderReady(r) /\ Joined(r)
        /\ Delivery(w).key # "workflow.failed" /\ At(w, "decide")
    BY <1>3, <1>4, <1>13 DEF Join, ReadyNeedsPublishing
  <2>2. Role[w] = "coordinator"
    BY <1>1, <2>1 DEF At, HandlerOf, Queues
  <2>3. Result(w).key = "order.ready"
    BY <2>1, <2>2 DEF Result, ResultKey, Event
  <2>4. r2.exists /\ Prerequisites \subseteq r2.done /\ "workflow.ready" \in r2.events
    BY <1>1, <2>1, PrepareOrderReadyEffect DEF Joined
  <2> QED
    BY <1>4, <1>13, <2>3, <2>4 DEF Join, Bears
<1>14. CASE FailOrder(w)
  <2>1. /\ r2 = FailWorkflow(r, Delivery(w).step) /\ FailAccepted(r, Delivery(w).step)
        /\ Delivery(w).key = "workflow.failed" /\ At(w, "decide")
    BY <1>3, <1>4, <1>14 DEF FailOrder, FailureNeedsPublishing
  <2>2. Role[w] = "coordinator" /\ Delivery(w).step \in FailedSteps
    BY <1>1, <2>1 DEF At, HandlerOf, Queues, Message
  <2>3. Result(w).key = "order.failed"
    BY <2>1, <2>2 DEF Result, ResultKey, Event
  <2>4. r2.exists /\ Failed(r2)
    BY <1>1, <2>1, <2>2, FailWorkflowEffect DEF FailAccepted
  <2> QED
    BY <1>4, <1>14, <2>3, <2>4 DEF FailOrder, Bears
<1> QED
  BY <1>5, <1>6, <1>7, <1>8, <1>10, <1>11, <1>12, <1>13, <1>14 DEF WorkerMoves, WorkerStep

\* No step makes a message, or a handler's next emit, say more than the row.
LEMMA BorneNext ==
  ASSUME Inv, Fits, [Next]_vars, NEW o \in Orders, Borne(o)
  PROVE  Borne(o)'
<1>1. /\ SafeStep /\ Inv' /\ ApiMove(o) /\ TypeOK
      /\ RowGrows(db[o], db'[o]) /\ db[o] \in Row
  BY StepsAreTransactions, NextInv, ApiMoves, RowsGrow DEF Inv, RowOK
<1>2. \A m : Bears(db[o], m) => Bears(db'[o], m)
  BY <1>1 DEF Bears, RowGrows
<1>3. \A w \in Workers : At(w, "emit") =>
        Held(w) /\ Delivery(w) \in Messages /\ Result(w).order = Delivery(w).order
  BY <1>1, HeldIs, MessagesAre DEF At, Result, Event, Subject
<1>4. ASSUME NEW m \in Messages', m.order = o
      PROVE  Bears(db'[o], m) /\ api[o] # "new"
  <2>1. CASE \E n \in Messages : m.order = n.order /\ m.key \in {n.key, "workflow.failed"}
    <3>1. PICK n \in Messages : m.order = n.order /\ m.key \in {n.key, "workflow.failed"}
      BY <2>1
    <3>2. Bears(db[o], n) /\ api[o] # "new"
      BY <1>4, <3>1 DEF Borne
    <3>3. Bears(db[o], m)
      BY <3>1, <3>2 DEF Bears
    <3> QED
      BY <1>2, <3>2, <3>3
  <2>2. CASE \E w \in Workers : At(w, "emit") /\ m = Result(w)
    <3>1. PICK w \in Workers : At(w, "emit") /\ m = Result(w)
      BY <2>2
    <3>2. Held(w) /\ Delivery(w) \in Messages /\ Delivery(w).order = o
      BY <1>3, <1>4, <3>1
    <3>3. Bears(db[o], Result(w)) /\ api[o] # "new"
      BY <3>1, <3>2 DEF Borne, At, Subject
    <3> QED
      BY <1>2, <3>1, <3>3
  <2>3. CASE \E p \in Orders : Publishing(p) /\ m = Event("order.created", p)
    <3>1. m.key = "order.created" /\ api[o] \in {"try1", "try2"}
      BY <1>4, <2>3 DEF Event, Publishing
    <3>2. Bears(db[o], m)
      BY <3>1 DEF Borne, Bears
    <3> QED
      BY <1>2, <3>1, <3>2
  <2> QED
    BY <2>1, <2>2, <2>3, NewMessages DEF NewFrom
<1>5. /\ api'[o] = "new" => \A m \in Messages' : m.order # o
      /\ \A m \in Messages' : m.order = o => Bears(db'[o], m)
  BY <1>1, <1>4 DEF SafeStep
<1>6. /\ api'[o] \in {"try1", "try2", "fail"} => db'[o].exists
      /\ api'[o] = "rejected" => Failed(db'[o])
  <2>1. CASE api'[o] = api[o] \/ api[o] \in {"try1", "try2"}
    BY <1>1, <2>1 DEF Borne, RowGrows, ApiMove
  <2>2. CASE api[o] = "new" /\ db'[o] = CreateOrder /\ api'[o] = "try1"
    BY <2>2 DEF CreateOrder
  <2>3. CASE api[o] = "fail" /\ db'[o] = FailWorkflow(db[o], "api") /\ api'[o] = "rejected"
    <3>1. FailAccepted(db[o], "api")
      BY <2>3 DEF Borne, FailAccepted
    <3> QED
      BY <1>1, <2>3, <3>1, FailWorkflowEffect
  <2> QED
    BY <1>1, <2>1, <2>2, <2>3 DEF ApiMove
<1>7. ASSUME NEW w \in Workers, Held(w)', Subject(w)' = o, worker'[w].pc \in {"emit", "mark"}
      PROVE  Bears(db'[o], Result(w)')
  <2>1. worker'[w].msg = worker[w].msg => Result(w)' = Result(w) /\ Subject(w) = o
    BY <1>7 DEF Result, Delivery, Subject
  <2>2. CASE worker'[w] = worker[w]
    <3>1. Held(w) /\ worker[w].pc \in {"emit", "mark"}
      BY <1>7, <2>2 DEF Held
    <3> QED
      BY <1>2, <2>1, <2>2, <3>1 DEF Borne
  <2>3. CASE WorkerMoves(w) /\ Held(w)
    <3>1. CASE RowOf(w).exists
      BY <1>2, <1>7, <2>1, <2>3, <3>1, EntersEmit DEF Borne
    <3>2. CASE ~RowOf(w).exists
      <4>1. Delivery(w) \in Messages /\ Delivery(w).order \in Orders
        BY <1>1, <2>3, HeldIs, MessagesAre DEF Subject
      <4>2. worker'[w].msg = worker[w].msg
        BY <1>1, <1>7, <2>3, HeldIs, WorkerEffects
        DEF WorkerMoves, Took, Advanced, LetGo, CutOff, Goto, Release, TypeOK, BusyStates, Held
      <4> QED
        BY <2>1, <3>2, <4>1, <4>2 DEF Borne, Bears, RowOf, Subject
    <3> QED
      BY <3>1, <3>2
  <2>4. CASE WorkerMoves(w) /\ ~Held(w)
    <3>1. Took(w)
      BY <2>4, WorkerEffects DEF WorkerMoves
    <3>2. worker'[w].pc = Entry[Role[w]] /\ Role[w] \in Queues
      BY <1>1, <3>1, HeldIs DEF Took, TypeOK
    <3> QED
      BY <1>7, <3>2 DEF Entry, Queues
  <2>5. worker'[w] = worker[w] \/ WorkerMoves(w)
    BY OthersStay, RequestStores, StepBy DEF vars
  <2> QED
    BY <2>2, <2>3, <2>4, <2>5
<1> QED
  BY <1>5, <1>6, <1>7 DEF Borne

\* In every reachable state the handlers are in the calls of their role and every
\* order's messages are borne out by its rows.
THEOREM MessageInvariance == Spec => [](Fits /\ \A o \in Orders : Borne(o))
<1> DEFINE AllBorne == \A o \in Orders : Borne(o)
<1>1. Init => Fits /\ AllBorne
  <2> SUFFICES ASSUME Init PROVE Fits /\ AllBorne
    OBVIOUS
  <2>1. \A w \in Workers : ~Held(w)
    BY DEF Init, Held
  <2>2. \A q \in Queues : Ready(q) = {}
    BY DEF Init, Ready, BagToSet, EmptyBag, SetToBag
  <2>3. DeadLetters = {}
    BY DEF Init, DeadLetters, BagToSet, EmptyBag, SetToBag
  <2>4. \A m : m \notin Messages
    BY <2>1, <2>2, <2>3, MessagesAre
  <2> QED
    BY <2>1, <2>4 DEF Fits, Borne, Init
<1>2. Inv /\ Fits /\ AllBorne /\ [Next]_vars => Fits' /\ AllBorne'
  BY FitsNext, BorneNext
<1> QED
  BY <1>1, <1>2, Invariance, PTL DEF Spec

\* Whoever receives a message finds it borne out by the committed rows: every emit
\* follows the commit that it announces, in every handler, retry and redelivery.
THEOREM TruthfulMessages == Spec => []MessagesTruthful
<1>1. Inv /\ (\A o \in Orders : Borne(o)) => MessagesTruthful
  <2> SUFFICES ASSUME Inv, \A o \in Orders : Borne(o), NEW m \in Messages
               PROVE  m.order \in Orders /\ Bears(db[m.order], m)
    BY DEF MessagesTruthful, Bears
  <2>1. m \in Message
    BY MessagesAre, HeldIs DEF Inv, TypeOK, IsQueueContent, Ready, DeadLetters
  <2> QED
    BY <2>1 DEF Message, Borne
<1> QED
  BY <1>1, MessageInvariance, Invariance, PTL

=============================================================================
