-------------------------- MODULE OrderCareProofs --------------------------
(***************************************************************************)
(* Proof that no order is dropped silently: until an order that was        *)
(* accepted, or that is paid for and reserved, is COMPLETED or FAILED, a   *)
(* message drives it, or the message that would have is in the dead-letter *)
(* queue.                                                                  *)
(*                                                                         *)
(* It holds as long as one process consumes the restaurant's queue, which  *)
(* make scale leaves alone (OneOf): with two, the one that confirms may    *)
(* lose its connection while the other finds the ticket confirmed and      *)
(* acknowledges. The number of other workers, of orders, of retries and of *)
(* faults is arbitrary.                                                    *)
(*                                                                         *)
(* The invariants are stated and proved order by order.                    *)
(***************************************************************************)
EXTENDS OrderMessageProofs

USE DEF Prerequisites, Steps, NoStep, FailedSteps, Statuses, Failed

\* At most one process consumes q.
OneOf(q) == \A v, w \in Workers : Role[v] = q /\ Role[w] = q => v = w

-----------------------------------------------------------------------------
(***************************************************************************)
(* What becomes of the messages of a queue.                                *)
(***************************************************************************)
\* What q's workers still have to settle, dead letters included.
Owns(w) == Held(w) /\ worker[w].up /\ ~At(w, "ack")

Kept(q) ==
  Ready(q) \cup DeadLetters
    \cup {Delivery(w) : w \in {v \in Workers : Role[v] = q /\ Owns(v)}}

\* w's handler has come to its end.
Settles(w) == Goto(w, "ack") /\ ~At(w, "except") /\ ~At(w, "ack")

GivesUp(w) == Goto(w, "deadletter") /\ ~At(w, "deadletter")

\* Who pursues what, now and after a step.
LEMMA LiveIs ==
  ASSUME NEW q \in Queues, NEW m
  PROVE  /\ m \in Live(q) <=> \/ m \in Ready(q)
                              \/ \E w \in Workers : Role[w] = q /\ Pursues(w) /\ m = Delivery(w)
         /\ m \in Live(q)' <=> \/ m \in Ready(q)'
                               \/ \E w \in Workers : Role[w] = q /\ Pursues(w)' /\ m = Delivery(w)'
  BY DEF Live, Ready

\* Who has what, now and after a step.
LEMMA KeptIs ==
  ASSUME NEW q \in Queues, NEW m
  PROVE  /\ m \in Kept(q) <=> \/ m \in Ready(q) \/ m \in DeadLetters
                              \/ \E w \in Workers : Role[w] = q /\ Owns(w) /\ m = Delivery(w)
         /\ m \in Kept(q)' <=> \/ m \in Ready(q)' \/ m \in DeadLetters'
                               \/ \E w \in Workers : Role[w] = q /\ Owns(w)' /\ m = Delivery(w)'
  BY DEF Kept

\* A retry is back in the queue before its original is acknowledged.
LEMMA RetryReturns ==
  ASSUME Inv, NEW w \in Workers, WorkerMoves(w), Held(w), At(w, "except"), Goto(w, "ack")
  PROVE  Again(Delivery(w)) \in Ready(Role[w])'
<1>1. /\ TypeOK /\ Role[w] \in Queues /\ worker'[w].pc = "ack"
      /\ \A pc : Goto(w, pc) => worker'[w].pc = pc
      /\ ~Release(w)
  BY HeldIs DEF Inv, Goto, TypeOK, BusyStates, Release, Idle
<1>2. CASE Retry(w)
  <2>1. queues' = Stored(queues, {Role[w]}, Again(Delivery(w)))
    BY <1>1, <1>2 DEF Retry, Again
  <2> QED
    BY <1>1, <2>1, RetryStores
<1>3. CASE Disconnect(w)
  BY <1>1, <1>3, HeldIs DEF Disconnect, At, TypeOK, BusyStates
<1>4. ~Retry(w) /\ ~Disconnect(w) => FALSE
  BY <1>1
  DEF WorkerMoves, WorkerStep, Deliver, MoveToProcessing, CheckStepDone, Decline,
      RecordSuccess, GateOnFailure, ConfirmTicket, Join, FailOrder, Emit, MarkPublished,
      Notify, Ack, Exhaust, RecordDeliveryFailure, DeadLetter, Exit, Crash, At
<1> QED
  BY <1>2, <1>3, <1>4

\* What w takes it pursues.
LEMMA TookPursues ==
  ASSUME Inv, NEW w \in Workers, Took(w)
  PROVE  /\ Pursues(w)' /\ Owns(w)'
         /\ Delivery(w)' \in Ready(Role[w])
         /\ \A p \in Queues :
              Ready(p) \ (IF p = Role[w] THEN {Delivery(w)'} ELSE {}) \subseteq Ready(p)'
<1>1. PICK n \in Ready(Role[w]) :
        /\ worker' = [worker EXCEPT ![w] = [pc |-> Entry[Role[w]], msg |-> n, up |-> TRUE]]
        /\ \A p \in Queues : Ready(p) \ (IF p = Role[w] THEN {n} ELSE {}) \subseteq Ready(p)'
  BY DEF Took
<1>2. Role[w] \in Queues /\ worker'[w] = [pc |-> Entry[Role[w]], msg |-> n, up |-> TRUE]
  BY <1>1, HeldIs DEF Inv, TypeOK
<1>3. worker'[w].pc \notin {"idle", "ack", "deadletter"}
  BY <1>2 DEF Entry, Queues
<1>4. Pursues(w)' /\ Owns(w)' /\ n = Delivery(w)'
  BY <1>2, <1>3 DEF Pursues, Owns, Held, At, Delivery, Idle
<1> QED
  BY <1>1, <1>4

\* What w takes it pursues, and what it leaves ready stays ready.
LEMMA TookKeeps ==
  ASSUME Inv, NEW w \in Workers, Took(w), NEW q \in Queues, NEW m \in Ready(q)
  PROVE  \/ m \in Ready(q)'
         \/ Role[w] = q /\ Pursues(w)' /\ Owns(w)' /\ m = Delivery(w)'
  BY TookPursues

\* What one step does to a delivery that its own worker holds.
LEMMA DeliveryStays ==
  ASSUME Inv, NEW w \in Workers, WorkerMoves(w), Owns(w)
  PROVE  \/ \E n \in Ready(Role[w])' : Alike(n, Delivery(w))
         \/ Owns(w)' /\ Delivery(w)' = Delivery(w) /\ (Pursues(w) => Pursues(w)')
         \/ Owns(w)' /\ Delivery(w)' = Delivery(w) /\ GivesUp(w)
         \/ At(w, "deadletter") /\ Delivery(w) \in DeadLetters'
         \/ Settles(w)
<1>1. /\ TypeOK /\ Held(w) /\ worker[w] \in BusyStates /\ Delivery(w) \in Message
      /\ worker[w].up /\ ~At(w, "ack")
  BY HeldIs DEF Inv, Owns
<1>2. CASE Advanced(w)
  <2>1. PICK pc \in HandlerPcs : Goto(w, pc)
    BY <1>2 DEF Advanced
  <2>2. /\ worker'[w].pc = pc /\ worker'[w].up /\ Delivery(w)' = Delivery(w)
        /\ Held(w)'
    BY <1>1, <2>1 DEF Goto, TypeOK, BusyStates, Delivery, Held, Idle, HandlerPcs
  <2>3. CASE pc = "ack" /\ At(w, "except")
    <3>1. Again(Delivery(w)) \in Ready(Role[w])'
      BY <1>1, <2>1, <2>3, RetryReturns
    <3>2. Alike(Again(Delivery(w)), Delivery(w))
      BY <1>1 DEF Again, Alike, Message
    <3> QED
      BY <3>1, <3>2
  <2>4. CASE pc = "ack" /\ ~At(w, "except")
    BY <1>1, <2>1, <2>4 DEF Settles
  <2>5. CASE pc = "deadletter"
    BY <2>1, <2>2, <2>5 DEF Owns, At, GivesUp, Pursues
  <2>6. CASE pc \notin {"ack", "deadletter"}
    BY <2>2, <2>6 DEF Owns, At, Pursues
  <2> QED
    BY <2>3, <2>4, <2>5, <2>6
<1>3. CASE LetGo(w)
  BY <1>1, <1>3 DEF LetGo
<1>4. CASE CutOff(w)
  BY <1>4 DEF CutOff, Alike
<1> QED
  BY <1>1, <1>2, <1>3, <1>4, WorkerEffects DEF WorkerMoves, Took, Held

\* A live message stays live, as itself or as a retry, until a handler is done with
\* it or gives it up.
LEMMA LiveStays ==
  ASSUME Inv, [Next]_vars, NEW q \in Queues, NEW m \in Live(q)
  PROVE  \/ \E n \in Live(q)' : Alike(n, m)
         \/ \E w \in Workers :
              /\ WorkerMoves(w) /\ Pursues(w) /\ Role[w] = q /\ Delivery(w) = m
              /\ Settles(w) \/ GivesUp(w)
<1> SUFFICES ASSUME ~\E n \in Live(q)' : Alike(n, m)
             PROVE  \E w \in Workers :
                      /\ WorkerMoves(w) /\ Pursues(w) /\ Role[w] = q /\ Delivery(w) = m
                      /\ Settles(w) \/ GivesUp(w)
  OBVIOUS
<1>1. m \notin Live(q)' /\ \A n \in Ready(q)' : ~Alike(n, m)
  BY LiveIs DEF Alike
<1>2. ASSUME NEW w \in Workers, WorkerMoves(w)
      PROVE  \E v \in Workers :
               /\ WorkerMoves(v) /\ Pursues(v) /\ Role[v] = q /\ Delivery(v) = m
               /\ Settles(v) \/ GivesUp(v)
  <2>1. m \notin Ready(q)
    <3>1. CASE Took(w)
      BY <1>1, <3>1, TookKeeps, LiveIs
    <3>2. CASE Stores(w)
      BY <1>1, <3>2, LiveIs DEF Stores
    <3> QED
      BY <1>2, <3>1, <3>2, WorkerEffects DEF WorkerMoves, Advanced, LetGo, CutOff
  <2>2. PICK v \in Workers : Role[v] = q /\ Pursues(v) /\ m = Delivery(v)
    BY <2>1, LiveIs
  <2>3. v = w
    BY <1>1, <1>2, <2>2, OthersStay, LiveIs DEF Pursues, Held, Delivery
  <2>4. Owns(w) /\ ~At(w, "deadletter")
    BY <2>2, <2>3 DEF Pursues, Owns, At
  <2>5. ~Pursues(w)' \/ Delivery(w)' # Delivery(w)
    BY <1>1, <2>2, <2>3, LiveIs
  <2>6. Settles(w) \/ GivesUp(w)
    BY <1>1, <1>2, <2>2, <2>3, <2>4, <2>5, DeliveryStays
  <2> QED
    BY <1>2, <2>2, <2>3, <2>6
<1>3. CASE \E o \in Orders : RequestMoves(o)
  <2>1. UNCHANGED worker /\ Ready(q) \subseteq Ready(q)'
    BY <1>3, RequestStores
  <2> QED
    BY <1>1, <2>1, LiveIs DEF Pursues, Held, Delivery
<1>4. CASE UNCHANGED vars
  BY <1>1, <1>4, LiveIs DEF vars, Pursues, Held, Delivery, Ready
<1> QED
  BY <1>2, <1>3, <1>4, StepBy

\* A message that is kept stays kept until a handler is done with it.
LEMMA KeptStays ==
  ASSUME Inv, [Next]_vars, NEW q \in Queues, NEW m \in Kept(q)
  PROVE  \/ \E n \in Kept(q)' : Alike(n, m)
         \/ \E w \in Workers :
              /\ WorkerMoves(w) /\ Owns(w) /\ Role[w] = q /\ Delivery(w) = m
              /\ Settles(w)
<1> SUFFICES ASSUME ~\E n \in Kept(q)' : Alike(n, m)
             PROVE  \E w \in Workers :
                      /\ WorkerMoves(w) /\ Owns(w) /\ Role[w] = q /\ Delivery(w) = m
                      /\ Settles(w)
  OBVIOUS
<1>1. m \notin Kept(q)' /\ \A n \in Ready(q)' : ~Alike(n, m)
  BY KeptIs DEF Alike
<1>2. ASSUME NEW w \in Workers, WorkerMoves(w)
      PROVE  \E v \in Workers :
               /\ WorkerMoves(v) /\ Owns(v) /\ Role[v] = q /\ Delivery(v) = m
               /\ Settles(v)
  <2>1. m \notin Ready(q) /\ m \notin DeadLetters
    <3>1. DeadLetters \subseteq DeadLetters'
      BY <1>2, WorkerEffects DEF WorkerMoves, Took, Advanced, LetGo, CutOff, DeadLetters
    <3>2. CASE Took(w)
      BY <1>1, <3>1, <3>2, TookKeeps, KeptIs
    <3>3. CASE Stores(w)
      BY <1>1, <3>1, <3>3, KeptIs DEF Stores
    <3> QED
      BY <1>2, <3>2, <3>3, WorkerEffects DEF WorkerMoves, Advanced, LetGo, CutOff
  <2>2. PICK v \in Workers : Role[v] = q /\ Owns(v) /\ m = Delivery(v)
    BY <2>1, KeptIs
  <2>3. v = w
    BY <1>1, <1>2, <2>2, OthersStay, KeptIs DEF Owns, Held, Delivery, At
  <2>4. Settles(w)
    BY <1>1, <1>2, <2>2, <2>3, DeliveryStays, KeptIs
  <2> QED
    BY <1>2, <2>2, <2>3, <2>4
<1>3. CASE \E o \in Orders : RequestMoves(o)
  <2>1. UNCHANGED <<worker, dlq>> /\ Ready(q) \subseteq Ready(q)'
    BY <1>3, RequestStores
  <2> QED
    BY <1>1, <2>1, KeptIs DEF Owns, Held, Delivery, At, DeadLetters
<1>4. CASE UNCHANGED vars
  BY <1>1, <1>4, KeptIs DEF vars, Owns, Held, Delivery, At, DeadLetters, Ready
<1> QED
  BY <1>2, <1>3, <1>4, StepBy

-----------------------------------------------------------------------------
(***************************************************************************)
(* What it means that a handler comes to its end.                          *)
(***************************************************************************)
\* The row of w's delivery after the step.
NewRow(w) == db'[Subject(w)]

\* The handlers that end by sending their result.
Sent(w) ==
  /\ At(w, "emit") /\ Role[w] \in Steps
  /\ \A q \in Targets(Result(w).key) : q \in Queues => Result(w) \in Ready(q)'

Refused(w) ==
  Role[w] = "restaurant" /\
  \/ At(w, "gate") /\ Failed(RowOf(w))
  \/ At(w, "act") /\ ~ConfirmAccepted(RowOf(w))

Decided(w) ==
  Role[w] = "coordinator" /\
  \/ /\ At(w, "decide") /\ Delivery(w).key # "workflow.failed"
     /\ ~ReadyNeedsPublishing(RowOf(w))
  \/ /\ At(w, "decide") /\ Delivery(w).key = "workflow.failed"
     /\ ~FailureNeedsPublishing(RowOf(w), Delivery(w).step)
     /\ NewRow(w) = FailWorkflow(RowOf(w), Delivery(w).step)
  \/ /\ At(w, "mark") /\ Delivery(w).key # "workflow.failed"
     /\ NewRow(w) = MarkReadyPublished(RowOf(w))
  \/ /\ At(w, "mark") /\ Delivery(w).key = "workflow.failed"
     /\ NewRow(w) = MarkFailurePublished(RowOf(w))

Notified(w) ==
  /\ Role[w] = "notification"
  /\ Delivery(w).key = "order.confirmed" => NewRow(w) = CompleteOrder(RowOf(w))
  /\ Delivery(w).key = "order.created" =>
       NewRow(w) = AddEventOnce(RowOf(w), "notification.received")
  /\ Delivery(w).key = "order.failed" =>
       NewRow(w) = AddEventOnce(RowOf(w), "notification.failed_order")

\* A handler ends because it has sent its result, or has none to send.
LEMMA Settlements ==
  ASSUME Inv, Fits, NEW w \in Workers, WorkerMoves(w), Held(w), Settles(w)
  PROVE  Sent(w) \/ Refused(w) \/ Decided(w) \/ Notified(w)
<1>1. /\ TypeOK /\ Role[w] \in Queues /\ worker'[w].pc = "ack"
      /\ \A pc : Goto(w, pc) => pc = "ack"
      /\ ~Release(w) /\ ~At(w, "ack") /\ ~At(w, "except")
      /\ Subject(w) \in Orders
      /\ worker[w].pc \in HandlerOf[Role[w]] \cup {"deadletter"}
  BY HeldIs DEF Inv, Goto, TypeOK, BusyStates, Release, Idle, Settles, Fits, At
<1>2. \A row, next : Transaction(w, row, next) => next = "ack" /\ NewRow(w) = row
  BY <1>1 DEF Transaction, NewRow, TypeOK
<1>3. CASE Emit(w)
  <2>1. At(w, "emit") /\ queues' = Stored(queues, Targets(Result(w).key), Result(w))
        /\ Role[w] # "coordinator"
    BY <1>1, <1>3 DEF Emit, Result
  <2>2. Role[w] \in Steps
    BY <1>1, <2>1 DEF At, HandlerOf, Queues
  <2> QED
    BY <2>1, <2>2, StoredHas DEF Sent, Ready
<1>4. CASE GateOnFailure(w)
  <2>1. At(w, "gate") /\ Failed(RowOf(w))
    BY <1>2, <1>4 DEF GateOnFailure
  <2> QED
    BY <1>1, <2>1 DEF Refused, At, HandlerOf, Queues
<1>5. CASE ConfirmTicket(w)
  BY <1>2, <1>5 DEF ConfirmTicket, Refused
<1>6. CASE Join(w)
  <2>1. /\ At(w, "decide") /\ Delivery(w).key # "workflow.failed"
        /\ ~ReadyNeedsPublishing(RowOf(w))
    BY <1>2, <1>6 DEF Join
  <2> QED
    BY <1>1, <2>1 DEF Decided, At, HandlerOf, Queues
<1>7. CASE FailOrder(w)
  <2>1. /\ At(w, "decide") /\ Delivery(w).key = "workflow.failed"
        /\ ~FailureNeedsPublishing(RowOf(w), Delivery(w).step)
        /\ NewRow(w) = FailWorkflow(RowOf(w), Delivery(w).step)
    BY <1>2, <1>7 DEF FailOrder
  <2> QED
    BY <1>1, <2>1 DEF Decided, At, HandlerOf, Queues
<1>8. CASE MarkPublished(w)
  <2>1. At(w, "mark") /\ NewRow(w) = IF Delivery(w).key = "workflow.failed"
                                     THEN MarkFailurePublished(RowOf(w))
                                     ELSE MarkReadyPublished(RowOf(w))
    BY <1>2, <1>8 DEF MarkPublished
  <2> QED
    BY <1>1, <2>1 DEF Decided, At, HandlerOf, Queues
<1>9. CASE Notify(w)
  <2>1. Role[w] = "notification"
    BY <1>1, <1>9 DEF Notify, At, HandlerOf, Queues
  <2> QED
    BY <1>2, <1>9, <2>1 DEF Notify, Notified
<1>10. CASE MoveToProcessing(w) \/ CheckStepDone(w) \/ RecordSuccess(w)
  BY <1>2, <1>10 DEF MoveToProcessing, CheckStepDone, RecordSuccess
<1>11. CASE Disconnect(w)
  BY <1>1, <1>11, HeldIs DEF Disconnect, At, TypeOK, BusyStates
<1> QED
  BY <1>1, <1>3, <1>4, <1>5, <1>6, <1>7, <1>8, <1>9, <1>10, <1>11, HeldIs
  DEF WorkerMoves, WorkerStep, Deliver, Decline, Ack, Retry, Exhaust,
      RecordDeliveryFailure, DeadLetter, Exit, Crash

\* Before a critical worker dead-letters its delivery it reports the failure.
LEMMA Reports ==
  ASSUME Inv, NEW w \in Workers, WorkerMoves(w), Held(w), GivesUp(w), Role[w] # "notification"
  PROVE  FailureEvent(Subject(w), Role[w]) \in Ready("coordinator")' /\ UNCHANGED db
<1>1. /\ TypeOK /\ Role[w] \in Queues /\ worker'[w].pc = "deadletter"
      /\ \A pc : Goto(w, pc) => pc = "deadletter"
      /\ ~Release(w) /\ ~At(w, "deadletter")
  BY HeldIs DEF Inv, Goto, TypeOK, BusyStates, Release, Idle, GivesUp
<1>2. \A row, next : ~Transaction(w, row, next) \/ next = "deadletter"
  BY <1>1 DEF Transaction
<1>3. CASE Exhaust(w)
  <2> DEFINE failure == FailureEvent(Subject(w), Role[w])
  <2>1. /\ At(w, "except") /\ Role[w] \in Critical /\ UNCHANGED db
        /\ queues' = Stored(queues, Targets(failure.key), failure)
    BY <1>1, <1>3 DEF Exhaust
  <2> HIDE DEF failure
  <2> QED
    BY <1>1, <2>1, ExhaustStores DEF failure
<1>4. CASE RecordDeliveryFailure(w)
  BY <1>1, <1>4 DEF RecordDeliveryFailure, Critical
<1>5. CASE Disconnect(w)
  BY <1>1, <1>5, HeldIs DEF Disconnect, At, TypeOK, BusyStates
<1>6. CASE \/ MoveToProcessing(w) \/ GateOnFailure(w) \/ CheckStepDone(w)
           \/ RecordSuccess(w) \/ ConfirmTicket(w) \/ Join(w) \/ FailOrder(w)
           \/ MarkPublished(w) \/ Notify(w)
  BY <1>2, <1>6
  DEF MoveToProcessing, GateOnFailure, CheckStepDone, RecordSuccess, ConfirmTicket,
      Join, FailOrder, MarkPublished, Notify
<1> QED
  BY <1>1, <1>3, <1>4, <1>5, <1>6, HeldIs
  DEF WorkerMoves, WorkerStep, Deliver, Decline, Emit, Ack, Retry, DeadLetter, Exit, Crash

-----------------------------------------------------------------------------
(***************************************************************************)
(* Who set a flag, confirmed a ticket or failed an order.                  *)
(***************************************************************************)
Marking(o) ==
  \E w \in Workers :
    At(w, "mark") /\ Subject(w) = o /\ Delivery(w).key # "workflow.failed"

MarkingFailure(o) ==
  \E w \in Workers :
    At(w, "mark") /\ Subject(w) = o /\ Delivery(w).key = "workflow.failed"

\* A flag is only set by a coordinator that has just sent the message.
LEMMA FlagsSetBy ==
  ASSUME Inv, [Next]_vars, NEW o \in Orders
  PROVE  /\ db'[o].readyPublished => db[o].readyPublished \/ Marking(o)
         /\ db'[o].failurePublished => db[o].failurePublished \/ MarkingFailure(o)
<1>1. db[o] \in Row
  BY DEF Inv, TypeOK
<1>2. CASE db'[o] = db[o]
  BY <1>2
<1>3. CASE db'[o] = CreateOrder
  BY <1>3 DEF CreateOrder, NoRow
<1>4. CASE db'[o] = FailWorkflow(db[o], "api")
  BY <1>1, <1>4, FlagsKept DEF Flags
<1>5. ASSUME NEW w \in Workers, Subject(w) = o, Writes(w, db[o], db'[o])
      PROVE  /\ db'[o].readyPublished => db[o].readyPublished \/ Marking(o)
             /\ db'[o].failurePublished => db[o].failurePublished \/ MarkingFailure(o)
  <2>1. CASE MarkPublished(w)
    <3>1. At(w, "mark")
      BY <2>1 DEF MarkPublished
    <3>2. db'[o] = IF Delivery(w).key = "workflow.failed"
                   THEN MarkFailurePublished(db[o]) ELSE MarkReadyPublished(db[o])
      BY <1>5, <2>1, <3>1
      DEF Writes, At, MoveToProcessing, RecordSuccess, ConfirmTicket, Join, FailOrder,
          Notify, RecordDeliveryFailure
    <3> QED
      BY <1>1, <1>5, <3>1, <3>2, FlagsKept DEF Marking, MarkingFailure
  <2>2. CASE ~MarkPublished(w)
    BY <1>1, <1>5, <2>2, FlagsKept DEF Writes, Flags, RecordSuccess
  <2> QED
    BY <2>1, <2>2
<1> QED
  BY <1>2, <1>3, <1>4, <1>5, WhoWrites DEF WrittenBy

\* What each transaction adds to done and to failed_step.
LEMMA DoneAndFailed ==
  ASSUME NEW r, RowOK(r)
  PROVE  /\ LET n == EnsureProcessing(r)
            IN  n.done = r.done /\ n.failedStep = r.failedStep
         /\ \A s \in Prerequisites :
              LET n == RecordStepSuccess(r, s)
              IN  n.done \subseteq r.done \cup {s} /\ n.failedStep = r.failedStep
         /\ LET n == PrepareOrderReady(r)
            IN  n.done = r.done /\ n.failedStep = r.failedStep
         /\ LET n == RecordRestaurantConfirmation(r)
            IN  n.done \subseteq r.done \cup {"restaurant"} /\ n.failedStep = r.failedStep
         /\ LET n == CompleteOrder(r)
            IN  n.done = r.done /\ n.failedStep = r.failedStep
         /\ \A step \in FailedSteps : FailWorkflow(r, step).done = r.done
         /\ \A n \in {MarkReadyPublished(r), MarkFailurePublished(r)} :
              n.done = r.done /\ n.failedStep = r.failedStep
         /\ \A key \in Notices :
              LET n == AddEventOnce(r, key)
              IN  n.done = r.done /\ n.failedStep = r.failedStep
<1>1. r \in Row
  BY DEF RowOK
<1>2. /\ EnsureProcessing(r).done = r.done
      /\ EnsureProcessing(r).failedStep = r.failedStep
  BY <1>1, EnsureProcessingEffect DEF EnsureProcessing
<1>3. ASSUME NEW s \in Prerequisites
      PROVE  /\ RecordStepSuccess(r, s).done \subseteq r.done \cup {s}
             /\ RecordStepSuccess(r, s).failedStep = r.failedStep
  <2>1. CASE r.exists /\ s \notin r.done
    BY <1>1, <2>1, RecordStepSuccessEffect
  <2>2. CASE ~(r.exists /\ s \notin r.done)
    BY <2>2 DEF RecordStepSuccess
  <2> QED
    BY <2>1, <2>2
<1>4. /\ PrepareOrderReady(r).done = r.done
      /\ PrepareOrderReady(r).failedStep = r.failedStep
  BY <1>1, PrepareOrderReadyEffect DEF PrepareOrderReady
<1>5. /\ RecordRestaurantConfirmation(r).done \subseteq r.done \cup {"restaurant"}
      /\ RecordRestaurantConfirmation(r).failedStep = r.failedStep
  BY <1>1, ConfirmationEffect DEF RecordRestaurantConfirmation
<1>6. /\ CompleteOrder(r).done = r.done
      /\ CompleteOrder(r).failedStep = r.failedStep
  BY <1>1, CompleteOrderEffect DEF CompleteOrder
<1>7. \A step \in FailedSteps : FailWorkflow(r, step).done = r.done
  <2> SUFFICES ASSUME NEW step \in FailedSteps
               PROVE  FailWorkflow(r, step).done = r.done
    OBVIOUS
  <2>1. CASE FailAccepted(r, step)
    BY <1>1, <2>1, FailWorkflowEffect
  <2>2. CASE ~FailAccepted(r, step)
    BY <2>2 DEF FailWorkflow
  <2> QED
    BY <2>1, <2>2
<1>8. \A n \in {MarkReadyPublished(r), MarkFailurePublished(r)} :
        n.done = r.done /\ n.failedStep = r.failedStep
  <2>1. CASE r.exists
    BY <1>1, <2>1, MarkEffect
  <2>2. CASE ~r.exists
    BY <2>2 DEF MarkReadyPublished, MarkFailurePublished
  <2> QED
    BY <2>1, <2>2
<1>9. \A key \in Notices : /\ AddEventOnce(r, key).done = r.done
                           /\ AddEventOnce(r, key).failedStep = r.failedStep
  BY <1>1, AddEventOnceEffect
<1> QED
  BY <1>2, <1>3, <1>4, <1>5, <1>6, <1>7, <1>8, <1>9

\* Only the restaurant confirms a ticket.
LEMMA ConfirmedBy ==
  ASSUME Inv, [Next]_vars, NEW o \in Orders,
         "restaurant" \in db'[o].done, "restaurant" \notin db[o].done
  PROVE  \E w \in Workers :
           ConfirmTicket(w) /\ WorkerMoves(w) /\ Held(w) /\ Subject(w) = o
<1>1. RowOK(db[o])
  BY DEF Inv
<1>2. db'[o] # CreateOrder
  BY DEF CreateOrder, NoRow
<1>3. db'[o] # FailWorkflow(db[o], "api")
  BY <1>1, DoneAndFailed
<1>4. PICK w \in Workers : /\ WorkerMoves(w) /\ Held(w) /\ Subject(w) = o
                           /\ Writes(w, db[o], db'[o])
  BY <1>2, <1>3, WhoWrites DEF WrittenBy
<1>5. ConfirmTicket(w)
  BY <1>1, <1>4, DoneAndFailed DEF Writes, RecordSuccess
<1> QED
  BY <1>4, <1>5

\* Only its own workers record a step.
LEMMA StepDoneBy ==
  ASSUME Inv, [Next]_vars, NEW o \in Orders, NEW s \in Prerequisites,
         s \in db'[o].done, s \notin db[o].done
  PROVE  \E w \in Workers : Held(w) /\ Role[w] = s /\ Subject(w) = o
<1>1. RowOK(db[o])
  BY DEF Inv
<1>2. db'[o] # CreateOrder
  BY DEF CreateOrder, NoRow
<1>3. db'[o] # FailWorkflow(db[o], "api")
  BY <1>1, DoneAndFailed
<1>4. PICK w \in Workers : /\ WorkerMoves(w) /\ Held(w) /\ Subject(w) = o
                           /\ Writes(w, db[o], db'[o])
  BY <1>2, <1>3, WhoWrites DEF WrittenBy
<1>5. RecordSuccess(w) /\ Role[w] \in Prerequisites
      /\ db'[o] = RecordStepSuccess(db[o], Role[w])
  BY <1>1, <1>4, DoneAndFailed DEF Writes, RecordSuccess
<1>6. Role[w] = s
  BY <1>1, <1>5, DoneAndFailed
<1> QED
  BY <1>4, <1>6

\* Only a coordinator, or a request that could not publish, fails an order.
LEMMA FailedBy ==
  ASSUME Inv, [Next]_vars, NEW o \in Orders, Failed(db'[o]), ~Failed(db[o])
  PROVE  \/ ApiFail(o)
         \/ \E w \in Workers :
              /\ FailOrder(w) /\ WorkerMoves(w) /\ Held(w) /\ Subject(w) = o
              /\ Delivery(w).step \in FailedSteps
              /\ db'[o] = FailWorkflow(db[o], Delivery(w).step)
<1>1. RowOK(db[o])
  BY DEF Inv
<1>2. db'[o] # CreateOrder
  BY DEF CreateOrder, NoRow
<1>3. CASE ~ApiFail(o)
  <2>1. PICK w \in Workers : /\ WorkerMoves(w) /\ Held(w) /\ Subject(w) = o
                             /\ Writes(w, db[o], db'[o])
    BY <1>2, <1>3, WhoWrites DEF WrittenBy
  <2>2. /\ FailOrder(w) /\ Delivery(w).step \in FailedSteps
        /\ db'[o] = FailWorkflow(db[o], Delivery(w).step)
    BY <1>1, <2>1, DoneAndFailed DEF Writes, RecordSuccess
  <2> QED
    BY <2>1, <2>2
<1> QED
  BY <1>3

-----------------------------------------------------------------------------
(***************************************************************************)
(* Past the join: the ticket, the receipt, the end.                        *)
(***************************************************************************)
OnTheWay(q, o, key) == \E m \in Kept(q) : m.order = o /\ m.key = key

\* An order whose order.ready is out is over, or its ticket is on the way, or it is
\* confirmed and the receipt is.
Beyond(o) ==
  \/ Terminal(o)
  \/ OnTheWay("restaurant", o, "order.ready")
  \/ "restaurant" \in db[o].done /\ OnTheWay("notification", o, "order.confirmed")

ReadySafe(o) ==
  db[o].readyPublished \/ Marking(o) => Beyond(o) /\ Prerequisites \subseteq db[o].done

\* The restaurant's check still holds when it confirms.
CheckHolds(o) ==
  \A w \in Workers :
    (Held(w) /\ Role[w] = "restaurant" /\ At(w, "act") /\ Subject(w) = o)
      => "restaurant" \notin db[o].done

\* A decided order stays decided.
LEMMA TerminalStays ==
  ASSUME Inv, [Next]_vars, NEW o \in Orders, Terminal(o)
  PROVE  Terminal(o)'
<1>1. /\ db[o] \in Row /\ db'[o] \in Row
      /\ Rank[db[o].status] <= Rank[db'[o].status]
  BY RowsGrow DEF RowOK, RowAdvance
<1> QED
  BY <1>1 DEF Terminal, Rank, Row

\* What is on the way stays so until a worker of that queue settles it.
LEMMA OnTheWayStays ==
  ASSUME Inv, [Next]_vars, NEW o \in Orders, NEW q \in Queues, NEW key, OnTheWay(q, o, key)
  PROVE  \/ OnTheWay(q, o, key)'
         \/ \E w \in Workers :
              /\ WorkerMoves(w) /\ Owns(w) /\ Role[w] = q /\ Settles(w)
              /\ Subject(w) = o /\ Delivery(w).key = key
<1>1. PICK m \in Kept(q) : m.order = o /\ m.key = key
  BY DEF OnTheWay
<1>2. CASE \E n \in Kept(q)' : Alike(n, m)
  BY <1>1, <1>2 DEF Alike, OnTheWay
<1>3. CASE \E w \in Workers : /\ WorkerMoves(w) /\ Owns(w) /\ Role[w] = q /\ Delivery(w) = m
                              /\ Settles(w)
  BY <1>1, <1>3 DEF Subject
<1> QED
  BY <1>2, <1>3, KeptStays

\* What a handler sent before it acknowledges is with its next consumer.
LEMMA SentIsOnTheWay ==
  ASSUME NEW w \in Workers, Sent(w), NEW o, Subject(w) = o
  PROVE  /\ Role[w] = "restaurant" => OnTheWay("notification", o, "order.confirmed")'
         /\ Role[w] \in Prerequisites =>
              \E m \in Live("coordinator")' :
                /\ m.order = o
                /\ m.key \in {"payment.succeeded", "inventory.reserved"}
<1>1. \A m : /\ m \in Ready("notification")' => m \in Kept("notification")'
             /\ m \in Ready("coordinator")' => m \in Live("coordinator")'
  BY KeptIs, LiveIs DEF Queues
<1>2. Result(w).order = o
  BY DEF Result, Event
<1>3. CASE Role[w] = "restaurant"
  <2>1. Result(w).key = "order.confirmed"
    BY <1>3 DEF Result, ResultKey, Event
  <2>2. Result(w) \in Ready("notification")'
    BY <2>1, Routes DEF Sent, Queues
  <2> QED
    BY <1>1, <1>2, <1>3, <2>1, <2>2 DEF OnTheWay
<1>4. CASE Role[w] \in Prerequisites
  <2>1. Result(w).key \in {"payment.succeeded", "inventory.reserved"}
    BY <1>4 DEF Result, ResultKey, Event
  <2>2. Result(w) \in Ready("coordinator")'
    BY <2>1, Routes DEF Sent, Queues
  <2> QED
    BY <1>1, <1>2, <1>4, <2>1, <2>2
<1> QED
  BY <1>3, <1>4

\* A joined order stays with the restaurant or the notification worker.
LEMMA BeyondStays ==
  ASSUME Inv, Fits, [Next]_vars, NEW o \in Orders, Borne(o), CheckHolds(o),
         Prerequisites \subseteq db[o].done, Beyond(o)
  PROVE  Beyond(o)'
<1>1. /\ RowOK(db[o]) /\ RowOK(db'[o]) /\ db[o] \in Row
      /\ RowGrows(db[o], db'[o])
      /\ db[o].exists
      /\ Failed(db[o]) => Terminal(o)
  <2>1. RowOK(db[o]) /\ RowOK(db'[o]) /\ RowGrows(db[o], db'[o])
    BY RowsGrow
  <2> QED
    BY <2>1 DEF RowOK, NoRow, Terminal
<1>2. CASE Terminal(o)
  BY <1>2, TerminalStays DEF Beyond
<1>3. CASE ~Terminal(o) /\ OnTheWay("restaurant", o, "order.ready")
  <2>1. CASE OnTheWay("restaurant", o, "order.ready")'
    BY <2>1 DEF Beyond
  <2>2. ASSUME NEW w \in Workers, WorkerMoves(w), Owns(w), Role[w] = "restaurant",
               Settles(w), Subject(w) = o
        PROVE  Beyond(o)'
    <3>1. Held(w) /\ RowOf(w) = db[o]
      BY <2>2 DEF Owns, RowOf
    <3>2. CASE Sent(w)
      <4>1. At(w, "emit") /\ Bears(db[o], Result(w)) /\ Result(w).key = "order.confirmed"
        BY <2>2, <3>1, <3>2 DEF Borne, Sent, At, Result, ResultKey, Event
      <4>2. "restaurant" \in db'[o].done
        BY <1>1, <4>1 DEF Bears, RowGrows
      <4> QED
        BY <2>2, <3>2, <4>2, SentIsOnTheWay DEF Beyond
    <3>3. CASE Refused(w)
      <4>1. CASE Failed(db[o])
        BY <1>1, <1>3, <4>1
      <4>2. CASE ~Failed(db[o])
        BY <1>1, <2>2, <3>1, <3>3, <4>2 DEF Refused, ConfirmAccepted, CheckHolds
      <4> QED
        BY <4>1, <4>2
    <3> QED
      BY <2>2, <3>1, <3>2, <3>3, Settlements DEF Decided, Notified
  <2> QED
    BY <1>3, <2>1, <2>2, OnTheWayStays DEF Queues
<1>4. CASE /\ ~Terminal(o) /\ "restaurant" \in db[o].done
           /\ OnTheWay("notification", o, "order.confirmed")
  <2>1. "restaurant" \in db'[o].done
    BY <1>1, <1>4 DEF RowGrows
  <2>2. CASE OnTheWay("notification", o, "order.confirmed")'
    BY <2>1, <2>2 DEF Beyond
  <2>3. ASSUME NEW w \in Workers, WorkerMoves(w), Owns(w), Role[w] = "notification",
               Settles(w), Subject(w) = o, Delivery(w).key = "order.confirmed"
        PROVE  Terminal(o)'
    <3>1. Held(w) /\ RowOf(w) = db[o]
      BY <2>3 DEF Owns, RowOf
    <3>2. db'[o] = CompleteOrder(db[o])
      BY <2>3, <3>1, Settlements DEF Sent, Refused, Decided, Notified, NewRow
    <3>3. ~Failed(db[o]) /\ "notification.success" \notin db[o].events
      BY <1>1, <1>4 DEF RowOK, Terminal, Row
    <3>4. CompleteAccepted(db[o])
      BY <1>1, <1>4, <3>3 DEF CompleteAccepted
    <3>5. db[o].status # "FAILED"
      BY <1>4 DEF Terminal
    <3> QED
      BY <1>1, <3>2, <3>4, <3>5, CompleteOrderEffect DEF Terminal
  <2> QED
    BY <1>4, <2>2, <2>3, OnTheWayStays DEF Beyond, Queues
<1> QED
  BY <1>2, <1>3, <1>4 DEF Beyond

\* A coordinator comes to its mark by having sent the message.
LEMMA MarksWhatIsSent ==
  ASSUME Inv, [Next]_vars, NEW w \in Workers, worker'[w].pc = "mark"
  PROVE  /\ worker'[w].msg = worker[w].msg /\ Held(w)
         /\ \/ At(w, "mark")
            \/ /\ At(w, "emit") /\ Role[w] = "coordinator" /\ UNCHANGED db
               /\ \A q \in Queues : q \in Targets(Result(w).key) => Result(w) \in Ready(q)'
<1>1. TypeOK /\ Role[w] \in Queues
  BY HeldIs DEF Inv
<1>2. CASE worker'[w] = worker[w]
  BY <1>1, <1>2, HeldIs DEF At
<1>3. CASE WorkerMoves(w)
  <2>1. Held(w)
    <3>1. ~Took(w)
      BY <1>1 DEF Took, Entry, Queues, TypeOK
    <3> QED
      BY <1>3, <3>1, WorkerEffects DEF WorkerMoves
  <2>2. /\ \A pc : Goto(w, pc) => pc = "mark" /\ worker'[w].msg = worker[w].msg
        /\ ~Release(w)
    BY <1>1, <2>1, HeldIs DEF Goto, Release, Idle, TypeOK, BusyStates
  <2>3. \A row, next : Transaction(w, row, next) => next = "mark"
    BY <2>2 DEF Transaction
  <2>4. CASE Emit(w)
    <3>1. /\ At(w, "emit") /\ Role[w] = "coordinator" /\ UNCHANGED db
          /\ queues' = Stored(queues, Targets(Result(w).key), Result(w))
          /\ worker'[w].msg = worker[w].msg
      BY <2>2, <2>4 DEF Emit, Result
    <3> QED
      BY <2>1, <3>1, StoredHas DEF Ready
  <2>5. CASE Disconnect(w)
    BY <1>1, <2>1, <2>5, HeldIs DEF Disconnect, At, TypeOK, BusyStates
  <2> QED
    BY <1>1, <1>3, <2>1, <2>2, <2>3, <2>4, <2>5, HeldIs
    DEF WorkerMoves, WorkerStep, Deliver, MoveToProcessing, CheckStepDone, Decline,
        RecordSuccess, GateOnFailure, ConfirmTicket, Join, FailOrder, MarkPublished,
        Notify, Ack, Retry, Exhaust, RecordDeliveryFailure, DeadLetter, Exit, Crash
<1> QED
  BY <1>2, <1>3, StepBy, OthersStay, RequestStores DEF vars

\* The coordinator marks an order as ready only after it has published order.ready.
LEMMA ReadySafeNext ==
  ASSUME Inv, Fits, [Next]_vars, NEW o \in Orders, Borne(o), CheckHolds(o), ReadySafe(o)
  PROVE  ReadySafe(o)'
<1>1. RowGrows(db[o], db'[o])
  BY RowsGrow
<1>2. CASE db[o].readyPublished \/ Marking(o)
  BY <1>1, <1>2, BeyondStays DEF ReadySafe, RowGrows
<1>3. CASE ~(db[o].readyPublished \/ Marking(o)) /\ Marking(o)'
  <2>1. PICK w \in Workers : /\ worker'[w].pc = "mark" /\ worker'[w].msg.order = o
                             /\ worker'[w].msg.key # "workflow.failed"
    BY <1>3 DEF Marking, At, Subject, Delivery
  <2>2. /\ worker'[w].msg = worker[w].msg /\ Held(w) /\ At(w, "emit")
        /\ Role[w] = "coordinator" /\ UNCHANGED db
        /\ \A q \in Queues : q \in Targets(Result(w).key) => Result(w) \in Ready(q)'
    BY <1>3, <2>1, MarksWhatIsSent DEF Marking, At, Subject, Delivery
  <2>3. Subject(w) = o /\ Delivery(w).key # "workflow.failed"
    BY <2>1, <2>2 DEF Subject, Delivery
  <2>4. Result(w).key = "order.ready" /\ Result(w).order = o
    BY <2>2, <2>3 DEF Result, ResultKey, Event
  <2>5. Result(w) \in Kept("restaurant")'
    BY <2>2, <2>4, Routes, KeptIs DEF Queues
  <2>6. Prerequisites \subseteq db'[o].done
    BY <2>2, <2>3, <2>4 DEF Borne, Bears, At
  <2> QED
    BY <2>4, <2>5, <2>6 DEF ReadySafe, Beyond, OnTheWay
<1>4. CASE ~(db[o].readyPublished \/ Marking(o)) /\ ~Marking(o)'
  BY <1>4, FlagsSetBy DEF ReadySafe
<1> QED
  BY <1>2, <1>3, <1>4

\* A handler comes to its act with its step not done.
LEMMA ActsOnce ==
  ASSUME Inv, [Next]_vars, NEW w \in Workers, worker'[w].pc = "act"
  PROVE  /\ worker'[w].msg = worker[w].msg /\ Held(w)
         /\ \/ At(w, "act")
            \/ Role[w] \notin RowOf(w).done /\ UNCHANGED db
<1>1. TypeOK /\ Role[w] \in Queues
  BY HeldIs DEF Inv
<1>2. CASE worker'[w] = worker[w]
  BY <1>1, <1>2, HeldIs DEF At
<1>3. CASE WorkerMoves(w)
  <2>1. Held(w)
    <3>1. ~Took(w)
      BY <1>1 DEF Took, Entry, Queues, TypeOK
    <3> QED
      BY <1>3, <3>1, WorkerEffects DEF WorkerMoves
  <2>2. /\ \A pc : Goto(w, pc) => pc = "act" /\ worker'[w].msg = worker[w].msg
        /\ ~Release(w) /\ Subject(w) \in Orders
    BY <1>1, <2>1, HeldIs DEF Goto, Release, Idle, TypeOK, BusyStates
  <2>3. \A row, next : Transaction(w, row, next) =>
          /\ next = "act" /\ worker'[w].msg = worker[w].msg
          /\ db' = [db EXCEPT ![Subject(w)] = row]
    BY <2>2 DEF Transaction
  <2>4. CASE CheckStepDone(w)
    <3>1. /\ Role[w] \notin RowOf(w).done /\ worker'[w].msg = worker[w].msg
          /\ db' = [db EXCEPT ![Subject(w)] = RowOf(w)]
      BY <2>3, <2>4 DEF CheckStepDone
    <3>2. db' = db
      BY <1>1, <2>2, <3>1 DEF RowOf, TypeOK
    <3> QED
      BY <2>1, <3>1, <3>2
  <2>5. CASE Disconnect(w)
    BY <1>1, <2>1, <2>5, HeldIs DEF Disconnect, At, TypeOK, BusyStates
  <2> QED
    BY <1>1, <1>3, <2>1, <2>2, <2>3, <2>4, <2>5, HeldIs
    DEF WorkerMoves, WorkerStep, Deliver, MoveToProcessing, Decline, Emit,
        RecordSuccess, GateOnFailure, ConfirmTicket, Join, FailOrder, MarkPublished,
        Notify, Ack, Retry, Exhaust, RecordDeliveryFailure, DeadLetter, Exit, Crash
<1> QED
  BY <1>2, <1>3, StepBy, OthersStay, RequestStores DEF vars

\* One restaurant worker alone can rely on its check of the step until it confirms.
LEMMA CheckHoldsNext ==
  ASSUME Inv, OneOf("restaurant"), [Next]_vars, NEW o \in Orders, CheckHolds(o)
  PROVE  CheckHolds(o)'
<1> SUFFICES ASSUME NEW w \in Workers, Role[w] = "restaurant", worker'[w].pc = "act",
                    worker'[w].msg.order = o, "restaurant" \in db'[o].done
             PROVE  FALSE
  BY DEF CheckHolds, At, Subject, Delivery
<1>1. /\ Held(w) /\ Subject(w) = o
      /\ At(w, "act") \/ (Role[w] \notin RowOf(w).done /\ UNCHANGED db)
  BY ActsOnce DEF Subject, Delivery
<1>2. "restaurant" \notin db[o].done
  BY <1>1 DEF CheckHolds, RowOf
<1>3. PICK v \in Workers : ConfirmTicket(v) /\ Held(v)
  BY <1>2, ConfirmedBy
<1>4. v = w
  BY <1>3 DEF OneOf, ConfirmTicket
<1>5. \A pc : Goto(w, pc) => pc = "act"
  BY <1>1, HeldIs DEF Goto, Inv, TypeOK, BusyStates
<1> QED
  BY <1>3, <1>4, <1>5 DEF ConfirmTicket, Transaction

-----------------------------------------------------------------------------
(***************************************************************************)
(* Before the join: the two steps, and the message that makes the join     *)
(* happen.                                                                 *)
(***************************************************************************)
Expected(q, o, keys) == \E m \in Live(q) : m.order = o /\ m.key \in keys

Created == {"order.created"}

Successes == {"payment.succeeded", "inventory.reserved"}

\* A failure is on its way that no success can overtake but the join's.
Stopping(o) ==
  \E m \in Live("coordinator") :
    /\ m.order = o /\ m.key = "workflow.failed" /\ m.step # "restaurant"
    /\ FailAccepted(db[o], m.step)

\* Each step that is not done has its order.created; when both are done one of their
\* results, or the copy of order.created that will repeat it, is still to come.
Joining(o) ==
  /\ \A s \in Prerequisites : s \in db[o].done \/ Expected(s, o, Created)
  /\ Prerequisites \subseteq db[o].done =>
       \/ Expected("coordinator", o, Successes)
       \/ \E s \in Prerequisites : Expected(s, o, Created)

\* The steps no longer matter: the order has failed, is about to, or is joined.
Superseded(o) == Failed(db[o]) \/ db[o].readyPublished \/ Stopping(o)

Driven(o) == Superseded(o) \/ Joining(o)

\* Every message is in a queue that it is routed to.
Routed ==
  /\ \A q \in Queues : \A m \in Ready(q) : q \in Targets(m.key)
  /\ \A w \in Workers : Held(w) => Role[w] \in Targets(Delivery(w).key)

\* Whoever works on a step, with or without a channel, is not the last one to: the
\* step is done, or its order.created is still alive, or it no longer matters.
StepBacked(o, s) ==
  s \in db[o].done \/ Expected(s, o, Created) \/ Superseded(o)

Backed(o) ==
  \A w \in Workers :
    (Held(w) /\ Role[w] \in Prerequisites /\ Subject(w) = o) => StepBacked(o, Role[w])

\* An order that a message names is there.
LEMMA MessagesExist ==
  ASSUME NEW o \in Orders, Borne(o), NEW q \in Queues, NEW m \in Live(q), m.order = o
  PROVE  db[o].exists
<1>1. m \in Messages
  BY LiveIs, MessagesAre DEF Pursues
<1> QED
  BY <1>1 DEF Borne, Bears

\* A worker that gives up a delivery of a critical role stops the order, unless it
\* is past the join.
LEMMA GivingUpStops ==
  ASSUME Inv, NEW w \in Workers, WorkerMoves(w), Held(w), GivesUp(w),
         NEW o \in Orders, Subject(w) = o, db[o].exists,
         Role[w] \in Prerequisites \cup {"coordinator"}
  PROVE  db[o].readyPublished \/ Stopping(o)'
<1>1. FailureEvent(o, Role[w]) \in Ready("coordinator")' /\ UNCHANGED db
  BY Reports
<1>2. FailureEvent(o, Role[w]) \in Live("coordinator")'
  BY <1>1, LiveIs DEF Queues
<1>3. ASSUME ~db[o].readyPublished
      PROVE  FailAccepted(db'[o], Role[w])
  BY <1>1, <1>3 DEF FailAccepted
<1> QED
  BY <1>2, <1>3 DEF Stopping, FailureEvent

\* The order.created of a step is retried until the step is done, or stops the order.
LEMMA CreatedStays ==
  ASSUME Inv, Fits, [Next]_vars, NEW o \in Orders, Borne(o), NEW s \in Prerequisites,
         Expected(s, o, Created)
  PROVE  \/ db[o].readyPublished \/ Stopping(o)' \/ Expected(s, o, Created)'
         \/ s \in db[o].done /\ Expected("coordinator", o, Successes)'
<1>1. PICK m \in Live(s) : m.order = o /\ m.key = "order.created"
  BY DEF Expected, Created
<1>2. s \in Queues /\ db[o].exists
  BY <1>1, MessagesExist DEF Queues
<1>3. CASE \E n \in Live(s)' : Alike(n, m)
  BY <1>1, <1>3 DEF Alike, Expected, Created
<1>4. ASSUME NEW w \in Workers, WorkerMoves(w), Pursues(w), Role[w] = s, Delivery(w) = m,
             Settles(w) \/ GivesUp(w)
      PROVE  \/ db[o].readyPublished \/ Stopping(o)'
             \/ s \in db[o].done /\ Expected("coordinator", o, Successes)'
  <2>1. Held(w) /\ Subject(w) = o
    BY <1>1, <1>4 DEF Pursues, Subject
  <2>2. CASE GivesUp(w)
    BY <1>2, <1>4, <2>1, <2>2, GivingUpStops
  <2>3. CASE Settles(w)
    <3>1. Sent(w)
      BY <1>4, <2>1, <2>3, Settlements DEF Refused, Decided, Notified
    <3>2. Expected("coordinator", o, Successes)'
      BY <1>4, <2>1, <3>1, SentIsOnTheWay DEF Expected, Successes
    <3>3. Bears(db[o], Result(w)) /\ Result(w).key = ResultKey(s, m)
      BY <1>4, <2>1, <3>1 DEF Sent, At, Borne, Result, Event
    <3>4. s \in db[o].done
      BY <3>3 DEF Bears, ResultKey
    <3> QED
      BY <3>2, <3>4
  <2> QED
    BY <1>4, <2>2, <2>3
<1> QED
  BY <1>2, <1>3, <1>4, LiveStays

\* A success of the last missing step is retried until it makes the order ready.
LEMMA SuccessStays ==
  ASSUME Inv, Fits, [Next]_vars, NEW o \in Orders, Borne(o), ~Failed(db[o]),
         Prerequisites \subseteq db[o].done, ~db[o].readyPublished,
         Expected("coordinator", o, Successes)
  PROVE  \/ db'[o].readyPublished \/ Stopping(o)'
         \/ Expected("coordinator", o, Successes)'
<1>1. PICK m \in Live("coordinator") : m.order = o /\ m.key \in Successes
  BY DEF Expected
<1>2. /\ "coordinator" \in Queues /\ db[o].exists /\ m.key # "workflow.failed"
      /\ ReadyNeedsPublishing(db[o])
  <2>1. "coordinator" \in Queues /\ db[o].exists /\ m.key # "workflow.failed"
    BY <1>1, MessagesExist DEF Queues, Successes
  <2> QED
    BY <2>1 DEF ReadyNeedsPublishing, Joined
<1>3. CASE \E n \in Live("coordinator")' : Alike(n, m)
  BY <1>1, <1>3 DEF Alike, Expected
<1>4. ASSUME NEW w \in Workers, WorkerMoves(w), Pursues(w), Role[w] = "coordinator",
             Delivery(w) = m, Settles(w) \/ GivesUp(w)
      PROVE  db'[o].readyPublished \/ Stopping(o)'
  <2>1. Held(w) /\ Subject(w) = o /\ RowOf(w) = db[o]
    BY <1>1, <1>4 DEF Pursues, Subject, RowOf
  <2>2. CASE GivesUp(w)
    BY <1>2, <1>4, <2>1, <2>2, GivingUpStops
  <2>3. CASE Settles(w)
    <3>1. db'[o] = MarkReadyPublished(db[o])
      BY <1>2, <1>4, <2>1, <2>3, Settlements DEF Sent, Refused, Decided, Notified, NewRow
    <3> QED
      BY <1>2, <3>1 DEF MarkReadyPublished, Inv, TypeOK, Row
  <2> QED
    BY <1>4, <2>2, <2>3
<1> QED
  BY <1>2, <1>3, <1>4, LiveStays

\* A workflow.failed that will be accepted is retried until it is.
LEMMA StoppingStays ==
  ASSUME Inv, Fits, [Next]_vars, NEW o \in Orders, Borne(o), ~Failed(db[o]), Stopping(o)
  PROVE  Failed(db[o])' \/ db'[o].readyPublished \/ Stopping(o)'
<1>1. PICK m \in Live("coordinator") :
        /\ m.order = o /\ m.key = "workflow.failed" /\ m.step # "restaurant"
        /\ FailAccepted(db[o], m.step)
  BY DEF Stopping
<1>2. /\ "coordinator" \in Queues /\ db[o].exists /\ RowGrows(db[o], db'[o])
      /\ db[o] \in Row /\ ~Failed(db[o]) /\ RowOK(db'[o])
  BY <1>1, RowsGrow DEF Queues, FailAccepted, RowOK
<1>3. CASE \E n \in Live("coordinator")' : Alike(n, m)
  <2>1. PICK n \in Live("coordinator")' : Alike(n, m)
    BY <1>3
  <2>2. CASE ~db'[o].readyPublished
    <3>1. FailAccepted(db'[o], m.step)
      BY <1>1, <1>2, <2>2 DEF FailAccepted, RowGrows
    <3> QED
      BY <1>1, <2>1, <3>1 DEF Alike, Stopping
  <2> QED
    BY <2>2
<1>4. ASSUME NEW w \in Workers, WorkerMoves(w), Pursues(w), Role[w] = "coordinator",
             Delivery(w) = m, Settles(w) \/ GivesUp(w)
      PROVE  Failed(db'[o]) \/ db'[o].readyPublished \/ Stopping(o)'
  <2>1. Held(w) /\ Subject(w) = o /\ RowOf(w) = db[o]
    BY <1>1, <1>4 DEF Pursues, Subject, RowOf
  <2>2. CASE GivesUp(w)
    BY <1>2, <1>4, <2>1, <2>2, GivingUpStops DEF RowGrows
  <2>3. CASE Settles(w)
    <3>1. ~At(w, "mark")
      <4>1. Result(w).key = "order.failed"
        BY <1>1, <1>4 DEF Result, ResultKey, Event
      <4> QED
        BY <1>2, <2>1, <4>1 DEF Borne, Bears, At
    <3>2. /\ ~FailureNeedsPublishing(db[o], m.step)
          /\ db'[o] = FailWorkflow(db[o], m.step)
      BY <1>1, <1>4, <2>1, <2>3, <3>1, Settlements
      DEF Sent, Refused, Decided, Notified, NewRow
    <3>3. m.step \in FailedSteps
      BY <1>1, <1>4, <2>1, HeldIs DEF Inv, Message
    <3> QED
      BY <1>1, <1>2, <3>2, <3>3, FailWorkflowEffect
  <2> QED
    BY <1>4, <2>2, <2>3
<1> QED
  BY <1>2, <1>3, <1>4, LiveStays

\* The steps of an order never come to matter again.
LEMMA SupersededNext ==
  ASSUME Inv, Fits, [Next]_vars, NEW o \in Orders, Borne(o), Superseded(o)
  PROVE  Superseded(o)'
<1>1. RowGrows(db[o], db'[o])
  BY RowsGrow
<1>2. CASE Failed(db[o]) \/ db[o].readyPublished
  BY <1>1, <1>2 DEF RowGrows, Superseded
<1>3. CASE ~Failed(db[o]) /\ Stopping(o)
  BY <1>3, StoppingStays DEF Superseded
<1> QED
  BY <1>2, <1>3 DEF Superseded

\* An order that a message drives is decided, ready, or driven after the next step.
LEMMA DrivenNext ==
  ASSUME Inv, Fits, [Next]_vars, NEW o \in Orders, Borne(o), Driven(o)
  PROVE  Driven(o)'
<1>1. RowGrows(db[o], db'[o])
  BY RowsGrow
<1>2. CASE Superseded(o)
  BY <1>2, SupersededNext DEF Driven
<1>3. CASE ~Superseded(o) /\ Joining(o)
  <2> SUFFICES ASSUME ~Superseded(o)'
               PROVE  Joining(o)'
    BY DEF Driven
  <2>1. \A s \in Prerequisites : Expected(s, o, Created) =>
          \/ Expected(s, o, Created)'
          \/ s \in db[o].done /\ Expected("coordinator", o, Successes)'
    BY <1>3, CreatedStays DEF Superseded
  <2>2. \A s \in Prerequisites : s \in db'[o].done \/ Expected(s, o, Created)'
    BY <1>1, <1>3, <2>1 DEF Joining, RowGrows
  <2>3. ASSUME Prerequisites \subseteq db'[o].done
        PROVE  \/ Expected("coordinator", o, Successes)'
               \/ \E s \in Prerequisites : Expected(s, o, Created)'
    <3>1. CASE Prerequisites \subseteq db[o].done
      BY <1>3, <2>1, <3>1, SuccessStays DEF Joining, Superseded
    <3>2. CASE ~(Prerequisites \subseteq db[o].done)
      BY <1>3, <2>1, <3>2 DEF Joining
    <3> QED
      BY <3>1, <3>2
  <2> QED
    BY <2>2, <2>3 DEF Joining
<1> QED
  BY <1>2, <1>3 DEF Driven

\* A worker has its delivery since it took it.
LEMMA HeldSince ==
  ASSUME Inv, [Next]_vars, NEW w \in Workers, Held(w)'
  PROVE  \/ Held(w) /\ Delivery(w)' = Delivery(w)
         \/ Took(w) /\ Delivery(w)' \in Ready(Role[w])
<1>1. TypeOK
  BY DEF Inv
<1>2. CASE Took(w)
  <2>1. PICK m \in Ready(Role[w]) : worker'[w].msg = m
    BY <1>1, <1>2 DEF Took, TypeOK
  <2> QED
    BY <1>2, <2>1 DEF Delivery
<1>3. CASE WorkerMoves(w) /\ Held(w)
  BY <1>1, <1>3, HeldIs, WorkerEffects
  DEF WorkerMoves, Took, Advanced, LetGo, CutOff, Goto, Release, TypeOK, BusyStates,
      Held, Delivery
<1>4. CASE worker'[w] = worker[w]
  BY <1>4 DEF Held, Delivery
<1>5. worker'[w] = worker[w] \/ WorkerMoves(w)
  BY OthersStay, RequestStores, StepBy DEF vars
<1> QED
  BY <1>2, <1>3, <1>4, <1>5, WorkerEffects DEF WorkerMoves

\* No message is in a queue that it is not routed to.
LEMMA RoutedNext ==
  ASSUME Inv, [Next]_vars, Routed
  PROVE  Routed'
<1>1. TypeOK
  BY DEF Inv
<1>2. \A q \in Queues : \A m \in Ready(q) : q \in Targets(m.key)
  BY DEF Routed
<1>3. ASSUME NEW w \in Workers, WorkerMoves(w), Held(w), NEW q \in Queues, NEW m,
             Publishes(w, q, m)
      PROVE  q \in Targets(m.key)
  <2>1. Role[w] \in Targets(Delivery(w).key) /\ Delivery(w) \in Message
    BY <1>1, <1>3, HeldIs DEF Routed
  <2>2. Again(Delivery(w)).key = Delivery(w).key
    BY <2>1 DEF Again, Message
  <2>3. FailureEvent(Subject(w), Role[w]).key = "workflow.failed"
    BY DEF FailureEvent
  <2> QED
    BY <1>3, <2>1, <2>2, <2>3, Routes DEF Publishes
<1>4. ASSUME NEW q \in Queues, NEW m \in Ready(q)'
      PROVE  q \in Targets(m.key)
  <2>1. CASE \E w \in Workers : WorkerMoves(w)
    <3>1. PICK w \in Workers : WorkerMoves(w)
      BY <2>1
    <3>2. CASE Took(w)
      BY <1>2, <1>4, <3>2 DEF Took
    <3>3. CASE Held(w) /\ Stores(w)
      BY <1>2, <1>3, <1>4, <3>1, <3>3 DEF Stores
    <3> QED
      BY <3>1, <3>2, <3>3, WorkerEffects DEF WorkerMoves, Advanced, LetGo, CutOff
  <2>2. CASE \E o \in Orders : RequestMoves(o)
    <3>1. m \in Ready(q) \/ (q \in Targets("order.created") /\ m.key = "order.created")
      BY <1>4, <2>2, RequestStores DEF Event
    <3> QED
      BY <1>2, <3>1
  <2>3. CASE UNCHANGED vars
    BY <1>2, <1>4, <2>3 DEF vars, Ready
  <2> QED
    BY <2>1, <2>2, <2>3, StepBy
<1>5. ASSUME NEW w \in Workers, Held(w)'
      PROVE  Role[w] \in Targets(Delivery(w)'.key)
  <2>1. CASE Held(w) /\ Delivery(w)' = Delivery(w)
    BY <2>1 DEF Routed
  <2>2. CASE Took(w) /\ Delivery(w)' \in Ready(Role[w])
    BY <1>1, <1>2, <2>2, HeldIs
  <2> QED
    BY <1>5, <2>1, <2>2, HeldSince
<1> QED
  BY <1>4, <1>5 DEF Routed

\* A step that is backed stays so.
LEMMA StepBackedNext ==
  ASSUME Inv, Fits, [Next]_vars, NEW o \in Orders, Borne(o), NEW s \in Prerequisites,
         StepBacked(o, s)
  PROVE  StepBacked(o, s)'
<1>1. RowGrows(db[o], db'[o])
  BY RowsGrow
<1>2. CASE s \in db[o].done
  BY <1>1, <1>2 DEF RowGrows, StepBacked
<1>3. CASE Superseded(o)
  BY <1>3, SupersededNext DEF StepBacked
<1>4. CASE Expected(s, o, Created)
  BY <1>1, <1>4, CreatedStays DEF RowGrows, StepBacked, Superseded
<1> QED
  BY <1>2, <1>3, <1>4 DEF StepBacked

\* Whoever takes an order.created pursues it, and what becomes of it backs the step.
LEMMA BackedNext ==
  ASSUME Inv, Fits, Routed, [Next]_vars, NEW o \in Orders, Borne(o), Backed(o)
  PROVE  Backed(o)'
<1> SUFFICES ASSUME NEW w \in Workers, Held(w)', Role[w] \in Prerequisites, Subject(w)' = o
             PROVE  StepBacked(o, Role[w])'
  BY DEF Backed
<1>1. CASE Held(w) /\ Delivery(w)' = Delivery(w)
  BY <1>1, StepBackedNext DEF Backed, Subject
<1>2. CASE Took(w) /\ Delivery(w)' \in Ready(Role[w])
  <2>1. Role[w] \in Queues
    BY DEF Queues
  <2>2. Delivery(w)'.key = "order.created" /\ Delivery(w)'.order = o
    <3>1. Delivery(w)'.key \in RoutingKeys
      BY <1>2, <2>1 DEF Inv, TypeOK, IsQueueContent, Ready, Message
    <3>2. Role[w] \in Targets(Delivery(w)'.key)
      BY <1>2, <2>1 DEF Routed
    <3> QED
      BY <3>1, <3>2, Routes DEF RoutingKeys, Subject
  <2>3. Delivery(w)' \in Live(Role[w])'
    BY <1>2, <2>1, TookPursues, LiveIs
  <2> QED
    BY <2>2, <2>3 DEF StepBacked, Expected, Created
<1> QED
  BY <1>1, <1>2, HeldSince

\* The step that completes the two is not the last message's: the copy that its own
\* worker or another one pursues will announce it.
LEMMA BothDoneNext ==
  ASSUME Inv, Fits, [Next]_vars, NEW o \in Orders, Borne(o), Backed(o),
         ~(Prerequisites \subseteq db[o].done), Prerequisites \subseteq db'[o].done
  PROVE  Driven(o)'
<1>1. PICK s \in Prerequisites : s \notin db[o].done /\ s \in db'[o].done
  OBVIOUS
<1>2. PICK w \in Workers : Held(w) /\ Role[w] = s /\ Subject(w) = o
  BY <1>1, StepDoneBy
<1>3. Expected(s, o, Created) \/ Superseded(o)
  BY <1>1, <1>2 DEF Backed, StepBacked
<1>4. CASE Superseded(o)
  BY <1>4, SupersededNext DEF Driven
<1>5. CASE ~Superseded(o) /\ Expected(s, o, Created)
  BY <1>1, <1>5, CreatedStays DEF Driven, Superseded, Joining
<1> QED
  BY <1>3, <1>4, <1>5

\* A worker does not touch the requests, and causes one fault at most.
LEMMA WorkersSpend ==
  ASSUME NEW w \in Workers, WorkerMoves(w)
  PROVE  UNCHANGED api /\ (UNCHANGED faults \/ \E kind : Spend(kind))
<1>1. \A row, next : Transaction(w, row, next) =>
        UNCHANGED api /\ (UNCHANGED faults \/ \E kind : Spend(kind))
  BY DEF Transaction
<1>2. CASE \/ MoveToProcessing(w) \/ GateOnFailure(w) \/ CheckStepDone(w)
           \/ RecordSuccess(w) \/ ConfirmTicket(w) \/ Join(w) \/ FailOrder(w)
           \/ MarkPublished(w) \/ Notify(w)
  BY <1>1, <1>2
  DEF MoveToProcessing, GateOnFailure, CheckStepDone, RecordSuccess, ConfirmTicket, Join,
      FailOrder, MarkPublished, Notify
<1>3. CASE \/ Deliver(w) \/ Decline(w) \/ Emit(w) \/ Ack(w) \/ Retry(w) \/ Exhaust(w)
           \/ RecordDeliveryFailure(w) \/ DeadLetter(w) \/ Exit(w)
  BY <1>3
  DEF Deliver, Decline, Emit, Ack, Retry, Exhaust, RecordDeliveryFailure, DeadLetter, Exit
<1>4. CASE Crash(w) \/ Disconnect(w)
  BY <1>4 DEF Crash, Disconnect
<1> QED
  BY <1>2, <1>3, <1>4 DEF WorkerMoves, WorkerStep

\* A request is only accepted when its order.created is in all three queues.
LEMMA AcceptedIsDriven ==
  ASSUME Inv, [Next]_vars, NEW o \in Orders, api[o] # "accepted", api'[o] = "accepted"
  PROVE  /\ ApiPublish(o) /\ UNCHANGED faults
         /\ \A s \in Prerequisites : Expected(s, o, Created)'
<1> DEFINE created == Event("order.created", o)
<1>1. TypeOK
  BY DEF Inv
<1>2. PICK p \in Orders : RequestMoves(p)
  BY StepBy, WorkersSpend DEF vars
<1>3. /\ ApiPublish(o) /\ UNCHANGED faults
      /\ queues' = Stored(queues, Targets(created.key), created)
  BY <1>1, <1>2
  DEF RequestMoves, ApiCreate, ApiStep, ApiPublish, ApiUnreachable, ApiFail, ApiCrash,
      ApiGoto, TypeOK
<1>4. created.key = "order.created" /\ created.order = o
  BY DEF Event
<1>5. ASSUME NEW s \in Prerequisites
      PROVE  created \in Live(s)'
  <2>1. s \in Queues /\ s \in Targets(created.key)
    BY <1>4, Routes DEF Queues
  <2> QED
    BY <1>3, <2>1, StoredHas, LiveIs DEF Ready
<1> QED
  BY <1>3, <1>4, <1>5 DEF Expected, Created

\* LiveKeys, in the terms of these proofs.
LEMMA LiveKeysAre ==
  ASSUME NEW q \in Queues, NEW o, NEW key
  PROVE  key \in LiveKeys(q, o) <=> Expected(q, o, {key})
BY DEF LiveKeys, Expected

\* What is kept is pursued, or dead.
LEMMA KeptIsLiveOrDead ==
  ASSUME NEW q \in Queues, NEW o, NEW key, OnTheWay(q, o, key)
  PROVE  key \in LiveKeys(q, o) \cup DeadKeys(o)
<1>1. PICK m \in Kept(q) : m.order = o /\ m.key = key
  BY DEF OnTheWay
<1>2. m \in Live(q) \/ m \in Dead
  BY KeptIs, LiveIs DEF Dead, DeadLetters, Owns, Pursues, At
<1> QED
  BY <1>1, <1>2 DEF LiveKeys, DeadKeys

\* What these proofs keep is what NeverSilentlyLost asks for.
LEMMA DrivenIsCared ==
  ASSUME Inv, NEW o \in Orders, Driven(o), ReadySafe(o)
  PROVE  Cared(o)
<1>1. \A s \in Prerequisites : s \in Queues
  BY DEF Queues
<1>2. CASE Terminal(o)
  BY <1>2 DEF Cared
<1>3. CASE Stopping(o)
  BY <1>3 DEF Cared, Stopping, Failing
<1>4. CASE ~Terminal(o) /\ db[o].readyPublished
  <2>1. Prerequisites \ db[o].done = {} /\ Beyond(o)
    BY <1>4 DEF ReadySafe
  <2>2. CASE OnTheWay("restaurant", o, "order.ready")
    BY <1>4, <2>1, <2>2, KeptIsLiveOrDead DEF Cared, Advancing, Queues
  <2>3. CASE "restaurant" \in db[o].done /\ OnTheWay("notification", o, "order.confirmed")
    BY <1>4, <2>1, <2>3, KeptIsLiveOrDead DEF Cared, Advancing, Queues
  <2> QED
    BY <1>4, <2>1, <2>2, <2>3 DEF Beyond
<1>5. CASE ~db[o].readyPublished /\ Joining(o)
  <2>1. \A s \in Prerequisites \ db[o].done : "order.created" \in LiveKeys(s, o)
    BY <1>1, <1>5, LiveKeysAre DEF Joining, Created
  <2>2. Prerequisites \ db[o].done = {} =>
          \/ LiveKeys("coordinator", o) \cap Successes # {}
          \/ \E s \in Prerequisites : "order.created" \in LiveKeys(s, o)
    <3>1. Expected("coordinator", o, Successes) =>
            LiveKeys("coordinator", o) \cap Successes # {}
      BY DEF Expected, LiveKeys
    <3> QED
      BY <1>1, <1>5, <3>1, LiveKeysAre DEF Joining, Created
  <2> QED
    BY <1>5, <2>1, <2>2 DEF Cared, Advancing, Successes
<1> QED
  BY <1>2, <1>3, <1>4, <1>5 DEF Driven, Superseded, Inv, RowOK, Terminal

-----------------------------------------------------------------------------
(***************************************************************************)
(* The orders that the workers have are cared for, whatever the faults.    *)
(***************************************************************************)
CareOf(o) ==
  /\ CheckHolds(o)
  /\ ReadySafe(o)
  /\ Backed(o)
  /\ api[o] = "accepted" \/ Prerequisites \subseteq db[o].done => Driven(o)

\* CareOf is inductive.
LEMMA CareNext ==
  ASSUME Inv, Fits, Routed, OneOf("restaurant"), [Next]_vars, NEW o \in Orders, Borne(o),
         CareOf(o)
  PROVE  CareOf(o)'
<1>1. ASSUME api[o] # "accepted", api'[o] = "accepted"
      PROVE  Driven(o)'
  BY <1>1, AcceptedIsDriven DEF Driven, Joining
<1>2. ASSUME ~(Prerequisites \subseteq db[o].done), Prerequisites \subseteq db'[o].done
      PROVE  Driven(o)'
  BY <1>2, BothDoneNext DEF CareOf
<1> QED
  BY <1>1, <1>2, CheckHoldsNext, ReadySafeNext, BackedNext, DrivenNext DEF CareOf

\* What CareOf keeps is what NeverSilentlyLost asks for.
LEMMA CareIsEnough ==
  ASSUME Inv, NEW o \in Orders, CareOf(o), Entrusted(o)
  PROVE  Cared(o)
<1>1. HeldBy(db[o]) = Prerequisites => Prerequisites \subseteq db[o].done
  BY DEF HeldBy
<1> QED
  BY <1>1, DrivenIsCared DEF CareOf, Entrusted

\* With one restaurant worker, what the handlers are about to do and what drives each
\* order stay in step with its rows.
THEOREM CareInvariance ==
  ASSUME OneOf("restaurant")
  PROVE  Spec => [](Routed /\ \A o \in Orders : CareOf(o))
<1> DEFINE Care == Routed /\ \A o \in Orders : CareOf(o)
           AllBorne == \A o \in Orders : Borne(o)
<1>1. Init => Care
  <2> SUFFICES ASSUME Init PROVE Care
    OBVIOUS
  <2>1. (\A w \in Workers : ~Held(w)) /\ \A q \in Queues : Ready(q) = {}
    BY DEF Init, Held, Ready, BagToSet, EmptyBag, SetToBag
  <2>2. \A o \in Orders : ~Marking(o)
    BY DEF Init, Marking, At, Idle
  <2> QED
    BY <2>1, <2>2 DEF Init, Routed, CareOf, CheckHolds, ReadySafe, Backed, NoRow
<1>2. Inv /\ Fits /\ AllBorne /\ Care /\ [Next]_vars => Care'
  BY CareNext, RoutedNext
<1> QED
  BY <1>1, <1>2, Invariance, MessageInvariance, PTL DEF Spec

\* Whoever was told that his order is accepted, or has been charged and has his items
\* reserved even though his request was cut off, has an order that is over, or that
\* a message still drives, or whose message an operator finds in the dead-letter
\* queue: any number of faults, of any kind, in any order.
THEOREM NothingLost ==
  ASSUME OneOf("restaurant")
  PROVE  Spec => []NeverSilentlyLost
<1>1. Inv /\ (\A o \in Orders : CareOf(o)) => NeverSilentlyLost
  BY CareIsEnough DEF NeverSilentlyLost
<1> QED
  BY <1>1, Invariance, CareInvariance, PTL

=============================================================================
