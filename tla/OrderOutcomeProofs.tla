------------------------- MODULE OrderOutcomeProofs ------------------------
(***************************************************************************)
(* Proofs of how an order ends, for any number of orders, workers and      *)
(* retries: the customer of an accepted order that fails is told, and a    *)
(* completed order whose messages were all handled has the row of an       *)
(* order that met no trouble.                                              *)
(*                                                                         *)
(* The first holds for any faults with one coordinator (OneOf): then an    *)
(* order that has failed has its notice out, or a workflow.failed that     *)
(* will make it go out. A second coordinator could be about to mark an     *)
(* order_ready that it has published while the first fails the order and   *)
(* crashes before it emits order.failed: the mark then makes               *)
(* fail_workflow() refuse the redelivered workflow.failed.                 *)
(*                                                                         *)
(* The second holds for any number of workers in each role, in behaviours  *)
(* of at most one fault, or without database errors, or without crashes    *)
(* and lost connections (RecordsApart). Its invariants relate a row to     *)
(* itself (Recorded), to where its handlers are (PastEnsure), to who can   *)
(* have written it (Staffed) and to the messages (Receipted, Undelivered). *)
(*                                                                         *)
(* In between, RestIsTheEnd: the workers do not all come to rest while     *)
(* the customer of an accepted order waits to hear how it ended.           *)
(***************************************************************************)
EXTENDS OrderCareProofs

USE DEF Prerequisites, Steps, NoStep, FailedSteps, Statuses, Failed

NoticeOut(o) ==
  \/ "notification.failed_order" \in db[o].events
  \/ OnTheWay("notification", o, "order.failed")

\* The request of o has not failed the order, and may still be accepted.
Open(o) == api[o] \in {"new", "try1", "try2", "accepted"}

\* The coordinator releases no order that has failed.
ReleasesUnfailed(o) ==
  \A w \in Workers :
    ( /\ Held(w) /\ Role[w] = "coordinator" /\ worker[w].pc \in {"emit", "mark"}
      /\ Delivery(w).key # "workflow.failed" /\ Subject(w) = o )
    => ~Failed(db[o])

NoticeOf(o) ==
  /\ Open(o) => ReleasesUnfailed(o)
  /\ db[o].failurePublished \/ MarkingFailure(o) => NoticeOut(o)
  /\ Open(o) /\ Failed(db[o]) => NoticeOut(o) \/ Failing(o)

\* The broker has taken back what a coordinator without a connection works on.
TakenBack ==
  \A w \in Workers :
    (Held(w) /\ Role[w] = "coordinator" /\ ~worker[w].up)
      => Delivery(w) \in Ready("coordinator")

\* A request that may still be accepted was so before, and does not fail its order.
LEMMA OpenBefore ==
  ASSUME Inv, [Next]_vars, NEW o \in Orders, Open(o)'
  PROVE  Open(o) /\ ~ApiFail(o)
<1>1. ~ApiFail(o)
  BY DEF ApiFail, ApiGoto, Open, Inv, TypeOK
<1>2. CASE api'[o] = "accepted" /\ api[o] # "accepted"
  BY <1>1, <1>2, AcceptedIsDriven DEF ApiPublish, Open
<1>3. CASE ~(api'[o] = "accepted" /\ api[o] # "accepted")
  BY <1>1, <1>3, ApiMoves DEF ApiMove, Open
<1> QED
  BY <1>1, <1>2, <1>3

\* TakenBack is inductive.
LEMMA TakenBackNext ==
  ASSUME Inv, OneOf("coordinator"), [Next]_vars, TakenBack
  PROVE  TakenBack'
<1> SUFFICES ASSUME NEW w \in Workers, Held(w)', Role[w] = "coordinator", ~worker'[w].up
             PROVE  Delivery(w)' \in Ready("coordinator")'
  BY DEF TakenBack
<1>1. TypeOK /\ "coordinator" \in Queues
  BY DEF Inv, Queues
<1>2. ASSUME Held(w), ~worker[w].up, Delivery(w)' = Delivery(w),
             Ready("coordinator") \subseteq Ready("coordinator")'
      PROVE  Delivery(w)' \in Ready("coordinator")'
  BY <1>2 DEF TakenBack
<1>3. ASSUME NEW v \in Workers, WorkerMoves(v), v # w
      PROVE  Delivery(w)' \in Ready("coordinator")'
  <2>1. worker'[w] = worker[w]
    BY <1>3, OthersStay
  <2>2. Role[v] # "coordinator"
    BY <1>3 DEF OneOf
  <2>3. Ready("coordinator") \subseteq Ready("coordinator")'
    BY <1>1, <1>3, <2>2, WorkerEffects DEF WorkerMoves, Took, Advanced, LetGo, CutOff, Stores
  <2> QED
    BY <1>2, <2>1, <2>3 DEF Held, Delivery
<1>4. CASE WorkerMoves(w)
  <2>1. CASE Took(w)
    BY <1>1, <2>1 DEF Took, TypeOK
  <2>2. CASE Held(w) /\ Advanced(w)
    <3>1. worker'[w].up = worker[w].up /\ Delivery(w)' = Delivery(w)
      BY <1>1, <2>2, HeldIs DEF Advanced, Goto, TypeOK, BusyStates, Delivery
    <3> QED
      BY <1>1, <1>2, <2>2, <3>1 DEF Advanced, Stores
  <2>3. CASE LetGo(w)
    BY <1>1, <2>3 DEF LetGo, Release, Held, TypeOK
  <2>4. CASE Held(w) /\ CutOff(w)
    BY <1>1, <2>4, HeldIs DEF CutOff, TypeOK, BusyStates, Delivery
  <2> QED
    BY <1>4, <2>1, <2>2, <2>3, <2>4, WorkerEffects DEF WorkerMoves
<1>5. CASE \E o \in Orders : RequestMoves(o)
  BY <1>1, <1>2, <1>5, RequestStores DEF Held, Delivery
<1>6. CASE UNCHANGED vars
  BY <1>2, <1>6 DEF vars, Held, Delivery, Ready
<1> QED
  BY <1>3, <1>4, <1>5, <1>6, StepBy

\* A notice that is out is retried until it is recorded.
LEMMA NoticeOutStays ==
  ASSUME Inv, Fits, [Next]_vars, NEW o \in Orders, NoticeOut(o)
  PROVE  NoticeOut(o)'
<1>1. RowGrows(db[o], db'[o])
  BY RowsGrow
<1>2. CASE "notification.failed_order" \in db[o].events
  BY <1>1, <1>2 DEF RowGrows, NoticeOut
<1>3. CASE OnTheWay("notification", o, "order.failed")
  <2>1. ASSUME NEW w \in Workers, WorkerMoves(w), Owns(w), Role[w] = "notification",
               Settles(w), Subject(w) = o, Delivery(w).key = "order.failed"
        PROVE  "notification.failed_order" \in db'[o].events
    <3>1. Held(w) /\ RowOf(w) = db[o]
      BY <2>1 DEF Owns, RowOf
    <3>2. db'[o] = AddEventOnce(db[o], "notification.failed_order")
      BY <2>1, <3>1, Settlements DEF Sent, Refused, Decided, Notified, NewRow
    <3> QED
      BY <3>2, AddEventOnceEffect DEF Inv, TypeOK, Notices
  <2> QED
    BY <1>3, <2>1, OnTheWayStays DEF NoticeOut, Queues
<1> QED
  BY <1>2, <1>3 DEF NoticeOut

\* failure_published and the mark that sets it come after the notice.
LEMMA MarkedAfterNotice ==
  ASSUME Inv, Fits, [Next]_vars, NEW o \in Orders,
         db[o].failurePublished \/ MarkingFailure(o) => NoticeOut(o),
         db'[o].failurePublished \/ MarkingFailure(o)'
  PROVE  NoticeOut(o)'
<1>1. CASE db[o].failurePublished \/ MarkingFailure(o)
  BY <1>1, NoticeOutStays
<1>2. CASE ~MarkingFailure(o) /\ MarkingFailure(o)'
  <2>1. PICK w \in Workers : /\ worker'[w].pc = "mark" /\ worker'[w].msg.order = o
                             /\ worker'[w].msg.key = "workflow.failed"
    BY <1>2 DEF MarkingFailure, At, Subject, Delivery
  <2>2. /\ worker'[w].msg = worker[w].msg /\ Role[w] = "coordinator"
        /\ \A q \in Queues : q \in Targets(Result(w).key) => Result(w) \in Ready(q)'
    BY <1>2, <2>1, MarksWhatIsSent DEF MarkingFailure, At, Subject, Delivery
  <2>3. Result(w).key = "order.failed" /\ Result(w).order = o
    BY <2>1, <2>2 DEF Result, ResultKey, Event, Subject, Delivery
  <2>4. Result(w) \in Kept("notification")'
    BY <2>2, <2>3, Routes, KeptIs DEF Queues
  <2> QED
    BY <2>3, <2>4 DEF NoticeOut, OnTheWay
<1> QED
  BY <1>1, <1>2, FlagsSetBy

\* The coordinator comes to its emit from the decision.
LEMMA EmitsWhatIsDecided ==
  ASSUME Inv, Fits, [Next]_vars, NEW w \in Workers, Role[w] = "coordinator",
         worker'[w].pc \in {"emit", "mark"}
  PROVE  /\ worker'[w].msg = worker[w].msg /\ Held(w)
         /\ \/ worker[w].pc \in {"emit", "mark"}
            \/ Delivery(w).key # "workflow.failed" =>
                 ~Failed(RowOf(w)) /\ db'[Subject(w)] = PrepareOrderReady(RowOf(w))
<1>1. TypeOK /\ Role[w] \in Queues
  BY HeldIs DEF Inv
<1>2. CASE worker'[w] = worker[w]
  BY <1>1, <1>2, HeldIs DEF At
<1>3. CASE WorkerMoves(w)
  <2>1. Held(w)
    <3>1. ~Took(w)
      BY <1>1 DEF Took, Entry, Queues, TypeOK
    <3> QED
      BY <1>3, <3>1, WorkerEffects DEF WorkerMoves
  <2>2. /\ \A pc : Goto(w, pc) => pc \in {"emit", "mark"} /\ worker'[w].msg = worker[w].msg
        /\ ~Release(w) /\ Subject(w) \in Orders
        /\ worker[w].pc \in {"decide", "emit", "mark", "except", "ack", "deadletter"}
    BY <1>1, <2>1, HeldIs
    DEF Goto, Release, Idle, TypeOK, BusyStates, Fits, HandlerOf
  <2>3. \A row, next : Transaction(w, row, next) =>
          /\ next \in {"emit", "mark"} /\ worker'[w].msg = worker[w].msg
          /\ db' = [db EXCEPT ![Subject(w)] = row]
    BY <2>2 DEF Transaction
  <2>4. CASE Join(w)
    <3>1. /\ ReadyNeedsPublishing(RowOf(w)) /\ worker'[w].msg = worker[w].msg
          /\ db' = [db EXCEPT ![Subject(w)] = PrepareOrderReady(RowOf(w))]
      BY <2>3, <2>4 DEF Join
    <3> QED
      BY <1>1, <2>1, <2>2, <3>1 DEF ReadyNeedsPublishing, Joined, TypeOK
  <2>5. CASE FailOrder(w)
    BY <2>1, <2>3, <2>5 DEF FailOrder
  <2>6. CASE Emit(w)
    BY <2>1, <2>2, <2>6 DEF Emit, At
  <2>7. CASE Disconnect(w)
    BY <1>1, <2>1, <2>7, HeldIs DEF Disconnect, TypeOK, BusyStates
  <2>8. CASE MarkPublished(w)
    BY <2>3, <2>8 DEF MarkPublished
  <2> QED
    BY <1>1, <1>3, <2>1, <2>2, <2>3, <2>4, <2>5, <2>6, <2>7, <2>8, HeldIs
    DEF WorkerMoves, WorkerStep, Deliver, MoveToProcessing, CheckStepDone, Decline,
        RecordSuccess, GateOnFailure, ConfirmTicket, Notify, Ack, Retry, Exhaust,
        RecordDeliveryFailure, DeadLetter, Exit, Crash, At
<1> QED
  BY <1>2, <1>3, StepBy, OthersStay, RequestStores DEF vars

\* One coordinator alone can rely on what it found until it has marked it.
LEMMA ReleasesUnfailedNext ==
  ASSUME Inv, Fits, OneOf("coordinator"), [Next]_vars, NEW o \in Orders, Open(o)',
         ReleasesUnfailed(o)
  PROVE  ReleasesUnfailed(o)'
<1> SUFFICES ASSUME NEW w \in Workers, Role[w] = "coordinator",
                    worker'[w].pc \in {"emit", "mark"}, worker'[w].msg.order = o,
                    worker'[w].msg.key # "workflow.failed", Failed(db'[o])
             PROVE  FALSE
  BY DEF ReleasesUnfailed, Subject, Delivery
<1>1. /\ Held(w) /\ Subject(w) = o /\ Delivery(w).key # "workflow.failed"
      /\ \/ worker[w].pc \in {"emit", "mark"}
         \/ ~Failed(RowOf(w)) /\ db'[o] = PrepareOrderReady(RowOf(w))
  BY EmitsWhatIsDecided DEF Subject, Delivery
<1>2. CASE worker[w].pc \in {"emit", "mark"}
  <2>1. ~Failed(db[o]) /\ ~ApiFail(o)
    BY <1>1, <1>2, OpenBefore DEF ReleasesUnfailed
  <2>2. PICK v \in Workers : FailOrder(v) /\ Held(v)
    BY <2>1, FailedBy
  <2>3. At(v, "decide") /\ Role[v] \in Queues
    BY <2>2, HeldIs DEF FailOrder, Inv
  <2>4. Role[v] = "coordinator"
    BY <2>2, <2>3 DEF Fits, At, HandlerOf, Queues
  <2>5. v = w
    BY <2>4 DEF OneOf
  <2> QED
    BY <1>2, <2>3, <2>5 DEF At
<1>3. CASE ~Failed(db[o]) /\ db'[o] = PrepareOrderReady(db[o])
  BY <1>3, DoneAndFailed DEF Inv
<1> QED
  BY <1>1, <1>2, <1>3 DEF RowOf

\* Nothing makes fail_workflow() refuse the failure of an order that has failed.
LEMMA AcceptedStays ==
  ASSUME Inv, Fits, [Next]_vars, NEW o \in Orders, ReleasesUnfailed(o), Failed(db[o]),
         NEW step, FailAccepted(db[o], step)
  PROVE  FailAccepted(db'[o], step)
<1>1. RowAdvance(db[o], db'[o])
  BY RowsGrow
<1>2. ~Marking(o)
  <2> SUFFICES ASSUME NEW w \in Workers, At(w, "mark"), Subject(w) = o,
                      Delivery(w).key # "workflow.failed"
               PROVE  FALSE
    BY DEF Marking
  <2>1. Held(w) /\ Role[w] \in Queues
    BY HeldIs DEF Inv, At
  <2>2. Role[w] = "coordinator"
    BY <2>1 DEF Fits, At, HandlerOf, Queues
  <2> QED
    BY <2>1, <2>2 DEF ReleasesUnfailed, At
<1> QED
  BY <1>1, <1>2, FlagsSetBy DEF FailAccepted, RowAdvance

\* A workflow.failed for a failed order is retried until the notice is out.
LEMMA FailingStays ==
  ASSUME Inv, Fits, [Next]_vars, NEW o \in Orders, ReleasesUnfailed(o), Failed(db[o]),
         db[o].failurePublished \/ MarkingFailure(o) => NoticeOut(o),
         Failing(o)
  PROVE  NoticeOut(o)' \/ Failing(o)'
<1>1. PICK m \in Live("coordinator") :
        m.order = o /\ m.key = "workflow.failed" /\ FailAccepted(db[o], m.step)
  BY DEF Failing
<1>2. "coordinator" \in Queues /\ db[o].exists
  BY <1>1 DEF Queues, FailAccepted
<1>3. CASE \E n \in Live("coordinator")' : Alike(n, m)
  <2>1. PICK n \in Live("coordinator")' : Alike(n, m)
    BY <1>3
  <2>2. FailAccepted(db'[o], n.step)
    BY <1>1, <2>1, AcceptedStays DEF Alike
  <2> QED
    BY <1>1, <2>1, <2>2 DEF Alike, Failing
<1>4. ASSUME NEW w \in Workers, WorkerMoves(w), Pursues(w), Role[w] = "coordinator",
             Delivery(w) = m, Settles(w) \/ GivesUp(w)
      PROVE  NoticeOut(o)' \/ Failing(o)'
  <2>1. Held(w) /\ Subject(w) = o /\ RowOf(w) = db[o]
    BY <1>1, <1>4 DEF Pursues, Subject, RowOf
  <2>2. CASE GivesUp(w)
    <3>1. FailureEvent(o, "coordinator") \in Ready("coordinator")' /\ UNCHANGED db
      BY <1>4, <2>1, <2>2, Reports
    <3>2. FailureEvent(o, "coordinator") \in Live("coordinator")'
      BY <1>2, <3>1, LiveIs
    <3>3. FailAccepted(db'[o], "coordinator")
      BY <1>2, <3>1 DEF FailAccepted
    <3> QED
      BY <3>2, <3>3 DEF Failing, FailureEvent
  <2>3. CASE Settles(w)
    <3>1. db[o].failurePublished \/ MarkingFailure(o)
      BY <1>1, <1>4, <2>1, <2>3, Settlements
      DEF Sent, Refused, Decided, Notified, FailureNeedsPublishing, MarkingFailure
    <3> QED
      BY <3>1, NoticeOutStays
  <2> QED
    BY <1>4, <2>2, <2>3
<1> QED
  BY <1>2, <1>3, <1>4, LiveStays

\* The commit that fails an order leaves a workflow.failed that will be taken again, or
\* finds the notice out.
LEMMA FailureStarts ==
  ASSUME Inv, Fits, [Next]_vars, TakenBack, NEW o \in Orders,
         db[o].failurePublished => NoticeOut(o),
         Failed(db'[o]), ~Failed(db[o]), ~ApiFail(o)
  PROVE  NoticeOut(o)' \/ Failing(o)'
<1>1. PICK w \in Workers : /\ FailOrder(w) /\ WorkerMoves(w) /\ Held(w) /\ Subject(w) = o
                           /\ Delivery(w).step \in FailedSteps
                           /\ db'[o] = FailWorkflow(db[o], Delivery(w).step)
  BY FailedBy
<1> DEFINE m == Delivery(w)
<1>2. /\ TypeOK /\ db[o] \in Row /\ RowOf(w) = db[o] /\ "coordinator" \in Queues
      /\ worker[w] \in BusyStates /\ m.key = "workflow.failed" /\ m.order = o
      /\ At(w, "decide")
  BY <1>1, HeldIs DEF Inv, TypeOK, RowOf, FailOrder, Queues, Subject
<1>3. Role[w] = "coordinator"
  BY <1>1, <1>2, HeldIs DEF Fits, At, HandlerOf, Queues
<1>4. FailAccepted(db[o], m.step) /\ FailAccepted(db'[o], m.step)
  <2>1. FailAccepted(db[o], m.step)
    BY <1>1 DEF FailWorkflow
  <2>2. /\ db'[o].exists = db[o].exists /\ db'[o].done = db[o].done
        /\ Flags(db'[o]) = Flags(db[o])
    BY <1>1, <1>2, <2>1, FailWorkflowEffect, FlagsKept
  <2>3. db'[o].readyPublished = db[o].readyPublished
    BY <2>2 DEF Flags
  <2> QED
    BY <2>1, <2>2, <2>3 DEF FailAccepted
<1>5. /\ \/ Goto(w, "emit") \/ Goto(w, "except")
         \/ Goto(w, "ack") /\ ~FailureNeedsPublishing(db[o], m.step)
      /\ UNCHANGED queues
  BY <1>1, <1>2 DEF FailOrder, Transaction
<1>6. CASE db[o].failurePublished
  BY <1>6, NoticeOutStays
<1>7. CASE ~db[o].failurePublished
  <2>1. Goto(w, "emit") \/ Goto(w, "except")
    BY <1>4, <1>5, <1>7 DEF FailureNeedsPublishing
  <2>2. /\ worker'[w].pc \in {"emit", "except"} /\ worker'[w].msg = m
        /\ worker'[w].up = worker[w].up
    BY <1>2, <2>1 DEF Goto, TypeOK, BusyStates, Delivery
  <2>3. m \in Live("coordinator")'
    <3>1. CASE worker[w].up
      <4>1. Pursues(w)' /\ Delivery(w)' = m
        BY <2>2, <3>1 DEF Pursues, Held, Idle, Delivery
      <4> QED
        BY <1>2, <1>3, <4>1, LiveIs
    <3>2. CASE ~worker[w].up
      <4>1. m \in Ready("coordinator")'
        BY <1>1, <1>3, <1>5, <3>2 DEF TakenBack, Ready
      <4> QED
        BY <1>2, <4>1, LiveIs
    <3> QED
      BY <3>1, <3>2
  <2> QED
    BY <1>2, <1>4, <2>3 DEF Failing
<1> QED
  BY <1>6, <1>7

\* NoticeOf is inductive.
LEMMA NoticeNext ==
  ASSUME Inv, Fits, TakenBack, OneOf("coordinator"), [Next]_vars,
         NEW o \in Orders, NoticeOf(o)
  PROVE  NoticeOf(o)'
<1>1. ASSUME Open(o)'
      PROVE  ReleasesUnfailed(o)'
  BY <1>1, OpenBefore, ReleasesUnfailedNext DEF NoticeOf
<1>2. ASSUME db'[o].failurePublished \/ MarkingFailure(o)'
      PROVE  NoticeOut(o)'
  BY <1>2, MarkedAfterNotice DEF NoticeOf
<1>3. ASSUME Open(o)', Failed(db'[o])
      PROVE  NoticeOut(o)' \/ Failing(o)'
  <2>1. Open(o) /\ ~ApiFail(o)
    BY <1>3, OpenBefore
  <2>2. CASE ~Failed(db[o])
    BY <1>3, <2>1, <2>2, FailureStarts DEF NoticeOf
  <2>3. CASE Failed(db[o])
    BY <2>1, <2>3, FailingStays, NoticeOutStays DEF NoticeOf
  <2> QED
    BY <2>2, <2>3
<1> QED
  BY <1>1, <1>2, <1>3 DEF NoticeOf

\* The customer of an accepted order that fails is told, or the notice is in the
\* dead-letter queue, or a workflow.failed is on its way that makes the coordinator
\* send it: whatever crashes, is refused or is delivered twice.
THEOREM FailuresAreTold ==
  ASSUME OneOf("coordinator")
  PROVE  Spec => []FailureReachesCustomer
<1> DEFINE AllTold == TakenBack /\ \A o \in Orders : NoticeOf(o)
<1>1. Init => AllTold
  BY DEF Init, TakenBack, NoticeOf, ReleasesUnfailed, MarkingFailure, Held, At, Idle, NoRow
<1>2. Inv /\ Fits /\ AllTold /\ [Next]_vars => AllTold'
  BY TakenBackNext, NoticeNext
<1>3. AllTold => FailureReachesCustomer
  <2> SUFFICES ASSUME NEW o \in Orders, NoticeOf(o), api[o] = "accepted", Failed(db[o]),
                      "notification.failed_order" \notin db[o].events,
                      ~(Failing(o) /\ ~db[o].failurePublished)
               PROVE  "order.failed" \in LiveKeys("notification", o) \cup DeadKeys(o)
    BY DEF FailureReachesCustomer
  <2>1. NoticeOut(o)
    BY DEF NoticeOf, Open
  <2> QED
    BY <2>1, KeptIsLiveOrDead DEF NoticeOut, Queues
<1> QED
  BY <1>1, <1>2, <1>3, Invariance, MessageInvariance, PTL DEF Spec

-----------------------------------------------------------------------------
(***************************************************************************)
(* Completed orders: what is kept of each of them.                         *)
(***************************************************************************)
Moved(r) == "workflow.processing" \in r.events \/ Failed(r)

\* Whatever a row says has its event, and nothing speaks of a failure before there is
\* one.
Recorded(r) ==
  /\ r.exists => "order.accepted" \in r.events
  /\ \A s \in r.done : StepSucceeded[s] \in r.events
  /\ "restaurant" \in r.done => {"workflow.ready", "workflow.confirmed"} \subseteq r.events
  /\ "notification.success" \in r.events => "workflow.completed" \in r.events
  /\ r.status # "PENDING" \/ r.done # {} => Moved(r)
  /\ r.failurePublished \/ {"workflow.failed", "notification.failed_order"} \cap r.events # {}
       => Failed(r)

\* A payment or inventory handler that is past its first call has moved its order.
PastEnsure(o) ==
  \A w \in Workers :
    ( /\ Held(w) /\ Role[w] \in Prerequisites /\ worker[w].pc \in {"check", "act"}
      /\ Subject(w) = o )
    => Moved(db[o])

Exists(q) == \E w \in Workers : Role[w] = q

\* Somebody did what is done.
Staffed(r) ==
  /\ \A s \in r.done : Exists(s)
  /\ "workflow.ready" \in r.events => Exists("coordinator")
  /\ "notification.success" \in r.events => Exists("notification")

Receipted(o) ==
  \/ "notification.received" \in db[o].events
  \/ OnTheWay("notification", o, "order.created")

\* A delivery that the notification worker has given up for good.
Undelivered(o) ==
  \/ \E m \in DeadLetters : m.order = o
  \/ \E w \in Workers : Role[w] = "notification" /\ At(w, "deadletter") /\ Subject(w) = o

\* No handler records that it gives up and then loses the delivery, because in the whole
\* behaviour there is one fault at most, or nothing makes the notification worker give
\* up, or nothing makes it lose a delivery.
RecordsApart ==
  \/ MaxFaults <= 1
  \/ "db" \notin FaultKinds
  \/ FaultKinds \cap {"crash", "disconnect"} = {}

GivingUpIsLast ==
  \A w \in Workers : Held(w) =>
    /\ ~worker[w].up => /\ "disconnect" \in FaultKinds
                        /\ faults = 0 \/ "db" \notin FaultKinds
    /\ Role[w] = "notification" /\ worker[w].pc \in {"except", "deadletter"} =>
         /\ worker[w].up
         /\ faults = 0 \/ FaultKinds \cap {"crash", "disconnect"} = {}

RecordOf(o) ==
  /\ Recorded(db[o])
  /\ PastEnsure(o)
  /\ Staffed(db[o])
  /\ "notification.delivery_failed" \in db[o].events => Undelivered(o)
  /\ api[o] = "accepted" => Driven(o) /\ Receipted(o)

-----------------------------------------------------------------------------
(***************************************************************************)
(* What each transaction records.                                          *)
(***************************************************************************)
\* The event of a step is no other event.
LEMMA StepKeys ==
  \A s \in Steps :
    StepSucceeded[s] \notin {"workflow.processing", "workflow.ready",
       "workflow.confirmed", "workflow.completed", "workflow.failed",
       "notification.success"} \cup Notices
  BY DEF StepSucceeded, Notices

\* The events that each transaction may insert.
LEMMA EventsAdded ==
  ASSUME NEW r, RowOK(r)
  PROVE  /\ EnsureProcessing(r).events \subseteq r.events \cup {"workflow.processing"}
         /\ \A s \in Prerequisites :
              RecordStepSuccess(r, s).events
                \subseteq r.events \cup {StepSucceeded[s]}
                            \cup {Compensation[t] : t \in Prerequisites}
         /\ PrepareOrderReady(r).events \subseteq r.events \cup {"workflow.ready"}
         /\ RecordRestaurantConfirmation(r).events
              \subseteq r.events \cup {StepSucceeded["restaurant"], "workflow.confirmed"}
         /\ CompleteOrder(r).events
              \subseteq r.events \cup {"notification.success", "workflow.completed"}
         /\ \A step \in FailedSteps :
              FailWorkflow(r, step).events
                \subseteq r.events \cup {"workflow.failed"}
                            \cup {Compensation[t] : t \in Prerequisites}
         /\ \A n \in {MarkReadyPublished(r), MarkFailurePublished(r)} :
              n.events = r.events
         /\ \A key \in Notices : AddEventOnce(r, key).events = r.events \cup {key}
<1>1. r \in Row
  BY DEF RowOK
<1>2. EnsureProcessing(r).events \subseteq r.events \cup {"workflow.processing"}
  BY <1>1, EnsureProcessingEffect DEF EnsureProcessing
<1>3. ASSUME NEW s \in Prerequisites
      PROVE  RecordStepSuccess(r, s).events
               \subseteq r.events \cup {StepSucceeded[s]}
                           \cup {Compensation[t] : t \in Prerequisites}
  <2>1. CASE r.exists /\ s \notin r.done
    BY <1>1, <2>1, RecordStepSuccessEffect
  <2>2. CASE ~(r.exists /\ s \notin r.done)
    BY <2>2 DEF RecordStepSuccess
  <2> QED
    BY <2>1, <2>2
<1>4. PrepareOrderReady(r).events \subseteq r.events \cup {"workflow.ready"}
  BY <1>1, PrepareOrderReadyEffect DEF PrepareOrderReady
<1>5. RecordRestaurantConfirmation(r).events
        \subseteq r.events \cup {StepSucceeded["restaurant"], "workflow.confirmed"}
  BY <1>1, ConfirmationEffect DEF RecordRestaurantConfirmation
<1>6. CompleteOrder(r).events
        \subseteq r.events \cup {"notification.success", "workflow.completed"}
  BY <1>1, CompleteOrderEffect DEF CompleteOrder
<1>7. ASSUME NEW step \in FailedSteps
      PROVE  FailWorkflow(r, step).events
               \subseteq r.events \cup {"workflow.failed"}
                           \cup {Compensation[t] : t \in Prerequisites}
  <2>1. CASE FailAccepted(r, step)
    BY <1>1, <2>1, FailWorkflowEffect
  <2>2. CASE ~FailAccepted(r, step)
    BY <2>2 DEF FailWorkflow
  <2> QED
    BY <2>1, <2>2
<1>8. \A n \in {MarkReadyPublished(r), MarkFailurePublished(r)} : n.events = r.events
  <2>1. CASE r.exists
    BY <1>1, <2>1, MarkEffect
  <2>2. CASE ~r.exists
    BY <2>2 DEF MarkReadyPublished, MarkFailurePublished
  <2> QED
    BY <2>1, <2>2
<1>9. \A key \in Notices : AddEventOnce(r, key).events = r.events \cup {key}
  BY <1>1, AddEventOnceEffect
<1> QED
  BY <1>2, <1>3, <1>4, <1>5, <1>6, <1>7, <1>8, <1>9

\* What a transaction must add to a row that is Recorded.
LEMMA RecordedGrows ==
  ASSUME NEW r, NEW n, Recorded(r), RowGrows(r, n), n.exists = r.exists,
         \A s \in n.done \ r.done : StepSucceeded[s] \in n.events /\ Moved(n),
         "restaurant" \in n.done \ r.done =>
           {"workflow.ready", "workflow.confirmed"} \subseteq n.events,
         "notification.success" \in n.events =>
           "notification.success" \in r.events \/ "workflow.completed" \in n.events,
         n.status = r.status \/ Moved(n),
         n.failurePublished => r.failurePublished \/ Failed(n),
         {"workflow.failed", "notification.failed_order"} \cap n.events
           \subseteq r.events \/ Failed(n)
  PROVE  Recorded(n)
  BY DEF Recorded, RowGrows, Moved

\* Each transaction records what it does, where its handler has made its earlier calls.
LEMMA TransactionsRecord ==
  ASSUME NEW r, RowOK(r), Recorded(r)
  PROVE  /\ Recorded(EnsureProcessing(r))
         /\ Moved(r) => \A s \in Prerequisites : Recorded(RecordStepSuccess(r, s))
         /\ Recorded(PrepareOrderReady(r))
         /\ "workflow.ready" \in r.events => Recorded(RecordRestaurantConfirmation(r))
         /\ Recorded(CompleteOrder(r))
         /\ \A step \in FailedSteps : Recorded(FailWorkflow(r, step))
         /\ Recorded(MarkReadyPublished(r))
         /\ Failed(r) => Recorded(MarkFailurePublished(r))
         /\ \A key \in Notices :
              (r.exists /\ (key = "notification.failed_order" => Failed(r)))
                => Recorded(AddEventOnce(r, key))
<1>1. r \in Row
  BY DEF RowOK
<1>2. ASSUME NEW n, StoreStep(r, n)
      PROVE  RowGrows(r, n)
  BY <1>2, StoreStepGrows
<1>3. ASSUME NEW n, StoreStep(r, n), Flags(n) = Flags(r)
      PROVE  RowGrows(r, n) /\ n.failurePublished = r.failurePublished
  BY <1>2, <1>3 DEF Flags
<1>4. Recorded(EnsureProcessing(r))
  <2>1. CASE r.exists /\ r.status = "PENDING"
    <3> DEFINE n == EnsureProcessing(r)
    <3>1. RowGrows(r, n) /\ n.failurePublished = r.failurePublished
      BY <1>1, <1>3, FlagsKept DEF StoreStep
    <3>2. /\ n.exists = r.exists /\ n.done = r.done
          /\ n.events = r.events \cup {"workflow.processing"}
      BY <1>1, <2>1, EnsureProcessingEffect
    <3> HIDE DEF n
    <3>3. Recorded(n)
      BY <3>1, <3>2, RecordedGrows DEF Moved
    <3> QED
      BY <3>3 DEF n
  <2>2. CASE ~(r.exists /\ r.status = "PENDING")
    BY <2>2 DEF EnsureProcessing
  <2> QED
    BY <2>1, <2>2
<1>5. ASSUME Moved(r), NEW s \in Prerequisites
      PROVE  Recorded(RecordStepSuccess(r, s))
  <2>1. CASE r.exists /\ s \notin r.done
    <3> DEFINE n == RecordStepSuccess(r, s)
    <3>1. RowGrows(r, n) /\ n.failurePublished = r.failurePublished
      BY <1>1, <1>3, FlagsKept DEF StoreStep
    <3>2. /\ n.exists = r.exists /\ n.done = r.done \cup {s}
          /\ n.status = r.status /\ StepSucceeded[s] \in n.events
      BY <1>1, <2>1, RecordStepSuccessEffect
    <3>3. n.events \subseteq r.events \cup {StepSucceeded[s]}
                                \cup {Compensation[t] : t \in Prerequisites}
      BY EventsAdded
    <3> HIDE DEF n
    <3>4. Moved(n)
      BY <1>5, <3>1, <3>2 DEF Moved, RowGrows
    <3>5. n.events \cap {"notification.success", "workflow.failed",
                         "notification.failed_order"} \subseteq r.events
      BY <3>3, StepKeys, CompensationKeys DEF Notices
    <3>6. Recorded(n)
      BY <3>1, <3>2, <3>4, <3>5, RecordedGrows
    <3> QED
      BY <3>6 DEF n
  <2>2. CASE ~(r.exists /\ s \notin r.done)
    BY <2>2 DEF RecordStepSuccess
  <2> QED
    BY <2>1, <2>2
<1>6. Recorded(PrepareOrderReady(r))
  <2>1. CASE Joined(r)
    <3> DEFINE n == PrepareOrderReady(r)
    <3>1. RowGrows(r, n) /\ n.failurePublished = r.failurePublished
      BY <1>1, <1>3, FlagsKept DEF StoreStep
    <3>2. /\ n.exists = r.exists /\ n.done = r.done
          /\ n.events = r.events \cup {"workflow.ready"}
      BY <1>1, <2>1, PrepareOrderReadyEffect
    <3> HIDE DEF n
    <3>3. Moved(n)
      BY <2>1, <3>1, <3>2 DEF Joined, Recorded, Moved, RowGrows
    <3>4. Recorded(n)
      BY <3>1, <3>2, <3>3, RecordedGrows
    <3> QED
      BY <3>4 DEF n
  <2>2. CASE ~Joined(r)
    BY <2>2 DEF PrepareOrderReady
  <2> QED
    BY <2>1, <2>2
<1>7. ASSUME "workflow.ready" \in r.events
      PROVE  Recorded(RecordRestaurantConfirmation(r))
  <2>1. CASE ConfirmAccepted(r)
    <3> DEFINE n == RecordRestaurantConfirmation(r)
    <3>1. RowGrows(r, n) /\ n.failurePublished = r.failurePublished
      BY <1>1, <1>3, FlagsKept DEF StoreStep
    <3>2. /\ n.exists = r.exists /\ n.done = r.done \cup {"restaurant"}
         
          /\ n.events = r.events \cup {StepSucceeded["restaurant"], "workflow.confirmed"}
         
      BY <1>1, <2>1, ConfirmationEffect
    <3> HIDE DEF n
    <3>3. Moved(n)
      BY <2>1, <3>1, <3>2 DEF ConfirmAccepted, Recorded, Moved, RowGrows
    <3>4. n.events \cap {"notification.success", "workflow.failed",
                         "notification.failed_order"} \subseteq r.events
      BY <3>1, <3>2, StepKeys DEF Notices
    <3>5. Recorded(n)
      BY <1>7, <3>1, <3>2, <3>3, <3>4, RecordedGrows
    <3> QED
      BY <3>5 DEF n
  <2>2. CASE ~ConfirmAccepted(r)
    BY <2>2 DEF RecordRestaurantConfirmation
  <2> QED
    BY <2>1, <2>2
<1>8. Recorded(CompleteOrder(r))
  <2>1. CASE CompleteAccepted(r)
    <3> DEFINE n == CompleteOrder(r)
    <3>1. RowGrows(r, n) /\ n.failurePublished = r.failurePublished
      BY <1>1, <1>3, FlagsKept DEF StoreStep
    <3>2. /\ n.exists = r.exists /\ n.done = r.done
          /\ n.events = r.events \cup {"notification.success", "workflow.completed"}
         
      BY <1>1, <2>1, CompleteOrderEffect
    <3> HIDE DEF n
    <3>3. Moved(n)
      BY <2>1, <3>1, <3>2 DEF CompleteAccepted, Recorded, Moved, RowGrows
    <3>4. Recorded(n)
      BY <3>1, <3>2, <3>3, RecordedGrows
    <3> QED
      BY <3>4 DEF n
  <2>2. CASE ~CompleteAccepted(r)
    BY <2>2 DEF CompleteOrder
  <2> QED
    BY <2>1, <2>2
<1>9. ASSUME NEW step \in FailedSteps
      PROVE  Recorded(FailWorkflow(r, step))
  <2>1. CASE FailAccepted(r, step)
    <3> DEFINE n == FailWorkflow(r, step)
    <3>1. /\ n.exists = r.exists /\ n.done = r.done /\ Failed(n) /\ RowGrows(r, n)
      BY <1>1, <1>2, <2>1, FailWorkflowEffect DEF StoreStep
    <3>2. n.events \subseteq r.events \cup {"workflow.failed"}
                                \cup {Compensation[t] : t \in Prerequisites}
      BY EventsAdded
    <3> HIDE DEF n
    <3>3. Moved(n)
      BY <3>1 DEF Moved
    <3>4. "notification.success" \in n.events => "notification.success" \in r.events
      BY <3>2, CompensationKeys
    <3>5. Recorded(n)
      BY <3>1, <3>3, <3>4, RecordedGrows
    <3> QED
      BY <3>5 DEF n
  <2>2. CASE ~FailAccepted(r, step)
    BY <2>2 DEF FailWorkflow
  <2> QED
    BY <2>1, <2>2
<1>10. /\ Recorded(MarkReadyPublished(r))
       /\ Failed(r) => Recorded(MarkFailurePublished(r))
  <2>1. ASSUME NEW n \in {MarkReadyPublished(r), MarkFailurePublished(r)}, r.exists,
               n.failurePublished => r.failurePublished \/ Failed(n)
        PROVE  Recorded(n)
    <3>1. /\ n.exists = r.exists /\ n.done = r.done /\ n.status = r.status
          /\ n.events = r.events /\ RowGrows(r, n)
      BY <1>1, <1>2, <2>1, MarkEffect DEF StoreStep
    <3> QED
      BY <2>1, <3>1, RecordedGrows
  <2>2. MarkReadyPublished(r).failurePublished = r.failurePublished
    BY <1>1, FlagsKept
  <2>3. MarkFailurePublished(r).failedStep = r.failedStep
    BY DoneAndFailed
  <2>4. CASE r.exists
    BY <2>1, <2>2, <2>3, <2>4
  <2>5. CASE ~r.exists
    BY <2>5 DEF MarkReadyPublished, MarkFailurePublished
  <2> QED
    BY <2>4, <2>5
<1>11. ASSUME NEW key \in Notices, r.exists, key = "notification.failed_order" => Failed(r)
       PROVE  Recorded(AddEventOnce(r, key))
  <2> DEFINE n == AddEventOnce(r, key)
  <2>1. /\ n.exists = r.exists /\ n.done = r.done /\ n.status = r.status
        /\ n.failedStep = r.failedStep /\ n.failurePublished = r.failurePublished
        /\ n.events = r.events \cup {key} /\ RowGrows(r, n)
    BY <1>1, <1>2, <1>3, <1>11, AddEventOnceEffect, FlagsKept DEF StoreStep
  <2>2. key # "notification.success" /\ key # "workflow.failed"
    BY DEF Notices
  <2> HIDE DEF n
  <2>3. Recorded(n)
    BY <1>11, <2>1, <2>2, RecordedGrows
  <2> QED
    BY <2>3 DEF n
<1> QED
  BY <1>4, <1>5, <1>6, <1>7, <1>8, <1>9, <1>10, <1>11

-----------------------------------------------------------------------------
(***************************************************************************)
(* Who made a change, and what it read.                                    *)
(***************************************************************************)
\* No step gives a fault back.
LEMMA FaultsSpent ==
  ASSUME Inv, [Next]_vars
  PROVE  faults \in Nat /\ faults' \in Nat /\ faults' <= faults
<1>1. faults \in Nat /\ \A kind : Spend(kind) => faults' = faults - 1 /\ faults > 0
  BY DEF Inv, TypeOK, Spend
<1>2. UNCHANGED faults \/ \E kind : Spend(kind)
  <2>1. ASSUME NEW o \in Orders, RequestMoves(o)
        PROVE  UNCHANGED faults \/ \E kind : Spend(kind)
    BY <2>1
    DEF RequestMoves, ApiCreate, ApiStep, ApiPublish, ApiUnreachable, ApiFail, ApiCrash
  <2> QED
    BY <2>1, StepBy, WorkersSpend DEF vars
<1> QED
  BY <1>1, <1>2

\* What the notification worker makes of r when it handles or gives up its delivery.
NoticeOfDelivery(w, r, r2) ==
  \/ r2 = r
  \/ Notify(w) /\ r2 = CompleteOrder(r)
  \/ /\ Delivery(w).key = "order.created"
     /\ r2 = AddEventOnce(r, "notification.received")
  \/ /\ Delivery(w).key = "order.failed"
     /\ r2 = AddEventOnce(r, "notification.failed_order")
  \/ /\ RecordDeliveryFailure(w)
     /\ r2 = AddEventOnce(r, "notification.delivery_failed")

\* What the notification worker writes follows from the message in its hand.
LEMMA NoticesOf ==
  ASSUME Inv, NEW w \in Workers, Held(w), Notify(w) \/ RecordDeliveryFailure(w)
  PROVE  NoticeOfDelivery(w, RowOf(w), NewRow(w))
<1>1. TypeOK /\ Subject(w) \in Orders
  BY HeldIs DEF Inv
<1>2. \A row : db' = [db EXCEPT ![Subject(w)] = row] => NewRow(w) = row
  BY <1>1 DEF TypeOK, NewRow
<1>3. db' = db => NewRow(w) = RowOf(w)
  BY DEF NewRow, RowOf
<1>4. \A row, next : Transaction(w, row, next) => NewRow(w) \in {row, RowOf(w)}
  BY <1>2, <1>3 DEF Transaction
<1>5. CASE Notify(w)
  BY <1>4, <1>5 DEF Notify, NoticeOfDelivery
<1>6. CASE RecordDeliveryFailure(w)
  BY <1>2, <1>3, <1>6 DEF RecordDeliveryFailure, NoticeOfDelivery
<1> QED
  BY <1>5, <1>6

\* Whoever writes the row of o: with what message in hand, at which call.
LEMMA WriterReads ==
  ASSUME Inv, Fits, NEW o \in Orders, Borne(o), NEW w \in Workers, Held(w), Subject(w) = o
  PROVE  /\ Role[w] \in Queues /\ RowOf(w) = db[o] /\ NewRow(w) = db'[o]
         /\ Bears(db[o], Delivery(w)) /\ db[o].exists
         /\ worker[w].pc \in HandlerOf[Role[w]] \cup {"except", "ack", "deadletter"}
         /\ At(w, "mark") => Role[w] = "coordinator" /\ Bears(db[o], Result(w))
<1>1. TypeOK /\ Role[w] \in Queues /\ RowOf(w) = db[o] /\ NewRow(w) = db'[o]
  BY HeldIs DEF Inv, RowOf, NewRow
<1>2. Delivery(w) \in Messages /\ Delivery(w).order = o
  BY MessagesAre DEF Subject
<1>3. Bears(db[o], Delivery(w)) /\ db[o].exists
  BY <1>2 DEF Borne, Bears
<1>4. worker[w].pc \in HandlerOf[Role[w]] \cup {"except", "ack", "deadletter"}
  BY DEF Fits
<1>5. At(w, "mark") => Role[w] = "coordinator" /\ Bears(db[o], Result(w))
  BY <1>1, <1>4 DEF At, HandlerOf, Queues, Borne
<1> QED
  BY <1>1, <1>3, <1>4, <1>5

\* The rows of an order record what was done to it.
LEMMA RecordedNext ==
  ASSUME Inv, Fits, Routed, [Next]_vars, NEW o \in Orders, Borne(o),
         PastEnsure(o), Recorded(db[o])
  PROVE  Recorded(db'[o])
<1>1. RowOK(db[o])
  BY DEF Inv
<1>2. CASE db'[o] = CreateOrder
  BY <1>2 DEF CreateOrder, NoRow, Recorded, Moved
<1>3. CASE db'[o] = FailWorkflow(db[o], "api")
  BY <1>1, <1>3, TransactionsRecord
<1>4. ASSUME NEW w \in Workers, WorkerMoves(w), Held(w), Subject(w) = o,
             Writes(w, db[o], db'[o])
      PROVE  Recorded(db'[o])
  <2>1. /\ Role[w] \in Queues /\ RowOf(w) = db[o] /\ NewRow(w) = db'[o]
        /\ Bears(db[o], Delivery(w)) /\ db[o].exists
        /\ At(w, "mark") => Role[w] = "coordinator" /\ Bears(db[o], Result(w))
    BY <1>4, WriterReads
  <2>2. CASE MoveToProcessing(w) /\ db'[o] = EnsureProcessing(db[o])
    BY <1>1, <2>2, TransactionsRecord
  <2>3. CASE RecordSuccess(w) /\ db'[o] = RecordStepSuccess(db[o], Role[w])
    <3>1. Role[w] \in Prerequisites /\ worker[w].pc = "act"
      BY <2>3 DEF RecordSuccess, At
    <3>2. Moved(db[o])
      BY <1>4, <3>1 DEF PastEnsure
    <3> QED
      BY <1>1, <2>3, <3>1, <3>2, TransactionsRecord
  <2>4. CASE ConfirmTicket(w) /\ db'[o] = RecordRestaurantConfirmation(db[o])
    <3>1. Role[w] = "restaurant" /\ "restaurant" \in Targets(Delivery(w).key)
      BY <1>4, <2>4 DEF ConfirmTicket, Routed
    <3>2. Delivery(w).key = "order.ready"
      BY <3>1 DEF Targets, Bindings, Queues
    <3>3. "workflow.ready" \in db[o].events
      BY <2>1, <3>2 DEF Bears
    <3> QED
      BY <1>1, <2>4, <3>3, TransactionsRecord
  <2>5. CASE Join(w) /\ db'[o] = PrepareOrderReady(db[o])
    BY <1>1, <2>5, TransactionsRecord
  <2>6. CASE /\ FailOrder(w) /\ Delivery(w).step \in FailedSteps
             /\ db'[o] = FailWorkflow(db[o], Delivery(w).step)
    BY <1>1, <2>6, TransactionsRecord
  <2>7. CASE /\ MarkPublished(w)
             /\ db'[o] = IF Delivery(w).key = "workflow.failed"
                         THEN MarkFailurePublished(db[o]) ELSE MarkReadyPublished(db[o])
    <3>1. Role[w] = "coordinator" /\ Bears(db[o], Result(w))
      BY <2>1, <2>7 DEF MarkPublished
    <3>2. Delivery(w).key = "workflow.failed" => Failed(db[o])
      BY <3>1 DEF Bears, Result, Event, ResultKey
    <3> QED
      BY <1>1, <2>7, <3>2, TransactionsRecord
  <2>8. CASE Notify(w) /\ db'[o] = CompleteOrder(db[o])
    BY <1>1, <2>8, TransactionsRecord
  <2>9. CASE Notify(w) \/ RecordDeliveryFailure(w)
    <3>1. NoticeOfDelivery(w, db[o], db'[o])
      BY <1>4, <2>1, <2>9, NoticesOf
    <3>2. Delivery(w).key = "order.failed" => Failed(db[o])
      BY <2>1 DEF Bears
    <3> QED
      BY <1>1, <2>1, <3>1, <3>2, TransactionsRecord DEF NoticeOfDelivery, Notices
  <2> QED
    BY <1>4, <2>2, <2>3, <2>4, <2>5, <2>6, <2>7, <2>8, <2>9 DEF Writes
<1> QED
  BY <1>2, <1>3, <1>4, WhoWrites DEF WrittenBy

\* A payment or inventory handler comes to its check from ensure_processing().
LEMMA PastEnsureNext ==
  ASSUME Inv, Fits, [Next]_vars, NEW o \in Orders, Borne(o), Recorded(db[o]), PastEnsure(o)
  PROVE  PastEnsure(o)'
<1> SUFFICES ASSUME NEW w \in Workers, Held(w)', Role[w] \in Prerequisites,
                    worker'[w].pc \in {"check", "act"}, worker'[w].msg.order = o
             PROVE  Moved(db'[o])
  BY DEF PastEnsure, Subject, Delivery
<1>1. TypeOK /\ Role[w] \in Queues
  BY HeldIs DEF Inv
<1>2. Moved(db[o]) => Moved(db'[o])
  BY RowsGrow DEF Moved, RowGrows
<1>3. CASE worker'[w] = worker[w]
  BY <1>2, <1>3 DEF PastEnsure, Held, Subject, Delivery
<1>4. CASE WorkerMoves(w)
  <2>1. Held(w)
    <3>1. ~Took(w)
      BY <1>1 DEF Took, Entry, Queues, TypeOK
    <3> QED
      BY <1>4, <3>1, WorkerEffects DEF WorkerMoves
  <2>2. /\ \A pc : Goto(w, pc) => pc \in {"check", "act"} /\ worker'[w].msg = worker[w].msg
        /\ ~Release(w) /\ Subject(w) \in Orders
    BY <1>1, <2>1, HeldIs DEF Goto, Release, Idle, TypeOK, BusyStates
  <2>3. \A row, next : Transaction(w, row, next) =>
          /\ next \in {"check", "act"} /\ worker'[w].msg = worker[w].msg
          /\ db' = [db EXCEPT ![Subject(w)] = row]
    BY <2>2 DEF Transaction
  <2>4. CASE MoveToProcessing(w)
    <3>1. worker'[w].msg = worker[w].msg /\ NewRow(w) = EnsureProcessing(RowOf(w))
      BY <1>1, <2>2, <2>3, <2>4 DEF MoveToProcessing, NewRow, TypeOK
    <3>2. Subject(w) = o
      BY <3>1 DEF Subject, Delivery
    <3>3. /\ db[o].exists /\ db[o] \in Row
          /\ db'[o] = EnsureProcessing(db[o])
      BY <2>1, <3>1, <3>2, WriterReads DEF Inv, TypeOK
    <3>4. CASE db[o].status = "PENDING"
      BY <3>3, <3>4, EnsureProcessingEffect DEF Moved
    <3>5. CASE db[o].status # "PENDING"
      BY <1>2, <3>5 DEF Recorded
    <3> QED
      BY <3>4, <3>5
  <2>5. CASE CheckStepDone(w)
    <3>1. worker'[w].msg = worker[w].msg /\ worker[w].pc = "check"
      BY <2>3, <2>5 DEF CheckStepDone, At
    <3> QED
      BY <1>2, <2>1, <3>1 DEF PastEnsure, Subject, Delivery
  <2>6. CASE Disconnect(w)
    <3>1. worker'[w].msg = worker[w].msg /\ worker'[w].pc = worker[w].pc
      BY <1>1, <2>1, <2>6, HeldIs DEF Disconnect, TypeOK, BusyStates
    <3> QED
      BY <1>2, <2>1, <3>1 DEF PastEnsure, Subject, Delivery
  <2>7. CASE GateOnFailure(w)
    BY <1>1, <2>1, <2>7 DEF GateOnFailure, Fits, At, HandlerOf
  <2> QED
    BY <1>1, <1>4, <2>1, <2>2, <2>3, <2>4, <2>5, <2>6, <2>7, HeldIs
    DEF WorkerMoves, WorkerStep, Deliver, Decline, Emit, RecordSuccess, ConfirmTicket,
        Join, FailOrder, MarkPublished, Notify, Ack, Retry, Exhaust,
        RecordDeliveryFailure, DeadLetter, Exit, Crash
<1> QED
  BY <1>3, <1>4, StepBy, OthersStay, RequestStores DEF vars

\* Who adds a step, and one of three events, to a row.
LEMMA StaffedNext ==
  ASSUME Inv, Fits, [Next]_vars, NEW o \in Orders, Borne(o), Staffed(db[o])
  PROVE  Staffed(db'[o])
<1>1. RowOK(db[o])
  BY DEF Inv
<1>2. CASE db'[o] = CreateOrder
  BY <1>2 DEF CreateOrder, NoRow, Staffed
<1>3. CASE db'[o] = FailWorkflow(db[o], "api")
  BY <1>1, <1>3, DoneAndFailed, EventsAdded, CompensationKeys DEF Staffed
<1>4. ASSUME NEW w \in Workers, WorkerMoves(w), Held(w), Subject(w) = o,
             Writes(w, db[o], db'[o])
      PROVE  Staffed(db'[o])
  <2>1. /\ Role[w] \in Queues
        /\ worker[w].pc \in HandlerOf[Role[w]] \cup {"except", "ack", "deadletter"}
        /\ Exists(Role[w])
    BY <1>4, WriterReads DEF Exists
  <2>2. ASSUME db'[o].done \subseteq db[o].done \cup {Role[w]},
               "workflow.ready" \in db'[o].events =>
                 "workflow.ready" \in db[o].events \/ Role[w] = "coordinator",
               "notification.success" \in db'[o].events =>
                 "notification.success" \in db[o].events \/ Role[w] = "notification"
        PROVE  Staffed(db'[o])
    BY <2>1, <2>2 DEF Staffed
  <2>3. CASE MoveToProcessing(w) /\ db'[o] = EnsureProcessing(db[o])
    BY <1>1, <2>2, <2>3, DoneAndFailed, EventsAdded
  <2>4. CASE RecordSuccess(w) /\ db'[o] = RecordStepSuccess(db[o], Role[w])
    <3>1. Role[w] \in Prerequisites
      BY <2>4 DEF RecordSuccess
    <3> QED
      BY <1>1, <2>2, <2>4, <3>1, DoneAndFailed, EventsAdded, CompensationKeys, StepKeys
  <2>5. CASE ConfirmTicket(w) /\ db'[o] = RecordRestaurantConfirmation(db[o])
    <3>1. Role[w] = "restaurant"
      BY <2>5 DEF ConfirmTicket
    <3> QED
      BY <1>1, <2>2, <2>5, <3>1, DoneAndFailed, EventsAdded, StepKeys
  <2>6. CASE Join(w) /\ db'[o] = PrepareOrderReady(db[o])
    <3>1. Role[w] = "coordinator"
      BY <2>1, <2>6 DEF Join, At, HandlerOf, Queues
    <3> QED
      BY <1>1, <2>2, <2>6, <3>1, DoneAndFailed, EventsAdded
  <2>7. CASE /\ FailOrder(w) /\ Delivery(w).step \in FailedSteps
             /\ db'[o] = FailWorkflow(db[o], Delivery(w).step)
    BY <1>1, <2>2, <2>7, DoneAndFailed, EventsAdded, CompensationKeys
  <2>8. CASE db'[o] \in {MarkReadyPublished(db[o]), MarkFailurePublished(db[o])}
    BY <1>1, <2>2, <2>8, DoneAndFailed, EventsAdded
  <2>9. CASE Notify(w) /\ db'[o] = CompleteOrder(db[o])
    <3>1. Role[w] = "notification"
      BY <2>1, <2>9 DEF Notify, At, HandlerOf, Queues
    <3> QED
      BY <1>1, <2>2, <2>9, <3>1, DoneAndFailed, EventsAdded
  <2>10. CASE \E key \in Notices : db'[o] = AddEventOnce(db[o], key)
    BY <1>1, <2>2, <2>10, DoneAndFailed, EventsAdded DEF Notices
  <2> QED
    BY <1>4, <2>3, <2>4, <2>5, <2>6, <2>7, <2>8, <2>9, <2>10 DEF Writes
<1> QED
  BY <1>2, <1>3, <1>4, WhoWrites DEF WrittenBy

-----------------------------------------------------------------------------
(***************************************************************************)
(* The receipt, and the deliveries that are given up.                      *)
(***************************************************************************)
\* The receipt of an order is retried until it is recorded.
LEMMA ReceiptedNext ==
  ASSUME Inv, Fits, [Next]_vars, NEW o \in Orders, Borne(o), Receipted(o)
  PROVE  Receipted(o)'
<1>1. RowGrows(db[o], db'[o]) /\ RowOK(db[o])
  BY RowsGrow
<1>2. CASE "notification.received" \in db[o].events
  BY <1>1, <1>2 DEF RowGrows, Receipted
<1>3. CASE OnTheWay("notification", o, "order.created")
  <2>1. ASSUME NEW w \in Workers, WorkerMoves(w), Owns(w), Role[w] = "notification",
               Settles(w), Subject(w) = o, Delivery(w).key = "order.created"
        PROVE  "notification.received" \in db'[o].events
    <3>1. Held(w) /\ RowOf(w) = db[o] /\ db[o].exists
      BY <2>1, WriterReads DEF Owns
    <3>2. db'[o] = AddEventOnce(db[o], "notification.received")
      BY <2>1, <3>1, Settlements DEF Sent, Refused, Decided, Notified, NewRow
    <3> QED
      BY <1>1, <3>2, EventsAdded DEF Notices
  <2> QED
    BY <1>3, <2>1, OnTheWayStays DEF Receipted, Queues
<1> QED
  BY <1>2, <1>3 DEF Receipted

\* A request is accepted when its order.created is in the notification queue too.
LEMMA AcceptedIsReceipted ==
  ASSUME Inv, [Next]_vars, NEW o \in Orders, api[o] # "accepted", api'[o] = "accepted"
  PROVE  Receipted(o)'
<1> DEFINE created == Event("order.created", o)
<1>1. created.key = "order.created" /\ created.order = o
  BY DEF Event
<1>2. queues' = Stored(queues, Targets(created.key), created)
  BY AcceptedIsDriven DEF ApiPublish, ApiGoto, Inv, TypeOK
<1>3. created \in Kept("notification")'
  BY <1>1, <1>2, Routes, StoredHas, KeptIs DEF Ready, Queues
<1> QED
  BY <1>1, <1>3 DEF Receipted, OnTheWay

\* A step that spends a fault takes one of at most MaxFaults.
LEMMA SpendsOne ==
  ASSUME Inv, faults <= MaxFaults, NEW kind, Spend(kind)
  PROVE  kind \in FaultKinds /\ faults # 0 /\ (MaxFaults <= 1 => faults' = 0)
  BY FaultAssumption DEF Spend, Inv, TypeOK

\* Only a dropped connection takes the channel from a handler.
LEMMA UpStays ==
  ASSUME Inv, NEW w \in Workers, WorkerMoves(w), Held(w), Held(w)'
  PROVE  \/ worker'[w].up = worker[w].up /\ ~Disconnect(w)
         \/ /\ Disconnect(w) /\ Spend("disconnect")
            /\ ~worker'[w].up /\ worker'[w].pc = worker[w].pc
<1>1. TypeOK
  BY DEF Inv
<1>2. CASE Disconnect(w)
  BY <1>1, <1>2, HeldIs DEF Disconnect, TypeOK, BusyStates
<1>3. ASSUME ~Disconnect(w), NEW pc, Goto(w, pc)
      PROVE  worker'[w].up = worker[w].up
  BY <1>1, <1>3, HeldIs DEF Goto, TypeOK, BusyStates
<1>4. ~Release(w)
  BY <1>1 DEF Release, Held, TypeOK
<1> QED
  BY <1>1, <1>2, <1>3, <1>4, HeldIs
  DEF WorkerMoves, WorkerStep, Transaction, Deliver, MoveToProcessing, CheckStepDone,
      Decline, RecordSuccess, GateOnFailure, ConfirmTicket, Join, FailOrder,
      MarkPublished, Emit, Notify, Ack, Retry, Exhaust, RecordDeliveryFailure,
      DeadLetter, Exit, Crash

\* The handler of a notification fails only with the database.
LEMMA NoticeFails ==
  ASSUME Inv, Fits, NEW w \in Workers, WorkerMoves(w), Held(w), RowOf(w).exists,
         Role[w] = "notification", worker'[w].pc \in {"except", "deadletter"}
  PROVE  worker[w].pc \in {"except", "deadletter"} \/ Spend("db")
<1> SUFFICES ASSUME worker[w].pc \notin {"except", "deadletter"}
             PROVE  Spend("db")
  OBVIOUS
<1>1. /\ TypeOK /\ worker[w].pc \in {"notify", "ack"}
      /\ \A pc : Goto(w, pc) => pc \in {"except", "deadletter"}
      /\ ~Release(w)
  BY HeldIs DEF Inv, TypeOK, Goto, Release, Idle, BusyStates, Fits, HandlerOf
<1>2. CASE Notify(w)
  <2>1. ~Goto(w, "ack")
    BY <1>1
  <2> QED
    BY <1>2, <2>1 DEF Notify, Transaction
<1>3. CASE Disconnect(w)
  BY <1>1, <1>3, HeldIs DEF Disconnect, TypeOK, BusyStates
<1> QED
  BY <1>1, <1>2, <1>3, HeldIs
  DEF WorkerMoves, WorkerStep, At, Deliver, MoveToProcessing, CheckStepDone,
      Decline, RecordSuccess, GateOnFailure, ConfirmTicket, Join, FailOrder,
      MarkPublished, Emit, Ack, Retry, Exhaust, RecordDeliveryFailure,
      DeadLetter, Exit, Crash

\* A notification worker that gives a delivery up keeps it until it is dead-lettered.
LEMMA GivingUpIsLastNext ==
  ASSUME Inv, Fits, RecordsApart, faults <= MaxFaults, [Next]_vars,
         \A o \in Orders : Borne(o), GivingUpIsLast
  PROVE  GivingUpIsLast'
<1> SUFFICES ASSUME NEW w \in Workers, Held(w)'
             PROVE  /\ ~worker'[w].up => /\ "disconnect" \in FaultKinds
                                         /\ faults' = 0 \/ "db" \notin FaultKinds
                    /\ Role[w] = "notification" /\ worker'[w].pc \in {"except", "deadletter"} =>
                         /\ worker'[w].up
                         /\ faults' = 0 \/ FaultKinds \cap {"crash", "disconnect"} = {}
  BY DEF GivingUpIsLast
<1>1. TypeOK /\ (faults = 0 => faults' = 0)
  BY FaultsSpent DEF Inv
<1>2. CASE worker'[w] = worker[w]
  BY <1>1, <1>2 DEF GivingUpIsLast, Held
<1>3. CASE WorkerMoves(w) /\ Took(w)
  BY <1>1, <1>3, HeldIs DEF Took, Entry, TypeOK, Queues
<1>4. CASE WorkerMoves(w) /\ Held(w)
  <2>1. CASE Disconnect(w) /\ Spend("disconnect") /\ ~worker'[w].up /\ worker'[w].pc = worker[w].pc
    <3>1. /\ "disconnect" \in FaultKinds /\ faults # 0
          /\ MaxFaults <= 1 => faults' = 0
      BY <2>1, SpendsOne
    <3> QED
      BY <1>4, <2>1, <3>1 DEF GivingUpIsLast, RecordsApart
  <2>2. CASE worker'[w].up = worker[w].up
    <3>1. ~worker'[w].up => /\ "disconnect" \in FaultKinds
                            /\ faults' = 0 \/ "db" \notin FaultKinds
      BY <1>1, <1>4, <2>2 DEF GivingUpIsLast
    <3>2. ASSUME Role[w] = "notification", worker'[w].pc \in {"except", "deadletter"}
          PROVE  /\ worker'[w].up
                 /\ faults' = 0 \/ FaultKinds \cap {"crash", "disconnect"} = {}
      <4>1. CASE worker[w].pc \in {"except", "deadletter"}
        BY <1>1, <1>4, <2>2, <3>2, <4>1 DEF GivingUpIsLast
      <4>2. CASE Spend("db")
        <5>1. "db" \in FaultKinds /\ faults # 0 /\ (MaxFaults <= 1 => faults' = 0)
          BY <4>2, SpendsOne
        <5> QED
          BY <1>4, <2>2, <5>1 DEF GivingUpIsLast, RecordsApart
      <4>3. RowOf(w).exists
        BY <1>1, <1>4, HeldIs, WriterReads
      <4> QED
        BY <1>4, <3>2, <4>1, <4>2, <4>3, NoticeFails
    <3> QED
      BY <3>1, <3>2
  <2> QED
    BY <1>4, <2>1, <2>2, UpStays
<1> QED
  BY <1>2, <1>3, <1>4, StepBy, OthersStay, RequestStores, WorkerEffects DEF WorkerMoves, vars

\* A delivery that was given up is dead-lettered.
LEMMA UndeliveredStays ==
  ASSUME Inv, [Next]_vars, GivingUpIsLast, NEW o \in Orders, Undelivered(o)
  PROVE  Undelivered(o)'
<1>1. TypeOK
  BY DEF Inv
<1>2. DeadLetters \subseteq DeadLetters'
  <2>1. ASSUME NEW w \in Workers, WorkerMoves(w)
        PROVE  DeadLetters \subseteq DeadLetters'
    BY <2>1, WorkerEffects DEF WorkerMoves, Took, Advanced, LetGo, CutOff, DeadLetters
  <2> QED
    BY <2>1, StepBy, RequestStores DEF vars, DeadLetters
<1>3. CASE \E m \in DeadLetters : m.order = o
  BY <1>2, <1>3 DEF Undelivered
<1>4. ASSUME NEW w \in Workers, Role[w] = "notification", At(w, "deadletter"),
             Subject(w) = o
      PROVE  Undelivered(o)'
  <2>1. /\ Held(w) /\ worker[w].up
        /\ faults = 0 \/ FaultKinds \cap {"crash", "disconnect"} = {}
    BY <1>1, <1>4, HeldIs DEF GivingUpIsLast, At
  <2>2. CASE worker'[w] = worker[w]
    BY <1>4, <2>2 DEF Undelivered, At, Subject, Delivery
  <2>3. CASE WorkerMoves(w)
    <3>1. ~Crash(w) /\ ~Disconnect(w) /\ ~Exit(w)
      BY <1>1, <2>1 DEF Crash, Disconnect, Exit, Spend, TypeOK
    <3>2. DeadLetter(w)
      BY <1>4, <2>3, <3>1
      DEF WorkerMoves, WorkerStep, At, Deliver, MoveToProcessing, CheckStepDone,
          Decline, RecordSuccess, GateOnFailure, ConfirmTicket, Join, FailOrder,
          MarkPublished, Emit, Notify, Ack, Retry, Exhaust, RecordDeliveryFailure
    <3>3. Delivery(w) \in DeadLetters'
      BY <3>2, BagAddHas DEF DeadLetter, DeadLetters
    <3> QED
      BY <1>4, <3>3 DEF Undelivered, Subject
  <2> QED
    BY <2>2, <2>3, StepBy, OthersStay, RequestStores DEF vars
<1> QED
  BY <1>3, <1>4 DEF Undelivered

\* Only a notification worker that gives its delivery up records that.
LEMMA UndeliveredNext ==
  ASSUME Inv, Fits, [Next]_vars, GivingUpIsLast, NEW o \in Orders, Borne(o),
         "notification.delivery_failed" \in db[o].events => Undelivered(o),
         "notification.delivery_failed" \in db'[o].events
  PROVE  Undelivered(o)'
<1>1. RowOK(db[o]) /\ TypeOK
  BY DEF Inv
<1>2. CASE "notification.delivery_failed" \in db[o].events
  BY <1>2, UndeliveredStays
<1>3. CASE "notification.delivery_failed" \notin db[o].events
  <2>1. db'[o] # CreateOrder
    <3>1. CreateOrder.events = {"order.accepted"}
      BY DEF CreateOrder, NoRow
    <3> QED
      BY <3>1
  <2>2. db'[o] # FailWorkflow(db[o], "api")
    BY <1>1, <1>3, EventsAdded, CompensationKeys DEF Notices
  <2>3. PICK w \in Workers : /\ WorkerMoves(w) /\ Held(w) /\ Subject(w) = o
                             /\ Writes(w, db[o], db'[o])
    BY <1>3, <2>1, <2>2, WhoWrites DEF WrittenBy
  <2>4. Notify(w) \/ RecordDeliveryFailure(w)
    BY <1>1, <1>3, <2>3, EventsAdded, CompensationKeys, StepKeys
    DEF Writes, RecordSuccess, Notices
  <2>5. /\ Role[w] \in Queues /\ RowOf(w) = db[o] /\ NewRow(w) = db'[o]
        /\ worker[w] \in BusyStates
    BY <1>1, <2>3, WriterReads, HeldIs
  <2>6. NoticeOfDelivery(w, db[o], db'[o])
    BY <2>3, <2>4, <2>5, NoticesOf
  <2>7. RecordDeliveryFailure(w)
    BY <1>1, <1>3, <2>6, EventsAdded DEF NoticeOfDelivery, Notices
  <2>8. /\ Role[w] = "notification" /\ worker'[w].pc = "deadletter"
        /\ worker'[w].msg = worker[w].msg
    BY <1>1, <2>5, <2>7 DEF RecordDeliveryFailure, Critical, Goto, TypeOK, BusyStates
  <2> QED
    BY <2>3, <2>8 DEF Undelivered, At, Subject, Delivery
<1> QED
  BY <1>2, <1>3

\* RecordOf is inductive.
LEMMA RecordOfNext ==
  ASSUME Inv, Fits, Routed, [Next]_vars, GivingUpIsLast,
         NEW o \in Orders, Borne(o), RecordOf(o)
  PROVE  RecordOf(o)'
<1>1. ASSUME api'[o] = "accepted"
      PROVE  Driven(o)' /\ Receipted(o)'
  <2>1. CASE api[o] = "accepted"
    BY <2>1, DrivenNext, ReceiptedNext DEF RecordOf
  <2>2. CASE api[o] # "accepted"
    <3>1. Driven(o)'
      BY <1>1, <2>2, AcceptedIsDriven DEF Driven, Joining
    <3> QED
      BY <1>1, <2>2, <3>1, AcceptedIsReceipted
  <2> QED
    BY <2>1, <2>2
<1>2. Recorded(db'[o]) /\ PastEnsure(o)' /\ Staffed(db'[o])
  BY RecordedNext, PastEnsureNext, StaffedNext DEF RecordOf
<1>3. "notification.delivery_failed" \in db'[o].events => Undelivered(o)'
  BY UndeliveredNext DEF RecordOf
<1> QED
  BY <1>1, <1>2, <1>3 DEF RecordOf

-----------------------------------------------------------------------------
(***************************************************************************)
(* At rest.                                                                *)
(***************************************************************************)
\* What has a worker is handled.
LEMMA RestingQueues ==
  ASSUME Quiescent, NEW q \in Queues, Exists(q)
  PROVE  /\ \A m : m \notin Live(q)
         /\ \A o : LiveKeys(q, o) = {}
<1>1. Ready(q) = {}
  BY DEF Exists, Quiescent, Ready, BagToSet, EmptyBag, SetToBag
<1>2. \A w \in Workers : ~Pursues(w)
  BY DEF Quiescent, Pursues, Held
<1>3. \A m : m \notin Live(q)
  BY <1>1, <1>2, LiveIs
<1> QED
  BY <1>3 DEF LiveKeys

\* Nothing comes to rest with an accepted order whose customer was not told its end,
\* unless the message that would have told him is in the dead-letter queue.
RestDecides ==
  Quiescent =>
    \A o \in Orders :
      api[o] = "accepted" =>
        \/ db[o].events \cap {"notification.success", "notification.failed_order"} # {}
        \/ DeadKeys(o) \cap {"order.ready", "order.confirmed", "order.failed"} # {}

\* The part of CustomersHearTheEnd that needs no fairness: the workers do not all wait
\* for each other while a customer waits for them.  Any number of faults, of any kind.
THEOREM RestIsTheEnd ==
  ASSUME OneOf("restaurant"), OneOf("coordinator"), \A q \in Queues : Exists(q)
  PROVE  Spec => []RestDecides
<1>1. Inv /\ NeverSilentlyLost /\ FailureReachesCustomer => RestDecides
  <2> SUFFICES ASSUME Inv, FailureReachesCustomer, Quiescent,
                      NEW o \in Orders, api[o] = "accepted", Cared(o),
                      "notification.success" \notin db[o].events,
                      "notification.failed_order" \notin db[o].events
               PROVE  DeadKeys(o) \cap {"order.ready", "order.confirmed", "order.failed"} # {}
    BY DEF RestDecides, NeverSilentlyLost, Entrusted
  <2>1. /\ \A q \in Queues : LiveKeys(q, o) = {}
        /\ ~Failing(o)
    BY RestingQueues DEF Failing, Queues
  <2>2. ~Advancing(o)
    BY <2>1 DEF Advancing, Queues
  <2>3. CASE Terminal(o)
    <3>1. Failed(db[o])
      BY <2>3 DEF Terminal, Inv, RowOK
    <3>2. \A w \in Workers : ~Pursues(w)
      BY DEF Quiescent, Pursues, Held
    <3> QED
      BY <2>1, <3>1, <3>2 DEF FailureReachesCustomer, Queues
  <2> QED
    BY <2>1, <2>2, <2>3 DEF Cared
<1> QED
  BY <1>1, Invariance, NothingLost, FailuresAreTold, PTL

\* An accepted order that is over when everything has come to rest has the row of an
\* order that met no trouble.
LEMMA RestingRow ==
  ASSUME Inv, Quiescent, NEW o \in Orders, RecordOf(o), api[o] = "accepted",
         db[o].status = "COMPLETED", DeadKeys(o) = {}
  PROVE  db[o] = DeliveredRow
<1> DEFINE r == db[o]
<1>1. /\ r \in Row /\ r.exists /\ r.done = Steps /\ ~Failed(r)
      /\ "notification.success" \in r.events
      /\ \A s \in Prerequisites : Compensation[s] \notin r.events
  <2>1. RowOK(r)
    BY DEF Inv
  <2>2. r # NoRow
    BY DEF NoRow
  <2>3. r.done \subseteq Steps
    BY <2>1 DEF RowOK, Row
  <2> QED
    BY <2>1, <2>2, <2>3 DEF RowOK
<1>2. /\ Recorded(r) /\ Staffed(r)
      /\ "notification.delivery_failed" \in r.events => Undelivered(o)
      /\ Driven(o) /\ Receipted(o)
  BY DEF RecordOf
<1>3. /\ "workflow.ready" \in r.events
      /\ \A s \in Steps : Exists(s)
      /\ Exists("coordinator") /\ Exists("notification")
  BY <1>1, <1>2 DEF Recorded, Staffed
<1>4. ASSUME NEW q \in Queues, Exists(q)
      PROVE  \A m : m \notin Live(q)
  BY <1>4, RestingQueues
<1>5. r.readyPublished
  BY <1>1, <1>2, <1>3, <1>4 DEF Driven, Superseded, Stopping, Joining, Expected, Queues
<1>6. "notification.received" \in r.events
  <2>1. ~OnTheWay("notification", o, "order.created")
    BY <1>3, <1>4, KeptIsLiveOrDead, LiveKeysAre DEF Expected, Queues
  <2> QED
    BY <1>2, <2>1 DEF Receipted
<1>7. "notification.delivery_failed" \notin r.events
  <2>1. \A w \in Workers : ~At(w, "deadletter")
    BY DEF Quiescent, Idle, At
  <2>2. \A m \in DeadLetters : m.order # o
    BY DEF DeadKeys, Dead, DeadLetters
  <2> QED
    BY <1>2, <2>1, <2>2 DEF Undelivered
<1>8. ~r.failurePublished /\ {"workflow.failed", "notification.failed_order"} \cap r.events = {}
  BY <1>1, <1>2 DEF Recorded
<1>9. r.events = DeliveredRow.events
  <2>1. DeliveredRow.events =
          {StepSucceeded[s] : s \in Steps}
            \cup {"order.accepted", "workflow.processing", "workflow.ready",
                  "workflow.confirmed", "workflow.completed",
                  "notification.received", "notification.success"}
    BY DEF DeliveredRow
  <2>2. r.events \subseteq EventKeys
    BY <1>1 DEF Row
  <2>3. /\ "order.accepted" \in r.events /\ "workflow.processing" \in r.events
        /\ {"workflow.ready", "workflow.confirmed"} \subseteq r.events
        /\ "workflow.completed" \in r.events
        /\ \A s \in Steps : StepSucceeded[s] \in r.events
    BY <1>1, <1>2 DEF Recorded, Moved
  <2> HIDE DEF r
  <2>4. DeliveredRow.events \subseteq r.events
    BY <1>1, <1>6, <2>1, <2>3
  <2>5. r.events \subseteq DeliveredRow.events
    BY <1>1, <1>7, <1>8, <2>1, <2>2 DEF EventKeys
  <2> QED
    BY <2>4, <2>5
<1>10. /\ DeliveredRow \in [exists : BOOLEAN, status : Statuses, done : SUBSET Steps,
                            readyPublished : BOOLEAN, failurePublished : BOOLEAN,
                            failedStep : FailedSteps \cup {NoStep},
                            events : {DeliveredRow.events}]
       /\ DeliveredRow.exists /\ DeliveredRow.status = "COMPLETED"
       /\ DeliveredRow.done = Steps /\ DeliveredRow.readyPublished
       /\ ~DeliveredRow.failurePublished /\ DeliveredRow.failedStep = NoStep
  BY DEF DeliveredRow
<1> QED
  BY <1>1, <1>5, <1>8, <1>9, <1>10 DEF Row

\* Whatever is retried, redelivered or delivered twice, and in whatever order: when
\* everything has come to rest, a completed order whose messages were all handled has
\* the row of an order that met no trouble.  In a behaviour with two faults a handler may
\* record that a notification is given up and lose the delivery before it is
\* dead-lettered, hence RecordsApart.
THEOREM CompletedAlike ==
  ASSUME RecordsApart
  PROVE  Spec => []CompletedOrdersAlike
<1> DEFINE AllBorne == \A o \in Orders : Borne(o)
           AllRecorded == /\ faults <= MaxFaults
                          /\ Routed /\ GivingUpIsLast /\ \A o \in Orders : RecordOf(o)
<1>1. Init => AllRecorded
  <2> SUFFICES ASSUME Init PROVE AllRecorded
    OBVIOUS
  <2>1. \A w \in Workers : ~Held(w)
    BY DEF Init, Held
  <2>2. \A q \in Queues : Ready(q) = {}
    BY DEF Init, Ready, BagToSet, EmptyBag, SetToBag
  <2>3. Routed /\ GivingUpIsLast
    BY <2>1, <2>2 DEF Routed, GivingUpIsLast
  <2> QED
    BY <2>1, <2>3, FaultAssumption
    DEF Init, RecordOf, Recorded, Moved, PastEnsure, Staffed, NoRow
<1>2. Inv /\ Fits /\ AllBorne /\ AllRecorded /\ [Next]_vars => AllRecorded'
  <2> SUFFICES ASSUME Inv, Fits, AllBorne, AllRecorded, [Next]_vars
               PROVE  AllRecorded'
    OBVIOUS
  <2>1. faults' <= MaxFaults
    BY FaultsSpent, FaultAssumption
  <2>2. Routed' /\ GivingUpIsLast'
    BY RoutedNext, GivingUpIsLastNext
  <2>3. \A o \in Orders : RecordOf(o)'
    BY RecordOfNext
  <2> QED
    BY <2>1, <2>2, <2>3
<1>3. Inv /\ AllRecorded => CompletedOrdersAlike
  BY RestingRow DEF CompletedOrdersAlike
<1> QED
  BY <1>1, <1>2, <1>3, Invariance, MessageInvariance, PTL DEF Spec

=============================================================================
