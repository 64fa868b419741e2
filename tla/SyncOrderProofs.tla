--------------------------- MODULE SyncOrderProofs ---------------------------
(***************************************************************************)
(* POST /orders/sync, for any number of requests, database errors, crashes *)
(* and resets.                                                             *)
(*                                                                         *)
(* The pc of a request that goes on determines the row of its order: the   *)
(* row that the calls so far build from nothing (Built), unless a reset    *)
(* took it away.  Where the last call leaves off is DeliveredRow.  A       *)
(* request that was cut off leaves one of these rows.                      *)
(***************************************************************************)
EXTENDS SyncOrder, TLAPS

Received == {"order.accepted", "notification.received"}

Processed == Received \cup {"workflow.processing"}

Charged == Processed \cup {StepSucceeded["payment"]}

Reserved == Charged \cup {StepSucceeded["inventory"]}

Ready == Reserved \cup {"workflow.ready"}

Confirmed == Ready \cup {"workflow.confirmed", StepSucceeded["restaurant"]}

Completed == Confirmed \cup {"notification.success", "workflow.completed"}

Has(r, status, done, marked, events) ==
  /\ r.exists = TRUE
  /\ r.status = status
  /\ r.done = done
  /\ r.readyPublished = marked
  /\ r.failurePublished = FALSE
  /\ r.failedStep = NoStep
  /\ r.events = events

\* The row before the call that pc names, and after the last.
Built(r, pc) ==
  /\ pc = "received"   => Has(r, "PENDING", {}, FALSE, {"order.accepted"})
  /\ pc = "processing" => Has(r, "PENDING", {}, FALSE, Received)
  /\ pc = "payment"    => Has(r, "PROCESSING", {}, FALSE, Processed)
  /\ pc = "inventory"  => Has(r, "PROCESSING", {"payment"}, FALSE, Charged)
  /\ pc = "prepare"    => Has(r, "PROCESSING", Prerequisites, FALSE, Reserved)
  /\ pc = "mark"       => Has(r, "READY", Prerequisites, FALSE, Ready)
  /\ pc = "restaurant" => Has(r, "READY", Prerequisites, TRUE, Ready)
  /\ pc = "complete"   => Has(r, "CONFIRMED", Steps, TRUE, Confirmed)
  /\ pc = "200"        => Has(r, "COMPLETED", Steps, TRUE, Completed)

Stages == Running \cup {"200"}

OrderOK(r, pc) ==
  /\ r \in Row
  /\ r.exists \/ r = NoRow
  /\ pc = "new" => r = NoRow
  /\ r.exists => \E q \in Stages : Built(r, q) /\ (pc \in Stages => q = pc)

Inv ==
  /\ db \in [Orders -> Row]
  /\ request \in [Orders -> Running \cup Ended \cup {"new"}]
  /\ \A o \in Orders : OrderOK(db[o], request[o])

-----------------------------------------------------------------------------
\* An order without rows is a Row that does not exist.
LEMMA NoRowTyped == NoRow \in Row /\ ~NoRow.exists
BY DEF NoRow, Row, Statuses, NoStep

\* No transaction but the first makes a row where there is none.
LEMMA NoRowStays ==
  /\ EnsureProcessing(NoRow) = NoRow
  /\ \A s \in Prerequisites : RecordStepSuccess(NoRow, s) = NoRow
  /\ PrepareOrderReady(NoRow) = NoRow
  /\ MarkReadyPublished(NoRow) = NoRow
  /\ RecordRestaurantConfirmation(NoRow) = NoRow
  /\ CompleteOrder(NoRow) = NoRow
BY NoRowTyped
DEF EnsureProcessing, RecordStepSuccess, PrepareOrderReady, Joined, MarkReadyPublished,
    RecordRestaurantConfirmation, ConfirmAccepted, CompleteOrder, CompleteAccepted

\* Each transaction takes the row before its call to the row before the next.
LEMMA BuiltByCreate ==
  CreateOrder \in Row /\ CreateOrder.exists /\ Built(CreateOrder, "received")
BY DEF CreateOrder, NoRow, NoStep, Row, Statuses, EventKeys, Built, Has

\* The receipt of the notification.
LEMMA BuiltByReceive ==
  ASSUME NEW r \in Row, r.exists, Built(r, "received")
  PROVE  LET new == AddEventOnce(r, "notification.received")
         IN  new \in Row /\ new.exists /\ Built(new, "processing")
BY DEF AddEventOnce, Received, Row, EventKeys, Built, Has

\* ensure_processing of a PENDING order.
LEMMA BuiltByProcess ==
  ASSUME NEW r \in Row, r.exists, Built(r, "processing")
  PROVE  LET new == EnsureProcessing(r)
         IN  new \in Row /\ new.exists /\ Built(new, "payment")
BY DEF EnsureProcessing, Processed, Statuses, Row, EventKeys, Built, Has

\* The first step: the payment alone is done.
LEMMA BuiltByCharge ==
  ASSUME NEW r \in Row, r.exists, Built(r, "payment")
  PROVE  LET new == RecordStepSuccess(r, "payment")
         IN  new \in Row /\ new.exists /\ Built(new, "inventory")
<1>1. r.done = {} /\ r.failedStep = NoStep /\ r.status = "PROCESSING"
  BY DEF Built, Has
<1>2. RecordStepSuccess(r, "payment") =
        [r EXCEPT !.done = @ \cup {"payment"},
                  !.events = @ \cup {StepSucceeded["payment"]}]
  BY <1>1 DEF RecordStepSuccess, Failed
<1> DEFINE new == RecordStepSuccess(r, "payment")
<1>3. StepSucceeded["payment"] \in EventKeys /\ "payment" \in Steps
  BY DEF StepSucceeded, EventKeys, Steps, Prerequisites
<1>4. /\ new.exists = r.exists /\ new.status = r.status
      /\ new.done = r.done \cup {"payment"}
      /\ new.events = r.events \cup {StepSucceeded["payment"]}
      /\ new.readyPublished = r.readyPublished
      /\ new.failurePublished = r.failurePublished /\ new.failedStep = r.failedStep
  BY <1>2 DEF Row
<1>5. new \in Row
  <2>1. /\ r.events \cup {StepSucceeded["payment"]} \subseteq EventKeys
        /\ r.done \cup {"payment"} \subseteq Steps
    BY <1>3 DEF Row
  <2> QED
    BY <1>2, <2>1 DEF Row
<1> HIDE DEF new
<1>6. Built(new, "inventory")
  BY <1>1, <1>4 DEF Charged, Steps, Prerequisites, StepSucceeded, Built, Has
<1> QED
  BY <1>4, <1>5, <1>6 DEF new

\* The second step completes the prerequisites.
LEMMA BuiltByReserve ==
  ASSUME NEW r \in Row, r.exists, Built(r, "inventory")
  PROVE  LET new == RecordStepSuccess(r, "inventory")
         IN  new \in Row /\ new.exists /\ Built(new, "prepare")
<1>1. r.done = {"payment"} /\ r.failedStep = NoStep /\ r.status = "PROCESSING"
  BY DEF Built, Has
<1>2. RecordStepSuccess(r, "inventory") =
        [r EXCEPT !.done = @ \cup {"inventory"},
                  !.events = @ \cup {StepSucceeded["inventory"]}]
  BY <1>1 DEF RecordStepSuccess, Failed
<1> DEFINE new == RecordStepSuccess(r, "inventory")
<1>3. StepSucceeded["inventory"] \in EventKeys /\ "inventory" \in Steps
  BY DEF StepSucceeded, EventKeys, Steps, Prerequisites
<1>4. /\ new.exists = r.exists /\ new.status = r.status
      /\ new.done = r.done \cup {"inventory"}
      /\ new.events = r.events \cup {StepSucceeded["inventory"]}
      /\ new.readyPublished = r.readyPublished
      /\ new.failurePublished = r.failurePublished /\ new.failedStep = r.failedStep
  BY <1>2 DEF Row
<1>5. new \in Row
  <2>1. /\ r.events \cup {StepSucceeded["inventory"]} \subseteq EventKeys
        /\ r.done \cup {"inventory"} \subseteq Steps
    BY <1>3 DEF Row
  <2> QED
    BY <1>2, <2>1 DEF Row
<1> HIDE DEF new
<1>6. Built(new, "prepare")
  BY <1>1, <1>4 DEF Reserved, Steps, Prerequisites, StepSucceeded, Built, Has
<1> QED
  BY <1>4, <1>5, <1>6 DEF new

\* The join finds both prerequisites and no failure.
LEMMA BuiltByPrepare ==
  ASSUME NEW r \in Row, r.exists, Built(r, "prepare")
  PROVE  LET new == PrepareOrderReady(r)
         IN  new \in Row /\ new.exists /\ Built(new, "mark")
BY DEF PrepareOrderReady, Joined, Failed, Ready, Statuses, Row, EventKeys,
       Built, Has

\* The mark changes no status.
LEMMA BuiltByMark ==
  ASSUME NEW r \in Row, r.exists, Built(r, "mark")
  PROVE  LET new == MarkReadyPublished(r)
         IN  new \in Row /\ new.exists /\ Built(new, "restaurant")
BY DEF MarkReadyPublished, Row, EventKeys, Built, Has

\* The restaurant's gate accepts.
LEMMA BuiltByConfirm ==
  ASSUME NEW r \in Row, r.exists, Built(r, "restaurant")
  PROVE  LET new == RecordRestaurantConfirmation(r)
         IN  new \in Row /\ new.exists /\ Built(new, "complete")
<1>1. r.done = Prerequisites /\ r.failedStep = NoStep /\ r.status = "READY"
  BY DEF Built, Has
<1>2. RecordRestaurantConfirmation(r) =
        [r EXCEPT !.done = @ \cup {"restaurant"}, !.status = "CONFIRMED",
                  !.events = @ \cup {StepSucceeded["restaurant"], "workflow.confirmed"}]
  BY <1>1 DEF RecordRestaurantConfirmation, ConfirmAccepted, Failed, Prerequisites
<1> DEFINE new == RecordRestaurantConfirmation(r)
<1>3. {StepSucceeded["restaurant"], "workflow.confirmed"} \subseteq EventKeys
      /\ "restaurant" \in Steps /\ "CONFIRMED" \in Statuses
  BY DEF StepSucceeded, EventKeys, Steps, Prerequisites, Statuses
<1>4. /\ new.exists = r.exists /\ new.status = "CONFIRMED"
      /\ new.done = r.done \cup {"restaurant"}
      /\ new.events = r.events \cup {StepSucceeded["restaurant"], "workflow.confirmed"}
      /\ new.readyPublished = r.readyPublished
      /\ new.failurePublished = r.failurePublished /\ new.failedStep = r.failedStep
  BY <1>2 DEF Row
<1>5. new \in Row
  <2>1. r.events \cup {StepSucceeded["restaurant"], "workflow.confirmed"} \subseteq EventKeys
    BY <1>3 DEF Row
  <2>2. r.done \cup {"restaurant"} \subseteq Steps
    BY <1>3 DEF Row
  <2> QED
    BY <1>2, <1>3, <2>1, <2>2 DEF Row
<1> HIDE DEF new
<1>6. Built(new, "complete")
  BY <1>1, <1>4 DEF Confirmed, Steps, Prerequisites, StepSucceeded, Built, Has
<1> QED
  BY <1>4, <1>5, <1>6 DEF new

\* complete_order finds a confirmed order without a success message.
LEMMA BuiltByComplete ==
  ASSUME NEW r \in Row, r.exists, Built(r, "complete")
  PROVE  LET new == CompleteOrder(r)
         IN  new \in Row /\ new.exists /\ Built(new, "200")
BY DEF CompleteOrder, CompleteAccepted, Failed, Completed, Confirmed, Ready,
       Reserved, Charged, Processed, Received, Steps, StepSucceeded, Statuses,
       Row, EventKeys, Built, Has

\* What the last call leaves is the row of an order that met no trouble.
LEMMA DeliveredIsBuilt ==
  ASSUME NEW r \in Row, Built(r, "200"), r.exists
  PROVE  r = DeliveredRow
<1>1. Completed = DeliveredRow.events
  BY DEF Completed, Confirmed, Ready, Reserved, Charged, Processed, Received,
         StepSucceeded, Steps, Prerequisites, DeliveredRow
<1>2. Has(DeliveredRow, "COMPLETED", Steps, TRUE, Completed)
  BY <1>1 DEF DeliveredRow, Has
<1>3. DeliveredRow \in Row
  BY DEF DeliveredRow, Row, Statuses, NoStep, EventKeys
<1>4. Has(r, "COMPLETED", Steps, TRUE, Completed)
  BY DEF Built
<1> QED
  BY <1>2, <1>3, <1>4 DEF Has, Row

-----------------------------------------------------------------------------
\* What is there when a request ends was built by one of its calls.
LEMMA CutOffOK ==
  ASSUME NEW r, NEW pc, OrderOK(r, pc)
  PROVE  OrderOK(r, "500") /\ OrderOK(r, "cut")
BY DEF OrderOK, Stages, Running

\* A call leaves the row, or takes it to what OrderOK asks of the next pc; an
\* exception ends the request, and asks no more than that some call built the row.
LEMMA CallSafe ==
  ASSUME Inv, NEW o \in Orders, NEW row, NEW next \in Running \cup {"200"},
         Call(o, row, next), OrderOK(row, next)
  PROVE  Inv'
<1>1. SUFFICES ASSUME NEW new, NEW end \in Running \cup Ended, OrderOK(new, end),
                      db' = [db EXCEPT ![o] = new],
                      request' = [request EXCEPT ![o] = end]
               PROVE  Inv'
  <2>1. OrderOK(row, "500") /\ OrderOK(db[o], "500")
    BY CutOffOK DEF Inv
  <2>2. db = [db EXCEPT ![o] = db[o]]
    BY DEF Inv
  <2>3. next \in Running \cup Ended /\ "500" \in Ended
    BY DEF Ended
  <2> QED
    BY <2>1, <2>2, <2>3 DEF Call, Goto
<1> QED
  BY <1>1 DEF Inv, OrderOK

\* A call of a request that goes on finds what was built, or nothing.
LEMMA FoundSafe ==
  ASSUME Inv, NEW o \in Orders, NEW new, NEW pc \in Running, NEW next \in Running \cup {"200"},
         At(o, pc), Call(o, new, next),
         db[o].exists /\ Built(db[o], pc) => new \in Row /\ new.exists /\ Built(new, next),
         db[o] = NoRow => new = NoRow
  PROVE  Inv'
<1>1. db[o] \in Row /\ (db[o] = NoRow \/ (db[o].exists /\ Built(db[o], pc)))
  BY DEF Inv, OrderOK, At, Stages
<1>2. OrderOK(new, next)
  BY <1>1, NoRowTyped DEF OrderOK, Running, Stages
<1> QED
  BY <1>2, CallSafe

\* Every call of create_order_sync keeps the invariant.
LEMMA RequestSteps ==
  ASSUME Inv, NEW o \in Orders,
         \/ Create(o) \/ Receive(o) \/ Process(o) \/ Charge(o) \/ Reserve(o)
         \/ Prepare(o) \/ Mark(o) \/ Confirm(o) \/ Complete(o)
  PROVE  Inv'
<1>. db[o] \in Row
  BY DEF Inv
<1>1. CASE Create(o)
  <2>1. OrderOK(CreateOrder, "received")
    BY BuiltByCreate DEF OrderOK, Stages, Running
  <2> QED
    BY <1>1, <2>1, CallSafe DEF Create, Running
<1>2. CASE Receive(o)
  <2>1. CASE db[o].exists
    <3>1. db[o] # NoRow
      BY <2>1, NoRowTyped
    <3> QED
      BY <1>2, <2>1, <3>1, FoundSafe, BuiltByReceive DEF Receive, Running
  <2>2. CASE ~db[o].exists
    <3>1. OrderOK(db[o], "500")
      BY CutOffOK DEF Inv
    <3> QED
      BY <1>2, <2>2, <3>1 DEF Receive, Goto, Inv, Ended
  <2> QED
    BY <2>1, <2>2
<1>3. CASE Process(o)
  BY <1>3, FoundSafe, BuiltByProcess, NoRowStays DEF Process, Running
<1>4. CASE Charge(o)
  BY <1>4, FoundSafe, BuiltByCharge, NoRowStays DEF Charge, Running, Prerequisites
<1>5. CASE Reserve(o)
  BY <1>5, FoundSafe, BuiltByReserve, NoRowStays DEF Reserve, Running, Prerequisites
<1>6. CASE Prepare(o)
  BY <1>6, FoundSafe, BuiltByPrepare, NoRowStays DEF Prepare, Running
<1>7. CASE Mark(o)
  BY <1>7, FoundSafe, BuiltByMark, NoRowStays DEF Mark, Running
<1>8. CASE Confirm(o)
  BY <1>8, FoundSafe, BuiltByConfirm, NoRowStays DEF Confirm, Running
<1>9. CASE Complete(o)
  BY <1>9, FoundSafe, BuiltByComplete, NoRowStays DEF Complete, Running
<1> QED
  BY <1>1, <1>2, <1>3, <1>4, <1>5, <1>6, <1>7, <1>8, <1>9

-----------------------------------------------------------------------------
\* Inv holds of every reachable state.
THEOREM Invariance == Spec => []Inv
<1>1. Init => Inv
  BY NoRowTyped DEF Init, Inv, OrderOK
<1>2. ASSUME Inv, [Next]_vars
      PROVE  Inv'
  <2>1. ASSUME NEW o \in Orders,
               \/ Create(o) \/ Receive(o) \/ Process(o) \/ Charge(o) \/ Reserve(o)
               \/ Prepare(o) \/ Mark(o) \/ Confirm(o) \/ Complete(o)
        PROVE  Inv'
    BY <1>2, <2>1, RequestSteps
  <2>2. CASE Crash
    <3>1. \A o \in Orders : OrderOK(db[o], "cut")
      BY <1>2, CutOffOK DEF Inv
    <3> QED
      BY <1>2, <2>2, <3>1 DEF Crash, Inv, Ended
  <2>3. CASE Truncate
    <3>1. db' = [o \in Orders |-> NoRow]
      BY <1>2, <2>3 DEF Truncate, TruncateAll, Inv
    <3>2. \A o \in Orders : OrderOK(NoRow, request[o])
      BY NoRowTyped DEF OrderOK
    <3> QED
      BY <1>2, <2>3, <3>1, <3>2, NoRowTyped DEF Truncate, Inv
  <2>4. CASE Rest \/ UNCHANGED vars
    BY <1>2, <2>4 DEF Rest, vars, Inv
  <2> QED
    BY <1>2, <2>1, <2>2, <2>3, <2>4 DEF Next
<1> QED
  BY <1>1, <1>2, PTL DEF Spec

\* An answer 200 COMPLETED is true of the tables, whatever other requests, errors,
\* crashes and resets do, unless a reset took the order away.
THEOREM TrueAnswers == Spec => []AnswerIsTrue
<1>1. Inv => AnswerIsTrue
  BY DeliveredIsBuilt DEF Inv, OrderOK, Stages, AnswerIsTrue, At
<1> QED
  BY <1>1, Invariance, PTL

\* What each stage of a request leaves behind.
LEMMA StagesAreVisible ==
  ASSUME NEW r \in Row, r.exists, NEW q \in Stages, Built(r, q)
  PROVE  /\ HeldBy(r) # {} => r.status # "PENDING"
         /\ r.status \in {"READY", "CONFIRMED"} => HeldBy(r) = Prerequisites
         /\ r.status = "COMPLETED" => r = DeliveredRow
<1>1. HeldBy(r) # {} => r.status # "PENDING"
  BY DEF Stages, Running, Built, Has, HeldBy
<1>2. ASSUME r.status \in {"READY", "CONFIRMED"}
      PROVE  HeldBy(r) = Prerequisites
  <2>1. q \in {"mark", "restaurant", "complete"}
    BY <1>2 DEF Stages, Running, Built, Has
  <2>2. Prerequisites \subseteq r.done /\ r.events \in {Ready, Confirmed}
    BY <2>1 DEF Built, Has, Steps
  <2>3. \A s \in Prerequisites : Compensation[s] \notin Ready \cup Confirmed
    BY DEF Prerequisites, Compensation, Confirmed, Ready, Reserved, Charged, Processed,
           Received, StepSucceeded
  <2> QED
    BY <2>2, <2>3 DEF HeldBy
<1>3. ASSUME r.status = "COMPLETED"
      PROVE  r = DeliveredRow
  <2>1. q = "200"
    BY <1>3 DEF Stages, Running, Built, Has
  <2> QED
    BY <2>1, DeliveredIsBuilt
<1> QED
  BY <1>1, <1>2, <1>3

\* Nothing compensates a request that was cut off, but what it charged or reserved
\* shows in the status of its order, for any number of requests, errors, crashes and
\* resets.
THEOREM ResidueVisible == Spec => []ResidueIsVisible
<1>1. Inv => ResidueIsVisible
  BY StagesAreVisible DEF Inv, OrderOK, ResidueIsVisible
<1> QED
  BY <1>1, Invariance, PTL

\* A call finds nothing to update where a reset has been.
LEMMA CallsInsertNothing ==
  ASSUME Inv, NEW o \in Orders, request[o] # "new", db[o] = NoRow, NEW p \in Orders,
         \/ Create(p) \/ Receive(p) \/ Process(p) \/ Charge(p) \/ Reserve(p)
         \/ Prepare(p) \/ Mark(p) \/ Confirm(p) \/ Complete(p)
  PROVE  db'[o] = NoRow
<1>1. \A row, next : Call(p, row, next) => db'[o] = db[o] \/ (p = o /\ db'[o] = row)
  BY DEF Call, Inv
<1>2. CASE Create(p)
  BY <1>1, <1>2 DEF Create, At
<1>3. CASE Receive(p)
  BY <1>1, <1>3, NoRowTyped DEF Receive
<1>4. CASE Process(p) \/ Charge(p) \/ Reserve(p)
  BY <1>1, <1>4, NoRowStays DEF Process, Charge, Reserve, Prerequisites
<1>5. CASE Prepare(p) \/ Mark(p) \/ Confirm(p) \/ Complete(p)
  BY <1>1, <1>5, NoRowStays DEF Prepare, Mark, Confirm, Complete
<1> QED
  BY <1>2, <1>3, <1>4, <1>5

\* No request inserts its order again after a reset, wherever between its commits the
\* reset fell.
THEOREM ResetStands == Spec => NothingResurrected
<1>1. Inv /\ [Next]_vars =>
        \A o \in Orders : (request[o] # "new" /\ ~db[o].exists) => ~db'[o].exists
  <2> SUFFICES ASSUME Inv, [Next]_vars, NEW o \in Orders, request[o] # "new", ~db[o].exists
               PROVE  ~db'[o].exists
    OBVIOUS
  <2>1. db[o] = NoRow
    BY DEF Inv, OrderOK
  <2>2. CASE UNCHANGED db
    BY <2>2
  <2>3. CASE Truncate
    BY <2>3, NoRowTyped DEF Truncate, TruncateAll, Inv
  <2> QED
    BY <2>1, <2>2, <2>3, CallsInsertNothing, NoRowTyped DEF Next, Crash, Rest, vars
<1> QED
  BY <1>1, Invariance, PTL DEF Spec, NothingResurrected

=============================================================================
