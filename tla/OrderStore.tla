----------------------------- MODULE OrderStore -----------------------------
(***************************************************************************)
(* The rows one order has in PostgreSQL, and the transactions of           *)
(* app/store.py as operators from a row to a row.                          *)
(*                                                                         *)
(* A Row joins what the three tables hold for one order: orders.status,    *)
(* the columns of order_workflow, and the event keys in order_events.      *)
(* Every transaction that writes order_workflow locks its row first        *)
(* (FOR UPDATE or UPDATE ... WHERE), and ensure_processing decides on a    *)
(* re-checked UPDATE of the orders row, so each transaction is one step.   *)
(* A transaction that finds no row to update leaves everything alone; the  *)
(* Boolean a function returns is an operator of its own.                   *)
(*                                                                         *)
(* order_events is append-only and every event the running code inserts    *)
(* has an event_key unique per order, so the timeline is kept as the set   *)
(* of its keys; "a precedes b" is "no state has b without a".              *)
(***************************************************************************)

(***************************************************************************)
(* order_workflow's success columns, the critical prerequisites among      *)
(* them, and the names that can stand in failed_step.                      *)
(***************************************************************************)
Prerequisites == {"payment", "inventory"}

Steps == Prerequisites \cup {"restaurant"}

FailedSteps == Steps \cup {"coordinator", "api"}

NoStep == "none"

Statuses ==
  {"PENDING", "PROCESSING", "READY", "CONFIRMED", "COMPLETED", "FAILED"}

(***************************************************************************)
(* Event keys, one constructor per f-string of the code.                   *)
(***************************************************************************)
StepSucceeded ==
  [payment    |-> "step.payment.succeeded",
   inventory  |-> "step.inventory.succeeded",
   restaurant |-> "step.restaurant.succeeded"]

Compensation ==
  [payment   |-> "compensation.payment_refunded",
   inventory |-> "compensation.inventory_released"]

EventKeys ==
  {StepSucceeded[s] : s \in Steps}
    \cup {Compensation[s] : s \in Prerequisites}
    \cup {"order.accepted", "workflow.processing", "workflow.ready",
          "workflow.confirmed", "workflow.completed", "workflow.failed",
          "notification.received", "notification.success",
          "notification.failed_order", "notification.delivery_failed"}

Row ==
  [exists           : BOOLEAN,
   status           : Statuses,
   done             : SUBSET Steps,
   readyPublished   : BOOLEAN,
   failurePublished : BOOLEAN,
   failedStep       : FailedSteps \cup {NoStep},
   events           : SUBSET EventKeys]

\* An order id with no rows: never inserted, or truncated.
NoRow ==
  [exists           |-> FALSE,
   status           |-> "PENDING",
   done             |-> {},
   readyPublished   |-> FALSE,
   failurePublished |-> FALSE,
   failedStep       |-> NoStep,
   events           |-> {}]

(***************************************************************************)
(* The writes.                                                             *)
(***************************************************************************)
CreateOrder ==
  [NoRow EXCEPT !.exists = TRUE, !.events = {"order.accepted"}]

Failed(r) == r.failedStep # NoStep

\* Variant that a run must reject: the UPDATE without AND status = 'PENDING'.
EnsureProcessingAlways(r) ==
  IF r.exists THEN [r EXCEPT !.status = "PROCESSING"] ELSE r

\* Variant: an order that is not there is inserted first.
EnsureProcessingInserting(r) ==
  LET found == IF r.exists THEN r ELSE CreateOrder
  IN  IF found.status = "PENDING"
      THEN [found EXCEPT !.status = "PROCESSING",
                         !.events = @ \cup {"workflow.processing"}]
      ELSE found

\* WHERE status = 'PENDING' is what lets only one parallel worker win.
EnsureProcessing(r) ==
  IF r.exists /\ r.status = "PENDING"
  THEN [r EXCEPT !.status = "PROCESSING",
                 !.events = @ \cup {"workflow.processing"}]
  ELSE r

\* Variant: the released reservation is forgotten.
RecordRefundOnly(r) ==
  [r EXCEPT !.events = @ \cup {Compensation[s] : s \in r.done \cap {"payment"}}]

RecordCompensations(r) ==
  [r EXCEPT !.events = @ \cup {Compensation[s] : s \in r.done \cap Prerequisites}]

\* Variant: the success is recorded without looking at failed_step.
RecordStepSuccessOnly(r, s) ==
  IF ~r.exists \/ s \in r.done THEN r
  ELSE [r EXCEPT !.done = @ \cup {s}, !.events = @ \cup {StepSucceeded[s]}]

\* A success that lands after the failure is compensated in the same commit.
RecordStepSuccess(r, s) ==
  LET marked == [r EXCEPT !.done = @ \cup {s},
                          !.events = @ \cup {StepSucceeded[s]}]
  IN  IF ~r.exists \/ s \in r.done THEN r
      ELSE IF Failed(r) THEN RecordCompensations(marked) ELSE marked

\* Variant: the join fires on the first of the two results.
JoinedOnFirst(r) == r.exists /\ ~Failed(r) /\ Prerequisites \cap r.done # {}

\* prepare_order_ready gets past its guard.
Joined(r) == r.exists /\ ~Failed(r) /\ Prerequisites \subseteq r.done

PrepareOrderReady(r) ==
  IF Joined(r)
  THEN [r EXCEPT !.status = IF @ \in {"PENDING", "PROCESSING"} THEN "READY" ELSE @,
                 !.events = @ \cup {"workflow.ready"}]
  ELSE r

ReadyNeedsPublishing(r) == Joined(r) /\ ~r.readyPublished

MarkReadyPublished(r) == IF r.exists THEN [r EXCEPT !.readyPublished = TRUE] ELSE r

\* Variant: the UPDATE without AND failed_step IS NULL.
ConfirmAcceptedThoughFailed(r) ==
  r.exists /\ Prerequisites \subseteq r.done /\ "restaurant" \notin r.done

ConfirmAccepted(r) ==
  /\ r.exists /\ ~Failed(r)
  /\ Prerequisites \subseteq r.done /\ "restaurant" \notin r.done

RecordRestaurantConfirmation(r) ==
  IF ConfirmAccepted(r)
  THEN [r EXCEPT !.done   = @ \cup {"restaurant"},
                 !.status = IF @ # "FAILED" THEN "CONFIRMED" ELSE @,
                 !.events = @ \cup {StepSucceeded["restaurant"], "workflow.confirmed"}]
  ELSE r

CompleteAccepted(r) ==
  /\ r.exists /\ ~Failed(r) /\ "restaurant" \in r.done
  /\ "notification.success" \notin r.events

CompleteOrder(r) ==
  IF CompleteAccepted(r)
  THEN [r EXCEPT !.status = IF @ # "FAILED" THEN "COMPLETED" ELSE @,
                 !.events = @ \cup {"notification.success", "workflow.completed"}]
  ELSE r

\* fail_workflow gets past its guard: the two gates name the steps they stop.
FailAccepted(r, step) ==
  /\ r.exists
  /\ ~(step \in Prerequisites /\ r.readyPublished)
  /\ ~(step = "restaurant" /\ "restaurant" \in r.done)

FailWorkflow(r, step) ==
  IF FailAccepted(r, step)
  THEN RecordCompensations(
         [r EXCEPT !.failedStep = IF Failed(r) THEN @ ELSE step,
                   !.status     = "FAILED",
                   !.events     = @ \cup {"workflow.failed"}])
  ELSE r

FailureNeedsPublishing(r, step) == FailAccepted(r, step) /\ ~r.failurePublished

MarkFailurePublished(r) ==
  IF r.exists THEN [r EXCEPT !.failurePublished = TRUE] ELSE r

\* Without an orders row the foreign key of order_events raises instead: the
\* callers guard on r.exists.
AddEventOnce(r, key) == [r EXCEPT !.events = @ \cup {key}]

\* truncate_all() empties all three tables at once.
TruncateAll(rows) == [o \in DOMAIN rows |-> NoRow]

-----------------------------------------------------------------------------
\* What an order was charged or reserved and has not been given back.
HeldBy(r) == {s \in Prerequisites \cap r.done : Compensation[s] \notin r.events}

(***************************************************************************)
(* The row of an order that met no trouble, whichever endpoint took it.    *)
(***************************************************************************)
DeliveredRow ==
  [exists           |-> TRUE,
   status           |-> "COMPLETED",
   done             |-> Steps,
   readyPublished   |-> TRUE,
   failurePublished |-> FALSE,
   failedStep       |-> NoStep,
   events           |-> {StepSucceeded[s] : s \in Steps}
                          \cup {"order.accepted", "workflow.processing",
                                "workflow.ready", "workflow.confirmed",
                                "workflow.completed", "notification.received",
                                "notification.success"}]

=============================================================================
