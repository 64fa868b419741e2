-------------------------- MODULE OrderProperties --------------------------
(***************************************************************************)
(* What the order workflow must never do, and what it owes.                *)
(***************************************************************************)
EXTENDS OrderWorkflow

IsQueueContent(bag) == IsABag(bag) /\ BagToSet(bag) \subseteq Message

\* Every variable keeps its type, and a busy worker always holds a delivery.
TypeOK ==
  /\ db \in [Orders -> Row]
  /\ DOMAIN queues = Queues
  /\ \A q \in Queues : IsQueueContent(queues[q])
  /\ IsQueueContent(dlq)
  /\ worker \in [Workers -> WorkerStates]
  /\ api \in [Orders -> ApiPcs]
  /\ faults \in Nat

-----------------------------------------------------------------------------
(***************************************************************************)
(* Safety of the rows.                                                     *)
(***************************************************************************)
\* A payment is refunded and a reservation released exactly when the order has
\* failed after the step had succeeded: fail_workflow() compensates what is done,
\* record_step_success() what comes in later, and nothing else does.
CompensatedIffFailed ==
  \A o \in Orders, s \in Prerequisites :
    Compensation[s] \in db[o].events
      <=> (Failed(db[o]) /\ s \in db[o].done)

\* README: the coordinator releases a ticket only after payment and inventory have
\* both succeeded, and a success message and COMPLETED are impossible until the
\* restaurant has too.
SuccessIsGated ==
  \A o \in Orders :
    /\ "workflow.ready" \in db[o].events => Prerequisites \subseteq db[o].done
    /\ (db[o].status = "COMPLETED" \/ "notification.success" \in db[o].events)
         => Steps \subseteq db[o].done

Rank ==
  [PENDING |-> 0, PROCESSING |-> 1, READY |-> 2, CONFIRMED |-> 3,
   COMPLETED |-> 4, FAILED |-> 5]

\* A late or repeated delivery never takes orders.status back: each UPDATE's
\* WHERE clause leaves a status that is already further alone.
StatusOnlyAdvances ==
  [][\A o \in Orders : Rank[db[o].status] <= Rank[db'[o].status]]_vars

\* Once an order has failed, no handler that was already past its check gets a
\* ticket to the restaurant or a success message to the customer.
NothingSucceedsAfterFailure ==
  [][\A o \in Orders :
       Failed(db[o]) =>
         /\ "restaurant" \in db'[o].done => "restaurant" \in db[o].done
         /\ "notification.success" \in db'[o].events =>
              "notification.success" \in db[o].events]_vars

\* orders.status and order_workflow never tell different stories, although every
\* transaction writes them in separate statements with separate conditions.
StatusAgrees ==
  \A o \in Orders :
    LET r == db[o] IN
    /\ r.status = "FAILED" <=> Failed(r)
    /\ r.status = "READY" => Prerequisites \subseteq r.done /\ "restaurant" \notin r.done
    /\ r.status = "CONFIRMED" =>
         Steps \subseteq r.done /\ "notification.success" \notin r.events
    /\ r.status = "COMPLETED" => "notification.success" \in r.events
    /\ r.status \in {"PENDING", "PROCESSING"} => "restaurant" \notin r.done

-----------------------------------------------------------------------------
(***************************************************************************)
(* Messages against rows.                                                  *)
(***************************************************************************)
Held(w) == worker[w] # Idle

\* Everything the broker or a handler has: ready, delivered or dead-lettered.
Messages ==
  (UNION {BagToSet(queues[q]) : q \in Queues}) \cup BagToSet(dlq)
    \cup {Delivery(w) : w \in {v \in Workers : Held(v)}}

\* A message is sent after the commit it announces, so nobody can ever receive
\* one that the database does not bear out.
MessagesTruthful ==
  \A m \in Messages :
    LET r == db[m.order] IN
    /\ r.exists
    /\ m.key = "payment.succeeded" => "payment" \in r.done
    /\ m.key = "inventory.reserved" => "inventory" \in r.done
    /\ m.key = "order.ready" =>
         Prerequisites \subseteq r.done /\ "workflow.ready" \in r.events
    /\ m.key = "order.confirmed" => "restaurant" \in r.done
    /\ m.key = "order.failed" => Failed(r)

\* What w holds still counts: it is neither finished nor lost with its channel.
Pursues(w) ==
  /\ Held(w)
  /\ worker[w].up
  /\ worker[w].pc \notin {"ack", "deadletter"}

Live(q) ==
  BagToSet(queues[q])
    \cup {Delivery(w) : w \in {v \in Workers : Role[v] = q /\ Pursues(v)}}

LiveKeys(q, o) == {m.key : m \in {n \in Live(q) : n.order = o}}

Dead ==
  BagToSet(dlq)
    \cup {Delivery(w) : w \in {v \in Workers : At(v, "deadletter")}}

DeadKeys(o) == {m.key : m \in {n \in Dead : n.order = o}}

\* A workflow.failed is on its way that fail_workflow() will not refuse.
Failing(o) ==
  \E m \in Live("coordinator") :
    m.order = o /\ m.key = "workflow.failed" /\ FailAccepted(db[o], m.step)

\* The message that takes the order its next step.
Advancing(o) ==
  LET r == db[o]
      unfinished == Prerequisites \ r.done
  IN  IF unfinished # {}
      THEN \A s \in unfinished : "order.created" \in LiveKeys(s, o)
      ELSE IF ~r.readyPublished
      THEN \/ LiveKeys("coordinator", o) \cap {"payment.succeeded", "inventory.reserved"} # {}
           \/ \E s \in Prerequisites : "order.created" \in LiveKeys(s, o)
      ELSE \/ "order.ready" \in LiveKeys("restaurant", o)
           \/ "restaurant" \in r.done /\ "order.confirmed" \in LiveKeys("notification", o)

Terminal(o) == db[o].status \in {"COMPLETED", "FAILED"}

\* The workers have the order: the customer was told that it is accepted, or it is
\* paid for and reserved, whatever became of the request (it may have been cut off
\* after a publish that raised and was routed all the same).
Entrusted(o) == api[o] = "accepted" \/ HeldBy(db[o]) = Prerequisites

\* Such an order is never dropped silently: until it is COMPLETED or FAILED some
\* message still drives it, or the message that would have is in the dead-letter
\* queue for an operator to see.
Cared(o) ==
  \/ Terminal(o)
  \/ Failing(o)
  \/ Advancing(o)
  \/ DeadKeys(o) \cap {"order.ready", "order.confirmed"} # {}

NeverSilentlyLost == \A o \in Orders : Entrusted(o) => Cared(o)

\* A customer who was told 503 is not served and not charged: create_order_async
\* fails the order whatever the workers make, before and after, of an
\* order.created that was routed without a confirm.
RejectedOrdersFail ==
  \A o \in Orders :
    api[o] = "rejected" => db[o].status = "FAILED" /\ HeldBy(db[o]) = {}

\* A customer whose accepted order failed is told, or the notice is in the DLQ.
FailureReachesCustomer ==
  \A o \in Orders :
    ( /\ api[o] = "accepted"
      /\ Failed(db[o])
      /\ "notification.failed_order" \notin db[o].events )
    => \/ Failing(o) /\ ~db[o].failurePublished
       \/ \E w \in Workers :
            /\ Pursues(w) /\ At(w, "emit")
            /\ Subject(w) = o /\ Delivery(w).key = "workflow.failed"
       \/ "order.failed" \in LiveKeys("notification", o) \cup DeadKeys(o)

\* Retries, redeliveries and duplicates leave no trace: when everything has come to
\* rest, an accepted order that completed has the row that a synchronous order has,
\* unless one of its messages, such as the receipt, ended in the dead-letter queue.
\* (The order of a request that was cut off may complete without a receipt, as its
\* order.created need not have reached every queue.)
CompletedOrdersAlike ==
  Quiescent =>
    \A o \in Orders :
      (api[o] = "accepted" /\ db[o].status = "COMPLETED" /\ DeadKeys(o) = {})
        => db[o] = DeliveredRow

-----------------------------------------------------------------------------
(***************************************************************************)
(* What the comments and the README say and the code does not keep.        *)
(***************************************************************************)
\* store.py: "An ambiguous publisher retry must not reverse an outcome already
\* accepted by the next stage of the workflow."
OutcomeStands ==
  [][\A o \in Orders :
       ("restaurant" \in db[o].done /\ ~Failed(db[o])) => ~Failed(db'[o])]_vars

\* README: after a critical step exhausts MAX_RETRIES, its message is dead-lettered
\* and the coordinator marks the order FAILED.  (Unless it was a duplicate, and
\* the order is past the restaurant already.)
ExhaustedOrdersFail ==
  \A o \in Orders :
    "order.ready" \in DeadKeys(o) =>
      \/ Failing(o) \/ Terminal(o)
      \/ "order.confirmed" \in LiveKeys("notification", o) \cup DeadKeys(o)

-----------------------------------------------------------------------------
(***************************************************************************)
(* Liveness.                                                               *)
(***************************************************************************)
\* An accepted order is decided.
AcceptedOrdersEnd ==
  \A o \in Orders : api[o] = "accepted" ~> Terminal(o)

\* The customer of an accepted order hears how it ended.
CustomersHearTheEnd ==
  \A o \in Orders :
    api[o] = "accepted" ~>
      db[o].events \cap {"notification.success", "notification.failed_order"} # {}

-----------------------------------------------------------------------------
(***************************************************************************)
(* The workflow implements OrderSaga.                                      *)
(***************************************************************************)
PhaseOf(r) ==
  CASE ~r.exists -> "none"
    [] r.exists /\ Failed(r) -> "failed"
    [] r.exists /\ ~Failed(r) /\ "notification.success" \in r.events -> "completed"
    [] r.exists /\ ~Failed(r) /\ "notification.success" \notin r.events
         /\ "restaurant" \in r.done -> "confirmed"
    [] OTHER -> "open"

Saga ==
  INSTANCE OrderSaga WITH
    Holds <- Prerequisites,
    phase <- [o \in Orders |-> PhaseOf(db[o])],
    held  <- [o \in Orders |-> HeldBy(db[o])]

ImplementsSaga == Saga!SagaSpec

=============================================================================
