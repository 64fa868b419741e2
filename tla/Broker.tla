------------------------------- MODULE Broker -------------------------------
(***************************************************************************)
(* The RabbitMQ side of the system: the queues and bindings that           *)
(* broker.declare_topology() creates from app/config.py, the messages the  *)
(* code puts in them, and what publishing does to the queues.              *)
(*                                                                         *)
(* A queue is named by the worker that consumes it ("payment" is           *)
(* payment.process, "coordinator" is order.coordinate, ...). Its content   *)
(* is a bag: a message may be there twice, and deliveries come in any      *)
(* order, since the broker promises none between the consumers of a scaled *)
(* queue or after a requeue.                                               *)
(***************************************************************************)
EXTENDS Naturals, OrderStore, Bags, BagsExt

CONSTANTS
  Orders,      \* order ids
  MaxRetries,  \* config.MAX_RETRIES: attempts before the dead-letter queue
  NoMessage    \* what an idle worker holds

ASSUME MaxRetriesAssumption == MaxRetries \in Nat \ {0}

Queues == {"payment", "inventory", "coordinator", "restaurant", "notification"}

RoutingKeys ==
  {"order.created", "payment.succeeded", "inventory.reserved",
   "workflow.failed", "order.ready", "order.confirmed", "order.failed"}

Bindings ==
  [payment      |-> {"order.created"},
   inventory    |-> {"order.created"},
   coordinator  |-> {"payment.succeeded", "inventory.reserved", "workflow.failed"},
   restaurant   |-> {"order.ready"},
   notification |-> {"order.created", "order.confirmed", "order.failed"}]

Targets(key) == {q \in Queues : key \in Bindings[q]}

(***************************************************************************)
(* What a handler reads of a delivery: the routing key (the original one,  *)
(* which a retry carries in a header), x-attempt, the order id and the     *)
(* failed_step that the payload of a workflow.failed has.                  *)
(***************************************************************************)
Message ==
  {m \in [key     : RoutingKeys,
          order   : Orders,
          attempt : 1..MaxRetries,
          step    : FailedSteps \cup {NoStep}] :
     m.key = "workflow.failed" <=> m.step # NoStep}

ASSUME NoMessageAssumption == NoMessage \notin Message

\* emit() always starts a message at x-attempt 1.
Event(key, o) == [key |-> key, order |-> o, attempt |-> 1, step |-> NoStep]

FailureEvent(o, step) ==
  [key |-> "workflow.failed", order |-> o, attempt |-> 1, step |-> step]

\* qs after the broker stored a copy of m in each queue of S.
Stored(qs, S, m) ==
  [q \in Queues |-> IF q \in S THEN BagAdd(qs[q], m) ELSE qs[q]]

Taken(qs, q, m) == [qs EXCEPT ![q] = BagRemove(@, m)]

\* The result a handler emits for the delivery it holds.
ResultKey(q, m) ==
  CASE q = "payment"    -> "payment.succeeded"
    [] q = "inventory"  -> "inventory.reserved"
    [] q = "restaurant" -> "order.confirmed"
    [] q = "coordinator" /\ m.key = "workflow.failed" -> "order.failed"
    [] OTHER            -> "order.ready"

=============================================================================
