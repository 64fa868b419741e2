----------------------------- MODULE SyncOrder -----------------------------
(***************************************************************************)
(* POST /orders/sync: the transactions of an asynchronous order in one     *)
(* request, one after the other, on the operators of OrderStore.  Nothing  *)
(* undoes them when the request is cut short, and the handler looks at no  *)
(* return value; a reset may truncate the tables under it.                 *)
(*                                                                         *)
(* A request's pc names the store call it makes next.                      *)
(***************************************************************************)
EXTENDS Naturals, OrderStore

CONSTANTS
  Orders,    \* the orders requested, one request each
  MaxFaults  \* crashes, resets and database errors in one behaviour: a bound

ASSUME FaultAssumption == MaxFaults \in Nat

VARIABLES
  db,       \* the committed row of each order
  request,  \* how far create_order_sync got with each order, or how it ended
  faults    \* how many faults may still come

vars == <<db, request, faults>>

Running ==
  {"received", "processing", "payment", "inventory", "prepare", "mark",
   "restaurant", "complete"}

\* The answer 200 COMPLETED, the answer 500, and no answer at all.
Ended == {"200", "500", "cut"}

Init ==
  /\ db = [o \in Orders |-> NoRow]
  /\ request = [o \in Orders |-> "new"]
  /\ faults = MaxFaults

At(o, pc) == request[o] = pc

Goto(o, pc) == request' = [request EXCEPT ![o] = pc]

Spend == faults > 0 /\ faults' = faults - 1

\* One call of store.py.  An exception leaves the handler as a 500, and cannot
\* tell a lost commit from a lost answer to a commit.
Call(o, row, next) ==
  \/ /\ db' = [db EXCEPT ![o] = row]
     /\ Goto(o, next)
     /\ UNCHANGED faults
  \/ /\ Spend
     /\ db' \in {db, [db EXCEPT ![o] = row]}
     /\ Goto(o, "500")

-----------------------------------------------------------------------------
Create(o) == At(o, "new") /\ Call(o, CreateOrder, "received")

\* The foreign key of order_events refuses the receipt of a truncated order.
Receive(o) ==
  /\ At(o, "received")
  /\ IF db[o].exists
     THEN Call(o, AddEventOnce(db[o], "notification.received"), "processing")
     ELSE Goto(o, "500") /\ UNCHANGED <<db, faults>>

\* Variant: ensure_processing() is not called.
ProcessForgotten(o) == At(o, "processing") /\ Call(o, db[o], "payment")

Process(o) ==
  At(o, "processing") /\ Call(o, EnsureProcessing(db[o]), "payment")

Charge(o) ==
  At(o, "payment") /\ Call(o, RecordStepSuccess(db[o], "payment"), "inventory")

\* Variant: the second step is a copy of the first.
ReserveCopied(o) ==
  At(o, "inventory") /\ Call(o, RecordStepSuccess(db[o], "payment"), "prepare")

Reserve(o) ==
  At(o, "inventory") /\ Call(o, RecordStepSuccess(db[o], "inventory"), "prepare")

Prepare(o) == At(o, "prepare") /\ Call(o, PrepareOrderReady(db[o]), "mark")

Mark(o) == At(o, "mark") /\ Call(o, MarkReadyPublished(db[o]), "restaurant")

Confirm(o) ==
  At(o, "restaurant") /\ Call(o, RecordRestaurantConfirmation(db[o]), "complete")

Complete(o) == At(o, "complete") /\ Call(o, CompleteOrder(db[o]), "200")

\* The API process dies, and every request in it.
Crash ==
  /\ \E o \in Orders : request[o] \in Running
  /\ Spend
  /\ request' = [o \in Orders |-> IF request[o] \in Running THEN "cut" ELSE request[o]]
  /\ UNCHANGED db

\* scripts/reset.py.
Truncate ==
  /\ Spend
  /\ db' = TruncateAll(db)
  /\ UNCHANGED request

Rest == (\A o \in Orders : request[o] \in Ended) /\ UNCHANGED vars

Next ==
  \/ \E o \in Orders :
       \/ Create(o) \/ Receive(o) \/ Process(o) \/ Charge(o) \/ Reserve(o)
       \/ Prepare(o) \/ Mark(o) \/ Confirm(o) \/ Complete(o)
  \/ Crash \/ Truncate \/ Rest

Spec == Init /\ [][Next]_vars

-----------------------------------------------------------------------------
(***************************************************************************)
(* What a caller, and whoever reads the tables afterwards, may conclude.   *)
(***************************************************************************)
\* 200 COMPLETED is a literal of the handler, which ignores what every step
\* returns; yet the order is then what an asynchronous order without trouble
\* becomes ("the same simulated work"), unless a reset took it away.
AnswerIsTrue ==
  \A o \in Orders : At(o, "200") => db[o] \in {DeliveredRow, NoRow}

\* What a request left behind that did not get to its answer shows in the status,
\* although nothing compensates it: nobody is charged under PENDING, READY and
\* CONFIRMED orders are paid for and reserved, and COMPLETED is complete.
ResidueIsVisible ==
  \A o \in Orders :
    (request[o] \in {"500", "cut"} /\ db[o].exists) =>
      /\ HeldBy(db[o]) # {} => db[o].status # "PENDING"
      /\ db[o].status \in {"READY", "CONFIRMED"} => HeldBy(db[o]) = Prerequisites
      /\ db[o].status = "COMPLETED" => db[o] = DeliveredRow

\* No call of a request that outlives a reset inserts its order again.
NothingResurrected ==
  [][\A o \in Orders : (request[o] # "new" /\ ~db[o].exists) => ~db'[o].exists]_vars

=============================================================================
