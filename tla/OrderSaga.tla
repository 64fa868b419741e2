----------------------------- MODULE OrderSaga -----------------------------
(***************************************************************************)
(* What the workflow promises about an order, without the broker, the      *)
(* retries or the processes: an order holds a payment and a reservation    *)
(* before its restaurant confirms it, holds both for as long as it stays   *)
(* confirmed, and holds nothing once it has failed.                        *)
(***************************************************************************)
CONSTANTS
  Orders,
  Holds     \* what an order must hold before it is confirmed

VARIABLES
  phase,    \* where each order stands
  held      \* what it holds: charged or reserved, and not given back

sagaVars == <<phase, held>>

Phases == {"none", "open", "confirmed", "completed", "failed"}

SagaTypeOK ==
  /\ phase \in [Orders -> Phases]
  /\ held \in [Orders -> SUBSET Holds]

SagaInit ==
  /\ phase = [o \in Orders |-> "none"]
  /\ held = [o \in Orders |-> {}]

Accept(o) ==
  /\ phase[o] = "none"
  /\ phase' = [phase EXCEPT ![o] = "open"]
  /\ UNCHANGED held

Hold(o, h) ==
  /\ phase[o] = "open"
  /\ held' = [held EXCEPT ![o] = @ \cup {h}]
  /\ UNCHANGED phase

Confirm(o) ==
  /\ phase[o] = "open"
  /\ held[o] = Holds
  /\ phase' = [phase EXCEPT ![o] = "confirmed"]
  /\ UNCHANGED held

Complete(o) ==
  /\ phase[o] = "confirmed"
  /\ phase' = [phase EXCEPT ![o] = "completed"]
  /\ UNCHANGED held

\* An order may fail from any phase, even the last: everything is given back.
Fail(o) ==
  /\ phase[o] \in {"open", "confirmed", "completed"}
  /\ phase' = [phase EXCEPT ![o] = "failed"]
  /\ held' = [held EXCEPT ![o] = {}]

SagaNext ==
  \E o \in Orders :
    \/ Accept(o) \/ Confirm(o) \/ Complete(o) \/ Fail(o)
    \/ \E h \in Holds : Hold(o, h)

SagaSpec == SagaInit /\ [][SagaNext]_sagaVars

=============================================================================
