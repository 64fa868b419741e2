---------------------------- MODULE PublishCall ----------------------------
(***************************************************************************)
(* What a request may rely on when it calls Publisher.publish(), without   *)
(* the connection, the lock or the other threads: two tries at most; a     *)
(* call that returns left a copy with the broker, a call that raises may   *)
(* have left up to two.  OrderWorkflow's ApiPublish and ApiUnreachable     *)
(* take these steps.                                                       *)
(***************************************************************************)
EXTENDS Naturals

CONSTANT Callers

VARIABLES
  phase,  \* how far each caller got
  copies  \* what the broker stored for the call

callVars == <<phase, copies>>

CallInit ==
  /\ phase = [c \in Callers |-> "out"]
  /\ copies = [c \in Callers |-> 0]

Move(c, to) == phase' = [phase EXCEPT ![c] = to]

Store(c, n) == copies' = [copies EXCEPT ![c] = @ + n]

Begin(c) ==
  /\ phase[c] = "out"
  /\ Move(c, "try1")
  /\ copies' = [copies EXCEPT ![c] = 0]

Return(c) ==
  /\ phase[c] \in {"try1", "try2"}
  /\ Move(c, "returned")
  /\ Store(c, 1)

\* A try without a confirm may have reached the broker.
Miss(c) ==
  /\ \/ phase[c] = "try1" /\ Move(c, "try2")
     \/ phase[c] = "try2" /\ Move(c, "raised")
  /\ \E n \in {0, 1} : Store(c, n)

\* The broker cannot be reached at all.
Raise(c) ==
  /\ phase[c] \in {"try1", "try2"}
  /\ Move(c, "raised")
  /\ UNCHANGED copies

\* The caller has taken note of the outcome.
Finish(c) ==
  /\ phase[c] \in {"returned", "raised"}
  /\ Move(c, "out")
  /\ UNCHANGED copies

CallNext ==
  \E c \in Callers : Begin(c) \/ Return(c) \/ Miss(c) \/ Raise(c) \/ Finish(c)

CallSpec == CallInit /\ [][CallNext]_callVars

=============================================================================
