------------------------------- MODULE Reset -------------------------------
(***************************************************************************)
(* scripts/reset.py while the API and the workers run, as `make reset` and *)
(* `make fail` start it: the queues are purged one by one over the         *)
(* management API, the dead-letter queue last, and then the tables are     *)
(* truncated.  A purge takes the ready messages only; a delivery that some *)
(* handler holds, and what the handler publishes, survives it.             *)
(***************************************************************************)
EXTENDS OrderProperties

VARIABLE reset  \* "idle", what the script clears next, "done" or "failed"

resetVars == <<vars, reset>>

Cleared == Queues \cup {"dlq", "tables"}

First == "payment"

\* Variant that a run must reject: the tables go before the last queues.
AfterTablesEarly ==
  [payment      |-> "tables",
   tables       |-> "inventory",
   inventory    |-> "coordinator",
   coordinator  |-> "restaurant",
   restaurant   |-> "notification",
   notification |-> "dlq",
   dlq          |-> "done"]

\* The order of config.QUEUES, then the dead-letter queue, then the tables.
After ==
  [payment      |-> "inventory",
   inventory    |-> "coordinator",
   coordinator  |-> "restaurant",
   restaurant   |-> "notification",
   notification |-> "dlq",
   dlq          |-> "tables",
   tables       |-> "done"]

ResetInit == Init /\ reset = "idle"

Start ==
  /\ reset = "idle"
  /\ reset' = First
  /\ UNCHANGED vars

PurgeQueue ==
  /\ reset \in Queues
  /\ queues' = [queues EXCEPT ![reset] = EmptyBag]
  /\ reset' = After[reset]
  /\ UNCHANGED <<db, dlq, worker, api, faults>>

PurgeDeadLetters ==
  /\ reset = "dlq"
  /\ dlq' = EmptyBag
  /\ reset' = After[reset]
  /\ UNCHANGED <<db, queues, worker, api, faults>>

Truncate ==
  /\ reset = "tables"
  /\ db' = TruncateAll(db)
  /\ reset' = After[reset]
  /\ UNCHANGED <<queues, dlq, worker, api, faults>>

\* A request to the broker fails, or the truncation does (it locks the tables in
\* another order than the transactions do, so it may be a deadlock's victim):
\* the script returns 1 and leaves the rest as it is.
GiveUp ==
  /\ reset \in Cleared
  /\ reset' = "failed"
  /\ UNCHANGED vars

ResetStep == Start \/ PurgeQueue \/ PurgeDeadLetters \/ Truncate \/ GiveUp

ResetNext == (Next /\ UNCHANGED reset) \/ ResetStep

ResetSpec == ResetInit /\ [][ResetNext]_resetVars

\* FairSpec's fairness; nobody has to run the script.
FairResetSpec ==
  /\ ResetSpec
  /\ \A o \in Orders : WF_resetVars(ApiStep(o) /\ UNCHANGED reset)
  /\ \A w \in Workers : WF_resetVars(WorkerStep(w) /\ UNCHANGED reset)

-----------------------------------------------------------------------------
Wiped(o) == api[o] # "new" /\ ~db[o].exists

\* The tables go last: an order that is there after a reset has lost no message to
\* it, however the purges interleaved with its handlers.
ResetStrandsNobody ==
  reset = "done" =>
    \A o \in Orders : (Entrusted(o) /\ db[o].exists) => Cared(o)

\* Handlers that outlive the truncation find no order and insert none, however often
\* they are retried or redelivered: what a reset removed does not come back.
WipedOrdersStayGone ==
  [][\A o \in Orders : Wiped(o) => Wiped(o)']_resetVars

\* They and what they publish come to an end: whatever a reset left behind of a
\* wiped order, only the dead-letter queue still has it after a while.
ResidueDrains ==
  \A o \in Orders :
    (reset = "done" /\ Wiped(o)) ~>
      \A m \in (UNION {BagToSet(queues[q]) : q \in Queues})
                  \cup {Delivery(w) : w \in {v \in Workers : Held(v)}} : m.order # o

=============================================================================
