----------------------------- MODULE ApiProcess -----------------------------
(***************************************************************************)
(* What the request threads of the API process share: the Publisher of     *)
(* app/broker.py with its lock and its lazily reconnected connection, and  *)
(* the connection pool of app/db.py, which is created on first use and     *)
(* guarded by nothing.                                                     *)
(*                                                                         *)
(* A thread runs POST /orders (store.create_order, publish, and            *)
(* fail_workflow if that raised) or GET /health (publisher.healthy, then   *)
(* db.healthy).  Its stage is the part of the request it is in, its pc     *)
(* what it does next inside Publisher or pool().                           *)
(***************************************************************************)
EXTENDS Naturals

CONSTANTS
  Threads,   \* the request threads
  Nobody,    \* the owner of a free lock
  MaxFaults  \* broker and database faults in one behaviour: a bound

ASSUME NobodyAssumption == Nobody \notin Threads
ASSUME FaultAssumption == MaxFaults \in Nat

VARIABLES
  life,    \* "booting", "serving" or "stopped": lifespan()
  lock,    \* the owner of Publisher._lock
  link,    \* what is_open of _conn and _ch says: "none", "bare" (a connection
           \* without a usable channel) or "open".  It is local knowledge: pika
           \* learns of a lost connection when it next uses it
  alive,   \* does the broker still have that connection?
  broker,  \* is the broker up?
  pool,    \* which pool _pool refers to; 0 is None
  opened,  \* the pools that were opened
  thread,  \* each thread's stage, pc, try and last answer
  copies,  \* what the broker stored for each thread's last publish
  calm,    \* ghost: nothing went wrong since the lock was taken
  faults   \* how many faults may still come

vars == <<life, lock, link, alive, broker, pool, opened, thread, copies, calm, faults>>

\* What the Publisher's steps leave alone, and what pool()'s steps do.
poolVars == <<pool, opened>>
publisherVars == <<lock, link, alive, broker, copies, calm>>

Idle(answer) == [stage |-> "idle", pc |-> "idle", try |-> 0, answer |-> answer]

Init ==
  /\ life = "booting"
  /\ lock = Nobody /\ link = "none" /\ alive = FALSE /\ broker = TRUE
  /\ pool = 0 /\ opened = {}
  /\ thread = [t \in Threads |-> Idle("none")]
  /\ copies = [t \in Threads |-> 0]
  /\ calm = TRUE
  /\ faults = MaxFaults

-----------------------------------------------------------------------------
At(t, pc) == thread[t].pc = pc

In(t, stage) == thread[t].stage = stage

Goto(t, pc) == thread' = [thread EXCEPT ![t].pc = pc]

Enter(t, stage, pc) ==
  thread' = [thread EXCEPT
    ![t] = [stage |-> stage, pc |-> pc, try |-> 1, answer |-> "none"]]

Answer(t, answer) == thread' = [thread EXCEPT ![t] = Idle(answer)]

Spend == faults > 0 /\ faults' = faults - 1

-----------------------------------------------------------------------------
(***************************************************************************)
(* lifespan(): publisher.start() before the first request, and close() of  *)
(* both when the last one has been answered.                               *)
(***************************************************************************)
Boot ==
  /\ life = "booting" /\ broker
  /\ life' = "serving" /\ link' = "open" /\ alive' = TRUE
  /\ UNCHANGED <<lock, broker, poolVars, thread, copies, calm, faults>>

Stop ==
  /\ life = "serving"
  /\ \A t \in Threads : At(t, "idle")
  /\ life' = "stopped" /\ link' = "none" /\ alive' = FALSE
  /\ pool' = 0 /\ opened' = opened \ {pool}
  /\ UNCHANGED <<lock, broker, thread, copies, calm, faults>>

Request(t) ==
  /\ life = "serving" /\ At(t, "idle")
  /\ Enter(t, "insert", "check") \/ Enter(t, "probe", "acquire")
  /\ UNCHANGED <<life, poolVars, publisherVars, faults>>

-----------------------------------------------------------------------------
(***************************************************************************)
(* pool() and cursor().                                                    *)
(***************************************************************************)
\* How a stage ends whose database call failed; db.healthy() swallows it.
DatabaseFailed(t) ==
  Answer(t, IF In(t, "ping") THEN thread[t].answer ELSE "500")

Check(t) ==
  /\ At(t, "check")
  /\ Goto(t, IF pool = 0 THEN "create" ELSE "use")
  /\ UNCHANGED <<life, poolVars, publisherVars, faults>>

\* The name is bound before the pool is open, and perhaps over another thread's.
Create(t) ==
  /\ At(t, "create")
  /\ pool' = pool + 1
  /\ Goto(t, "open")
  /\ UNCHANGED <<life, opened, publisherVars, faults>>

\* Variant that a run must reject: wait_for_db() comes first, and may raise.
OpenAfterWarming(t) ==
  /\ At(t, "open")
  /\ \/ opened' = opened \cup {pool} /\ Goto(t, "use") /\ UNCHANGED faults
     \/ Spend /\ DatabaseFailed(t) /\ UNCHANGED opened
  /\ UNCHANGED <<life, pool, publisherVars>>

\* _pool.open() opens whichever pool _pool refers to now; twice is once.
Open(t) ==
  /\ At(t, "open")
  /\ opened' = opened \cup {pool}
  /\ Goto(t, "warm")
  /\ UNCHANGED <<life, pool, publisherVars, faults>>

\* wait_for_db() answers, or gives up with a RuntimeError.
Warm(t) ==
  /\ At(t, "warm")
  /\ \/ Goto(t, "use") /\ UNCHANGED faults
     \/ Spend /\ DatabaseFailed(t)
  /\ UNCHANGED <<life, poolVars, publisherVars>>

\* A database error, a pool without a free connection for too long, or a pool that
\* is not open yet, which refuses to lend one.
Use(t) ==
  /\ At(t, "use")
  /\ \/ /\ pool \in opened
        /\ CASE In(t, "insert")     -> Enter(t, "publish", "acquire")
             [] In(t, "compensate") -> Answer(t, "503")
             [] In(t, "ping")       -> Answer(t, thread[t].answer)
        /\ UNCHANGED faults
     \/ pool \notin opened /\ DatabaseFailed(t) /\ UNCHANGED faults
     \/ Spend /\ DatabaseFailed(t)
  /\ UNCHANGED <<life, poolVars, publisherVars>>

-----------------------------------------------------------------------------
(***************************************************************************)
(* Publisher, under its lock.                                              *)
(***************************************************************************)
\* Variant: healthy() without the lock.
AcquireToPublish(t) ==
  /\ At(t, "acquire")
  /\ In(t, "publish") => lock = Nobody
  /\ lock' = IF In(t, "publish") THEN t ELSE lock
  /\ calm' = broker
  /\ copies' = IF In(t, "publish") THEN [copies EXCEPT ![t] = 0] ELSE copies
  /\ Goto(t, "ensure")
  /\ UNCHANGED <<life, link, alive, broker, poolVars, faults>>

Acquire(t) ==
  /\ At(t, "acquire") /\ lock = Nobody
  /\ lock' = t
  /\ calm' = broker
  /\ copies' = IF In(t, "publish") THEN [copies EXCEPT ![t] = 0] ELSE copies
  /\ Goto(t, "ensure")
  /\ UNCHANGED <<life, link, alive, broker, poolVars, faults>>

\* publish() or healthy() leaves the with block, by return or by an exception.
Leave(t, ok) ==
  /\ lock' = Nobody
  /\ CASE In(t, "publish") /\ ok  -> Answer(t, "202")
       [] In(t, "publish") /\ ~ok -> Enter(t, "compensate", "check")
       [] In(t, "probe") ->
            thread' = [thread EXCEPT ![t].stage = "ping", ![t].pc = "check",
                                     ![t].answer = IF ok THEN "online" ELSE "offline"]

Working(t) == IF In(t, "publish") THEN Goto(t, "send") /\ UNCHANGED lock ELSE Leave(t, TRUE)

Ensure(t) ==
  /\ At(t, "ensure")
  /\ IF link = "open" THEN Working(t) ELSE Goto(t, "connect") /\ UNCHANGED lock
  /\ UNCHANGED <<life, link, alive, broker, poolVars, copies, calm, faults>>

Connect(t) ==
  /\ At(t, "connect") /\ broker
  /\ link' = "bare" /\ alive' = TRUE
  /\ Goto(t, "setup")
  /\ UNCHANGED <<life, lock, broker, poolVars, copies, calm, faults>>

\* Variant: no limit on the retries.
GiveUpNever(t) == At(t, "connect") /\ ~broker /\ UNCHANGED vars

\* connect() used up its retries: a RuntimeError, which publish() does not catch.
GiveUp(t) ==
  /\ At(t, "connect") /\ ~broker
  /\ Leave(t, FALSE)
  /\ UNCHANGED <<life, link, alive, broker, poolVars, copies, calm, faults>>

Discard == link' = "none" /\ alive' = FALSE

TryAgain(t) ==
  /\ thread[t].try = 1
  /\ thread' = [thread EXCEPT ![t].pc = "ensure", ![t].try = 2]
  /\ UNCHANGED lock

\* Variants: one try only; the second failure is swallowed.
RetryNever(t) == Discard /\ Leave(t, FALSE)

RetryThenReturn(t) ==
  Discard /\ (TryAgain(t) \/ (thread[t].try = 2 /\ Leave(t, TRUE)))

\* The except branch of publish() and, after the second try, its last line.
Retry(t) ==
  Discard /\ (TryAgain(t) \/ (thread[t].try = 2 /\ Leave(t, FALSE)))

\* healthy() only returns False: whatever _ensure() got so far stays.
SetupFailed(t, left) ==
  IF In(t, "publish") THEN Retry(t)
  ELSE Leave(t, FALSE) /\ link' = left /\ UNCHANGED alive

\* channel(), declare_topology() and confirm_delivery().
Setup(t) ==
  /\ At(t, "setup")
  /\ \/ alive /\ link' = "open" /\ Working(t) /\ UNCHANGED <<alive, calm, faults>>
     \/ ~alive /\ SetupFailed(t, "none") /\ UNCHANGED <<calm, faults>>
     \/ alive /\ Spend /\ calm' = FALSE /\ SetupFailed(t, "bare")
  /\ UNCHANGED <<life, broker, poolVars, copies>>

\* basic_publish() with a confirm.  Without one the message may be stored.
Send(t) ==
  /\ At(t, "send")
  /\ \/ /\ alive
        /\ copies' = [copies EXCEPT ![t] = @ + 1]
        /\ Leave(t, TRUE)
        /\ UNCHANGED <<link, alive, calm, faults>>
     \/ ~alive /\ Retry(t) /\ UNCHANGED <<copies, calm, faults>>
     \/ /\ alive /\ Spend /\ calm' = FALSE
        /\ copies' \in {copies, [copies EXCEPT ![t] = @ + 1]}
        /\ Retry(t)
  /\ UNCHANGED <<life, broker, poolVars>>

-----------------------------------------------------------------------------
(***************************************************************************)
(* The broker.                                                             *)
(***************************************************************************)
\* It closes a connection, such as one whose heartbeats nobody answers.
Drop ==
  /\ alive /\ Spend
  /\ alive' = FALSE /\ calm' = FALSE
  /\ UNCHANGED <<life, lock, link, broker, poolVars, thread, copies>>

BrokerStops ==
  /\ broker /\ Spend
  /\ broker' = FALSE /\ alive' = FALSE /\ calm' = FALSE
  /\ UNCHANGED <<life, lock, link, poolVars, thread, copies>>

BrokerStarts ==
  /\ ~broker
  /\ broker' = TRUE
  /\ UNCHANGED <<life, lock, link, alive, poolVars, thread, copies, calm, faults>>

-----------------------------------------------------------------------------
ThreadStep(t) ==
  \/ Check(t) \/ Create(t) \/ Open(t) \/ Warm(t) \/ Use(t)
  \/ Acquire(t) \/ Ensure(t) \/ Connect(t) \/ GiveUp(t) \/ Setup(t) \/ Send(t)

Rest == life = "stopped" /\ UNCHANGED vars

Next ==
  \/ Boot \/ Stop \/ Drop \/ BrokerStops \/ BrokerStarts \/ Rest
  \/ \E t \in Threads : Request(t) \/ ThreadStep(t)

Spec == Init /\ [][Next]_vars

\* A request that has begun goes on.  Who gets a free lock is left open.
FairSpec == Spec /\ \A t \in Threads : WF_vars(ThreadStep(t))

-----------------------------------------------------------------------------
(***************************************************************************)
(* Properties.                                                             *)
(***************************************************************************)
\* Nobody closes, replaces or half opens the channel under a thread that is about
\* to publish on it: pika's channels are not thread-safe, which is what the lock is
\* for, and health checks change the connection too.
ChannelKeptForSender == \A t \in Threads : At(t, "send") => link = "open"

\* Idle connections are dropped unnoticed, since nobody serves their heartbeats. A
\* call that starts with a reachable broker and meets no further fault gets over
\* it: its publish is confirmed, its health check says online.
CalmCallsSucceed ==
  [][\A t \in Threads :
       ( \/ In(t, "publish") /\ thread'[t].stage = "compensate"
         \/ In(t, "probe") /\ thread'[t].answer = "offline" ) => ~calm']_vars

\* _pool never refers to a pool that is not open and that nobody is about to
\* open: only a request that races the first ones can meet a closed pool.
PoolOpensInTheEnd ==
  pool = 0 \/ pool \in opened \/ \E t \in Threads : At(t, "open")

\* README: GET /health tells RabbitMQ's readiness.  When the broker goes away and
\* does not come back, health checks stop saying online.
HealthTellsReadiness ==
  <>[]~broker =>
    <>[][\A t \in Threads :
           ~(In(t, "probe") /\ thread'[t].answer = "online")]_vars

\* However connect() and the tries end, the lock is given back.
LockIsReleased == \A t \in Threads : lock = t ~> lock # t

\* Threads, reconnects and lost confirms are invisible to a caller of publish().
PhaseOf(t) ==
  CASE In(t, "publish") /\ thread[t].try = 1 /\ lock = t -> "try1"
    [] In(t, "publish") /\ thread[t].try = 2 -> "try2"
    [] thread[t].answer = "202" /\ At(t, "idle") -> "returned"
    [] In(t, "compensate") -> "raised"
    [] OTHER -> "out"

Caller == INSTANCE PublishCall WITH Callers <- Threads, phase <- [t \in Threads |-> PhaseOf(t)]

ImplementsPublishCall == Caller!CallSpec

=============================================================================
