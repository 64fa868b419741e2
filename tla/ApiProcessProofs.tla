-------------------------- MODULE ApiProcessProofs --------------------------
(***************************************************************************)
(* Proofs about the request threads of the API process, for any number of  *)
(* threads and of broker and database faults.                              *)
(*                                                                         *)
(* The lock of the Publisher does its work: a thread is inside from its    *)
(* Acquire to its Leave, and the lock names it. Only a thread that is      *)
(* inside touches the connection, so what Ensure found is still so when    *)
(* the thread sends.                                                       *)
(*                                                                         *)
(* A pool that _pool names is opened by some thread. A call that finds the *)
(* broker reachable and meets no further fault succeeds. And publish()     *)
(* implements PublishCall, what the order workflow takes it for.           *)
(***************************************************************************)
EXTENDS ApiProcess, TLAPS

StagesInPublisher == {"publish", "probe"}
StagesInDatabase == {"insert", "compensate", "ping"}

PcsInside == {"ensure", "connect", "setup", "send"}
PcsInDatabase == {"check", "create", "open", "warm", "use"}

ThreadState ==
  [stage  : StagesInPublisher \cup StagesInDatabase \cup {"idle"},
   pc     : PcsInside \cup PcsInDatabase \cup {"acquire", "idle"},
   try    : {0, 1, 2},
   answer : {"none", "202", "503", "500", "online", "offline"}]

\* A stage is either in Publisher or in pool() and cursor().
StageFits(r) ==
  /\ r.pc \in PcsInside \cup {"acquire"} => r.stage \in StagesInPublisher
  /\ r.pc \in PcsInDatabase => r.stage \in StagesInDatabase

Inside(t) == thread[t].pc \in PcsInside

Inv ==
  /\ thread \in [Threads -> ThreadState]
  /\ \A t \in Threads : StageFits(thread[t])
  /\ \A t \in Threads : Inside(t) => lock = t
  /\ ChannelKeptForSender

USE DEF StagesInPublisher, StagesInDatabase, PcsInside, PcsInDatabase

-----------------------------------------------------------------------------
\* A step of t alone outside the lock, which leaves lock and link as they are.
LEMMA StepOutside ==
  ASSUME Inv, NEW t \in Threads, NEW r \in ThreadState, StageFits(r),
         thread' = [thread EXCEPT ![t] = r], UNCHANGED <<lock, link>>,
         r.pc \notin PcsInside
  PROVE  Inv'
  BY DEF Inv, Inside, ChannelKeptForSender, At

\* A step of t alone under the lock: it may change the connection, and may leave.
LEMMA StepInside ==
  ASSUME Inv, NEW t \in Threads, lock = t, NEW r \in ThreadState, StageFits(r),
         thread' = [thread EXCEPT ![t] = r],
         r.pc \in PcsInside => lock' = t,
         r.pc = "send" => link' = "open"
  PROVE  Inv'
<1>1. \A u \in Threads \ {t} : ~Inside(u) /\ thread'[u] = thread[u]
  BY DEF Inv
<1>2. thread'[t] = r
  BY DEF Inv
<1> QED
  BY <1>1, <1>2 DEF Inv, Inside, ChannelKeptForSender, At

\* The record that Goto, Enter and Answer write.
LEMMA Written ==
  ASSUME Inv, NEW t \in Threads
  PROVE  /\ thread[t] \in ThreadState /\ StageFits(thread[t])
         /\ \A answer \in {"none", "202", "503", "500", "online", "offline"} :
              Idle(answer) \in ThreadState /\ StageFits(Idle(answer))
  BY DEF Inv, ThreadState, StageFits, Idle

\* pool() and cursor() touch neither the lock nor the connection.
LEMMA DatabaseSteps ==
  ASSUME Inv, NEW t \in Threads,
         Check(t) \/ Create(t) \/ Open(t) \/ Warm(t) \/ Use(t)
  PROVE  Inv'
<1>1. thread[t] \in ThreadState /\ StageFits(thread[t]) /\ UNCHANGED <<lock, link>>
  BY Written DEF Check, Create, Open, Warm, Use, publisherVars
<1>2. CASE \E pc \in PcsInDatabase : thread[t].pc \in PcsInDatabase /\ Goto(t, pc)
  <2>1. PICK pc \in PcsInDatabase : thread[t].pc \in PcsInDatabase /\ Goto(t, pc)
    BY <1>2
  <2> DEFINE r == [thread[t] EXCEPT !.pc = pc]
  <2>2. r \in ThreadState /\ StageFits(r) /\ r.pc \notin PcsInside
    BY <1>1, <2>1 DEF ThreadState, StageFits
  <2>3. thread' = [thread EXCEPT ![t] = r]
    BY <2>1 DEF Goto
  <2> QED
    BY <1>1, <2>2, <2>3, StepOutside
<1>3. CASE \E answer \in {"none", "202", "503", "500", "online", "offline"} : Answer(t, answer)
  <2>1. PICK answer \in {"none", "202", "503", "500", "online", "offline"} : Answer(t, answer)
    BY <1>3
  <2>2. /\ Idle(answer) \in ThreadState /\ StageFits(Idle(answer))
        /\ Idle(answer).pc \notin PcsInside
    BY <2>1, Written DEF Idle
  <2> QED
    BY <1>1, <2>1, <2>2, StepOutside DEF Answer
<1>4. CASE Enter(t, "publish", "acquire")
  <2> DEFINE r == [stage |-> "publish", pc |-> "acquire", try |-> 1, answer |-> "none"]
  <2>1. r \in ThreadState /\ StageFits(r) /\ r.pc \notin PcsInside
    BY DEF ThreadState, StageFits
  <2> QED
    BY <1>1, <1>4, <2>1, StepOutside DEF Enter
<1>5. DatabaseFailed(t) =>
        \E answer \in {"none", "202", "503", "500", "online", "offline"} : Answer(t, answer)
  BY <1>1 DEF DatabaseFailed, ThreadState
<1>6. CASE Check(t) \/ Create(t) \/ Open(t) \/ Warm(t)
  BY <1>2, <1>3, <1>5, <1>6 DEF Check, Create, Open, Warm, At
<1>7. CASE Use(t)
  <2>1. In(t, "insert") \/ In(t, "compensate") \/ In(t, "ping")
    BY <1>1, <1>7 DEF Use, At, In, StageFits
  <2> QED
    BY <1>1, <1>3, <1>4, <1>5, <1>7, <2>1 DEF Use, In, ThreadState
<1> QED
  BY <1>6, <1>7

\* Whoever is inside either stays, or leaves and gives the lock back.
LEMMA LeaveSafe ==
  ASSUME Inv, NEW t \in Threads, Inside(t), NEW ok \in BOOLEAN, Leave(t, ok)
  PROVE  Inv'
<1>1. /\ thread[t] \in ThreadState /\ StageFits(thread[t]) /\ lock = t
      /\ thread[t].stage \in StagesInPublisher
  BY Written DEF Inv, Inside, StageFits
<1>2. PICK r \in ThreadState : /\ StageFits(r) /\ r.pc \notin PcsInside
                               /\ thread' = [thread EXCEPT ![t] = r]
  <2>1. CASE In(t, "publish") /\ ok
    <3>1. thread' = [thread EXCEPT ![t] = Idle("202")]
      BY <2>1 DEF Leave, Answer, In
    <3> QED
      BY <3>1, Written DEF Idle
  <2>2. CASE In(t, "publish") /\ ~ok
    <3> DEFINE r == [stage |-> "compensate", pc |-> "check", try |-> 1, answer |-> "none"]
    <3>1. thread' = [thread EXCEPT ![t] = r]
      BY <2>2 DEF Leave, Enter, In
    <3> QED
      BY <3>1 DEF ThreadState, StageFits
  <2>3. CASE In(t, "probe")
    <3> DEFINE r == [thread[t] EXCEPT !.stage = "ping", !.pc = "check",
                                      !.answer = IF ok THEN "online" ELSE "offline"]
    <3>1. thread' = [thread EXCEPT ![t].stage = "ping", ![t].pc = "check",
                                   ![t].answer = IF ok THEN "online" ELSE "offline"]
      BY <2>3 DEF Leave, In
    <3>2. thread' = [thread EXCEPT ![t] = r]
      BY <3>1 DEF Inv
    <3>3. r \in ThreadState /\ StageFits(r) /\ r.pc \notin PcsInside
      BY <1>1 DEF ThreadState, StageFits
    <3> QED
      BY <3>2, <3>3
  <2> QED
    BY <1>1, <2>1, <2>2, <2>3 DEF In
<1> QED
  BY <1>1, <1>2, StepInside

\* Whoever is inside and stays there keeps the lock.
LEMMA StaySafe ==
  ASSUME Inv, NEW t \in Threads, Inside(t), UNCHANGED lock,
         NEW pc \in PcsInside, NEW try \in {0, 1, 2},
         thread' = [thread EXCEPT ![t] = [@ EXCEPT !.pc = pc, !.try = try]],
         pc = "send" => link' = "open"
  PROVE  Inv'
<1> DEFINE r == [thread[t] EXCEPT !.pc = pc, !.try = try]
<1>1. thread[t] \in ThreadState /\ StageFits(thread[t]) /\ lock = t
  BY Written DEF Inv, Inside
<1>2. r \in ThreadState /\ StageFits(r) /\ r.pc = pc
  BY <1>1 DEF ThreadState, StageFits, Inside
<1>3. thread' = [thread EXCEPT ![t] = r]
  OBVIOUS
<1> HIDE DEF r
<1> QED
  BY <1>1, <1>2, <1>3, StepInside

\* The same for a step that only moves the pc.
LEMMA GotoStays ==
  ASSUME Inv, NEW t \in Threads, Inside(t), UNCHANGED lock,
         NEW pc \in PcsInside, Goto(t, pc), pc = "send" => link' = "open"
  PROVE  Inv'
<1>1. thread[t] \in ThreadState
  BY Written
<1>2. thread' = [thread EXCEPT ![t] = [@ EXCEPT !.pc = pc, !.try = thread[t].try]]
  BY <1>1 DEF Goto, Inv, ThreadState
<1> QED
  BY <1>1, <1>2, StaySafe DEF ThreadState

\* The second try is made under the same lock; after it the thread leaves.
LEMMA RetrySafe ==
  ASSUME Inv, NEW t \in Threads, Inside(t), Retry(t)
  PROVE  Inv'
<1>1. CASE TryAgain(t)
  <2>1. thread' = [thread EXCEPT ![t] = [@ EXCEPT !.pc = "ensure", !.try = 2]]
    BY <1>1 DEF TryAgain, Inv
  <2> QED
    BY <1>1, <2>1, StaySafe DEF TryAgain
<1>2. CASE Leave(t, FALSE)
  BY <1>2, LeaveSafe
<1> QED
  BY <1>1, <1>2 DEF Retry

\* On an open channel a publisher goes on to send and a health check leaves.
LEMMA WorkingSafe ==
  ASSUME Inv, NEW t \in Threads, Inside(t), Working(t), link' = "open"
  PROVE  Inv'
  BY GotoStays, LeaveSafe DEF Working

\* Every step inside Publisher, and the one that takes the lock.
LEMMA PublisherSteps ==
  ASSUME Inv, NEW t \in Threads,
         Acquire(t) \/ Ensure(t) \/ Connect(t) \/ GiveUp(t) \/ Setup(t) \/ Send(t)
  PROVE  Inv'
<1>1. CASE Acquire(t)
  <2> DEFINE r == [thread[t] EXCEPT !.pc = "ensure"]
  <2>1. \A u \in Threads : ~Inside(u)
    BY <1>1, NobodyAssumption DEF Acquire, Inv
  <2>2. r \in ThreadState /\ StageFits(r) /\ r.pc = "ensure"
    BY <1>1, Written DEF Acquire, At, ThreadState, StageFits
  <2>3. thread' = [thread EXCEPT ![t] = r] /\ lock' = t
    BY <1>1 DEF Acquire, Goto
  <2> HIDE DEF r
  <2> QED
    BY <2>1, <2>2, <2>3 DEF Inv, Inside, ChannelKeptForSender, At
<1>2. CASE Ensure(t)
  BY <1>2, WorkingSafe, GotoStays DEF Ensure, At, Inside
<1>3. CASE Connect(t)
  BY <1>3, GotoStays DEF Connect, At, Inside
<1>4. CASE GiveUp(t)
  BY <1>4, LeaveSafe DEF GiveUp, At, Inside
<1>5. CASE Setup(t)
  <2>1. \A left : SetupFailed(t, left) => Inv'
    BY <1>5, RetrySafe, LeaveSafe DEF SetupFailed, Setup, At, Inside
  <2> QED
    BY <1>5, <2>1, WorkingSafe DEF Setup, At, Inside
<1>6. CASE Send(t)
  BY <1>6, RetrySafe, LeaveSafe DEF Send, At, Inside
<1> QED
  BY <1>1, <1>2, <1>3, <1>4, <1>5, <1>6

\* A new request starts outside the lock.
LEMMA RequestSafe ==
  ASSUME Inv, NEW t \in Threads, Request(t)
  PROVE  Inv'
<1> DEFINE r(stage, pc) == [stage |-> stage, pc |-> pc, try |-> 1, answer |-> "none"]
<1>1. /\ r("insert", "check") \in ThreadState /\ StageFits(r("insert", "check"))
      /\ r("probe", "acquire") \in ThreadState /\ StageFits(r("probe", "acquire"))
  BY DEF ThreadState, StageFits
<1> QED
  BY <1>1, StepOutside DEF Request, Enter, publisherVars

-----------------------------------------------------------------------------
\* Inv holds of every reachable state.
THEOREM Invariance == Spec => []Inv
<1>1. Init => Inv
  BY DEF Init, Inv, Idle, ThreadState, StageFits, Inside, ChannelKeptForSender, At
<1>2. ASSUME Inv, [Next]_vars
      PROVE  Inv'
  <2>1. CASE Boot
    BY <1>2, <2>1 DEF Boot, Inv, Inside, ChannelKeptForSender, At
  <2>2. CASE Stop
    BY <1>2, <2>2 DEF Stop, Inv, Inside, ChannelKeptForSender, At
  <2>3. CASE Drop \/ BrokerStops \/ BrokerStarts \/ Rest \/ UNCHANGED vars
    BY <1>2, <2>3
    DEF Drop, BrokerStops, BrokerStarts, Rest, vars, Inv, Inside, ChannelKeptForSender, At
  <2>4. ASSUME NEW t \in Threads, Request(t) \/ ThreadStep(t)
        PROVE  Inv'
    BY <1>2, <2>4, RequestSafe, DatabaseSteps, PublisherSteps DEF ThreadStep
  <2> QED
    BY <1>2, <2>1, <2>2, <2>3, <2>4 DEF Next
<1> QED
  BY <1>1, <1>2, PTL DEF Spec

\* However many threads publish and probe, the channel on which one is about to send
\* is open, and nobody else closes, replaces or half opens it.
THEOREM ChannelKept == Spec => []ChannelKeptForSender
<1>1. Inv => ChannelKeptForSender
  BY DEF Inv
<1> QED
  BY <1>1, Invariance, PTL

-----------------------------------------------------------------------------
\* A step that writes the record of t and no other.
Moves(t) == \E r : thread' = [thread EXCEPT ![t] = r]

\* Leaving the with block changes the record of the thread that leaves.
LEMMA LeaveMoves ==
  ASSUME Inv, NEW t \in Threads, NEW ok, Leave(t, ok), Inside(t)
  PROVE  Moves(t) /\ lock' = Nobody
<1> USE DEF Moves
<1>1. thread \in [Threads -> ThreadState] /\ (In(t, "publish") \/ In(t, "probe"))
  BY DEF Inv, Inside, StageFits, In
<1>2. CASE In(t, "publish")
  BY <1>2 DEF Leave, Answer, Enter, In
<1>3. CASE In(t, "probe")
  <2>1. thread' = [thread EXCEPT ![t] = [@ EXCEPT !.stage = "ping", !.pc = "check",
                                      !.answer = IF ok THEN "online" ELSE "offline"]]
    BY <1>1, <1>3 DEF Leave, In
  <2> QED
    BY <1>3, <2>1 DEF Leave, In
<1> QED
  BY <1>1, <1>2, <1>3

\* Every step of a thread changes its own record only.
LEMMA OneThreadMoves ==
  ASSUME Inv, NEW t \in Threads, Request(t) \/ ThreadStep(t)
  PROVE  Moves(t)
<1>1. \A pc : Goto(t, pc) => Moves(t)
  BY DEF Goto, Moves
<1>2. \A answer : Answer(t, answer) => Moves(t)
  BY DEF Answer, Moves
<1>3. \A stage, pc : Enter(t, stage, pc) => Moves(t)
  BY DEF Enter, Moves
<1>4. DatabaseFailed(t) => Moves(t)
  BY <1>2 DEF DatabaseFailed
<1>5. \A ok : Inside(t) /\ Leave(t, ok) => Moves(t)
  BY LeaveMoves
<1>6. TryAgain(t) => Moves(t)
  BY DEF TryAgain, Inv, Moves
<1>7. Inside(t) /\ Working(t) => Moves(t)
  BY <1>1, <1>5 DEF Working
<1>8. Inside(t) /\ Retry(t) => Moves(t)
  BY <1>5, <1>6 DEF Retry
<1>9. \A left : Inside(t) /\ SetupFailed(t, left) => Moves(t)
  BY <1>5, <1>8 DEF SetupFailed
<1>10. CASE Request(t) \/ Check(t) \/ Create(t) \/ Open(t) \/ Warm(t) \/ Acquire(t) \/ Connect(t)
  BY <1>1, <1>3, <1>4, <1>10 DEF Request, Check, Create, Open, Warm, Acquire, Connect
<1>11. CASE Use(t)
  <2>1. In(t, "insert") \/ In(t, "compensate") \/ In(t, "ping")
    BY <1>11 DEF Inv, Use, At, In, StageFits, ThreadState
  <2> QED
    BY <1>2, <1>3, <1>4, <1>11, <2>1 DEF Use, In
<1>12. CASE Ensure(t) \/ GiveUp(t) \/ Setup(t) \/ Send(t)
  <2>1. Inside(t)
    BY <1>12 DEF Ensure, GiveUp, Setup, Send, At, Inside
  <2> QED
    BY <1>1, <1>5, <1>7, <1>8, <1>9, <1>12, <2>1 DEF Ensure, GiveUp, Setup, Send
<1> QED
  BY <1>10, <1>11, <1>12 DEF ThreadStep

-----------------------------------------------------------------------------
(***************************************************************************)
(* The pool.                                                               *)
(***************************************************************************)
\* Only Create binds a pool that is not open, and its thread then is about to open
\* what the name refers to by then.
THEOREM PoolOpens == Spec => []PoolOpensInTheEnd
<1>1. Init => PoolOpensInTheEnd
  BY DEF Init, PoolOpensInTheEnd
<1>2. ASSUME Inv, PoolOpensInTheEnd, [Next]_vars
      PROVE  PoolOpensInTheEnd'
  <2> USE DEF PoolOpensInTheEnd, At
  <2>1. CASE UNCHANGED <<pool, opened, thread>>
    BY <1>2, <2>1
  <2>2. CASE Boot \/ Drop \/ BrokerStops \/ BrokerStarts \/ Rest \/ UNCHANGED vars
    BY <1>2, <2>1, <2>2 DEF Boot, Drop, BrokerStops, BrokerStarts, Rest, vars, poolVars
  <2>3. CASE Stop
    BY <2>3 DEF Stop
  <2>4. ASSUME NEW t \in Threads, Create(t)
        PROVE  PoolOpensInTheEnd'
    <3>1. thread'[t].pc = "open"
      BY <1>2, <2>4 DEF Create, Goto, Inv, ThreadState
    <3> QED
      BY <3>1
  <2>5. ASSUME NEW t \in Threads, Open(t)
        PROVE  PoolOpensInTheEnd'
    BY <2>5 DEF Open
  <2>6. ASSUME NEW t \in Threads, UNCHANGED <<pool, opened>>, ~At(t, "open"), Moves(t)
        PROVE  PoolOpensInTheEnd'
    <3>1. \A u \in Threads : At(u, "open") => thread'[u] = thread[u]
      BY <1>2, <2>6 DEF Inv, Moves
    <3> QED
      BY <1>2, <2>6, <3>1
  <2>7. ASSUME NEW t \in Threads,
               Request(t) \/ Check(t) \/ Warm(t) \/ Use(t) \/ Acquire(t) \/ Ensure(t)
                 \/ Connect(t) \/ GiveUp(t) \/ Setup(t) \/ Send(t)
        PROVE  PoolOpensInTheEnd'
    <3>1. UNCHANGED <<pool, opened>> /\ ~At(t, "open")
      BY <2>7
      DEF Request, Check, Warm, Use, Acquire, Ensure, Connect, GiveUp, Setup, Send, poolVars
    <3>2. Moves(t)
      BY <1>2, <2>7, OneThreadMoves DEF ThreadStep
    <3> QED
      BY <2>6, <3>1, <3>2
  <2> QED
    BY <1>2, <2>2, <2>3, <2>4, <2>5, <2>7 DEF Next, ThreadStep
<1> QED
  BY <1>1, <1>2, Invariance, PTL DEF Spec

-----------------------------------------------------------------------------
(***************************************************************************)
(* What a call of Publisher finds, does and returns.                       *)
(*                                                                         *)
(* As long as nothing goes wrong after it took the lock, a thread that     *)
(* sets up a connection has a live one, and its second try always gets     *)
(* one: the first has discarded whatever there was.                        *)
(***************************************************************************)
\* What a record says of the request it belongs to.
CallFits(r) ==
  /\ r.stage = "idle" <=> r.pc = "idle"
  /\ r.stage \in StagesInPublisher => r.try \in {1, 2}
  /\ r.stage \in StagesInPublisher /\ r.try = 2 => r.stage = "publish" /\ r.pc \in PcsInside
  /\ r.pc = "send" => r.stage = "publish"
  /\ r.stage \notin {"idle", "ping"} => r.answer = "none"
  /\ r.stage = "ping" => r.answer \in {"online", "offline"}

Connected(t) ==
  /\ At(t, "setup") => alive
  /\ thread[t].try = 2 => /\ At(t, "ensure") => link = "none"
                          /\ At(t, "send") => alive

CallInv ==
  /\ copies \in [Threads -> Nat]
  /\ \A t \in Threads : CallFits(thread[t])
  /\ \A t \in Threads : lock = t => Inside(t)
  /\ life # "serving" => \A t \in Threads : At(t, "idle")
  /\ calm => broker
  /\ calm => \A t \in Threads : Connected(t)

\* A step of t alone that leaves Publisher's state as it is.
LEMMA CallOutside ==
  ASSUME Inv, CallInv, NEW t \in Threads, NEW r, CallFits(r), r.pc \notin PcsInside,
         ~Inside(t), thread' = [thread EXCEPT ![t] = r], UNCHANGED publisherVars,
         life = "serving", UNCHANGED life
  PROVE  CallInv'
<1>1. thread'[t] = r /\ \A u \in Threads \ {t} : thread'[u] = thread[u]
  BY DEF Inv
<1>2. \A u \in Threads : lock = u => u # t
  BY DEF CallInv
<1>3. calm => \A u \in Threads : Connected(u)'
  BY <1>1 DEF CallInv, Connected, At, publisherVars
<1> QED
  BY <1>1, <1>2, <1>3 DEF CallInv, Inside, publisherVars, At

\* A step of t while nobody else is inside.
LEMMA CallInside ==
  ASSUME Inv, CallInv, NEW t \in Threads, NEW r, CallFits(r),
         thread' = [thread EXCEPT ![t] = r],
         \A u \in Threads \ {t} : ~Inside(u),
         lock' \in {t, Nobody}, lock' = t => r.pc \in PcsInside,
         life = "serving", UNCHANGED life,
         copies' \in [Threads -> Nat],
         calm' => broker',
         calm' /\ r.pc = "setup" => alive',
         calm' /\ r.try = 2 /\ r.pc = "ensure" => link' = "none",
         calm' /\ r.try = 2 /\ r.pc = "send" => alive'
  PROVE  CallInv'
<1>1. thread'[t] = r /\ \A u \in Threads \ {t} : thread'[u] = thread[u]
  BY DEF Inv
<1>2. \A u \in Threads : lock' = u => Inside(u)'
  BY <1>1, NobodyAssumption DEF Inside
<1>3. calm' => \A u \in Threads : Connected(u)'
  BY <1>1 DEF Connected, At, Inside
<1>4. \A u \in Threads : CallFits(thread'[u])
  BY <1>1 DEF CallInv
<1> QED
  BY <1>2, <1>3, <1>4 DEF CallInv

\* Whoever is inside is alone there, has the lock and is in a call of Publisher.
LEMMA InsideAlone ==
  ASSUME Inv, CallInv, NEW t \in Threads, Inside(t)
  PROVE  /\ lock = t /\ life = "serving" /\ thread[t].stage \in StagesInPublisher
         /\ \A u \in Threads \ {t} : ~Inside(u)
         /\ thread[t].try \in {1, 2} /\ thread[t].answer = "none"
         /\ thread[t].try = 2 => In(t, "publish")
<1>1. thread[t].stage \in StagesInPublisher /\ ~At(t, "idle")
  BY DEF Inv, StageFits, Inside, At
<1> QED
  BY <1>1 DEF Inv, CallInv, CallFits, In

\* Leaving, with an answer or an exception.
LEMMA CallLeaves ==
  ASSUME Inv, CallInv, NEW t \in Threads, Inside(t), NEW ok \in BOOLEAN, Leave(t, ok),
         copies' \in [Threads -> Nat], calm' => broker', UNCHANGED life
  PROVE  CallInv'
<1>1. PICK r : /\ CallFits(r) /\ r.pc \notin PcsInside
               /\ thread' = [thread EXCEPT ![t] = r]
  <2>1. CASE In(t, "publish") /\ ok
    <3>1. thread' = [thread EXCEPT ![t] = Idle("202")]
      BY <2>1 DEF Leave, Answer, In
    <3> QED
      BY <3>1 DEF Idle, CallFits
  <2>2. CASE In(t, "publish") /\ ~ok
    <3> DEFINE r == [stage |-> "compensate", pc |-> "check", try |-> 1, answer |-> "none"]
    <3>1. thread' = [thread EXCEPT ![t] = r]
      BY <2>2 DEF Leave, Enter, In
    <3> QED
      BY <3>1 DEF CallFits
  <2>3. CASE In(t, "probe")
    <3> DEFINE r == [thread[t] EXCEPT !.stage = "ping", !.pc = "check",
                                      !.answer = IF ok THEN "online" ELSE "offline"]
    <3>1. thread' = [thread EXCEPT ![t].stage = "ping", ![t].pc = "check",
                                   ![t].answer = IF ok THEN "online" ELSE "offline"]
      BY <2>3 DEF Leave, In
    <3>2. thread' = [thread EXCEPT ![t] = r]
      BY <3>1 DEF Inv
    <3>3. CallFits(r) /\ r.pc \notin PcsInside
      BY DEF Inv, ThreadState, CallFits
    <3> QED
      BY <3>2, <3>3
  <2> QED
    BY <2>1, <2>2, <2>3, InsideAlone DEF In
<1>2. lock' = Nobody
  BY LeaveMoves
<1> QED
  BY <1>1, <1>2, CallInside, InsideAlone, NobodyAssumption

\* Staying inside for the next step of the same try.
LEMMA CallGoesOn ==
  ASSUME Inv, CallInv, NEW t \in Threads, Inside(t), UNCHANGED <<lock, life, copies>>,
         NEW pc \in PcsInside, Goto(t, pc), calm' => broker',
         pc \in {"setup", "send"} /\ calm' /\ (pc = "send" => thread[t].try = 2) => alive',
         pc # "ensure", pc = "send" => In(t, "publish")
  PROVE  CallInv'
<1> DEFINE r == [thread[t] EXCEPT !.pc = pc]
<1>1. thread' = [thread EXCEPT ![t] = r]
  BY DEF Goto
<1>2. CallFits(r) /\ r.pc = pc /\ r.try = thread[t].try
  BY InsideAlone DEF Inv, CallInv, ThreadState, CallFits, In
<1>3. copies' \in [Threads -> Nat]
  BY DEF CallInv
<1> HIDE DEF r
<1> QED
  BY <1>1, <1>2, <1>3, CallInside, InsideAlone

\* The connection is discarded before the second try and after it.
LEMMA CallRetries ==
  ASSUME Inv, CallInv, NEW t \in Threads, Inside(t), In(t, "publish"), Retry(t),
         copies' \in [Threads -> Nat], calm' => broker', UNCHANGED life
  PROVE  CallInv'
<1>1. CASE TryAgain(t)
  <2> DEFINE r == [thread[t] EXCEPT !.pc = "ensure", !.try = 2]
  <2>1. thread' = [thread EXCEPT ![t] = r] /\ UNCHANGED lock
    BY <1>1 DEF TryAgain, Inv
  <2>2. CallFits(r) /\ r.pc = "ensure" /\ r.try = 2
    BY DEF Inv, CallInv, ThreadState, CallFits, In
  <2>3. link' = "none"
    BY DEF Retry, Discard
  <2> HIDE DEF r
  <2> QED
    BY <2>1, <2>2, <2>3, CallInside, InsideAlone
<1>2. CASE Leave(t, FALSE)
  BY <1>2, CallLeaves
<1> QED
  BY <1>1, <1>2 DEF Retry

\* A step outside Publisher: what the record of t becomes.
Outside(t, r) ==
  /\ thread' = [thread EXCEPT ![t] = r] /\ CallFits(r) /\ r.pc \notin PcsInside
  /\ ~Inside(t) /\ life = "serving"
  /\ UNCHANGED publisherVars /\ UNCHANGED life
  /\ thread[t].stage \notin StagesInPublisher
  /\ r.stage = "compensate" => In(t, "compensate")
  /\ ~(r.pc = "idle" /\ r.answer = "202")

\* Every step outside Publisher is an Outside.
LEMMA OutsideSteps ==
  ASSUME Inv, CallInv, NEW t \in Threads,
         Request(t) \/ Check(t) \/ Create(t) \/ Open(t) \/ Warm(t) \/ Use(t)
  PROVE  \E r : Outside(t, r)
<1>1. /\ thread[t] \in ThreadState /\ StageFits(thread[t]) /\ CallFits(thread[t])
      /\ ~Inside(t) /\ life = "serving"
      /\ UNCHANGED publisherVars /\ UNCHANGED life
      /\ thread[t].stage \notin StagesInPublisher
  <2>1. thread[t] \in ThreadState /\ StageFits(thread[t]) /\ CallFits(thread[t])
    BY DEF Inv, CallInv
  <2>2. UNCHANGED publisherVars /\ UNCHANGED life
    BY DEF Request, Check, Create, Open, Warm, Use
  <2>3. thread[t].pc \in PcsInDatabase \/ (Request(t) /\ thread[t].pc = "idle")
    BY DEF Request, Check, Create, Open, Warm, Use, At
  <2>4. life = "serving"
    BY <2>3 DEF Request, CallInv, At
  <2> QED
    BY <2>1, <2>2, <2>3, <2>4 DEF Inside, StageFits, CallFits
<1>2. CASE Request(t)
  <2>1. ASSUME NEW stage, NEW pc, Enter(t, stage, pc),
               <<stage, pc>> \in {<<"insert", "check">>, <<"probe", "acquire">>}
        PROVE  \E r : Outside(t, r)
    <3> DEFINE r == [stage |-> stage, pc |-> pc, try |-> 1, answer |-> "none"]
    <3>1. thread' = [thread EXCEPT ![t] = r]
      BY <2>1 DEF Enter
    <3>2. CallFits(r) /\ r.pc \notin PcsInside \cup {"idle"} /\ r.stage # "compensate"
      BY <2>1 DEF CallFits
    <3> HIDE DEF r
    <3> QED
      BY <1>1, <3>1, <3>2 DEF Outside
  <2> QED
    BY <1>2, <2>1 DEF Request
<1>3. CASE \E pc \in PcsInDatabase : thread[t].pc \in PcsInDatabase /\ Goto(t, pc)
  <2>1. PICK pc \in PcsInDatabase : thread[t].pc \in PcsInDatabase /\ Goto(t, pc)
    BY <1>3
  <2> DEFINE r == [thread[t] EXCEPT !.pc = pc]
  <2>2. r.stage = thread[t].stage /\ r.pc = pc /\ r.answer = thread[t].answer
    BY <1>1 DEF ThreadState
  <2>3. thread' = [thread EXCEPT ![t] = r]
    BY <2>1 DEF Goto
  <2>4. CallFits(r)
    BY <1>1, <2>1, <2>2 DEF CallFits, StageFits
  <2> HIDE DEF r
  <2> QED
    BY <1>1, <2>2, <2>3, <2>4 DEF Outside, In
<1>4. ASSUME NEW answer, Answer(t, answer), answer # "202"
      PROVE  Outside(t, Idle(answer))
  BY <1>1, <1>4 DEF Outside, Answer, Idle, CallFits
<1>5. CASE DatabaseFailed(t)
  BY <1>1, <1>4, <1>5 DEF DatabaseFailed, In, CallFits
<1>6. CASE Enter(t, "publish", "acquire")
  <2> DEFINE r == [stage |-> "publish", pc |-> "acquire", try |-> 1, answer |-> "none"]
  <2>1. thread' = [thread EXCEPT ![t] = r]
    BY <1>6 DEF Enter
  <2>2. CallFits(r) /\ r.pc = "acquire" /\ r.stage = "publish"
    BY DEF CallFits
  <2> HIDE DEF r
  <2> QED
    BY <1>1, <2>1, <2>2 DEF Outside
<1>7. CASE Use(t)
  <2>1. In(t, "insert") \/ In(t, "compensate") \/ In(t, "ping")
    BY <1>1, <1>7 DEF Use, At, In, StageFits
  <2> QED
    BY <1>1, <1>4, <1>5, <1>6, <1>7, <2>1 DEF Use, In, CallFits
<1>8. CASE Check(t) \/ Create(t) \/ Open(t) \/ Warm(t)
  BY <1>3, <1>5, <1>8 DEF Check, Create, Open, Warm, At
<1> QED
  BY <1>2, <1>7, <1>8

\* The steps of Publisher keep CallInv.
LEMMA CallSteps ==
  ASSUME Inv, CallInv, NEW t \in Threads,
         Acquire(t) \/ Ensure(t) \/ Connect(t) \/ GiveUp(t) \/ Setup(t) \/ Send(t)
  PROVE  CallInv'
<1>1. CASE Acquire(t)
  <2> DEFINE r == [thread[t] EXCEPT !.pc = "ensure"]
  <2>1. thread' = [thread EXCEPT ![t] = r] /\ lock' = t
    BY <1>1 DEF Acquire, Goto
  <2>2. /\ thread[t].stage \in StagesInPublisher /\ thread[t].try = 1
        /\ life = "serving"
    BY <1>1 DEF Acquire, At, Inv, StageFits, CallInv, CallFits
  <2>3. CallFits(r) /\ r.pc = "ensure" /\ r.try = 1
    BY <2>2 DEF Inv, CallInv, ThreadState, CallFits
  <2>4. \A u \in Threads : ~Inside(u)
    BY <1>1, NobodyAssumption DEF Acquire, Inv
  <2>5. copies' \in [Threads -> Nat]
    BY <1>1 DEF Acquire, CallInv
  <2> HIDE DEF r
  <2> QED
    <3>1. /\ lock' \in {t, Nobody} /\ UNCHANGED life /\ (calm' => broker')
      BY <1>1 DEF Acquire
    <3>2. /\ lock' = t => r.pc \in PcsInside
          /\ calm' /\ r.pc = "setup" => alive'
          /\ calm' /\ r.try = 2 /\ r.pc = "ensure" => link' = "none"
          /\ calm' /\ r.try = 2 /\ r.pc = "send" => alive'
      BY <2>3
    <3>3. \A u \in Threads \ {t} : ~Inside(u)
      BY <2>4
    <3> QED
      BY <2>1, <2>2, <2>3, <2>5, <3>1, <3>2, <3>3, CallInside
<1>2. CASE Ensure(t) \/ Connect(t) \/ GiveUp(t) \/ Setup(t) \/ Send(t)
  <2>1. Inside(t)
    BY <1>2 DEF Ensure, Connect, GiveUp, Setup, Send, At, Inside
  <2>2. copies \in [Threads -> Nat] /\ copies' \in [Threads -> Nat]
    <3>1. copies \in [Threads -> Nat] /\ [copies EXCEPT ![t] = @ + 1] \in [Threads -> Nat]
      BY DEF CallInv
    <3>2. copies' = copies \/ copies' = [copies EXCEPT ![t] = @ + 1]
      BY <1>2 DEF Ensure, Connect, GiveUp, Setup, Send
    <3> QED
      BY <3>1, <3>2
  <2>3. UNCHANGED life /\ (calm' => broker')
    <3>1. UNCHANGED <<life, broker>>
      BY <1>2 DEF Ensure, Connect, GiveUp, Setup, Send
    <3>2. calm' = calm \/ calm' = FALSE
      BY <1>2 DEF Ensure, Connect, GiveUp, Setup, Send
    <3>3. calm => broker
      BY DEF CallInv
    <3> QED
      BY <3>1, <3>2, <3>3
  <2>4. CASE Ensure(t)
    <3>1. CASE Goto(t, "connect") /\ UNCHANGED lock
      BY <2>1, <2>3, <2>4, <3>1, CallGoesOn DEF Ensure
    <3>2. CASE In(t, "publish") /\ Goto(t, "send") /\ UNCHANGED lock /\ link = "open"
      <4>1. calm /\ thread[t].try = 2 => FALSE
        BY <2>4, <3>2 DEF Ensure, CallInv, Connected
      <4> QED
        BY <2>1, <2>3, <2>4, <3>2, <4>1, CallGoesOn DEF Ensure
    <3>3. CASE Leave(t, TRUE)
      BY <2>1, <2>2, <2>3, <3>3, CallLeaves
    <3> QED
      BY <2>4, <3>1, <3>2, <3>3 DEF Ensure, Working
  <2>5. CASE Connect(t)
    BY <2>1, <2>3, <2>5, CallGoesOn DEF Connect
  <2>6. CASE GiveUp(t)
    BY <2>1, <2>2, <2>3, <2>6, CallLeaves DEF GiveUp
  <2>7. CASE Setup(t)
    <3>1. ASSUME NEW left, SetupFailed(t, left)
          PROVE  CallInv'
      BY <2>1, <2>2, <2>3, <3>1, CallRetries, CallLeaves DEF SetupFailed
    <3>2. CASE alive /\ link' = "open" /\ Working(t) /\ UNCHANGED <<alive, calm, faults>>
      <4>1. CASE In(t, "publish") /\ Goto(t, "send") /\ UNCHANGED lock
        BY <2>1, <2>3, <2>7, <3>2, <4>1, CallGoesOn DEF Setup
      <4>2. CASE Leave(t, TRUE)
        BY <2>1, <2>2, <2>3, <4>2, CallLeaves
      <4> QED
        BY <3>2, <4>1, <4>2 DEF Working
    <3> QED
      BY <2>7, <3>1, <3>2 DEF Setup
  <2>8. CASE Send(t)
    <3>1. In(t, "publish")
      BY <2>8 DEF Send, CallInv, CallFits, At, In
    <3> QED
      BY <2>1, <2>2, <2>3, <2>8, <3>1, CallRetries, CallLeaves DEF Send
  <2> QED
    BY <1>2, <2>4, <2>5, <2>6, <2>7, <2>8
<1> QED
  BY <1>1, <1>2

\* CallInv holds of every reachable state.
THEOREM CallInvariance == Spec => []CallInv
<1>1. Init => CallInv
  BY NobodyAssumption DEF Init, CallInv, CallFits, Connected, Idle, At
<1>2. ASSUME Inv, CallInv, [Next]_vars
      PROVE  CallInv'
  <2>1. CASE Boot \/ Stop
    <3>1. \A t \in Threads : At(t, "idle") /\ UNCHANGED thread
      BY <1>2, <2>1 DEF Boot, Stop, CallInv
    <3>2. UNCHANGED <<lock, broker, calm, copies, thread>>
      BY <2>1 DEF Boot, Stop
    <3>3. \A t \in Threads : Connected(t)'
      BY <3>1 DEF Connected, At
    <3> QED
      BY <1>2, <3>1, <3>2, <3>3 DEF CallInv, Inside, At
  <2>2. CASE Drop \/ BrokerStops
    <3>1. UNCHANGED <<life, lock, link, thread, copies>> /\ calm' = FALSE
      BY <2>2 DEF Drop, BrokerStops
    <3> QED
      BY <1>2, <3>1 DEF CallInv, Inside, At
  <2>3. CASE BrokerStarts
    BY <1>2, <2>3 DEF BrokerStarts, CallInv, Inside, At
  <2>4. CASE Rest \/ UNCHANGED vars
    BY <1>2, <2>4 DEF Rest, vars, CallInv, Inside, At, Connected
  <2>5. ASSUME NEW t \in Threads,
               Request(t) \/ Check(t) \/ Create(t) \/ Open(t) \/ Warm(t) \/ Use(t)
        PROVE  CallInv'
    <3>1. PICK r : Outside(t, r)
      BY <1>2, <2>5, OutsideSteps
    <3> QED
      BY <1>2, <3>1, CallOutside DEF Outside
  <2> QED
    BY <1>2, <2>1, <2>2, <2>3, <2>4, <2>5, CallSteps DEF Next, ThreadStep
<1> QED
  BY <1>1, <1>2, Invariance, PTL DEF Spec

\* publish() raises, or healthy() returns False.
Refused(t) ==
  \/ In(t, "publish") /\ thread'[t].stage = "compensate"
  \/ In(t, "probe") /\ thread'[t].answer = "offline"

\* Going on, trying again and returning are no refusals.
LEMMA NotRefused ==
  ASSUME Inv, CallInv, NEW t \in Threads,
         \/ UNCHANGED thread
         \/ \E pc : Goto(t, pc)
         \/ TryAgain(t)
         \/ Inside(t) /\ Leave(t, TRUE)
  PROVE  ~Refused(t)
<1>1. /\ thread \in [Threads -> ThreadState] /\ thread[t] \in ThreadState
      /\ In(t, "probe") => thread[t].answer = "none"
  BY DEF Inv, CallInv, CallFits, In
<1>2. CASE UNCHANGED thread
  BY <1>1, <1>2 DEF Refused, In
<1>3. CASE \E pc : Goto(t, pc)
  BY <1>1, <1>3 DEF Refused, In, Goto, ThreadState
<1>4. CASE TryAgain(t)
  BY <1>1, <1>4 DEF Refused, In, TryAgain, ThreadState
<1>5. CASE Inside(t) /\ Leave(t, TRUE)
  <2>1. CASE In(t, "publish")
    <3>1. thread'[t] = Idle("202")
      BY <1>1, <1>5, <2>1 DEF Leave, Answer, In
    <3> QED
      BY <2>1, <3>1 DEF Refused, In, Idle
  <2>2. CASE In(t, "probe")
    <3>1. thread'[t].answer = "online"
      BY <1>1, <1>5, <2>2 DEF Leave, In, ThreadState
    <3> QED
      BY <2>2, <3>1 DEF Refused, In
  <2> QED
    BY <2>1, <2>2 DEF Refused
<1> QED
  BY <1>2, <1>3, <1>4, <1>5

\* A first try that fails is followed by a second one.
LEMMA RetryRefuses ==
  ASSUME Inv, CallInv, NEW t \in Threads, Retry(t), thread[t].try # 2
  PROVE  ~Refused(t)
  BY NotRefused DEF Retry

\* A second try finds a live connection, so only a fault of this call makes it raise.
LEMMA RefusedForReason ==
  ASSUME Inv, CallInv, NEW t \in Threads, Request(t) \/ ThreadStep(t), Refused(t)
  PROVE  ~calm'
<1>1. CASE Request(t) \/ Check(t) \/ Create(t) \/ Open(t) \/ Warm(t) \/ Use(t)
  BY <1>1, OutsideSteps DEF Outside, Refused, In
<1>2. CASE Acquire(t) \/ Connect(t)
  BY <1>2, NotRefused DEF Acquire, Connect
<1>3. CASE Ensure(t)
  <2>1. Inside(t)
    BY <1>3 DEF Ensure, At, Inside
  <2> QED
    BY <1>3, <2>1, NotRefused DEF Ensure, Working
<1>4. CASE GiveUp(t)
  BY <1>4 DEF GiveUp, CallInv
<1>5. CASE Setup(t)
  <2>1. Inside(t)
    BY <1>5 DEF Setup, At, Inside
  <2>2. ~Working(t)
    BY <2>1, NotRefused DEF Working
  <2>3. calm => alive
    BY <1>5 DEF Setup, CallInv, Connected
  <2> QED
    BY <1>5, <2>2, <2>3 DEF Setup
<1>6. CASE Send(t)
  <2>1. Inside(t)
    BY <1>6 DEF Send, At, Inside
  <2>2. ~Leave(t, TRUE)
    BY <2>1, NotRefused
  <2>3. calm /\ thread[t].try = 2 => alive
    BY <1>6 DEF Send, CallInv, Connected
  <2> QED
    BY <1>6, <2>2, <2>3, RetryRefuses DEF Send
<1> QED
  BY <1>1, <1>2, <1>3, <1>4, <1>5, <1>6 DEF ThreadStep

\* A call of publish() or healthy() that finds a reachable broker and meets no further
\* fault succeeds, on whatever connection its predecessors left behind.
THEOREM CalmCalls == Spec => CalmCallsSucceed
<1>1. ASSUME Inv, CallInv, Next
      PROVE  \A t \in Threads : Refused(t) => ~calm'
  <2> TAKE t \in Threads
  <2> HAVE Refused(t)
  <2>1. CASE Boot \/ Stop \/ Drop \/ BrokerStops \/ BrokerStarts \/ Rest
    <3>1. UNCHANGED thread
      BY <2>1 DEF Boot, Stop, Drop, BrokerStops, BrokerStarts, Rest, vars
    <3> QED
      BY <1>1, <3>1, NotRefused
  <2>2. ASSUME NEW u \in Threads, Request(u) \/ ThreadStep(u), u # t
        PROVE  FALSE
    <3>1. thread'[t] = thread[t]
      BY <1>1, <2>2, OneThreadMoves DEF Moves, Inv
    <3>2. In(t, "probe") => thread[t].answer = "none"
      BY <1>1 DEF CallInv, CallFits, In
    <3> QED
      BY <3>1, <3>2 DEF Refused, In
  <2> QED
    BY <1>1, <2>1, <2>2, RefusedForReason DEF Next
<1>2. ASSUME Inv, CallInv, [Next]_vars
      PROVE  [\A t \in Threads :
                ( \/ In(t, "publish") /\ thread'[t].stage = "compensate"
                  \/ In(t, "probe") /\ thread'[t].answer = "offline" ) => ~calm']_vars
  BY <1>1, <1>2 DEF Refused
<1> QED
  BY <1>2, Invariance, CallInvariance, PTL DEF Spec, CalmCallsSucceed

-----------------------------------------------------------------------------
(***************************************************************************)
(* publish() as its callers see it: a step of a thread is a step of its    *)
(* call in PublishCall, or no step at all.                                 *)
(***************************************************************************)
\* PhaseOf, as a function of a thread's record and of whether it has the lock.
Phase(r, mine) ==
  CASE r.stage = "publish" /\ r.try = 1 /\ mine -> "try1"
    [] r.stage = "publish" /\ r.try = 2 -> "try2"
    [] r.answer = "202" /\ r.pc = "idle" -> "returned"
    [] r.stage = "compensate" -> "raised"
    [] OTHER -> "out"

\* A step of t changes the phase of t only.
LEMMA PhaseStep ==
  ASSUME Inv, NEW t \in Threads, NEW r, thread' = [thread EXCEPT ![t] = r],
         \A u \in Threads \ {t} : lock' = u <=> lock = u,
         NEW to, Phase(r, lock' = t) = to
  PROVE  Caller!Move(t, to)
<1> DEFINE phase == [u \in Threads |-> PhaseOf(u)]
<1>1. thread'[t] = r /\ \A u \in Threads \ {t} : thread'[u] = thread[u]
  BY DEF Inv
<1>2. PhaseOf(t)' = Phase(r, lock' = t)
  BY <1>1 DEF PhaseOf, Phase, In, At
<1>3. \A u \in Threads \ {t} : PhaseOf(u)' = PhaseOf(u)
  BY <1>1 DEF PhaseOf, In, At
<1>4. phase' = [phase EXCEPT ![t] = to]
  BY <1>2, <1>3
<1> QED
  BY <1>4 DEF Caller!Move

\* When the phase of t stays the same too, a caller sees nothing.
LEMMA PhaseKept ==
  ASSUME Inv, NEW t \in Threads, NEW r, thread' = [thread EXCEPT ![t] = r],
         \A u \in Threads \ {t} : lock' = u <=> lock = u,
         Phase(r, lock' = t) = PhaseOf(t), UNCHANGED copies
  PROVE  UNCHANGED Caller!callVars
<1> DEFINE phase == [u \in Threads |-> PhaseOf(u)]
<1>1. phase' = [phase EXCEPT ![t] = PhaseOf(t)]
  <2>1. Caller!Move(t, PhaseOf(t))
    BY PhaseStep
  <2> QED
    BY <2>1 DEF Caller!Move
<1>2. phase' = phase
  BY <1>1
<1> QED
  BY <1>2 DEF Caller!callVars

\* Outside Publisher a call that has ended is noted, or nothing happens.
LEMMA OutsideIsNoCall ==
  ASSUME Inv, CallInv, NEW t \in Threads, NEW r, Outside(t, r)
  PROVE  Caller!Finish(t) \/ UNCHANGED Caller!callVars
<1>1. /\ thread' = [thread EXCEPT ![t] = r] /\ UNCHANGED <<lock, copies>>
      /\ lock # t /\ CallFits(thread[t]) /\ CallFits(r)
  BY DEF Outside, publisherVars, CallInv
<1>2. PhaseOf(t) \in {"returned", "raised", "out"}
  BY <1>1 DEF PhaseOf, Outside, In, At
<1>3. Phase(r, lock' = t) = "out" \/ (Phase(r, lock' = t) = "raised" /\ PhaseOf(t) = "raised")
  BY <1>1 DEF Phase, PhaseOf, Outside, CallFits, In, At
<1>4. CASE Phase(r, lock' = t) = PhaseOf(t)
  BY <1>1, <1>4, PhaseKept
<1>5. CASE Phase(r, lock' = t) = "out" /\ PhaseOf(t) \in {"returned", "raised"}
  <2>1. Caller!Move(t, "out")
    BY <1>1, <1>5, PhaseStep
  <2> QED
    BY <1>1, <1>5, <2>1 DEF Caller!Finish
<1> QED
  BY <1>2, <1>3, <1>4, <1>5

\* The phase of a thread that is inside Publisher.
LEMMA PhaseInside ==
  ASSUME Inv, CallInv, NEW t \in Threads, Inside(t)
  PROVE  /\ In(t, "probe") => PhaseOf(t) = "out"
         /\ In(t, "publish") /\ thread[t].try = 1 => PhaseOf(t) = "try1"
         /\ In(t, "publish") /\ thread[t].try = 2 => PhaseOf(t) = "try2"
  BY InsideAlone DEF PhaseOf, In, At

\* Leaving publish() is a return or a raise; leaving healthy() is nothing to a caller.
LEMMA LeaveIsNoCall ==
  ASSUME Inv, CallInv, NEW t \in Threads, Inside(t), NEW ok \in BOOLEAN, Leave(t, ok)
  PROVE  /\ In(t, "publish") => Caller!Move(t, IF ok THEN "returned" ELSE "raised")
         /\ In(t, "probe") /\ UNCHANGED copies => UNCHANGED Caller!callVars
<1>1. /\ \A u \in Threads \ {t} : lock' = u <=> lock = u
      /\ lock' # t
  BY LeaveMoves, InsideAlone, NobodyAssumption
<1>2. CASE In(t, "publish") /\ ok
  <2>1. thread' = [thread EXCEPT ![t] = Idle("202")]
    BY <1>2 DEF Leave, Answer, In
  <2>2. Phase(Idle("202"), lock' = t) = "returned"
    BY DEF Phase, Idle
  <2> QED
    BY <1>1, <1>2, <2>1, <2>2, PhaseStep DEF In
<1>3. CASE In(t, "publish") /\ ~ok
  <2> DEFINE r == [stage |-> "compensate", pc |-> "check", try |-> 1, answer |-> "none"]
  <2>1. thread' = [thread EXCEPT ![t] = r]
    BY <1>3 DEF Leave, Enter, In
  <2>2. Phase(r, lock' = t) = "raised"
    BY DEF Phase
  <2> HIDE DEF r
  <2> QED
    BY <1>1, <1>3, <2>1, <2>2, PhaseStep DEF In
<1>4. CASE In(t, "probe") /\ UNCHANGED copies
  <2> DEFINE r == [thread[t] EXCEPT !.stage = "ping", !.pc = "check",
                                    !.answer = IF ok THEN "online" ELSE "offline"]
  <2>1. thread' = [thread EXCEPT ![t].stage = "ping", ![t].pc = "check",
                                 ![t].answer = IF ok THEN "online" ELSE "offline"]
    BY <1>4 DEF Leave, In
  <2>2. thread' = [thread EXCEPT ![t] = r]
    BY <2>1 DEF Inv
  <2>3. Phase(r, lock' = t) = "out"
    BY DEF Inv, ThreadState, Phase
  <2>4. PhaseOf(t) = "out"
    BY <1>4, PhaseInside
  <2> HIDE DEF r
  <2> QED
    BY <1>1, <1>4, <2>2, <2>3, <2>4, PhaseKept DEF In
<1> QED
  BY <1>2, <1>3, <1>4 DEF In

\* Going on under the lock within the same try is nothing to a caller.
LEMMA GoingOnIsNoCall ==
  ASSUME Inv, CallInv, NEW t \in Threads, Inside(t), NEW pc \in PcsInside, Goto(t, pc),
         UNCHANGED <<lock, copies>>
  PROVE  UNCHANGED Caller!callVars
<1> DEFINE r == [thread[t] EXCEPT !.pc = pc]
<1>1. thread' = [thread EXCEPT ![t] = r]
  BY DEF Goto
<1>2. /\ r.stage = thread[t].stage /\ r.try = thread[t].try /\ r.answer = "none"
  BY InsideAlone DEF Inv, ThreadState
<1> HIDE DEF r
<1>3. Phase(r, lock' = t) = PhaseOf(t)
  BY <1>2, InsideAlone DEF Phase, PhaseOf, In, At
<1> QED
  BY <1>1, <1>3, PhaseKept

\* A failed try is a miss: it may have left a copy, and is the first or the last one.
LEMMA RetryIsMiss ==
  ASSUME Inv, CallInv, NEW t \in Threads, Inside(t), In(t, "publish"), Retry(t),
         NEW n \in {0, 1}, Caller!Store(t, n)
  PROVE  Caller!Miss(t)
<1>1. CASE TryAgain(t)
  <2> DEFINE r == [thread[t] EXCEPT !.pc = "ensure", !.try = 2]
  <2>1. thread' = [thread EXCEPT ![t] = r] /\ UNCHANGED lock
    BY <1>1 DEF TryAgain, Inv
  <2>2. Phase(r, lock' = t) = "try2"
    BY DEF Inv, ThreadState, In, Phase
  <2> HIDE DEF r
  <2>3. Caller!Move(t, "try2")
    BY <2>1, <2>2, PhaseStep
  <2>4. PhaseOf(t) = "try1"
    BY <1>1, PhaseInside DEF TryAgain
  <2> QED
    BY <2>3, <2>4 DEF Caller!Miss
<1>2. CASE thread[t].try = 2 /\ Leave(t, FALSE)
  <2>1. Caller!Move(t, "raised")
    BY <1>2, LeaveIsNoCall
  <2>2. PhaseOf(t) = "try2"
    BY <1>2, PhaseInside
  <2> QED
    BY <2>1, <2>2 DEF Caller!Miss
<1> QED
  BY <1>1, <1>2 DEF Retry

\* Every step inside Publisher is a step of the call, or no step of it.
LEMMA PublisherIsCall ==
  ASSUME Inv, CallInv, NEW t \in Threads,
         Acquire(t) \/ Ensure(t) \/ Connect(t) \/ GiveUp(t) \/ Setup(t) \/ Send(t)
  PROVE  Caller!CallNext \/ UNCHANGED Caller!callVars
<1>1. copies \in [Threads -> Nat] /\ CallFits(thread[t])
  BY DEF CallInv
<1>2. CASE Acquire(t)
  <2> DEFINE r == [thread[t] EXCEPT !.pc = "ensure"]
  <2>1. thread' = [thread EXCEPT ![t] = r] /\ lock' = t /\ lock = Nobody
    BY <1>2 DEF Acquire, Goto
  <2>2. r.stage = thread[t].stage /\ r.try = 1 /\ r.answer = "none"
        /\ thread[t].try = 1 /\ thread[t].answer = "none"
    BY <1>1, <1>2 DEF Inv, ThreadState, StageFits, CallFits, Acquire, At
  <2> HIDE DEF r
  <2>3. /\ lock # t /\ PhaseOf(t) = "out"
        /\ \A u \in Threads \ {t} : lock' = u <=> lock = u
    BY <1>2, <2>1, <2>2, NobodyAssumption DEF PhaseOf, In, At, Acquire, Inv, StageFits
  <2>4. CASE In(t, "publish")
    <3>1. Phase(r, lock' = t) = "try1"
      BY <2>1, <2>2, <2>4 DEF Phase, In
    <3>2. Caller!Move(t, "try1")
      BY <2>1, <2>3, <3>1, PhaseStep
    <3>3. Caller!Begin(t)
      BY <1>2, <2>3, <2>4, <3>2 DEF Caller!Begin, Acquire
    <3> QED
      BY <3>3 DEF Caller!CallNext
  <2>5. CASE In(t, "probe")
    <3>1. Phase(r, lock' = t) = "out"
      BY <1>1, <1>2, <2>2, <2>5 DEF Phase, In
    <3>2. UNCHANGED copies
      BY <1>2, <2>5 DEF Acquire, In
    <3> QED
      BY <2>1, <2>3, <3>1, <3>2, PhaseKept
  <2> QED
    BY <1>2, <2>4, <2>5 DEF Acquire, At, In, Inv, StageFits
<1>3. CASE Ensure(t) \/ Connect(t) \/ GiveUp(t) \/ Setup(t) \/ Send(t)
  <2>1. Inside(t)
    BY <1>3 DEF Ensure, Connect, GiveUp, Setup, Send, At, Inside
  <2>2. In(t, "publish") \/ In(t, "probe")
    BY <2>1, InsideAlone DEF In
  <2>3. In(t, "publish") => PhaseOf(t) \in {"try1", "try2"}
    BY <2>1, InsideAlone, PhaseInside
  <2>4. Caller!Store(t, 0) <=> UNCHANGED copies
    BY <1>1 DEF Caller!Store
  <2>5. ASSUME UNCHANGED copies, Working(t)
        PROVE  UNCHANGED Caller!callVars
    BY <2>1, <2>2, <2>5, GoingOnIsNoCall, LeaveIsNoCall DEF Working, In
  <2>6. ASSUME In(t, "publish"), Retry(t), NEW n \in {0, 1}, Caller!Store(t, n)
        PROVE  Caller!CallNext
    BY <2>1, <2>6, RetryIsMiss DEF Caller!CallNext
  <2>7. CASE Ensure(t)
    BY <2>1, <2>5, <2>7, GoingOnIsNoCall DEF Ensure
  <2>8. CASE Connect(t)
    BY <2>1, <2>8, GoingOnIsNoCall DEF Connect
  <2>9. CASE GiveUp(t)
    <3>1. UNCHANGED copies /\ Leave(t, FALSE)
      BY <2>9 DEF GiveUp
    <3>2. In(t, "publish") => Caller!Raise(t)
      BY <2>1, <2>3, <3>1, LeaveIsNoCall DEF Caller!Raise
    <3> QED
      BY <2>1, <2>2, <3>1, <3>2, LeaveIsNoCall DEF Caller!CallNext
  <2>10. CASE Setup(t)
    <3>1. UNCHANGED copies
      BY <2>10 DEF Setup
    <3>2. ASSUME NEW left, SetupFailed(t, left)
          PROVE  Caller!CallNext \/ UNCHANGED Caller!callVars
      BY <2>1, <2>2, <2>4, <2>6, <3>1, <3>2, LeaveIsNoCall DEF SetupFailed
    <3> QED
      BY <2>5, <2>10, <3>1, <3>2 DEF Setup
  <2>11. CASE Send(t)
    <3>1. In(t, "publish")
      BY <1>1, <2>11 DEF Send, CallFits, At, In
    <3>2. Leave(t, TRUE) /\ Caller!Store(t, 1) => Caller!Return(t)
      BY <2>1, <2>3, <3>1, LeaveIsNoCall DEF Caller!Return
    <3>3. UNCHANGED copies \/ Caller!Store(t, 1)
      BY <2>11 DEF Send, Caller!Store
    <3>4. CASE Retry(t)
      BY <2>4, <2>6, <3>1, <3>3, <3>4
    <3>5. CASE Leave(t, TRUE) /\ copies' = [copies EXCEPT ![t] = @ + 1]
      BY <3>2, <3>5 DEF Caller!Store, Caller!CallNext
    <3> QED
      BY <2>11, <3>4, <3>5 DEF Send
  <2> QED
    BY <1>3, <2>7, <2>8, <2>9, <2>10, <2>11
<1> QED
  BY <1>2, <1>3

\* Threads, reconnects and lost confirms are invisible to a caller of publish(): it
\* sees two tries at most, and a copy with the broker when the call returns.
THEOREM PublishCallImplemented == Spec => ImplementsPublishCall
<1>1. Init => Caller!CallInit
  BY DEF Init, Caller!CallInit, PhaseOf, Idle, In, At
<1>2. ASSUME Inv, CallInv, [Next]_vars
      PROVE  [Caller!CallNext]_(Caller!callVars)
  <2>1. CASE Boot \/ Stop \/ Drop \/ BrokerStops \/ BrokerStarts \/ Rest \/ UNCHANGED vars
    <3>1. UNCHANGED <<thread, lock, copies>>
      BY <2>1 DEF Boot, Stop, Drop, BrokerStops, BrokerStarts, Rest, vars
    <3> QED
      BY <3>1 DEF Caller!callVars, PhaseOf, In, At
  <2>2. ASSUME NEW t \in Threads,
               Request(t) \/ Check(t) \/ Create(t) \/ Open(t) \/ Warm(t) \/ Use(t)
        PROVE  [Caller!CallNext]_(Caller!callVars)
    BY <1>2, <2>2, OutsideSteps, OutsideIsNoCall DEF Caller!CallNext
  <2> QED
    BY <1>2, <2>1, <2>2, PublisherIsCall DEF Next, ThreadStep
<1> QED
  BY <1>1, <1>2, Invariance, CallInvariance, PTL DEF Spec, ImplementsPublishCall, Caller!CallSpec

=============================================================================
