---------------------------- MODULE ResetProofs ----------------------------
(***************************************************************************)
(* Proofs about a reset under load: for any number of orders, workers,     *)
(* retries and faults, and whatever the purges interleave with, orders     *)
(* that the truncation removed stay gone, and no order that is there       *)
(* afterwards is stranded.                                                 *)
(*                                                                         *)
(* Purges take messages, so an order's message invariants hold again only  *)
(* when the tables are empty: from then on for every order that is not yet *)
(* made, which has no message, and so for every order that is made later.  *)
(***************************************************************************)
EXTENDS Reset, OrderCareProofs

USE DEF Prerequisites, Steps, NoStep, FailedSteps, Statuses, Failed

SilentBefore(o) == api[o] = "new" => \A m \in Messages : m.order # o

SoundAfter(o) ==
  (reset = "done" /\ (api[o] = "new" \/ db[o].exists))
    => Borne(o) /\ CareOf(o)

\* A step of the workflow, a purge, the truncation, or a stop of the script.
LEMMA ResetSteps ==
  ASSUME [ResetNext]_resetVars
  PROVE  \/ [Next]_vars /\ UNCHANGED reset
         \/ reset \in Queues \cup {"dlq"} /\ reset' # "done" /\ (PurgeQueue \/ PurgeDeadLetters)
         \/ Truncate
         \/ reset' # "done" /\ UNCHANGED vars
BY DEF ResetNext, resetVars, ResetStep, Start, GiveUp, PurgeQueue, PurgeDeadLetters,
       First, After, Queues

\* A purge only takes messages away.
LEMMA PurgesTake ==
  ASSUME TypeOK, reset \in Queues \cup {"dlq"}, PurgeQueue \/ PurgeDeadLetters
  PROVE  /\ TypeOK'
         /\ Messages' \subseteq Messages
         /\ \A q \in Queues : Ready(q)' \subseteq Ready(q)
         /\ UNCHANGED <<db, worker, api, faults>>
<1>1. IsQueueContent(EmptyBag) /\ BagToSet(EmptyBag) = {}
  BY DEF IsQueueContent, IsABag, EmptyBag, BagToSet, SetToBag
<1>2. UNCHANGED <<db, worker, api, faults>>
  BY DEF PurgeQueue, PurgeDeadLetters
<1>3. CASE PurgeQueue
  <2>1. /\ DOMAIN queues' = Queues
        /\ \A q \in Queues : queues'[q] = queues[q] \/ queues'[q] = EmptyBag
        /\ UNCHANGED dlq
    BY <1>3 DEF PurgeQueue, TypeOK
  <2>2. (\A q \in Queues : Ready(q)' \subseteq Ready(q)) /\ DeadLetters' = DeadLetters
    BY <1>1, <2>1 DEF Ready, DeadLetters
  <2>3. Messages' \subseteq Messages
    BY <1>2, <2>2, MessagesAre DEF Held, Delivery
  <2> QED
    BY <1>1, <1>2, <2>1, <2>2, <2>3 DEF TypeOK
<1>4. CASE PurgeDeadLetters
  <2>1. UNCHANGED queues /\ dlq' = EmptyBag
    BY <1>4 DEF PurgeDeadLetters
  <2>2. (\A q \in Queues : Ready(q)' = Ready(q)) /\ DeadLetters' = {}
    BY <1>1, <2>1 DEF Ready, DeadLetters
  <2>3. Messages' \subseteq Messages
    BY <1>2, <2>2, MessagesAre DEF Held, Delivery
  <2> QED
    BY <1>1, <1>2, <2>1, <2>2, <2>3 DEF TypeOK
<1> QED
  BY <1>3, <1>4

\* TruncateAll leaves no row, and every message.
LEMMA TruncateEmpties ==
  ASSUME TypeOK, Truncate
  PROVE  /\ TypeOK'
         /\ \A o \in Orders : db'[o] = NoRow
         /\ UNCHANGED <<queues, dlq, worker, api, faults>>
<1>1. /\ db' = [o \in Orders |-> NoRow]
      /\ UNCHANGED <<queues, dlq, worker, api, faults>>
  BY DEF Truncate, TruncateAll, TypeOK
<1>2. NoRow \in Row
  BY NoRowOK DEF RowOK
<1> QED
  BY <1>1, <1>2 DEF TypeOK

\* The invariants that speak of no message hold throughout a reset.
LEMMA ResetKeepsInv ==
  ASSUME Inv, Fits, [ResetNext]_resetVars
  PROVE  Inv' /\ Fits'
<1>1. CASE [Next]_vars
  <2>1. Inv'
    BY <1>1, StepsAreTransactions, NextInv
  <2> QED
    BY <1>1, <2>1, FitsNext
<1>2. CASE reset \in Queues \cup {"dlq"} /\ (PurgeQueue \/ PurgeDeadLetters)
  BY <1>2, PurgesTake DEF Inv, Fresh, Fits, Held
<1>3. CASE Truncate
  <2>1. \A o \in Orders : RowOK(db'[o]) /\ ~db'[o].exists
    BY <1>3, TruncateEmpties, NoRowOK DEF Inv, NoRow
  <2> QED
    BY <1>3, <2>1, TruncateEmpties DEF Inv, Fresh, Fits, Held
<1> QED
  BY <1>1, <1>2, <1>3, ResetSteps

\* Orders that a reset has removed stay gone: nothing a handler that outlives the
\* truncation, a retry or a request does brings one back.
THEOREM WipedStayGone == ResetSpec => WipedOrdersStayGone
<1>1. ResetInit => Inv /\ Fits
  BY InitInv DEF ResetInit, Init, Fits, Held
<1>2. Inv /\ Fits /\ [ResetNext]_resetVars => Inv' /\ Fits'
  BY ResetKeepsInv
<1>3. Inv /\ [ResetNext]_resetVars => \A o \in Orders : Wiped(o) => Wiped(o)'
  <2> SUFFICES ASSUME Inv, [ResetNext]_resetVars, NEW o \in Orders, api[o] # "new",
                      ~db[o].exists
               PROVE  api'[o] # "new" /\ ~db'[o].exists
    BY DEF Wiped
  <2>1. CASE [Next]_vars
    BY <2>1, StepsAreTransactions, NoRowStays DEF SafeStep, RowChange
  <2>2. CASE reset \in Queues \cup {"dlq"} /\ (PurgeQueue \/ PurgeDeadLetters)
    BY <2>2, PurgesTake DEF Inv
  <2>3. CASE Truncate
    BY <2>3, TruncateEmpties DEF Inv, NoRow
  <2>4. CASE UNCHANGED vars
    BY <2>4 DEF vars
  <2> QED
    BY <2>1, <2>2, <2>3, <2>4, ResetSteps
<1> QED
  BY <1>1, <1>2, <1>3, PTL DEF ResetSpec, WipedOrdersStayGone

-----------------------------------------------------------------------------
(***************************************************************************)
(* Orders made after a reset are as safe as without one.                   *)
(***************************************************************************)
\* A reset misroutes nothing.
LEMMA ResetKeepsRouted ==
  ASSUME Inv, [ResetNext]_resetVars, Routed
  PROVE  Routed'
<1>1. CASE reset \in Queues \cup {"dlq"} /\ (PurgeQueue \/ PurgeDeadLetters)
  <2>1. UNCHANGED worker /\ \A q \in Queues : Ready(q)' \subseteq Ready(q)
    BY <1>1, PurgesTake DEF Inv
  <2> QED
    BY <2>1 DEF Routed, Held, Delivery
<1>2. CASE Truncate
  <2>1. UNCHANGED <<queues, worker>>
    BY <1>2 DEF Truncate
  <2> QED
    BY <2>1 DEF Routed, Ready, Held, Delivery
<1>3. CASE UNCHANGED vars
  BY <1>3 DEF vars, Routed, Ready, Held, Delivery
<1> QED
  BY <1>1, <1>2, <1>3, RoutedNext, ResetSteps

LEMMA SilentStays ==
  ASSUME Inv, [ResetNext]_resetVars, NEW o \in Orders, SilentBefore(o)
  PROVE  SilentBefore(o)'
<1>1. CASE [Next]_vars
  <2> SUFFICES ASSUME api'[o] = "new", NEW m \in Messages', m.order = o
               PROVE  FALSE
    BY DEF SilentBefore
  <2>1. api[o] = "new" /\ \A n \in Messages : n.order # o
    BY <1>1, ApiMoves DEF ApiMove, SilentBefore
  <2>2. \A w \in Workers : At(w, "emit") => Result(w).order # o
    <3>1. \A w \in Workers : Held(w) => Subject(w) # o
      BY <2>1, MessagesAre DEF Subject
    <3> QED
      BY <3>1, HeldIs DEF Inv, Result, Event, At
  <2>3. ~Publishing(o) /\ \A p : Event("order.created", p).order = p
    BY <2>1 DEF Publishing, Event
  <2> QED
    BY <1>1, <2>1, <2>2, <2>3, NewMessages DEF NewFrom
<1>2. CASE reset \in Queues \cup {"dlq"} /\ (PurgeQueue \/ PurgeDeadLetters)
  BY <1>2, PurgesTake DEF Inv, SilentBefore
<1>3. CASE Truncate
  <2>1. Messages' = Messages /\ UNCHANGED api
    BY <1>3 DEF Truncate, Messages, Held, Delivery
  <2> QED
    BY <2>1 DEF SilentBefore
<1> QED
  BY <1>1, <1>2, <1>3, ResetSteps

\* The truncation leaves an order that is not made yet without a row and without a
\* message that a row would have to bear out.
LEMMA SoundAtLast ==
  ASSUME Inv, Truncate, NEW o \in Orders, api[o] = "new", SilentBefore(o)
  PROVE  Borne(o)' /\ CareOf(o)'
<1>1. /\ db'[o] = NoRow /\ api'[o] = "new"
      /\ UNCHANGED <<queues, dlq, worker>> /\ Messages' = Messages
  BY TruncateEmpties DEF Inv, Messages, Held, Delivery
<1>2. \A m \in Messages : m.order # o
  BY DEF SilentBefore
<1>3. \A w \in Workers : Held(w) => worker[w].msg.order # o
  BY <1>2, MessagesAre DEF Delivery
<1>4. \A w \in Workers : Held(w)' => worker'[w].msg.order # o
  BY <1>1, <1>3 DEF Held
<1>5. Borne(o)'
  BY <1>1, <1>2, <1>4 DEF Borne, NoRow, Subject, Delivery
<1>6. CheckHolds(o)' /\ ~Marking(o)'
  BY <1>1, <1>4 DEF CheckHolds, Marking, At, Subject, Delivery, Held, Idle
<1>7. Backed(o)'
  BY <1>4 DEF Backed, Subject, Delivery
<1> QED
  BY <1>1, <1>5, <1>6, <1>7 DEF CareOf, ReadySafe, NoRow

\* After the truncation the invariants of the workflow hold for the orders that are there.
LEMMA SoundStays ==
  ASSUME Inv, Fits, Routed, OneOf("restaurant"), [ResetNext]_resetVars,
         NEW o \in Orders, SilentBefore(o), SoundAfter(o)
  PROVE  SoundAfter(o)'
<1>1. CASE [Next]_vars /\ UNCHANGED reset
  <2> SUFFICES ASSUME reset = "done", api'[o] = "new" \/ db'[o].exists
               PROVE  Borne(o)' /\ CareOf(o)'
    BY <1>1 DEF SoundAfter
  <2>1. api[o] = "new" \/ db[o].exists
    BY <1>1, StepsAreTransactions, NoRowStays DEF SafeStep, RowChange
  <2> QED
    BY <1>1, <2>1, BorneNext, CareNext DEF SoundAfter
<1>2. CASE Truncate
  <2> SUFFICES ASSUME api'[o] = "new" \/ db'[o].exists
               PROVE  Borne(o)' /\ CareOf(o)'
    BY DEF SoundAfter
  <2>1. api[o] = "new"
    BY <1>2, TruncateEmpties DEF Inv, NoRow
  <2> QED
    BY <1>2, <2>1, SoundAtLast
<1>3. CASE reset' # "done"
  BY <1>3 DEF SoundAfter
<1> QED
  BY <1>1, <1>2, <1>3, ResetSteps

\* An order that is there after a reset has lost no message to it: the purges come
\* first, so whatever they took belonged to orders that the truncation removed.
THEOREM NobodyStranded ==
  ASSUME OneOf("restaurant")
  PROVE  ResetSpec => []ResetStrandsNobody
<1> DEFINE RInv == /\ Inv /\ Fits /\ Routed
                   /\ \A o \in Orders : SilentBefore(o) /\ SoundAfter(o)
<1>1. ResetInit => RInv
  <2> SUFFICES ASSUME ResetInit PROVE RInv
    OBVIOUS
  <2>1. Init /\ Inv /\ Fits /\ reset # "done"
    BY InitInv DEF ResetInit, Init, Fits, Held
  <2>2. (\A w \in Workers : ~Held(w)) /\ (\A q \in Queues : Ready(q) = {})
        /\ DeadLetters = {}
    BY <2>1 DEF Init, Held, Ready, DeadLetters, BagToSet, EmptyBag, SetToBag
  <2>3. \A m : m \notin Messages
    BY <2>2, MessagesAre
  <2> QED
    BY <2>1, <2>2, <2>3 DEF Routed, SilentBefore, SoundAfter
<1>2. RInv /\ [ResetNext]_resetVars => RInv'
  BY SilentStays, SoundStays, ResetKeepsRouted, ResetKeepsInv
<1>3. RInv => ResetStrandsNobody
  BY CareIsEnough DEF ResetStrandsNobody, SoundAfter, Entrusted
<1> QED
  BY <1>1, <1>2, <1>3, PTL DEF ResetSpec

=============================================================================
