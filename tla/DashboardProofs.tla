-------------------------- MODULE DashboardProofs --------------------------
(***************************************************************************)
(* Proofs about the console, for any number of orders, submissions and     *)
(* refreshes.                                                              *)
(*                                                                         *)
(* The tokens do not stop a superseded tracker from drawing its last       *)
(* reply.  What keeps the card of an order from going back is that an      *)
(* order never has two trackers at work: it is only tracked again from the *)
(* refresh button, and that is only there when its tracker has ended.      *)
(***************************************************************************)
EXTENDS Dashboard, TLAPS

NamedOrders == Orders \cup {NoOrder}

TrackerState ==
  [pc       : {"unused", "loop", "request", "half", "reply", "ended"},
   order    : NamedOrders,
   status   : Progress,
   timeline : Progress,
   late     : BOOLEAN]

TypeOK ==
  /\ progress \in [Orders -> Progress]
  /\ created \subseteq Orders
  /\ lane \in [token : 0..MaxToken, order : NamedOrders, refresh : BOOLEAN]
  /\ posting \in BOOLEAN
  /\ shown \in [order : NamedOrders, status : Progress, timeline : Progress]
  /\ tracker \in [Tokens -> TrackerState]

Busy(k) == tracker[k].pc \notin {"unused", "ended"}

\* The lane uses its tokens one after the other, and none while a POST is under way.
TokensInOrder ==
  /\ \A k \in Tokens : k > lane.token => At(k, "unused")
  /\ posting => /\ lane.token < MaxToken /\ lane.order = NoOrder /\ ~lane.refresh
                /\ \A k \in Tokens : k = lane.token => At(k, "unused")

\* An order has one tracker at work at most, and the lane's own order only the lane's.
OneTracker ==
  /\ lane.order \in created \cup {NoOrder}
  /\ \A k \in Tokens : Busy(k) =>
       /\ tracker[k].order \in created
       /\ tracker[k].order = lane.order => k = lane.token
  /\ \A j, k \in Tokens :
       Busy(j) /\ Busy(k) /\ tracker[j].order = tracker[k].order => j = k

\* What a reply says was so when it was read, and cannot be behind the card.
RepliesTrue ==
  \A k \in Tokens :
    tracker[k].pc \in {"half", "reply"} =>
      /\ tracker[k].status <= progress[tracker[k].order]
      /\ At(k, "reply") => tracker[k].status <= tracker[k].timeline
      /\ shown.order = tracker[k].order => shown.status <= tracker[k].status

CardTrue ==
  /\ shown.order \in created \cup {NoOrder}
  /\ shown.order = NoOrder => shown.status = 0
  /\ shown.order # NoOrder => shown.status <= progress[shown.order]
  /\ TimelineCoversStatus

Inv ==
  /\ TypeOK
  /\ TokensInOrder
  /\ RefreshOnlyWhenPaused
  /\ OneTracker
  /\ RepliesTrue
  /\ CardTrue

USE DEF Progress, TerminalStates, Tokens, NamedOrders

\* What renderOrder() draws is a card.
LEMMA CardType ==
  ASSUME NEW o \in NamedOrders, NEW status \in Progress, NEW timeline \in Progress
  PROVE  Card(o, status, timeline) \in
           [order : NamedOrders, status : Progress, timeline : Progress]
BY DEF Card

-----------------------------------------------------------------------------
(***************************************************************************)
(* The workers and the lane.                                               *)
(***************************************************************************)
LEMMA WorkSafe ==
  ASSUME Inv, NEW o \in Orders, Work(o)
  PROVE  Inv'
<1>1. PICK p \in Progress : p > progress[o] /\ progress' = [progress EXCEPT ![o] = p]
  BY DEF Work
<1>2. UNCHANGED <<created, lane, posting, shown, tracker>>
  BY DEF Work
<1>3. \A q \in Orders : progress[q] <= progress'[q]
  BY <1>1 DEF Inv, TypeOK
<1>4. TypeOK'
  BY <1>1, <1>2 DEF Inv, TypeOK
<1>5. TokensInOrder' /\ RefreshOnlyWhenPaused' /\ OneTracker'
  BY <1>2 DEF Inv, TokensInOrder, RefreshOnlyWhenPaused, OneTracker, Busy, At
<1>6. RepliesTrue'
  <2> SUFFICES ASSUME NEW k \in Tokens, tracker[k].pc \in {"half", "reply"}
               PROVE  tracker[k].status <= progress'[tracker[k].order]
    BY <1>2 DEF Inv, RepliesTrue, At
  <2>1. tracker[k].order \in Orders /\ tracker[k].status <= progress[tracker[k].order]
    BY DEF Inv, OneTracker, Busy, RepliesTrue, TypeOK
  <2> QED
    BY <1>3, <1>4, <2>1 DEF Inv, TypeOK, TrackerState
<1>7. CardTrue'
  BY <1>2, <1>3, <1>4, NoOrderAssumption DEF Inv, CardTrue, TypeOK, TimelineCoversStatus
<1> QED
  BY <1>4, <1>5, <1>6, <1>7 DEF Inv

\* A submission empties the card and takes the next token.
LEMMA SubmitSafe ==
  ASSUME Inv, Submit
  PROVE  Inv'
<1>1. /\ lane.token + 1 < MaxToken /\ posting' = TRUE
      /\ lane' = [token |-> lane.token + 1, order |-> NoOrder, refresh |-> FALSE]
      /\ shown' = Card(NoOrder, 0, 0)
      /\ UNCHANGED <<progress, created, tracker>>
  BY DEF Submit
<1>2. lane.token \in Nat /\ MaxToken \in Nat /\ NoOrder \notin created
  BY NoOrderAssumption, TokenAssumption DEF Inv, TypeOK
<1>3. TypeOK'
  BY <1>1, <1>2 DEF Inv, TypeOK, Card
<1>4. TokensInOrder' /\ RefreshOnlyWhenPaused'
  BY <1>1, <1>2 DEF Inv, TokensInOrder, RefreshOnlyWhenPaused, At
<1>5. OneTracker'
  BY <1>1, <1>2 DEF Inv, OneTracker, Busy
<1>6. RepliesTrue'
  BY <1>1, <1>2 DEF Inv, RepliesTrue, OneTracker, Busy, At, Card
<1>7. CardTrue'
  BY <1>1 DEF CardTrue, Card, TimelineCoversStatus
<1> QED
  BY <1>3, <1>4, <1>5, <1>6, <1>7 DEF Inv

\* A new tracker for an order that no tracker is at work for.
LEMMA TrackSafe ==
  ASSUME Inv, NEW o \in Orders, Track(o), lane.token < MaxToken,
         \A k \in Tokens : Busy(k) => tracker[k].order # o,
         o \in created', created \subseteq created', created' \subseteq Orders,
         posting' = FALSE
  PROVE  /\ lane' \in [token : 0..MaxToken, order : NamedOrders, refresh : BOOLEAN]
         /\ tracker' \in [Tokens -> TrackerState]
         /\ TokensInOrder' /\ RefreshOnlyWhenPaused' /\ OneTracker'
         /\ \A k \in Tokens : \/ tracker'[k] = tracker[k]
                              \/ tracker'[k].pc = "loop"
<1> DEFINE token == lane.token + 1
           new == [Unused EXCEPT !.pc = "loop", !.order = o]
<1>1. /\ lane' = [token |-> token, order |-> o, refresh |-> FALSE]
      /\ tracker' = [tracker EXCEPT ![token] = new]
  BY DEF Track
<1>2. /\ lane.token \in Nat /\ token \in Tokens /\ MaxToken \in Nat /\ o # NoOrder
      /\ At(token, "unused")
  BY NoOrderAssumption, TokenAssumption DEF Inv, TypeOK, TokensInOrder
<1>3. /\ new \in TrackerState /\ new.pc = "loop" /\ new.order = o
  <2>1. Unused \in TrackerState
    BY DEF Unused, TrackerState
  <2> QED
    BY <2>1 DEF TrackerState
<1> HIDE DEF new
<1>4. /\ tracker'[token] = new
      /\ \A k \in Tokens \ {token} : tracker'[k] = tracker[k]
      /\ tracker' \in [Tokens -> TrackerState]
  BY <1>1, <1>2, <1>3 DEF Inv, TypeOK
<1>5. lane'.token = token /\ lane'.order = o /\ ~lane'.refresh
  BY <1>1
<1>6. TokensInOrder' /\ RefreshOnlyWhenPaused'
  <2>1. \A k \in Tokens : k > token => k # token /\ k > lane.token
    BY <1>2
  <2> QED
    BY <1>4, <1>5, <2>1 DEF Inv, TokensInOrder, RefreshOnlyWhenPaused, At
<1>7. OneTracker'
  BY <1>3, <1>4, <1>5 DEF Inv, OneTracker, Busy
<1> QED
  BY <1>1, <1>2, <1>3, <1>4, <1>6, <1>7

\* The new order is tracked under the lane's token, and by nobody else.
LEMMA AcceptedSafe ==
  ASSUME Inv, Accepted
  PROVE  Inv'
<1>1. PICK o \in Orders \ created :
        /\ created' = created \cup {o}
        /\ shown' = Card(o, 0, shown.timeline)
        /\ Track(o)
        /\ posting /\ posting' = FALSE /\ UNCHANGED progress
  BY DEF Accepted
<1>2. /\ \A k \in Tokens : Busy(k) => tracker[k].order # o
      /\ lane.token < MaxToken /\ created' \subseteq Orders /\ o # NoOrder
      /\ shown.timeline \in Progress /\ progress[o] \in Progress
  BY <1>1, NoOrderAssumption DEF Inv, TypeOK, OneTracker, TokensInOrder
<1>3. /\ lane' \in [token : 0..MaxToken, order : NamedOrders, refresh : BOOLEAN]
      /\ tracker' \in [Tokens -> TrackerState]
      /\ TokensInOrder' /\ RefreshOnlyWhenPaused' /\ OneTracker'
      /\ \A k \in Tokens : tracker'[k] = tracker[k] \/ tracker'[k].pc = "loop"
  BY <1>1, <1>2, TrackSafe
<1>4. shown'.order = o /\ shown'.status = 0 /\ shown'.timeline = shown.timeline
  BY <1>1 DEF Card
<1>5. TypeOK'
  <2>1. Card(o, 0, shown.timeline) \in
          [order : NamedOrders, status : Progress, timeline : Progress]
    BY <1>2, CardType
  <2> QED
    BY <1>1, <1>2, <1>3, <2>1 DEF Inv, TypeOK
<1>6. RepliesTrue'
  BY <1>1, <1>2, <1>3, <1>4 DEF Inv, RepliesTrue, Busy, At, TypeOK, TrackerState
<1>7. CardTrue'
  BY <1>1, <1>2, <1>4 DEF CardTrue, TimelineCoversStatus
<1> QED
  BY <1>3, <1>5, <1>6, <1>7 DEF Inv

\* A refused submission leaves the lane without an order.
LEMMA NotCreatedSafe ==
  ASSUME Inv, NotCreated
  PROVE  Inv'
<1>1. /\ posting' = FALSE /\ shown' = Card(NoOrder, 0, shown.timeline)
      /\ UNCHANGED <<progress, created, lane, tracker>>
  BY DEF NotCreated
<1>2. TypeOK' /\ NoOrder \notin created
  <2>1. shown.timeline \in Progress
    BY DEF Inv, TypeOK
  <2>2. Card(NoOrder, 0, shown.timeline) \in
          [order : NamedOrders, status : Progress, timeline : Progress]
    BY <2>1, CardType
  <2> QED
    BY <1>1, <2>2, NoOrderAssumption DEF Inv, TypeOK
<1>3. TokensInOrder' /\ RefreshOnlyWhenPaused' /\ OneTracker'
  BY <1>1 DEF Inv, TokensInOrder, RefreshOnlyWhenPaused, OneTracker, Busy, At
<1>4. RepliesTrue'
  BY <1>1, <1>2 DEF Inv, RepliesTrue, OneTracker, Busy, At, Card
<1>5. CardTrue'
  BY <1>1 DEF Inv, TypeOK, CardTrue, Card, TimelineCoversStatus
<1> QED
  BY <1>2, <1>3, <1>4, <1>5 DEF Inv

\* A refresh is only offered when the order's tracker has ended.
LEMMA RefreshSafe ==
  ASSUME Inv, Refresh
  PROVE  Inv'
<1> DEFINE o == lane.order
<1>1. /\ lane.refresh /\ o # NoOrder /\ lane.token < MaxToken /\ Track(o)
      /\ UNCHANGED <<progress, created, posting, shown>>
  BY DEF Refresh
<1>2. /\ \A k \in Tokens : Busy(k) => tracker[k].order # o
      /\ o \in created /\ o \in Orders /\ created \subseteq Orders /\ ~posting
      /\ posting' = FALSE
  BY <1>1 DEF Inv, TypeOK, OneTracker, RefreshOnlyWhenPaused, Busy, At, TokensInOrder
<1> HIDE DEF o
<1>3. /\ lane' \in [token : 0..MaxToken, order : NamedOrders, refresh : BOOLEAN]
      /\ tracker' \in [Tokens -> TrackerState]
      /\ TokensInOrder' /\ RefreshOnlyWhenPaused' /\ OneTracker'
      /\ \A k \in Tokens : tracker'[k] = tracker[k] \/ tracker'[k].pc = "loop"
  BY <1>1, <1>2, TrackSafe
<1>4. TypeOK' /\ RepliesTrue' /\ CardTrue'
  BY <1>1, <1>3 DEF Inv, TypeOK, RepliesTrue, CardTrue, At, TimelineCoversStatus
<1> QED
  BY <1>3, <1>4 DEF Inv

-----------------------------------------------------------------------------
(***************************************************************************)
(* The trackers.                                                           *)
(***************************************************************************)
\* A step of one tracker that is at work: it keeps its order, and may end.
Steps(k, r) ==
  /\ Busy(k)
  /\ r \in TrackerState /\ r.pc # "unused" /\ r.order = tracker[k].order
  /\ tracker' = [tracker EXCEPT ![k] = r]
  /\ UNCHANGED <<progress, created, posting>>

\* A step of one tracker, which may end and bring the refresh button back.
LEMMA StepsSafe ==
  ASSUME Inv, NEW k \in Tokens, NEW r, Steps(k, r),
         \/ UNCHANGED lane
         \/ /\ lane' = [lane EXCEPT !.refresh = @ \/ k = lane.token]
            /\ r.pc = "ended"
  PROVE  /\ lane' \in [token : 0..MaxToken, order : NamedOrders, refresh : BOOLEAN]
         /\ tracker' \in [Tokens -> TrackerState]
         /\ tracker'[k] = r /\ \A j \in Tokens \ {k} : tracker'[j] = tracker[j]
         /\ TokensInOrder' /\ RefreshOnlyWhenPaused' /\ OneTracker'
<1>1. /\ tracker' \in [Tokens -> TrackerState]
      /\ tracker'[k] = r /\ \A j \in Tokens \ {k} : tracker'[j] = tracker[j]
      /\ UNCHANGED <<progress, created, posting>>
      /\ Busy(k) /\ r.pc # "unused" /\ r.order = tracker[k].order
  BY DEF Inv, TypeOK, Steps
<1>2. /\ lane' \in [token : 0..MaxToken, order : NamedOrders, refresh : BOOLEAN]
      /\ lane'.token = lane.token /\ lane'.order = lane.order
      /\ lane'.refresh => lane.refresh \/ (k = lane.token /\ r.pc = "ended")
  BY DEF Inv, TypeOK
<1>3. k # lane.token => lane'.refresh = lane.refresh
  BY DEF Inv, TypeOK
<1>4. TokensInOrder'
  <2>1. ~(k > lane.token)
    BY <1>1 DEF Inv, TokensInOrder, Busy, At
  <2>2. posting => k # lane.token
    BY <1>1 DEF Inv, TokensInOrder, Busy, At
  <2> QED
    BY <1>1, <1>2, <1>3, <2>1, <2>2 DEF Inv, TokensInOrder, At
<1>5. RefreshOnlyWhenPaused'
  BY <1>1, <1>2 DEF Inv, RefreshOnlyWhenPaused, At, Busy
<1>6. OneTracker'
  BY <1>1, <1>2 DEF Inv, OneTracker, Busy
<1> QED
  BY <1>1, <1>2, <1>4, <1>5, <1>6

\* A step that draws nothing and holds no reply that it did not hold before.
LEMMA QuietStepSafe ==
  ASSUME Inv, NEW k \in Tokens, NEW r, Steps(k, r), UNCHANGED shown,
         \/ UNCHANGED lane
         \/ /\ lane' = [lane EXCEPT !.refresh = @ \/ k = lane.token]
            /\ r.pc = "ended",
         \/ r.pc \notin {"half", "reply"}
         \/ /\ r.pc = tracker[k].pc /\ r.status = tracker[k].status
            /\ r.timeline = tracker[k].timeline
  PROVE  Inv'
<1>1. /\ lane' \in [token : 0..MaxToken, order : NamedOrders, refresh : BOOLEAN]
      /\ tracker' \in [Tokens -> TrackerState]
      /\ tracker'[k] = r /\ \A j \in Tokens \ {k} : tracker'[j] = tracker[j]
      /\ TokensInOrder' /\ RefreshOnlyWhenPaused' /\ OneTracker'
  BY StepsSafe
<1>2. UNCHANGED <<progress, created, posting, shown>> /\ r.order = tracker[k].order
  BY DEF Steps
<1>3. TypeOK'
  BY <1>1, <1>2 DEF Inv, TypeOK
<1>4. RepliesTrue'
  BY <1>1, <1>2 DEF Inv, RepliesTrue, At
<1>5. CardTrue'
  BY <1>2 DEF Inv, CardTrue, TimelineCoversStatus
<1> QED
  BY <1>1, <1>3, <1>4, <1>5 DEF Inv

\* Every step of a tracker but a read that answers and the drawing of a reply.
LEMMA QuietTrackerSteps ==
  ASSUME Inv, NEW k \in Tokens, Late(k) \/ Poll(k) \/ Pause(k) \/ Miss(k)
  PROVE  Inv'
<1>1. tracker \in [Tokens -> TrackerState] /\ tracker[k] \in TrackerState
  BY DEF Inv, TypeOK
<1>2. CASE Late(k)
  <2> DEFINE r == [tracker[k] EXCEPT !.late = TRUE]
  <2>1. /\ r \in TrackerState /\ r.pc = tracker[k].pc /\ r.order = tracker[k].order
        /\ r.status = tracker[k].status /\ r.timeline = tracker[k].timeline
    BY <1>1 DEF TrackerState
  <2>2. tracker' = [tracker EXCEPT ![k] = r]
    BY <1>2 DEF Late
  <2> HIDE DEF r
  <2>3. Steps(k, r) /\ UNCHANGED <<lane, shown>>
    BY <1>2, <2>1, <2>2 DEF Late, Steps, Busy
  <2> QED
    BY <2>1, <2>3, QuietStepSafe
<1>3. ASSUME NEW pc \in {"loop", "request", "ended"}, Goto(k, pc), Busy(k),
             UNCHANGED <<progress, created, posting, shown>>,
             \/ UNCHANGED lane
             \/ /\ lane' = [lane EXCEPT !.refresh = @ \/ k = lane.token]
                /\ pc = "ended"
      PROVE  Inv'
  <2> DEFINE r == [tracker[k] EXCEPT !.pc = pc]
  <2>1. r \in TrackerState /\ r.pc = pc /\ r.order = tracker[k].order
    BY <1>1, <1>3 DEF TrackerState
  <2>2. tracker' = [tracker EXCEPT ![k] = r]
    BY <1>3 DEF Goto
  <2> HIDE DEF r
  <2>3. Steps(k, r)
    BY <1>3, <2>1, <2>2 DEF Steps
  <2> QED
    BY <1>3, <2>1, <2>3, QuietStepSafe
<1>4. CASE Poll(k)
  BY <1>3, <1>4 DEF Poll, Busy, At
<1>5. CASE Pause(k)
  BY <1>3, <1>5 DEF Pause, Busy, At
<1>6. CASE Miss(k)
  BY <1>3, <1>6 DEF Miss, Busy
<1> QED
  BY <1>2, <1>4, <1>5, <1>6

\* get_order() reads the status before the events, so the events are not behind it.
LEMMA ReadSafe ==
  ASSUME Inv, NEW k \in Tokens, Read(k)
  PROVE  Inv'
<1> DEFINE now == progress[tracker[k].order]
<1>1. /\ tracker \in [Tokens -> TrackerState] /\ tracker[k] \in TrackerState
      /\ UNCHANGED <<progress, created, lane, posting, shown>>
      /\ Busy(k)
  BY DEF Inv, TypeOK, Read, Busy, At
<1>2. now \in Progress /\ tracker[k].order # NoOrder
  BY <1>1, NoOrderAssumption DEF Inv, TypeOK, OneTracker
<1> HIDE DEF now
<1>3. PICK r \in TrackerState :
        /\ tracker' = [tracker EXCEPT ![k] = r]
        /\ r.pc \in {"half", "reply"} /\ r.order = tracker[k].order
        /\ r.status <= now
        /\ r.pc = "reply" => r.status <= r.timeline
        /\ shown.order = r.order => shown.status <= r.status
  <2>1. CASE At(k, "request") /\ tracker' = [tracker EXCEPT ![k].pc = "half", ![k].status = now]
    <3> DEFINE r == [tracker[k] EXCEPT !.pc = "half", !.status = now]
    <3>1. r \in TrackerState /\ r.pc = "half" /\ r.order = tracker[k].order /\ r.status = now
      BY <1>1, <1>2 DEF TrackerState
    <3>2. tracker' = [tracker EXCEPT ![k] = r]
      BY <1>1, <2>1
    <3>3. shown.order = tracker[k].order => shown.status <= now
      BY <1>2 DEF Inv, CardTrue, now
    <3> HIDE DEF r
    <3>4. r.status <= now
      BY <1>2, <3>1
    <3> QED
      BY <3>1, <3>2, <3>3, <3>4
  <2>2. CASE At(k, "half") /\ tracker' = [tracker EXCEPT ![k].pc = "reply", ![k].timeline = now]
    <3> DEFINE r == [tracker[k] EXCEPT !.pc = "reply", !.timeline = now]
    <3>1. /\ r \in TrackerState /\ r.pc = "reply" /\ r.order = tracker[k].order
          /\ r.status = tracker[k].status /\ r.timeline = now
      BY <1>1, <1>2 DEF TrackerState
    <3>2. tracker' = [tracker EXCEPT ![k] = r]
      BY <1>1, <2>2
    <3>3. /\ tracker[k].status <= now
          /\ shown.order = tracker[k].order => shown.status <= tracker[k].status
      BY <2>2 DEF Inv, RepliesTrue, At, now
    <3> HIDE DEF r
    <3> QED
      BY <3>1, <3>2, <3>3
  <2> QED
    BY <2>1, <2>2 DEF Read, now
<1>4. Steps(k, r)
  BY <1>1, <1>3 DEF Steps
<1>5. /\ tracker' \in [Tokens -> TrackerState]
      /\ tracker'[k] = r /\ \A j \in Tokens \ {k} : tracker'[j] = tracker[j]
      /\ TokensInOrder' /\ RefreshOnlyWhenPaused' /\ OneTracker'
  BY <1>1, <1>4, StepsSafe
<1>6. TypeOK'
  BY <1>1, <1>5 DEF Inv, TypeOK
<1>7. RepliesTrue'
  BY <1>1, <1>3, <1>5 DEF Inv, RepliesTrue, At, now
<1>8. CardTrue'
  BY <1>1 DEF Inv, CardTrue, TimelineCoversStatus
<1> QED
  BY <1>5, <1>6, <1>7, <1>8 DEF Inv

\* The reply that is drawn is the only one for its order.
LEMMA RenderSafe ==
  ASSUME Inv, NEW k \in Tokens, Render(k)
  PROVE  Inv'
<1> DEFINE pc == IF tracker[k].status \in TerminalStates THEN "ended" ELSE "loop"
           r == [tracker[k] EXCEPT !.pc = pc]
<1>1. /\ tracker \in [Tokens -> TrackerState] /\ tracker[k] \in TrackerState
      /\ UNCHANGED <<progress, created, lane, posting>>
      /\ Busy(k) /\ At(k, "reply")
      /\ shown' = Card(tracker[k].order, tracker[k].status, tracker[k].timeline)
      /\ Goto(k, pc)
  BY DEF Inv, TypeOK, Render, Busy, At
<1>2. pc \in {"ended", "loop"}
  OBVIOUS
<1> HIDE DEF pc
<1>3. r \in TrackerState /\ r.pc = pc /\ r.order = tracker[k].order
  BY <1>1, <1>2 DEF TrackerState
<1>4. tracker' = [tracker EXCEPT ![k] = r]
  BY <1>1 DEF Goto
<1> HIDE DEF r
<1>5. Steps(k, r) /\ UNCHANGED lane
  BY <1>1, <1>2, <1>3, <1>4 DEF Steps
<1>6. /\ tracker' \in [Tokens -> TrackerState]
      /\ tracker'[k] = r /\ \A j \in Tokens \ {k} : tracker'[j] = tracker[j]
      /\ TokensInOrder' /\ RefreshOnlyWhenPaused' /\ OneTracker'
  BY <1>5, StepsSafe
<1>7. /\ tracker[k].order \in created /\ tracker[k].order \in NamedOrders
      /\ tracker[k].status \in Progress /\ tracker[k].timeline \in Progress
      /\ tracker[k].status <= progress[tracker[k].order]
      /\ tracker[k].status <= tracker[k].timeline
  BY <1>1 DEF Inv, OneTracker, RepliesTrue, At, TrackerState
<1>8. TypeOK'
  <2>1. Card(tracker[k].order, tracker[k].status, tracker[k].timeline) \in
          [order : NamedOrders, status : Progress, timeline : Progress]
    BY <1>7, CardType
  <2> QED
    BY <1>1, <1>6, <2>1 DEF Inv, TypeOK
<1>9. /\ shown'.order = tracker[k].order /\ shown'.status = tracker[k].status
      /\ shown'.timeline = tracker[k].timeline
  BY <1>1 DEF Card
<1>10. RepliesTrue'
  <2>1. \A j \in Tokens \ {k} : Busy(j) => tracker[j].order # tracker[k].order
    BY <1>1 DEF Inv, OneTracker
  <2> QED
    BY <1>1, <1>2, <1>3, <1>6, <1>9, <2>1 DEF Inv, RepliesTrue, Busy, At
<1>11. CardTrue'
  BY <1>1, <1>7, <1>9, NoOrderAssumption DEF Inv, TypeOK, CardTrue, TimelineCoversStatus
<1> QED
  BY <1>6, <1>8, <1>10, <1>11 DEF Inv

-----------------------------------------------------------------------------
\* Inv holds of every reachable state.
THEOREM Invariance == Spec => []Inv
<1>1. Init => Inv
  <2> SUFFICES ASSUME Init
               PROVE  Inv
    OBVIOUS
  <2>1. Unused \in TrackerState /\ Unused.pc = "unused"
    BY DEF Unused, TrackerState
  <2>2. \A k \in Tokens : tracker[k] = Unused
    BY DEF Init
  <2>3. TypeOK
    <3>1. 0 \in 0..MaxToken /\ 0 \in Progress
      BY TokenAssumption
    <3>2. /\ progress \in [Orders -> Progress] /\ tracker \in [Tokens -> TrackerState]
          /\ created \subseteq Orders /\ posting \in BOOLEAN
      BY <2>1, <3>1 DEF Init
    <3>3. lane \in [token : 0..MaxToken, order : NamedOrders, refresh : BOOLEAN]
      BY <3>1 DEF Init
    <3>4. shown \in [order : NamedOrders, status : Progress, timeline : Progress]
      BY <3>1, CardType DEF Init
    <3> QED
      BY <3>2, <3>3, <3>4 DEF TypeOK
  <2>4. TokensInOrder /\ RefreshOnlyWhenPaused /\ OneTracker /\ RepliesTrue
    BY <2>1, <2>2
    DEF Init, TokensInOrder, RefreshOnlyWhenPaused, OneTracker, RepliesTrue, Busy, At
  <2>5. CardTrue
    BY DEF Init, CardTrue, Card, TimelineCoversStatus
  <2> QED
    BY <2>3, <2>4, <2>5 DEF Inv
<1>2. ASSUME Inv, [Next]_vars
      PROVE  Inv'
  <2>1. CASE UNCHANGED vars
    BY <1>2, <2>1
    DEF vars, Inv, TypeOK, TokensInOrder, RefreshOnlyWhenPaused, OneTracker, RepliesTrue,
        CardTrue, TimelineCoversStatus, Busy, At
  <2>2. CASE Submit \/ Accepted \/ NotCreated \/ Refresh
    BY <1>2, <2>2, SubmitSafe, AcceptedSafe, NotCreatedSafe, RefreshSafe
  <2>3. ASSUME NEW o \in Orders, Work(o)
        PROVE  Inv'
    BY <1>2, <2>3, WorkSafe
  <2>4. ASSUME NEW k \in Tokens, TrackerStep(k) \/ Late(k)
        PROVE  Inv'
    BY <1>2, <2>4, QuietTrackerSteps, ReadSafe, RenderSafe DEF TrackerStep
  <2> QED
    BY <1>2, <2>1, <2>2, <2>3, <2>4 DEF Next, Rest
<1> QED
  BY <1>1, <1>2, PTL DEF Spec

\* The timeline on the card always has the event of the status above it, although
\* get_order() reads them in two statements and the workers commit in between.
THEOREM TimelineCovers == Spec => []TimelineCoversStatus
<1>1. Inv => TimelineCoversStatus
  BY DEF Inv, CardTrue
<1> QED
  BY <1>1, Invariance, PTL

\* The refresh button is never there while the lane's own tracker is at work.
THEOREM RefreshWhenPaused == Spec => []RefreshOnlyWhenPaused
<1>1. Inv => RefreshOnlyWhenPaused
  BY DEF Inv
<1> QED
  BY <1>1, Invariance, PTL

\* The status shown for an order never goes back, in whatever order the replies to
\* the polls of however many trackers are drawn.
THEOREM ShownAdvances == Spec => ShownOnlyAdvances
<1>1. ASSUME Inv, [Next]_vars
      PROVE  [shown'.order = shown.order => shown.status <= shown'.status]_vars
  <2> SUFFICES ASSUME Next, shown'.order = shown.order
               PROVE  shown.status <= shown'.status
    BY <1>1
  <2>1. shown.status \in Progress
    BY <1>1 DEF Inv, TypeOK
  <2>2. CASE UNCHANGED shown
    BY <2>1, <2>2
  <2>3. CASE Submit \/ NotCreated
    <3>1. shown' = Card(NoOrder, 0, 0) \/ shown' = Card(NoOrder, 0, shown.timeline)
      BY <2>3 DEF Submit, NotCreated
    <3>2. shown'.order = NoOrder /\ shown'.status = 0
      BY <3>1 DEF Card
    <3> QED
      BY <1>1, <3>2 DEF Inv, CardTrue
  <2>4. CASE Accepted
    <3>1. PICK o \in Orders \ created : shown' = Card(o, 0, shown.timeline)
      BY <2>4 DEF Accepted
    <3>2. shown'.order = o /\ o # NoOrder
      BY <3>1, NoOrderAssumption DEF Card
    <3> QED
      BY <1>1, <3>2 DEF Inv, CardTrue
  <2>5. ASSUME NEW k \in Tokens, Render(k)
        PROVE  shown.status <= shown'.status
    <3>1. At(k, "reply") /\ shown' = Card(tracker[k].order, tracker[k].status, tracker[k].timeline)
      BY <2>5 DEF Render
    <3>2. shown'.order = tracker[k].order /\ shown'.status = tracker[k].status
      BY <3>1 DEF Card
    <3> QED
      BY <1>1, <3>1, <3>2 DEF Inv, RepliesTrue, At
  <2>6. ASSUME NEW k \in Tokens, TrackerStep(k) \/ Late(k), ~Render(k)
        PROVE  UNCHANGED shown
    BY <2>6 DEF TrackerStep, Late, Poll, Pause, Read, Miss
  <2>7. ASSUME NEW o \in Orders, Work(o)
        PROVE  UNCHANGED shown
    BY <2>7 DEF Work
  <2>8. Refresh \/ Rest => UNCHANGED shown
    BY DEF Refresh, Rest, vars
  <2> QED
    BY <2>2, <2>3, <2>4, <2>5, <2>6, <2>7, <2>8 DEF Next
<1> QED
  BY <1>1, Invariance, PTL DEF Spec, ShownOnlyAdvances

=============================================================================
