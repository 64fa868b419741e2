----------------------------- MODULE Dashboard -----------------------------
(***************************************************************************)
(* The async lane of the presentation console, app/static/app.js, and what *)
(* GET /orders/{id} tells it: submitting an order, tracking it by polling  *)
(* under a token, giving up after a minute, refreshing by hand.            *)
(*                                                                         *)
(* JavaScript runs one handler at a time; everything else may happen at an *)
(* await: while a POST, a GET or the pause between two polls is pending.   *)
(* Replies to different trackers arrive in any order.                      *)
(***************************************************************************)
EXTENDS Naturals

CONSTANTS
  Orders,    \* the orders that the API may create for this lane
  NoOrder,   \* lane.orderId is null, or the card shows no order
  MaxToken   \* how often the lane is reset or tracked in one behaviour: a bound

ASSUME NoOrderAssumption == NoOrder \notin Orders
ASSUME TokenAssumption == MaxToken \in Nat \ {0}

(***************************************************************************)
(* What matters of orders.status is how far it is: 0 is PENDING, 1 stands  *)
(* for all of PROCESSING to CONFIRMED, 2 for COMPLETED and FAILED.  The    *)
(* event of a status commits with it, so the number also says how far      *)
(* order_events is.                                                        *)
(***************************************************************************)
Progress == 0..2

TerminalStates == {2}

VARIABLES
  progress,  \* how far the rows of each order are
  created,   \* the orders the API has created
  lane,      \* pollToken, orderId, is the refresh button visible?
  posting,   \* is a POST under way, and the lane's buttons disabled?
  shown,     \* the order, status and timeline on the card
  tracker    \* the call of trackOrder() that has each token

vars == <<progress, created, lane, posting, shown, tracker>>

Tokens == 1..MaxToken

Unused ==
  [pc |-> "unused", order |-> NoOrder, status |-> 0, timeline |-> 0, late |-> FALSE]

Card(o, status, timeline) == [order |-> o, status |-> status, timeline |-> timeline]

Init ==
  /\ progress = [o \in Orders |-> 0]
  /\ created = {}
  /\ lane = [token |-> 0, order |-> NoOrder, refresh |-> FALSE]
  /\ posting = FALSE
  /\ shown = Card(NoOrder, 0, 0)
  /\ tracker = [k \in Tokens |-> Unused]

\* The workers; their statuses only advance.
Work(o) ==
  /\ o \in created
  /\ \E p \in Progress : p > progress[o] /\ progress' = [progress EXCEPT ![o] = p]
  /\ UNCHANGED <<created, lane, posting, shown, tracker>>

-----------------------------------------------------------------------------
(***************************************************************************)
(* submitOrder() and the refresh button.                                   *)
(***************************************************************************)
\* resetLane(), and the buttons are disabled until the answer.
Submit ==
  /\ ~posting
  /\ lane.token + 1 < MaxToken
  /\ posting' = TRUE
  /\ lane' = [token |-> lane.token + 1, order |-> NoOrder, refresh |-> FALSE]
  /\ shown' = Card(NoOrder, 0, 0)
  /\ UNCHANGED <<progress, created, tracker>>

\* Variant: the button stays when tracking resumes.
TrackWithButton(o) ==
  LET token == lane.token + 1 IN
  /\ lane' = [lane EXCEPT !.token = token, !.order = o]
  /\ tracker' = [tracker EXCEPT ![token] = [Unused EXCEPT !.pc = "loop", !.order = o]]

\* trackOrder() up to its first await.
Track(o) ==
  LET token == lane.token + 1 IN
  /\ lane' = [token |-> token, order |-> o, refresh |-> FALSE]
  /\ tracker' = [tracker EXCEPT ![token] = [Unused EXCEPT !.pc = "loop", !.order = o]]

\* 202: the body says PENDING, however far the workers are; the timeline is left
\* as a superseded tracker may have drawn it.
Accepted ==
  /\ posting
  /\ posting' = FALSE
  /\ \E o \in Orders \ created :
       /\ created' = created \cup {o}
       /\ shown' = Card(o, 0, shown.timeline)
       /\ Track(o)
  /\ UNCHANGED progress

\* An error status or no answer: nothing is tracked.
NotCreated ==
  /\ posting
  /\ posting' = FALSE
  /\ shown' = Card(NoOrder, 0, shown.timeline)
  /\ UNCHANGED <<progress, created, lane, tracker>>

Refresh ==
  /\ lane.refresh /\ lane.order # NoOrder
  /\ lane.token < MaxToken
  /\ Track(lane.order)
  /\ UNCHANGED <<progress, created, posting, shown>>

-----------------------------------------------------------------------------
(***************************************************************************)
(* trackOrder(): its loop, and get_order() at the other end.               *)
(***************************************************************************)
At(k, pc) == tracker[k].pc = pc

Goto(k, pc) == tracker' = [tracker EXCEPT ![k].pc = pc]

\* POLL_TIMEOUT_MS have passed since the tracker started.
Late(k) ==
  /\ tracker[k].pc \notin {"unused", "ended"} /\ ~tracker[k].late
  /\ tracker' = [tracker EXCEPT ![k].late = TRUE]
  /\ UNCHANGED <<progress, created, lane, posting, shown>>

Poll(k) ==
  /\ At(k, "loop") /\ k = lane.token /\ ~tracker[k].late
  /\ Goto(k, "request")
  /\ UNCHANGED <<progress, created, lane, posting, shown>>

\* Variants: whichever tracker ends announces the pause; none does.
PauseOfAny(k) ==
  /\ At(k, "loop") /\ (k # lane.token \/ tracker[k].late)
  /\ Goto(k, "ended")
  /\ lane' = [lane EXCEPT !.refresh = TRUE]
  /\ UNCHANGED <<progress, created, posting, shown>>

PauseSilently(k) ==
  /\ At(k, "loop") /\ (k # lane.token \/ tracker[k].late)
  /\ Goto(k, "ended")
  /\ UNCHANGED <<progress, created, lane, posting, shown>>

\* The loop ends without a terminal status; only the lane's own tracker says so.
Pause(k) ==
  /\ At(k, "loop") /\ (k # lane.token \/ tracker[k].late)
  /\ Goto(k, "ended")
  /\ lane' = [lane EXCEPT !.refresh = @ \/ k = lane.token]
  /\ UNCHANGED <<progress, created, posting, shown>>

\* Variant: get_order() reads the events first.
ReadSwapped(k) ==
  LET now == progress[tracker[k].order] IN
  /\ \/ At(k, "request") /\ tracker' = [tracker EXCEPT ![k].pc = "half", ![k].timeline = now]
     \/ At(k, "half")    /\ tracker' = [tracker EXCEPT ![k].pc = "reply", ![k].status = now]
  /\ UNCHANGED <<progress, created, lane, posting, shown>>

\* Two statements at READ COMMITTED: orders, then order_events.
Read(k) ==
  LET now == progress[tracker[k].order] IN
  /\ \/ At(k, "request") /\ tracker' = [tracker EXCEPT ![k].pc = "half", ![k].status = now]
     \/ At(k, "half")    /\ tracker' = [tracker EXCEPT ![k].pc = "reply", ![k].timeline = now]
  /\ UNCHANGED <<progress, created, lane, posting, shown>>

\* renderOrder(), whatever happened to the lane since the request, and the pause.
Render(k) ==
  LET reply == tracker[k] IN
  /\ At(k, "reply")
  /\ shown' = Card(reply.order, reply.status, reply.timeline)
  /\ Goto(k, IF reply.status \in TerminalStates THEN "ended" ELSE "loop")
  /\ UNCHANGED <<progress, created, lane, posting>>

\* An error status or a lost connection: a message, and the next poll.
Miss(k) ==
  /\ tracker[k].pc \in {"request", "half", "reply"}
  /\ Goto(k, "loop")
  /\ UNCHANGED <<progress, created, lane, posting, shown>>

-----------------------------------------------------------------------------
TrackerStep(k) == Poll(k) \/ Pause(k) \/ Read(k) \/ Render(k) \/ Miss(k)

\* Nobody clicks any more.
Rest ==
  /\ ~posting
  /\ \A k \in Tokens : tracker[k].pc \in {"unused", "ended"}
  /\ UNCHANGED vars

Next ==
  \/ Submit \/ Accepted \/ NotCreated \/ Refresh \/ Rest
  \/ \E o \in Orders : Work(o)
  \/ \E k \in Tokens : TrackerStep(k) \/ Late(k)

Spec == Init /\ [][Next]_vars

\* A tracker goes on: its request is answered or fails, its minute passes.
FairSpec ==
  Spec /\ \A k \in Tokens : WF_vars(TrackerStep(k)) /\ WF_vars(Late(k))

-----------------------------------------------------------------------------
(***************************************************************************)
(* Properties.                                                             *)
(***************************************************************************)
\* The timeline on the card always has the event of the status above it, although
\* get_order() reads them in two statements between which the workers commit.
TimelineCoversStatus == shown.status <= shown.timeline

\* The status shown for an order never goes back, although polls of several trackers
\* may be under way and replies overtake each other.
ShownOnlyAdvances ==
  [][shown'.order = shown.order => shown.status <= shown'.status]_vars

\* The refresh button is offered only when nobody tracks the order: a superseded
\* tracker that ends later does not pause the lane of its successor.
RefreshOnlyWhenPaused ==
  lane.refresh => \A k \in Tokens : k = lane.token => At(k, "ended")

\* The lane of an order that has ended shows so or offers to look again, unless
\* another order has been submitted meanwhile.  "Shows" is what its own tracker has
\* drawn: the reply of a superseded tracker may come later and draw its own order
\* over it (see the README).
LaneCatchesUp ==
  \A o \in Orders :
    (lane.order = o /\ progress[o] \in TerminalStates) ~>
      \/ lane.order # o
      \/ lane.refresh
      \/ At(lane.token, "ended") /\ tracker[lane.token].status \in TerminalStates

=============================================================================
