------------------------------- MODULE InputRoute -------------------------------
(***************************************************************************)
(* Who presses what in the page.  A capture agent claims a route over a    *)
(* WebSocket and sends key and button transitions; the network thread      *)
(* (NetworkInputServer's Session with its RouteState) keeps the books of   *)
(* what the route holds and posts tasks to the CEF UI thread, which        *)
(* dispatches them while the route is in control and the viewer's input    *)
(* otherwise (BrowserClient).                                              *)
(*                                                                         *)
(* A control is a key or a mouse button; cursor, wheel and text press      *)
(* nothing and are left out.  A session identifier is compared with the    *)
(* one of the connection's Hello only, so a message is mine or not; a      *)
(* batch's sequence number is a duplicate, the next one or beyond it.      *)
(***************************************************************************)
EXTENDS Integers, Sequences

CONSTANTS
  Keys,        \* key codes in use
  Buttons,     \* mouse buttons in use, and one number no route accepts
  Routes,      \* route identifiers in use
  MaxBacklog   \* bound: UI tasks after which the network thread pauses

ASSUME InputRouteAssumption ==
  /\ Keys \subseteq Nat /\ Buttons \subseteq Nat /\ Keys \intersect Buttons = {}
  /\ 0 .. 2 \intersect Keys = {}
  /\ Routes \subseteq Nat \ {0}
  /\ MaxBacklog \in Nat \ {0}

Controls == Keys \union Buttons

VARIABLES
  conn,           \* the server's session_, see Conns
  alive,          \* the agent at the other end of an open connection still works
  quiet,          \* last_activity_ is longer ago than heartbeat_timeout
  hello,          \* hello_received_
  route,          \* route_state_: identifier (0 unless claimed) and held controls
  routeActive,    \* route_active_
  tasks,          \* OnNetworkInput and OnNetworkRouteActivity tasks
  networkActive,  \* network_input_active_
  viewerFocused,  \* viewer_focused_
  viewerHeld,     \* viewer_held_keys_ and viewer_mouse_buttons_
  page,           \* controls the page sees pressed
  pageFocused,    \* whether the page has the focus
  leaked,         \* history: controls that left the books without a release
  orphaned        \* history: a route was claimed on a session already closed

network == <<conn, alive, quiet, hello, route, routeActive>>
ui == <<networkActive, viewerFocused, viewerHeld, page, pageFocused>>
history == <<leaked, orphaned>>
vars == <<network, tasks, ui, history>>

\* No session; one whose handshake runs; one that reads messages; one that
\* is closed_ with its reset posted; and the same with a message that was
\* read before and whose handler is still to run.
Conns == {"none", "upgrading", "open", "closing", "cut"}

NoRoute == [id |-> 0, held |-> {}]

Press(c) == [type |-> "Press", controls |-> {c}, on |-> FALSE]
Lift(S) == [type |-> "Lift", controls |-> S, on |-> FALSE]
Focus(b) == [type |-> "Focus", controls |-> {}, on |-> b]
Activity(b) == [type |-> "Activity", controls |-> {}, on |-> b]
Tasks == {Press(c) : c \in Controls} \union {Lift(S) : S \in SUBSET Controls}
           \union {Focus(b) : b \in BOOLEAN} \union {Activity(b) : b \in BOOLEAN}

Init ==
  /\ conn = "none" /\ alive = FALSE /\ quiet = FALSE /\ hello = FALSE
  /\ route = NoRoute /\ routeActive = FALSE
  /\ tasks = <<>>
  /\ networkActive = FALSE /\ viewerFocused = FALSE /\ viewerHeld = {}
  /\ page = {} /\ pageFocused = FALSE /\ leaked = {} /\ orphaned = FALSE

-----------------------------------------------------------------------------
(***************************************************************************)
(* RouteState.                                                             *)
(***************************************************************************)

ValidControl(c) == c \in Keys \/ c < 32

\* Release covers three buttons; DispatchInput clamps a button to those.
Releasable(held) == {c \in held : c \in Keys \/ c < 3}
Fault_OnPage(c) == c
OnPage(c) == IF c \in Keys \/ c < 3 THEN c ELSE 2
Seen(controls) == {OnPage(c) : c \in controls}

\* RouteState::ReleaseAll: what it posts, and what the release leaves out.
ReleasePosts(held) == IF held = {} THEN <<>> ELSE <<Lift(Releasable(held))>>
Unreleased(held) == Seen(held \ Releasable(held))

\* DeactivateRoute.
Fault_DeactivatePosts(active) ==
  IF active THEN <<Activity(FALSE), Focus(FALSE)>> ELSE <<>>
DeactivatePosts(active) ==
  IF active THEN <<Focus(FALSE), Activity(FALSE)>> ELSE <<>>

\* RouteState::ApplyEvent on the books.
Apply(held, e) == IF e.down THEN held \union {e.control} ELSE held \ {e.control}
EventPost(e) == IF e.down THEN Press(e.control) ELSE Lift({e.control})
Events == [down : BOOLEAN, control : Controls]

-----------------------------------------------------------------------------
(***************************************************************************)
(* The network thread.                                                     *)
(***************************************************************************)

\* A connection is accepted while there is no session; others are turned
\* away.
Connect ==
  /\ conn = "none"
  /\ conn' = "upgrading"
  /\ alive' = TRUE
  /\ hello' = FALSE
  /\ route' = NoRoute
  /\ routeActive' = FALSE
  /\ UNCHANGED <<quiet, tasks, ui, history>>

\* Run: the HTTP request and the WebSocket handshake.  Neither has a timeout
\* of the session's own, and no message is read before.
Upgraded ==
  /\ conn = "upgrading" /\ alive
  /\ conn' = "open"
  /\ quiet' = FALSE
  /\ UNCHANGED <<alive, hello, route, routeActive, tasks, ui, history>>

\* Close, and the part it shares with a ReleaseAll message and a
\* batch that resets the route; posts are what the batch has posted before.
ResetRoute(held, posts) ==
  /\ route' = NoRoute
  /\ routeActive' = FALSE
  /\ tasks' = tasks \o posts \o ReleasePosts(held) \o DeactivatePosts(routeActive)
  /\ leaked' = leaked \union Unreleased(held)
  /\ orphaned' = (orphaned /\ ~routeActive)
Close(after) ==
  /\ conn' = after
  /\ alive' = FALSE
  /\ quiet' = FALSE
  /\ ResetRoute(route.held, <<>>)
  /\ UNCHANGED <<hello, ui>>

\* The handshake fails, or the request has a wrong path or subprotocol.
UpgradeFails == conn = "upgrading" /\ Close("closing")

\* A message from the agent is about to be processed.
Receives ==
  /\ conn = "open" /\ alive /\ Len(tasks) < MaxBacklog
  /\ quiet' = FALSE
  /\ UNCHANGED <<alive, ui>>

ReceiveHello ==
  /\ Receives /\ ~hello
  /\ hello' = TRUE
  /\ UNCHANGED <<conn, route, routeActive, tasks, history>>

\* ClaimRoute by its owner: RouteState::Claim releases what a claimed route
\* holds, ApplySnapshot takes over what the agent says is held.
Fault_ReceiveClaim(r, held) ==
  /\ Receives /\ hello
  /\ route' = [id |-> r, held |-> held]
  /\ routeActive' = TRUE
  /\ tasks' = tasks \o <<Activity(TRUE), Focus(TRUE)>>
  /\ UNCHANGED <<conn, hello, history>>
ReceiveClaim(r, held) ==
  /\ Receives /\ hello
  /\ route' = [id |-> r, held |-> held]
  /\ routeActive' = TRUE
  /\ tasks' = tasks \o ReleasePosts(route.held) \o <<Activity(TRUE), Focus(TRUE)>>
  /\ leaked' = leaked \union Unreleased(route.held)
  /\ UNCHANGED <<conn, hello, orphaned>>

\* The handler of a message that was read before the session was closed does
\* not look at closed_: a claim puts the route in control, and nothing will
\* end it, for the session is closed already.  Other messages find no route.
LateClaim(r, held) ==
  /\ conn = "cut" /\ hello /\ Len(tasks) < MaxBacklog
  /\ conn' = "closing"
  /\ route' = [id |-> r, held |-> held]
  /\ routeActive' = TRUE
  /\ tasks' = tasks \o <<Activity(TRUE), Focus(TRUE)>>
  /\ orphaned' = TRUE
  /\ UNCHANGED <<alive, quiet, hello, ui, leaked>>

\* EventBatch for the claimed route: applied if it is the next one, ignored
\* if it is a duplicate, and a reset after a gap.
ReceiveNextEvent(e) ==
  /\ Receives /\ route.id # 0 /\ ValidControl(e.control)
  /\ route' = [route EXCEPT !.held = Apply(route.held, e)]
  /\ tasks' = Append(tasks, EventPost(e))
  /\ UNCHANGED <<conn, hello, routeActive, history>>

\* A batch whose first event is applied and whose second is invalid.
ReceiveInvalidEvent(e) ==
  /\ Receives /\ route.id # 0 /\ ValidControl(e.control)
  /\ \E c \in Controls : ~ValidControl(c)
  /\ ResetRoute(Apply(route.held, e), <<EventPost(e)>>)
  /\ UNCHANGED <<conn, hello>>

ReceiveAfterGap ==
  /\ Receives /\ route.id # 0
  /\ ResetRoute(route.held, <<>>)
  /\ UNCHANGED <<conn, hello>>

\* A batch of another session or route: the route is deactivated, its books
\* are kept.
ReceiveStaleBatch ==
  /\ Receives /\ routeActive
  /\ routeActive' = FALSE
  /\ tasks' = tasks \o DeactivatePosts(TRUE)
  /\ leaked' = leaked \union Seen(route.held)
  /\ orphaned' = FALSE
  /\ UNCHANGED <<conn, hello, route>>

\* InputStateSnapshot for the claimed route replaces the books.
ReceiveSnapshot(held) ==
  /\ Receives /\ route.id # 0
  /\ route' = [route EXCEPT !.held = held]
  /\ leaked' = leaked \union Seen(route.held \ held)
  /\ UNCHANGED <<conn, hello, routeActive, tasks, orphaned>>

Fault_ReceiveReleaseAll ==
  /\ Receives /\ route.id # 0
  /\ route' = NoRoute
  /\ tasks' = tasks \o ReleasePosts(route.held)
  /\ leaked' = leaked \union Unreleased(route.held)
  /\ UNCHANGED <<conn, hello, routeActive, orphaned>>
ReceiveReleaseAll ==
  /\ Receives /\ route.id # 0
  /\ ResetRoute(route.held, <<>>)
  /\ UNCHANGED <<conn, hello>>

\* Heartbeat, a duplicate batch, and what is answered with Reject or Error.
ReceiveIdle == Receives /\ UNCHANGED <<conn, hello, route, routeActive, tasks, history>>

\* A malformed message, a second Hello or a message type only the server sends.
ReceiveMalformed ==
  /\ conn = "open" /\ alive /\ Len(tasks) < MaxBacklog
  /\ Close("closing")

\* The connection is lost, which a read reports, or the write of an answer
\* to an earlier message.
ReadFails == conn = "open" /\ Close("closing")
WriteFails == conn = "open" /\ hello /\ Close("cut")

\* The agent dies or hangs with the connection up.
AgentDies ==
  /\ conn \in {"upgrading", "open"} /\ alive
  /\ alive' = FALSE
  /\ UNCHANGED <<conn, quiet, hello, route, routeActive, tasks, ui, history>>

TimePasses ==
  /\ conn = "open" /\ ~quiet
  /\ quiet' = TRUE
  /\ UNCHANGED <<conn, alive, hello, route, routeActive, tasks, ui, history>>

\* CheckActivity, every 500 milliseconds.
Fault_CheckActivity == conn = "open" /\ ~quiet /\ routeActive /\ Close("cut")
CheckActivity == conn = "open" /\ quiet /\ routeActive /\ Close("cut")

\* closed_callback_: the server forgets the session and accepts the next one.
ForgetSession ==
  /\ conn \in {"closing", "cut"}
  /\ conn' = "none"
  /\ UNCHANGED <<alive, quiet, hello, route, routeActive, tasks, ui, history>>

-----------------------------------------------------------------------------
(***************************************************************************)
(* The UI thread.                                                          *)
(***************************************************************************)

NextTask(type) == tasks # <<>> /\ Head(tasks).type = type /\ tasks' = Tail(tasks)

\* OnNetworkInput and DispatchInput: dropped unless the route is in control.
DispatchPress ==
  /\ NextTask("Press")
  /\ page' = IF networkActive THEN page \union Seen(Head(tasks).controls) ELSE page
  /\ UNCHANGED <<network, networkActive, viewerFocused, viewerHeld, pageFocused, history>>
DispatchLift ==
  /\ NextTask("Lift")
  /\ page' = IF networkActive THEN page \ Seen(Head(tasks).controls) ELSE page
  /\ UNCHANGED <<network, networkActive, viewerFocused, viewerHeld, pageFocused, history>>
DispatchFocus ==
  /\ NextTask("Focus")
  /\ pageFocused' = IF networkActive THEN Head(tasks).on ELSE pageFocused
  /\ UNCHANGED <<network, networkActive, viewerFocused, viewerHeld, page, history>>

\* OnNetworkRouteActivity(true) and ReleaseViewerInput.
RouteTakesControl ==
  /\ NextTask("Activity") /\ Head(tasks).on
  /\ networkActive' = TRUE
  /\ page' = IF networkActive THEN page ELSE page \ viewerHeld
  /\ viewerHeld' = IF networkActive THEN viewerHeld ELSE {}
  /\ UNCHANGED <<network, viewerFocused, pageFocused, history>>

\* OnNetworkRouteActivity(false).
RouteLosesControl ==
  /\ NextTask("Activity") /\ ~Head(tasks).on
  /\ networkActive' = FALSE
  /\ pageFocused' = (pageFocused \/ (networkActive /\ viewerFocused))
  /\ UNCHANGED <<network, viewerFocused, viewerHeld, page, history>>

\* OnViewerInput; the viewer sends keys and the first three buttons.  While
\* the route is in control only the viewer's focus is remembered.
ViewerControls == {c \in Controls : c \in Keys \/ c < 3}
ViewerPress(c) ==
  /\ ~networkActive
  /\ viewerHeld' = viewerHeld \union {c}
  /\ page' = page \union {c}
  /\ UNCHANGED <<network, tasks, networkActive, viewerFocused, pageFocused, history>>
ViewerLift(c) ==
  /\ ~networkActive
  /\ viewerHeld' = viewerHeld \ {c}
  /\ page' = page \ {c}
  /\ UNCHANGED <<network, tasks, networkActive, viewerFocused, pageFocused, history>>
ViewerFocus(b) ==
  /\ viewerFocused' = b
  /\ pageFocused' = IF networkActive THEN pageFocused ELSE b
  /\ UNCHANGED <<network, tasks, networkActive, viewerHeld, page, history>>

\* OnViewerDisconnected and OnViewerCommand(HideViewer).
ViewerGone ==
  /\ pageFocused' = FALSE
  /\ UNCHANGED <<network, tasks, networkActive, viewerFocused, viewerHeld, page, history>>

-----------------------------------------------------------------------------
ReceiveBatch ==
  \/ \E e \in Events : ReceiveNextEvent(e) \/ ReceiveInvalidEvent(e)
  \/ ReceiveAfterGap \/ ReceiveStaleBatch
ReceiveState ==
  \E held \in SUBSET {c \in Controls : ValidControl(c)} :
    ReceiveSnapshot(held) \/ \E r \in Routes : ReceiveClaim(r, held) \/ LateClaim(r, held)
Receive ==
  \/ ReceiveHello \/ ReceiveBatch \/ ReceiveState
  \/ ReceiveReleaseAll \/ ReceiveIdle \/ ReceiveMalformed
DispatchTask ==
  \/ DispatchPress \/ DispatchLift \/ DispatchFocus
  \/ RouteTakesControl \/ RouteLosesControl
ViewerStep ==
  \/ \E c \in ViewerControls : ViewerPress(c) \/ ViewerLift(c)
  \/ \E b \in BOOLEAN : ViewerFocus(b)
  \/ ViewerGone

Next ==
  \/ Connect \/ Upgraded \/ UpgradeFails \/ Receive
  \/ ReadFails \/ WriteFails \/ AgentDies \/ TimePasses
  \/ CheckActivity \/ ForgetSession
  \/ DispatchTask \/ ViewerStep

Spec == Init /\ [][Next]_vars

\* The UI thread runs its tasks, time passes, and the activity timer fires.
FairSpec ==
  /\ Spec
  /\ WF_vars(DispatchTask)
  /\ WF_vars(TimePasses)
  /\ WF_vars(CheckActivity)

-----------------------------------------------------------------------------
(***************************************************************************)
(* Properties.                                                             *)
(***************************************************************************)

TypeOK ==
  /\ conn \in Conns /\ alive \in BOOLEAN
  /\ quiet \in BOOLEAN /\ hello \in BOOLEAN
  /\ route \in [id : Routes \union {0}, held : SUBSET Controls]
  /\ routeActive \in BOOLEAN
  /\ tasks \in Seq(Tasks)
  /\ networkActive \in BOOLEAN /\ viewerFocused \in BOOLEAN
  /\ viewerHeld \subseteq ViewerControls /\ page \subseteq ViewerControls \union {2}
  /\ pageFocused \in BOOLEAN
  /\ leaked \subseteq ViewerControls \union {2} /\ orphaned \in BOOLEAN

\* What the controller of the page has in its books.
Accounted == IF networkActive THEN Seen(route.held) ELSE viewerHeld

\* device-routing.md, on a lost connection, a timeout or a protocol error: the
\* receiver must "synthesize key-up and button-up for all held state".
\* Short of the three ways in which the books lose a control without a
\* release (a snapshot that no longer lists it, a batch of another session,
\* a button beyond the third), what the page sees pressed is held by whoever
\* is in control, who will release it: through resets, lost connections,
\* timeouts, renewed claims and the viewer's input in between.
NoOtherStuckControl == tasks = <<>> => page \subseteq Accounted \union leaked

\* Once the UI thread has caught up, both threads agree on who controls the
\* page, and only a connected agent does; or the session that was closed
\* before its last message was processed, until another route has ended.
ControlAgrees ==
  /\ tasks = <<>> => networkActive = (routeActive \/ orphaned)
  /\ routeActive => route.id # 0 /\ (conn = "open" \/ orphaned)

\* A route that ended never leaves the page focused on its account.
FocusIsReturned ==
  tasks = <<>> /\ ~networkActive /\ pageFocused => viewerFocused

\* A silent agent loses control: the heartbeat timeout releases what it held,
\* unless another agent connects, or a closed session has taken control.
SilentAgentIsReleased ==
  conn = "open" /\ ~alive ~>
    \/ alive \/ orphaned
    \/ ~networkActive /\ page \subseteq viewerHeld \union leaked
=============================================================================
