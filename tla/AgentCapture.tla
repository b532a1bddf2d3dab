------------------------------ MODULE AgentCapture ------------------------------
(***************************************************************************)
(* The routing agent up to its connection: the capture thread              *)
(* (RawInputCapture) that knows the devices, binds groups to the route and *)
(* turns their input into events; the console loop of main.cc that arms,   *)
(* revokes and quits; the sender thread that hands the queue to the        *)
(* WebSocket client; and what the page on the other side sees pressed.     *)
(*                                                                         *)
(* Callbacks are called after the capture's mutex is released, so they are *)
(* steps of their own: calls holds those the capture thread still has to   *)
(* make, main says where the console loop is.  The connection is taken to  *)
(* be up and to keep its promises; AgentLink is about when it does not.    *)
(***************************************************************************)
EXTENDS EventQueue, EmergencyChord, FiniteSets

CONSTANTS
  Devices,     \* Raw Input device handles
  Keyboards,   \* those that are keyboards; the others are mice
  Group,       \* group_key of each device
  Usb,         \* the devices IsDefaultRoutableBus accepts
  Keys,        \* the keys of a keyboard
  F8,          \* the key that binds a keyboard
  Buttons,     \* the buttons of a mouse
  Middle,      \* the button that binds a mouse
  MaxBatch,    \* kMaxEventsPerBatch: what the sender takes at most
  MaxUnderWay  \* bound: events queued or taken when the next input is handled

ASSUME AgentCaptureAssumption ==
  /\ Keyboards \subseteq Devices /\ Usb \subseteq Devices
  /\ Keys \intersect Buttons = {} /\ F8 \in Keys /\ Middle \in Buttons
  /\ DOMAIN Group = Devices /\ DOMAIN BaseCode = Keys
  /\ MaxBatch \in Nat \ {0} /\ MaxUnderWay \in Nat

Groups == {Group[d] : d \in Devices}
Controls == Keys \union Buttons
ControlsOf(d) == IF d \in Keyboards THEN Keys ELSE Buttons

VARIABLES
  known,      \* devices_
  routed,     \* routed_groups_
  pending,    \* pending_binding_
  keyboards,  \* emergency_chord_.keyboards_
  calls,      \* callbacks the capture thread has still to make
  capturing,  \* the capture thread is in its message loop
  main,       \* where the console loop, or the shutdown after it, is
  emergency,  \* emergency_stop
  queue,      \* event_queue
  batch,      \* what the sender has taken and not yet sent
  sending,    \* the sender thread runs
  claimed,    \* whether the client holds the route
  pressed,    \* controls the page sees pressed through the route
  down,       \* environment: the controls held down on each device
  stuck,      \* history: keys of each group's chord whose keyboard is gone
  leaked,     \* history: presses no release will follow
  overtaken,  \* history: the route was claimed for groups already revoked
  overflowed  \* history: the route was reset by an overload

capture == <<known, routed, pending, keyboards, stuck>>
link == <<claimed, pressed>>
history == <<leaked, overtaken, overflowed>>
vars == <<capture, calls, capturing, main, emergency, queue, batch, sending,
          link, down, history>>

Event(kind, g, c) == [call |-> "Event", kind |-> kind, group |-> g, control |-> c]
Call(name) == [call |-> name]
Steps == {"loop", "revoking", "notifying", "stopping", "joining", "releasing", "over"}

\* ThreadMain before its loop: RefreshDevices finds what is plugged in.
Init ==
  /\ known \in SUBSET Devices
  /\ routed = {} /\ pending = "none"
  /\ keyboards = [g \in Groups |-> NoKeyboard]
  /\ calls = <<>> /\ capturing = TRUE
  /\ main = "loop" /\ emergency = FALSE
  /\ queue = <<>> /\ batch = <<>> /\ sending = TRUE
  /\ claimed = FALSE /\ pressed = {}
  /\ down = [d \in Devices |-> {}]
  /\ stuck = [g \in Groups |-> {}]
  /\ leaked = {} /\ overtaken = FALSE /\ overflowed = FALSE

-----------------------------------------------------------------------------
(***************************************************************************)
(* The WebSocket client, as far as its callers see it.                     *)
(***************************************************************************)

IsPress(e) == e.call = "Event" /\ e.kind = "Down"
Presses(events) == {events[i].control : i \in {j \in DOMAIN events : IsPress(events[j])}}

ClaimRoute ==
  /\ claimed' = TRUE
  /\ overtaken' = (routed = {})
  /\ overflowed' = FALSE
  /\ UNCHANGED <<pressed, leaked>>

\* ReleaseAll.  A press that is on its way now may reach the page under a
\* later claim, with its release discarded in between.
ReleaseAll(overload) ==
  /\ claimed' = FALSE
  /\ pressed' = {}
  /\ leaked' = Presses(queue) \union Presses(batch) \union Presses(calls)
  /\ overtaken' = FALSE
  /\ overflowed' = (overflowed \/ overload)

-----------------------------------------------------------------------------
(***************************************************************************)
(* The capture thread's window procedure.                                  *)
(***************************************************************************)

\* The thread is free for the next message; kStopMessage, once posted, comes
\* before input.
Idle == capturing /\ calls = <<>> /\ main # "stopping"
Handles == Idle /\ UNCHANGED <<capturing, main, emergency, queue, batch, sending, link, history>>

\* HandleDeviceChange(GIDC_ARRIVAL) and EnsureDevice.
DeviceArrives(d) ==
  /\ Handles /\ d \notin known
  /\ known' = known \union {d}
  /\ UNCHANGED <<routed, pending, keyboards, stuck, calls, down>>

\* HandleDeviceChange(GIDC_REMOVAL).  What the device held stays pressed in
\* the page when its group remains, or another group is routed, and in the
\* chord when its group remains.
GroupGone(d) == \A e \in known \ {d} : Group[e] # Group[d]
Unrouted(d) == IF GroupGone(d) THEN routed \ {Group[d]} ELSE routed
Fault_ChordAfterRemoval(d) == keyboards
ChordAfterRemoval(d) ==
  IF GroupGone(d) THEN [keyboards EXCEPT ![Group[d]] = NoKeyboard] ELSE keyboards
Fault_RemovalCalls(d) == IF GroupGone(d) /\ routed = {} THEN <<Call("Release")>> ELSE <<>>
RemovalCalls(d) ==
  IF routed # {} /\ Unrouted(d) = {} THEN <<Call("Release")>> ELSE <<>>
DeviceRemoved(d) ==
  /\ Idle /\ d \in known
  /\ known' = known \ {d}
  /\ routed' = Unrouted(d)
  /\ keyboards' = ChordAfterRemoval(d)
  /\ stuck' = [stuck EXCEPT ![Group[d]] =
                 IF GroupGone(d) THEN {} ELSE @ \union (down[d] \intersect keyboards[Group[d]].held)]
  /\ calls' = RemovalCalls(d)
  /\ down' = [down EXCEPT ![d] = {}]
  /\ leaked' = leaked \union (IF Group[d] \in routed THEN down[d] ELSE {})
  /\ UNCHANGED <<pending, capturing, main, emergency, queue, batch, sending, link, overtaken, overflowed>>

\* ProcessRawInput: a binding in wait takes the group of the device that
\* gives the sign, if the device is on the USB bus.
Binds(d, kind, sign) == pending = kind /\ sign /\ d \in Usb
RoutedAfter(d, binds) == IF binds THEN routed \union {Group[d]} ELSE routed
PendingAfter(binds) == IF binds THEN "none" ELSE pending
ClaimCall(binds) == IF binds /\ routed = {} THEN <<Call("Claim")>> ELSE <<>>

\* A control physically goes down, repeats, or comes up.
Moves(d, c, isDown) ==
  /\ Len(queue) + Len(batch) <= MaxUnderWay
  /\ isDown \/ c \in down[d]
  /\ down' = [down EXCEPT ![d] = IF isDown THEN @ \union {c} ELSE @ \ {c}]
Transition(d, c, isDown) == <<Event(IF isDown THEN "Down" ELSE "Up", Group[d], c)>>

KeyInput(d, k, isDown) ==
  LET binds == Binds(d, "keyboard", isDown /\ k = F8)
      isRouted == Group[d] \in RoutedAfter(d, binds)
      keyboard == keyboards[Group[d]] IN
  /\ Handles /\ Moves(d, k, isDown)
  /\ known' = known \union {d}
  /\ routed' = RoutedAfter(d, binds)
  /\ pending' = PendingAfter(binds)
  /\ keyboards' = [keyboards EXCEPT ![Group[d]] = OnKey(keyboard, k, isDown, isRouted)]
  /\ stuck' = [stuck EXCEPT ![Group[d]] = IF isRouted THEN @ \ {k} ELSE {}]
  /\ calls' = ClaimCall(binds)
                \o (IF isRouted THEN Transition(d, k, isDown) ELSE <<>>)
                \o (IF StopsAt(keyboard, k, isDown, isRouted) THEN <<Call("Stop")>> ELSE <<>>)

\* AppendMouseEvents: the motion, then the buttons.
MouseInput(d, moved, c, isDown) ==
  LET binds == Binds(d, "mouse", isDown /\ c = Middle)
      isRouted == Group[d] \in RoutedAfter(d, binds) IN
  /\ Handles /\ Moves(d, c, isDown)
  /\ known' = known \union {d}
  /\ routed' = RoutedAfter(d, binds)
  /\ pending' = PendingAfter(binds)
  /\ calls' = ClaimCall(binds) \o
       (IF isRouted
        THEN (IF moved THEN <<Event("Move", Group[d], c)>> ELSE <<>>) \o Transition(d, c, isDown)
        ELSE <<>>)
  /\ UNCHANGED <<keyboards, stuck>>

-----------------------------------------------------------------------------
(***************************************************************************)
(* The callbacks, after the capture's mutex was released.                  *)
(***************************************************************************)

Calls(name) == calls # <<>> /\ Head(calls).call = name
Returns == calls' = Tail(calls)

\* route_changed_.
CallClaim ==
  /\ Calls("Claim") /\ Returns
  /\ ClaimRoute
  /\ UNCHANGED <<capture, capturing, main, emergency, queue, batch, sending, down>>
CallRelease ==
  /\ Calls("Release") /\ Returns
  /\ ReleaseAll(FALSE)
  /\ UNCHANGED <<capture, capturing, main, emergency, queue, batch, sending, down>>

\* event_callback_: an event that is refused resets the route.
CallEvent ==
  /\ Calls("Event")
  /\ \E old \in BOOLEAN :
       /\ queue' = Pushed(queue, Head(calls), old)
       /\ IF Overloads(queue, Head(calls), old)
          THEN calls' = <<Call("Overload")>> \o Tail(calls)
          ELSE Returns
  /\ UNCHANGED <<capture, capturing, main, emergency, batch, sending, link, down, history>>
CallOverload ==
  /\ Calls("Overload") /\ Returns
  /\ ReleaseAll(TRUE)
  /\ UNCHANGED <<capture, capturing, main, emergency, queue, batch, sending, down>>

\* emergency_stop_.
CallStop ==
  /\ Calls("Stop") /\ Returns
  /\ emergency' = TRUE
  /\ UNCHANGED <<capture, capturing, main, queue, batch, sending, link, down, history>>

-----------------------------------------------------------------------------
(***************************************************************************)
(* The sender thread.                                                      *)
(***************************************************************************)

Taken == IF Len(queue) < MaxBatch THEN Len(queue) ELSE MaxBatch
Take ==
  /\ sending /\ batch = <<>> /\ queue # <<>>
  /\ batch' = SubSeq(queue, 1, Taken)
  /\ queue' = SubSeq(queue, Taken + 1, Len(queue))
  /\ UNCHANGED <<capture, calls, capturing, main, emergency, sending, link, down, history>>

\* SendEvents and the receiver's RouteState: dropped without a route.  What
\* a control is after the batch, its last transition says.
LastOf(events, c) ==
  LET is == {i \in DOMAIN events : events[i].control = c /\ events[i].kind \in {"Down", "Up"}}
  IN IF is = {} THEN "none" ELSE events[CHOOSE i \in is : \A j \in is : j <= i].kind
Applied(held, events) ==
  {c \in Controls : LastOf(events, c) = "Down" \/ (c \in held /\ LastOf(events, c) = "none")}
Send ==
  /\ batch # <<>>
  /\ batch' = <<>>
  /\ pressed' = IF claimed THEN Applied(pressed, batch) ELSE pressed
  /\ UNCHANGED <<capture, calls, capturing, main, emergency, queue, sending, claimed, down, history>>

-----------------------------------------------------------------------------
(***************************************************************************)
(* The console loop and the shutdown of main.cc.                           *)
(***************************************************************************)

AtLoop == main = "loop" /\ ~emergency

\* K, M and Esc.
Arm(kind) ==
  /\ AtLoop
  /\ pending' = kind
  /\ UNCHANGED <<known, routed, keyboards, stuck, calls, capturing, main, emergency,
                 queue, batch, sending, link, down, history>>

\* X: the queue is cleared, then UnrouteAll takes the mutex, then notifies.
Revoke ==
  /\ AtLoop
  /\ main' = "revoking"
  /\ queue' = <<>>
  /\ UNCHANGED <<capture, calls, capturing, emergency, batch, sending, link, down, history>>
UnrouteAll ==
  /\ main = "revoking"
  /\ main' = IF routed # {} THEN "notifying" ELSE "loop"
  /\ routed' = {} /\ pending' = "none"
  /\ keyboards' = [g \in Groups |-> NoKeyboard]
  /\ stuck' = [g \in Groups |-> {}]
  /\ UNCHANGED <<known, calls, capturing, emergency, queue, batch, sending, link, down, history>>
Notify ==
  /\ main = "notifying"
  /\ main' = "loop"
  /\ ReleaseAll(FALSE)
  /\ UNCHANGED <<capture, calls, capturing, emergency, queue, batch, sending, down>>

\* Q, or the emergency stop: capture.Stop posts kStopMessage and joins.
StopCapture ==
  /\ main = "loop"
  /\ main' = "stopping"
  /\ UNCHANGED <<capture, calls, capturing, emergency, queue, batch, sending, link, down, history>>
CaptureEnds ==
  /\ main = "stopping" /\ capturing /\ calls = <<>>
  /\ capturing' = FALSE
  /\ main' = "joining"
  /\ UNCHANGED <<capture, calls, emergency, queue, batch, sending, link, down, history>>

\* sender.join and event_queue.Clear.
SenderEnds ==
  /\ main = "joining" /\ batch = <<>>
  /\ sending' = FALSE
  /\ queue' = <<>>
  /\ main' = "releasing"
  /\ UNCHANGED <<capture, calls, capturing, emergency, batch, link, down, history>>
Fault_FinalRelease ==
  /\ main = "releasing"
  /\ main' = "over"
  /\ UNCHANGED <<capture, calls, capturing, emergency, queue, batch, sending, link, down, history>>
FinalRelease ==
  /\ main = "releasing"
  /\ main' = "over"
  /\ ReleaseAll(FALSE)
  /\ UNCHANGED <<capture, calls, capturing, emergency, queue, batch, sending, down>>

-----------------------------------------------------------------------------
Input ==
  \E d \in Devices, isDown \in BOOLEAN :
    \/ d \in Keyboards /\ \E k \in Keys : KeyInput(d, k, isDown)
    \/ d \notin Keyboards /\ \E c \in Buttons, moved \in BOOLEAN : MouseInput(d, moved, c, isDown)
DeviceChange == \E d \in Devices : DeviceArrives(d) \/ DeviceRemoved(d)
Callback == CallClaim \/ CallRelease \/ CallEvent \/ CallOverload \/ CallStop
Sender == Take \/ Send
Console == (\E kind \in {"none", "keyboard", "mouse"} : Arm(kind)) \/ Revoke
Shutdown == StopCapture \/ CaptureEnds \/ SenderEnds \/ FinalRelease

Next ==
  \/ Input \/ DeviceChange \/ Callback \/ Sender
  \/ Console \/ UnrouteAll \/ Notify \/ Shutdown

Spec == Init /\ [][Next]_vars

-----------------------------------------------------------------------------
(***************************************************************************)
(* Properties.                                                             *)
(***************************************************************************)

TypeOK ==
  /\ known \subseteq Devices /\ routed \subseteq Groups
  /\ pending \in {"none", "keyboard", "mouse"}
  /\ keyboards \in [Groups -> [held : SUBSET Keys, latched : BOOLEAN]]
  /\ calls \in Seq([call : {"Claim", "Release", "Overload", "Stop"}]
                     \union [call : {"Event"}, kind : {"Down", "Up", "Move"},
                             group : Groups, control : Controls])
  /\ capturing \in BOOLEAN /\ main \in Steps /\ emergency \in BOOLEAN
  /\ Len(queue) <= MaxEvents /\ Len(batch) <= MaxBatch
  /\ sending \in BOOLEAN /\ claimed \in BOOLEAN /\ pressed \subseteq Controls
  /\ \A d \in Devices : down[d] \subseteq ControlsOf(d)

\* Nothing is under way between the devices and the page.
Quiet == calls = <<>> /\ queue = <<>> /\ batch = <<>> /\ main \in {"loop", "over"}

\* What the page sees pressed through the route is held down on a device of
\* a routed group: no press is merged away, reordered or forgotten between
\* the device and the page, through overloads, revocations and bindings,
\* except those of a device unplugged while the route stays claimed, and
\* those under way when a route was released and claimed again.
HeldOnRouted == UNION {down[d] : d \in {e \in known : Group[e] \in routed}}
NoKeyLeftPressed == Quiet => pressed \subseteq HeldOnRouted \union leaked

\* The route is claimed while a group is routed and only then, except when a
\* revocation overtook the binding's own callback, or after an overload,
\* which resets the route and leaves the groups routed.
RouteFollowsGroups ==
  Quiet =>
    /\ claimed => routed # {} \/ overtaken
    /\ routed # {} /\ main = "loop" => claimed \/ overflowed

\* main.cc: "Press every key on the same routed USB keyboard."  The stop is
\* called for only while all members of the chord are held on one routed
\* group, whatever was released while it was not routed or unplugged with its
\* group.  A keyboard unplugged while another device of its group remains
\* leaves its keys in the chord.
HeldOn(g) == Keys \intersect UNION {down[d] : d \in {e \in known : Group[e] = g}}
StopIsDeliberate ==
  [][calls = <<>> /\ (\E i \in DOMAIN calls' : calls'[i].call = "Stop") =>
       \E g \in routed' : IsChordHeld(HeldOn(g)' \union stuck'[g])]_vars

\* main.cc: the chord "stops the routing agent and returns control to viewer
\* input".  However the agent was stopped, and whatever its threads were
\* doing, it ends with its route released and nothing pressed or on its way.
ShutdownReturnsControl ==
  main = "over" => ~claimed /\ pressed = {} /\ calls = <<>> /\ queue = <<>> /\ batch = <<>>
=============================================================================
