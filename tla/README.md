# TLA+ models of the streaming browser

A headless Chromium (the *producer*) composes frames into a ring of shared
Direct3D textures; a *viewer* or a *compositor* tile in another process shows
them, sends input and viewport sizes back, and *capture agents* may drive the
page over a loopback WebSocket. These modules specify the concurrent parts:
who may touch which texture, which messages may be lost or reordered across
reconnections, who controls the page's input, and what must eventually reach
the screen. TLC checks them on small instances; TLAPS proves the properties
that matter most for every value of the constants.

Run `tlc -config X.cfg M.tla` for a row of the table of runs and
`tlapm X_proofs.tla` for the proofs.

## 1. Inventory

| Component | State | Operations | Talks to | What makes it correct |
|---|---|---|---|---|
| Frame pipeline, `producer/d3d_frame_pipeline.*` | output ring (slot state and frame id), keyed mutexes of the textures, `frame_id_`, `published_frame_id_`, generation, popup | `CopyFromCef`, `SetPopup*`, `PublishLatest`, `ReleaseOutputSlot`, `SetStreamingEnabled`, `RegenerateRing` | stream server (publish and ring callbacks); the viewer's GPU through the textures | no texture is overwritten while the viewer has to read it; no slot is lost; the newest frame is shown |
| Stream server, `producer/stream_server.*` | session, `session_running_`, active pipe, ring snapshot, outgoing queue | handshake, reader, writer, `QueueMessage`, `EndSession`, `ResetStream`, `Start`/`Stop` | pipe; posts tasks to the CEF UI thread | a replaced ring forces a new handshake; critical messages are not dropped; `Stop` returns |
| Browser client, `producer/browser_client.*` | `viewer_focused_`, held keys and buttons, `network_input_active_`, view size, two atomics for the pending viewport, retry flag | UI tasks `OnViewerReady`, `OnFrameReleased`, `OnViewerViewport`, `OnViewerInput`, `OnNetworkInput`, `OnNetworkRouteActivity`, `OnViewerDisconnected`; `OnAcceleratedPaint` | Chromium, pipeline, both servers | the newest viewport is applied; controls and focus go back to whom they belong |
| Stream client, `viewer/stream_client.*` | connection, offered and accepted ring | `ConnectAndRun`, `AcceptRing`, `SendFrameReleased`, `SendInput`, `SendViewport` | pipe; posts to the window | one ring per connection; every consumed frame is released |
| Viewer window and renderer, `viewer/viewer_main.cc`, `viewer/d3d_renderer.*` | open ring, local frame; focus, URL bar and whether it is being edited, visibility | `OpenRing`, `ConsumeFrame`; keys, buttons, composition, focus, toolbar, posts | textures, stream client, user | consumes only frames of the open ring; nothing stays pressed; window and page agree |
| Compositor, `compositor/compositor_main.cc`, `compositor_renderer.*` | client size, scaling mode, connection state, requested size, last frame, `needs_render` | `WM_SIZE`, F12, timer, ring, frame and connection posts | stream client | the picture on the screen has the window's size |
| Network input server, `producer/network_input_server.*` | one session: hello, route activity, last activity, closed | accept, `Process` per message type, `CheckActivity`, `Close`, `Stop` | agent; posts UI tasks | a route that ends leaves nothing pressed; a silent agent is released |
| Route state, `input_routing/route_state.*` | claimed route, next sequence, held keys and buttons | `Claim`, `ApplyBatch`, `ApplySnapshot`, `ReleaseAll` | network input server | the books match what was sent to the page |
| Input event queue, `input_routing/event_queue.*` | queued events and their ages | `Push`, `Take`, `Clear` | capture agents | motion merges, transitions are never reordered or silently lost |
| Layout server and protocol, `compositor/layout_*`, and the page's helper `compositor-client.js` | viewports, revision, socket of the page; one session, its write queue and last revision | change, flush, connect, reconnect; accept, read, queue, write, close, stop | page; compositor window | one client at a time; the window shows the page's layout and never an earlier one |
| Pipe protocol and I/O, `common/protocol.*`, `pipe_io.*` | none | framing, stamps, criticality | everything on the pipe | parse and serialise agree |
| Routing protocol, `input_routing/routing_protocol.*` | none | JSON parse and serialise | network input server, agents | invalid messages are refused whole |
| Pipe security, configuration, logging, application start, launcher | set at start | calls of the operating system | - | - |
| USB routing experiment, `experiments/usb-routing` | devices, routed groups, pending binding, keys of the emergency chord; route, sequence and queue of the WebSocket client | window procedure of the capture thread, console commands, sender loop; `Run`, `ClaimRoute`, `SendEvents`, `ReleaseAll` and their handlers | network input server | a release reaches the receiver; what the page sees pressed is held; every shutdown gives control back |

**Threads.** The producer runs the CEF UI thread, a server thread, a reader, a
writer and the network-input thread; the viewer a client thread and a window
thread. They share the outgoing queue, the textures' mutexes and a handful of
atomics, and otherwise talk through ordered channels: CEF tasks, window
messages, the pipe, the WebSocket. The agent has a capture thread, a sender, the
console's main thread and its connection's, which share the event queue, the
client's atomics and its queue, and call each other back outside their mutexes.

**Hard behaviours.** A connection may break between any two steps, and what was
posted before it broke is still handled after the next one has begun; the ring
is replaced by the UI thread while the server thread negotiates it; a copy or
an acquisition times out; the viewer dies holding a mutex; viewport requests
are coalesced through two atomics; an agent falls silent with keys held.
`PROJECT.json` lists each hazard with its line and the properties about it.

## 2. Modules

```
FrameFeed              what a frame stream promises
   ^ implements (FrameRing!Feed)
FrameRing              pipeline, server, client, renderer
   ^ extends
FrameRing_proofs

ViewportRegister       what passing a viewport size promises
   ^ implements (ViewportMailbox!Register)
ViewportMailbox        the two atomics of BrowserClient
   ^ extends
ServerScaling          compositor, pipe, mailbox and Chromium composed
   ^ extends
ServerScaling_proofs   (the mailbox's proofs too)

Outbox                 what the stream server's outgoing side promises
   ^ implements (StreamSession!Box)
StreamSession          the server's threads, its queue, Start and Stop
   ^ extends
StreamSession_proofs

InputRoute             network input server, route state, input control
   ^ extends
InputRoute_proofs

EventQueue   EmergencyChord      the agent's queue and chord, as operators
   ^            ^ extends
AgentCapture           the agent: capture, console, sender, as the page sees it
   ^ extends         ^ extends
MCAgentCapture    AgentCapture_proofs

AgentLink              the agent's WebSocket client against the receiver
   ^ extends
AgentLink_proofs

ViewerInput            viewer window and page: keys, focus, URL, visibility
   ^ extends
ViewerInput_proofs

LayoutControl          page helper, layout server, the compositor's layout
   ^ extends
LayoutControl_proofs
```

Operators named `Fault_X` stand before the operator `X` they vary. They are in
no specification: each is a plausible mistake in that piece of code, with
which one of the properties is seen to fail.

### FrameRing

One action per UI task (`Compose`, `ComposeInNewRing`, `ViewerReady`,
`FrameReleased`, `ViewerDisconnected`), per step of the server thread
(`OfferRing`, `HandshakeRead`, `HandshakeAborted`, `ServerRead`, `SessionLost`),
per message of the client thread (`ClientRead`), and per window post
(`RingOpened`, `RingRefused`, `AcquireFrame`, `ShowFrame`, time-outs).
`PublishLatest`'s loop over the slots is the operators `Acquirable` and `Target`.

* A frame is its `frame_id`. Composition, popups and damage only make new ones.
* UI tasks are atomic, since one thread runs them. The server thread's handshake
  is split where a UI task can fall in between.
* The keyed mutex is external: key 0 (producer), key 1 (viewer), held, or
  abandoned by a dead holder. `AcquireSync(0, 0)` succeeds on key 0 only, and an
  abandoned mutex fails the loop as the code does (any result but `S_OK` or a
  time-out leaves it).
* `tex` keeps the textures of every ring, because the viewer may hold an old one.
* The session and generation stamps of messages are not modelled: the server
  fills both from one session, and what belongs to another session is dropped
  with its channel. That the stamp is taken before the queue's lock
  (`stream_server.cc:480`) is StreamSession's subject.
* `tainted` is a history variable: rings that were offered when a handshake went
  wrong (the reset was lost, or an acceptance of an earlier offer was taken).
  `Settled` sessions are those without such a past. The properties about
  settled sessions say exactly where the lost reset does damage and where not.

Races that TLC found in it, all of them in the code:

1. A handshake is broken before the first paint; its Disconnected task is still
   queued while the first paint creates ring 1 and a new session is offered that
   ring. The task then replaces the ring, and its `ResetStream` is refused because
   no session runs yet (`stream_server.cc:486`). The viewer accepts ring 1 and is
   told of frames of ring 2. Run `frame_ring_reset` is this finding.
2. Growth of the ring sets `ring_ready_event_` before the predecessor's
   Disconnected task has run, with the same effect.
3. A release from an old ring can match slot and `frame_id` of a publication in
   the new ring and free the slot early. The pixels are safe all the same: the
   texture's mutex still rests on the viewer's key
   (`AnnouncedFrameIsReadable` holds and is proved).
4. An acceptance posted for a connection that has gone is taken by the next wait.

### ViewportMailbox and ViewportRegister

`QueueViewerViewport` (reader thread) and `ApplyPendingViewerViewport` (UI
thread) share `pending_viewport_` and `viewport_task_pending_`. Every atomic access is a
step. With `StoreLingers` the UI thread's release store may stay in the store
buffer while its next acquire load is performed, which the memory model and x64
allow; an exchange drains the buffer. The abstract register has one operation to
ask for a size and one to take the newest.

With a lingering store the mailbox can keep a size without a task (run
`viewport_mailbox_lost`): the load sees nothing, the reader stores a size and
finds the flag still set, and then the flag clears. Without it no size is ever
forgotten. `MailboxIsSound` joins the three parts (`OneTask`, `FlagNeverStuck`,
`NoViewportForgotten`); it is proved and checked in `ServerScaling`. What never
depends on lingering: one task, a flag that does not stick, no return to an older
size.

### ServerScaling

The compositor's window (`Resize`, `ToggleScaling`, posts, the timer's
`RenderIfNeeded`), its stream client (`Connect`, `OpenRing`, `RingRefused`,
`Accepted`, `StrayRequest`, `Close`), the pipe, the mailbox, and Chromium
answering resizes (external: it may deliver frames of any earlier size). Width
and height are one number. A ring is opened with a new device and without a
frame, between the offer and the acceptance, and the screen shows what was
rendered last. The stream is what FrameRing shows it to be: the newest frame is
delivered while fewer than `NumSlots` frames wait.

Windows are at most as large as the output. In a larger one
`SetPresentationSize` expects frames of the output's size
(`compositor_renderer.cc:223`) while `SendScalingViewport` asks for the window's
(`compositor_main.cc:119`), and every frame is dropped.

On a page that keeps painting the screen ends up with a frame of the window's
size (`AnimatedSpec`). On a still page it need not (`FairSpec`, run
`server_scaling_still`): a resize and its undoing within the coalescing delay
drop the last exact frame, and nobody asks for another. Not claimed: windows
below the minimal view (the request is raised, no frame ever matches) and client
mode chosen while disconnected (the browser keeps the size).

### StreamSession and Outbox

FrameRing takes a UI task as one step. StreamSession looks between its
instructions: `QueueMessage` reads `connected_` (`EnterQueueMessage`), may be
held up, and takes the queue's lock (`QueueMessage`); `ServerMain`,
`EndSession`, `WriterMain` and `Stop` go step by step through what they share
(`server`, `ui` and `writer` are the threads' places). What the messages are
about is left out, and the UI thread may queue anything at any time.

* Identifiers: 0 for a message that is not critical, and for a critical one the
  least number not under way. That there always is one is a lemma
  (`CriticalIsMessage`).
* Sessions are counted modulo two. `entered` is the session in which the sender
  saw `connected_`; the stamp it reads a little later may be a data race during
  a handshake, and is not modelled.
* The pipe is external: one viewer at a time, a buffer of `MaxPipe` messages,
  and an end that may break at any time. `CancelSynchronousIo` has no effect, as
  both threads issue overlapped I/O and wait for its event; `CancelIoEx` ends
  what is pending on `active_pipe_`, which is set only until `ConnectNamedPipe`
  has returned.
* The paths after a failed handshake and after a session are one: on the first
  the code does not look for a writer, and `WriterIsOver` says there is none.
* Both threads in `join` of one thread are undefined behaviour: `JoinTwice` lets
  the process crash, the other actions let it survive.

Why a held-up sender does no harm is not visible in the code. `EndSession` takes
back `ring_ready_event_`, a handshake waits for it, and only the UI thread sets
it, which is the thread held up (`QueueIsOfThisSession`, proved). A second
thread that publishes, or a ring callback from elsewhere, would break it.

`Outbox` is the promise: while a session is open, critical messages that were
accepted arrive in order and once; closing may lose the newest.

### InputRoute

`Connect`, the handshake (`Upgraded`, `UpgradeFails`), one action per message kind
and outcome (`ReceiveClaim`, `ReceiveNextEvent`, `ReceiveInvalidEvent`,
`ReceiveAfterGap`, `ReceiveStaleBatch`, `ReceiveSnapshot`, `ReceiveReleaseAll`,
...), `Close` from each of its causes, `CheckActivity`, and one action per UI task
and per viewer input. A handler posts a sequence of tasks; viewer input falls
between any two.

* A control is a key or mouse button. Cursor, wheel and text press nothing.
* Sequence numbers are a relation to the expected one: duplicate, next or gap.
  A session and route identifier matches or does not.
* Button 3 stands for 3 to 31 (accepted, dispatched as button 2, not released),
  32 for what `ApplyEvent` refuses.
* `leaked` is a history variable: controls that left the books unreleased, in
  one of three ways the code has: a snapshot that no longer lists them
  (`route_state.cc:52`), a batch of another session or route
  (`network_input_server.cc:174`), a button beyond the third (`:296`).
  `NoOtherStuckControl` says that there is no fourth way. The second is against
  `docs/device-routing.md:600`, which has held keys released on a protocol error.
* A session closed by the inactivity check or by a failed write may have a read
  whose handler is still to run (`cut`). `Process` does not look at `closed_`: a
  claim in that message takes control of the page, and `Close` will not run again
  (`LateClaim`, history variable `orphaned`). Until another agent's route has
  ended, the viewer's input is ignored. `ControlAgrees` says that this is the only
  way control can outlive its session.
* A dead agent that has not claimed a route is not noticed by `CheckActivity`
  (`network_input_server.cc:346`) and holds the only session until the WebSocket's
  own idle time-out; one that dies before its HTTP request is complete, for ever.
  Nothing is claimed of them.
* `Stop` is left out: the only caller is `OnBeforeClose`, when the page is gone.

### EventQueue, EmergencyChord and AgentCapture

`EventQueue` and `EmergencyChord` are operators on the queue and on the keys one
keyboard holds. AgentCapture has the capture thread's window procedure
(`DeviceArrives`, `DeviceRemoved`, `KeyInput`, `MouseInput`), the callbacks it makes
after the mutex is released, one step each (`CallClaim`, `CallRelease`, `CallEvent`,
`CallOverload`, `CallStop`), the sender (`Take`, `Send`), the console (`Arm`,
`Revoke`, `UnrouteAll`, `Notify`) and the shutdown in its order (`StopCapture` to
`FinalRelease`). The connection is perfect here; the receiver's books are `pressed`.

* One transition per input, and a motion before it; a mouse packet with several
  buttons and the wheel are left out. Whether the oldest event is too old is a
  choice (`old`). No packet is of motion alone: two motions never meet in
  the queue, and that it merges them (`Merges`) is modelled but not exercised.
* `leaked`: presses no release follows. `DeviceRemoved` sends one only when the last
  routed group goes, although its status text (`raw_input_capture.cc:371`) and
  `docs/device-routing.md:597` promise more; and an event taken before a release
  may be sent under a later claim, with its own release discarded in between.
* `overtaken`: `UnrouteAll` notifies outside the mutex and can overtake the claim of
  a binding (`raw_input_capture.cc:189`): the route is claimed with nothing routed.
* `overflowed`: an overload releases the route and leaves `routed_groups_`; the next
  binding finds a group routed and does not claim again.
* `stuck`: a group with two keyboards has one chord. A key held on the one unplugged
  stays in it until it is released or the group is gone
  (`raw_input_capture.cc:364`), so that the other keyboard may complete a chord
  nobody holds. The run has a group for each device, and never gets there; the
  proof of `StopIsDeliberate` does, and is how the exception was found.

### AgentLink

`WebSocketClient` at the grain of its atomics. Four threads run its code, none of
them excluding another: `Run` from `CheckStopping` to `RunEnds`; the capture thread
(`ClaimRoute` to `SendClaim`, and `ReleaseAll`); the console (`ReleaseAll` to
`SendRelease` or `ClearQueue`); the sender (`SendEvents` to `EnqueueBatch`). Capture
thread and console each have a place of their own in `caller`: both call after they
have left `mutex_` (`raw_input_capture.cc:514`, `:189`), so a whole `ReleaseAll` may
fall between any two accesses of `ClaimRoute` or of the other's `ReleaseAll`.
Handlers that were under way when the `io_context` was stopped run after its
restart, with the next stream (`stale`). At the other end is the receiver's session.

The properties name what remains, each with the steps that cause it:

* `crossed`: a claim and a release pass one another. `ClaimRoute` has stored
  `claimed_route_` (line 68), a `ReleaseAll` of the console takes both atomics back
  and queues its Release, and `ClaimRoute` goes on (69, 70) to queue the Claim
  behind it: the receiver serves a route the agent has disowned, and a later
  `ReleaseAll` finds no route and sends nothing. `Run` does the same with the value
  of `claimed_route_` it has read at line 171. The other way round, a `ReleaseAll`
  that took an older claim back queues its Release behind the new Claim, or clears
  that Claim from the queue.
* `discarded`: a `ReleaseAll` that finds no route clears the queue, and with it the
  Release of an earlier one (line 105), or a Hello.
* `routeLost`: a full queue, or a disconnection noticed late, resets `route_id_`
  under a claim (`:130`, `:284`).
* `misnumbered`: a batch takes its number (`:84`), or the route it is addressed to
  (`:82`), from before the claim that restarts the numbers. A batch for route 0 is
  refused (`Stray`).
* A Hello cleared from the queue (`~hello`): the receiver refuses claims without one.

A stale failure takes the new connection for broken, a stale completion starts a
second write on it, although `docs/device-routing.md` has one write at a time. A
`Stop` between the check of `stopping_` and `ioc_.restart()` is lost and its join
waits until the connection ends; the model has the step (`Restart`), and no property
says that `Stop` returns. `SendSnapshot` has no caller and is left out. Store buffers
are ViewportMailbox's subject.

### ViewerInput

The window's side of focus, keys, buttons, composition, URL bar, toolbar and
visibility, the messages both ways, a connection that breaks and returns, and
`OnViewerInput`, `OnViewerCommand`, `OnViewerReady` and `OnViewerDisconnected` at the
page. No route is active (that is InputRoute).

* `missed`: releases the window never saw or could not send: Alt or another window
  had the keyboard, the pointer was off the page in spite of `SetCapture`
  (`PagePoint` refuses such points), or there was no connection. The control stays
  pressed in the page.
* `OnViewerCommand` calls `LoadURL`, `GoBack` and the like, and publishes nothing. The
  navigation state is published by `OnLoadingStateChange` and `OnAddressChange`, which
  come when the browser has something to report, for a load the viewer asked for or
  one of the page's own, and by `OnViewerReady`. How soon, or whether, they follow a
  command is left open.
* `unanswered`: the command of a Go was handled, and nothing has been published since.
  Go clears `url_editing` and leaves the text, so the bar shows what was typed until
  the browser reports a load. For a URL that starts none, it keeps showing that until
  something else publishes. A command that is refused or lost leaves the bar so
  only until the next connection.
* `told`: whether the last change of focus could be sent. A focus the window has when
  the connection comes up is never sent, so the page is not focused until it
  changes.
* An empty URL submitted leaves `url_editing` set, and addresses are not shown until
  the next edit; the start page's navigation is forgotten if its send fails. The
  first is allowed by `editing` in the property, the second not modelled.

### LayoutControl

The page (`ChangeLayout`, `Reload`, `Flush` per animation frame, `SocketOpens`,
`SocketCloses`, `Reconnect`), the layout server's I/O thread with one action per
completion handler (`AcceptRefused`, `AcceptNew`, `HandshakeDone`, `Read`,
`WriteDone`, their failures, `HandlerAborted`, `ForgetSession`), and the
window's `ApplyLayout`.

* A layout is the number of changes made to it; `Refused` are those that
  `ParseLayoutMessage` refuses, as a whole. Revisions are numbers as in the code.
* `socket` is the page's, `session` the server's; `joined` says that they are
  the two ends of one connection and that it is up. When it ends, the newest of
  what was sent may be lost (`Parted`).
* `Close` closes the session once and posts the task that resets `session_`.
  Its outstanding operations then fail and call `Close` again, perhaps after a
  successor was accepted (`aborted`). A read that had completed already is still
  delivered (`late`), before the reset, as the I/O context runs handlers in the
  order they were posted.
* After `Close` in `Queue` the code reads on and answers no more, hence two
  outstanding handlers in `Read` with a full queue.
* Left out: `LayoutServer::Stop`, binary messages, `refresh`, the helper's
  `close`, lengths of the back-off, and clients other than the one page.

## 3. Runs

| Run | States | Shows |
|---|---|---|
| `frame_ring` | 147 k | a readable announced frame, slot accounting, no feedback loop, the newest frame shown and the feed implemented, over 3 connection attempts, 3 rings, copy time-outs and a viewer restart |
| `frame_ring_reset` | violation | a ring replaced during a handshake forces no new one |
| `stream_session` | 108 k | the whole state space of the three threads and any number of viewers: messages stay in their session, no writer is left behind, critical messages keep their order, the server listens again, `Stop` returns while viewers come and go |
| `stream_session_stop` | violation | without a viewer's help `Stop` waits for ever |
| `viewport_mailbox_lost` | violation | a size stored at the wrong moment is never applied |
| `server_scaling` | 244 k | the mailbox is sound, the browser follows the window, and on an animated page the picture fits, with two changes by user or network |
| `server_scaling_still` | violation | a still page can keep a picture of the wrong size |
| `input_route` | 754 k | the two threads agree on control, no fourth way to stick, focus returned, a silent agent released |
| `layout_control` | 154 k | the window ends up with the page's layout and never goes back, and no late handler forgets a new client, with three changes or reloads and a broken connection |
| `agent_capture` | 2.4 M | a keyboard and a mouse bound, revoked, plugged and unplugged with keys held and the queue overloaded: what is pressed is held, the route follows the groups, the emergency stop is deliberate, shutdown returns control |
| `agent_link` | 1.4 M | agent and receiver agree on the route and a release arrives, with claims and releases of two threads, batches, reconnections, late handlers, a full queue and the end of the agent, but for the races named |
| `viewer_input` | 6.1 M | nothing but what is held stays pressed, and window and page agree on focus, URL and visibility, through reconnections and navigations that may not happen |

**Bounds.** `NumSlots = 2` (the code has three) has both a slot to publish into
beside a published one and a full ring. `MaxFrame`, `MaxRing` and `MaxSession` bound
the composed frames, the rings after which growth stops, and connection attempts,
the last of which is not broken: three suffice for a message of one session to be
handled in the next and for the third to start on what is left. `MaxChanges` bounds
resizes, F12, refused rings and broken connections together, from a window of any
size in either mode: two allow "change, change back" and "change, break" (three
passed too, with a million states and four minutes). Two sizes distinguish stale
from current. In StreamSession `MaxQueue = 2` (the code has 128) is the least queue
in which a message behind a critical one is dropped, and `MaxPipe = 1` lets a writer
wait for room; nothing else bounds it. In LayoutControl three changes, one of them
refused, and one broken connection allow a reload during the close of the session
before it, and `MaxWrites = 2` (the code has 32) an overfull queue. `MaxBacklog`
pauses the agent's messages, never closing or viewer input, when so many UI tasks
wait; handlers still post more than that at once. In AgentCapture `MaxUnderWay = 1`
holds input back while more events wait, `MaxEvents = 2` (the code has 1024) then
overloads by count as well as by age, and `MaxBatch = 1` (256) splits the queue
between batches; the binding key is itself a member of the chord. In AgentLink
`MaxQueue = 2` (256) is the least with which a Release can be queued with a Claim
behind or before it, and a third message overfills it; `MaxSequence = 2` the least
with which a batch can be out of sequence. `MaxCalls = 3` bounds the calls of
`ClaimRoute`, `ReleaseAll` and `SendEvents` together and `MaxLosses = 2` the broken
connections: a claim, the other thread's release during it and one more call, of
which every step interleaves. Every exception is reached with these bounds. In
ViewerInput `MaxPending = 2` holds a user, a browser and a connection attempt back
while two messages wait; handlers still post more. AgentLink passed with four calls
and one broken connection, too. The safety properties of AgentCapture
and InputRoute were also checked once with the limits of their queues
increased by one, and those of AgentCapture with both devices in one group. The counters that only measure are left out.

**Deadlock.** `CHECK_DEADLOCK FALSE` is given where the system may stop. FrameRing
stops when its bounds on frames and sessions are used up and everything is shown. In
StreamSession the server has been stopped, or the process has crashed. In InputRoute
the agent may stay idle for ever. In LayoutControl nothing is left to do when the
changes are used up. In AgentCapture and AgentLink the agent has ended; in
ViewerInput the user may leave everything as it is. In the mailbox and in
ServerScaling deadlock is checked.

**Fairness.** Weak fairness per thread loop: the UI thread, the server and
client threads and the window thread handle what is queued. The environment
(painting, breaking links, exits, the agent, the user) owes nothing, except that
ServerScaling asks Chromium to paint after a resize, and, with strong fairness,
not to answer every resize of infinitely many with a stale frame: the code's
retry relies on it. In InputRoute time passes and the timer fires. In StreamSession
the three threads run when they can, a read or handshake on a broken pipe fails,
and the wait for a ring ends (15 seconds). In LayoutControl each handler of the I/O
context that can complete does, the page is visible, so that it has animation
frames, and its browser reads what it is sent. In AgentLink a thread that has begun
`ReleaseAll` finishes it, each thread for itself, the connection's thread and its
handlers run, and the receiver handles what arrives; nothing is asked of `ClaimRoute`
or of the sender, and that a connection is made or kept is not assumed. AgentCapture and ViewerInput claim only safety. `VisitedSpec` also has some viewer
connect and every viewer leave, which is what users do and what the code
depends on: `FairSpec`, without it, is the one `CleanShutdown` is refuted under.

## 4. Proofs

*FrameRing_proofs.* `TypeCorrect`: `TypeOK` is inductive by itself. Rings grow,
so the sets of messages grow with them (`MessagesGrow`), and each action is
taken in turn. `AnnouncedFramesStayReadable`: the property alone is not
inductive, because nothing in it stops a publication from choosing a texture a
queued message names. `IInv` adds that every announced texture carries its frame
under the viewer's key, that no two announcements name one texture, and that
rings ascend along the channels, none beyond the current one. A publication takes a
texture on key 0, which no announcement names; a viewer that still has another
ring open only touches that ring's textures; a reset drops announcements. They
hold for any number of slots, frames, rings and sessions, from
`FrameRingAssumption` (the constants are natural numbers, at least one slot).
`NoFrameFeedsBack` adds `FramesInOrder`: within a ring the announcements ascend
towards the last publication, which no composed frame precedes, and the viewer's
own frame comes before them all. `FramesAreOfOpenRing` adds `RingsAgree`: in a
session that is not tainted, server, client and window have one ring, or are at the
point of the handshake where the next message makes them agree.
`FeedIsImplemented` (`Spec => FeedSpec`) must also speak of tainted sessions, where
the viewer looks into another ring than the announced one. Two facts make it true. A
ring is tainted while it is being offered, when nobody has looked into it, so its
frames lie in the order of its slots (`Unread`, `LaidRings`; `AgreeLaid` is
`RingsAgree` with these rings excused instead of the tainted ones). And the
announcements that follow name the slots of their own ring, also unread, in order: what is
shown lies in a slot that there holds an older frame than any announced (`Behind`), up
to the next definition in the window's queue (`WindowSegments`, `RunningSegment`). The
steps are classed by what they do to the textures (`TexturesKept`), the window's queue
(`WindowChanges`), the pipe (`PipeChanges`) and the session (`PhaseChanges`).
`ProducerOwnsAvailableSlots` and `SlotsAreAccountedFor` account for the slots of a
settled session (`SlotInv`). They first need that such a session begins with clean
books: a closed session leaves nothing on the channel back (`IdleIsQuiet`) and the
task that ends it last in the queue (`TasksEnd`), whose handling makes a new ring
(`RingIsFresh`); the acceptance of the ring on offer is the last thing the viewer has
written and that ring the last it opens (`AcceptIsLast`, `OfferIsLast`,
`SessionOpen`). From then on a release under way is for no frame newer than the last
published, and while it still matches its slot that slot is on key 0 (`SlotsFree`), so
that a slot in use again matches no old release. `SlotsCarried` keeps the books: each
message moves its slot from one queue to the next, the four counts add up to one
(`CountAppend`, and `CountTail` by a bijection of indices), and the frame it carries is
the slot's, so that the release at the end of the round matches. A copy that times
out, with its mutex held, is the one entry that is struck off.

*ServerScaling_proofs.* The mailbox first, by itself: `MailboxInv` (types, one task, the flag covered by a
task or a store on its way, and the history of the newest stored size) is
inductive for every set of sizes and both values of `StoreLingers`.
From it follow `MailboxStaysSound` (`MailboxIsSound`, of which the next two are the
parts), `AtMostOneTask`, `FlagIsNeverStuck`, `NoViewportIsForgotten` (if
stores do not linger) and `MailboxImplementsRegister`: each step is a step of
the register or stutters. `ScalingKeepsMailbox` says that the composed system only
takes the mailbox's steps, so that all this holds there too (`MailboxServesScaling`).
`TypeCorrect` of the whole needs that nothing is posted or accepted before the first
paint (`PaintedFirst`). `RequestIsNeverStale` needs what holds while the link is not
open (`BeliefEnds`): whatever the window believes of it then belongs to an earlier
connection, and a `Down` that will correct the belief is posted behind every `Up`;
so when the next connection opens, either nothing is requested or a `Down` is still to
come. For any sizes that hold `MinView .. Output`, any slots and any
number of resizes, mode switches and broken connections.

*StreamSession_proofs.* `IInv` says that `connected_`, `session_running_` and the
queue follow the server thread (`SessionFollows`), that a writer exists only
from the start of a session to its join (`WriterFollows`), and, as the heart,
`SenderIsHeldOff`: while the UI thread is inside `QueueMessage` either its session
is still there, or no ring is ready, hence no handshake can be done and no
session can run that it does not belong to. Neither disjunct is inductive without
the other. `TypeCorrect`, `QueueStaysInSession` and `WriterIsAlwaysOver` follow for
any `MaxQueue` and `MaxPipe` above zero; `PushedProperties` is what the dropping
queue preserves, with a least-element lemma for "the oldest that may be dropped".
`OutboxIsImplemented` (`Spec => OutboxSpec`) maps what is under way - pipe, writer,
queue - to the critical messages in it. The selection is a recursive function, so its
properties are proved by the least number at which one would fail
(`LeastCounterexample`): it distributes over concatenation (`CriticalsOfConcat`). Then
the writer's steps only move a bracket, a dropped message is one the selection skips
(`QueuedOfPushed`), and a closed queue leaves a front of what was owed
(`FrontOfConcat`). The invariant it needs besides is that the pipe is empty and closed
before a session begins (`PipeFollows`). Each step is then one of `BoxStep`.

*LayoutControl_proofs.* `NeverBackwards` needs that everything under way is in
order: `InOrder` says so of the layouts posted to the window, of the messages in
the connection, all between the last posted layout and the page's
(`Between`), and of a late read, which is alone (`LateIsAlone`), since no
session is accepted before the one it belongs to is forgotten. Revisions play no
part in it: within one connection they ascend with the layouts. `ClosedIsReset`
(a reset is posted exactly while a closed session is kept) gives
`ResetIsOfItsSession`. All for any number of changes and breaks, any `Refused`.

*AgentCapture_proofs.* `TypeCorrect` is inductive with the types of the queue and
the batch; it bounds both for any `MaxEvents` and `MaxBatch`.
`ShutdownAlwaysReturnsControl` rests on the order of the joins (`ShutdownInv`): once
the capture thread is joined no callback is due, so nobody claims or pushes; once
the sender is joined nothing is taken; so what the last two steps empty and release
stays so. `RouteAlwaysFollowsGroups` needs what holds while groups and route
disagree (`RouteInv`): the callback still due, or the console on its way to notify,
which cannot meet a new binding since `UnrouteAll` also ended the binding's wait; and
a release is due only with nothing routed, since nothing is handled before it
is made. `StopIsAlwaysDeliberate`: what the chord has in its books for a group is
held on the group's devices or stuck (`ChordInv`). `NoKeyIsLeftPressed` compares the
page with the devices after all that is under way: `Final` replays the batch, the
queue and the callbacks due on what is pressed, of which only a control's last
transition counts. The replay is not a recursive function but two statements
about positions (`EndsDown`, `NoUp`), so that appending, splitting and joining
queues are lemmas (`AfterAppend`, `AfterConcat`) without induction. The step `Send`
needs a lemma that the receiver's "last transition of the batch" is the same
(`AppliedIsAfter`). `PressInv` claims nothing of the time between a revocation's
`Clear` and its notification, but that with nothing routed every press under way
already counts as leaked. All for any devices, groups, chord and binding keys.

*InputRoute_proofs.* The network thread posts tasks, the UI thread takes the head:
`IInv` speaks of the page after the tasks still posted. `ControlInv`: the last
activity posted says who controls the page, and with none posted the page knows.
`PressesCleared`: what the page has pressed beyond the books is released by a task
still posted, or leaked. `FocusInv`: a focus lent to a route goes back with the
activity that ends it. The network's handlers are treated as one class (they append),
the UI's as another. From it `TypeCorrect`, `ThreadsAgreeOnControl`,
`NoControlIsStuck` and `FocusAlwaysReturned`, for any controls and any backlog.

*ViewerInput_proofs.* The same argument in two directions, with posts lost at either
end when the connection breaks: `LiftsComing`, `FocusComing`, `AddressComing` and
`VisibilityComing` say which message still under way makes window and page agree,
or which exception has been recorded. The address has no message while a Go is
`unanswered`: a command handled leaves nothing on its way. What survives of a broken pipe is a front of
the queue (`SurvivingIsFront`).

*AgentLink_proofs.* `RouteAgrees` only speaks of a drained connection; `IInv` says
of any state what the receiver will make of what is under way, the written messages
and the queue together (`UnderWay`). `ReleaseComing`: without a route every claim
under way is followed by a release (`Unserved`), or a thread has still to send one.
`ClaimComing` and `NumberedLast`: with one, the last claim is followed only by
batches numbered in turn (`ServedAfter`), or a thread has still to send the claim.
`Placed` and `RouteKept` tie the places of the threads to the atomics. Each action
of capture thread and console is proved for a thread `t`, the other anywhere in its
calls. For any length of the queue, any number of calls, batches and reconnections.

With these, every safety property of the passing runs is stated by a theorem. Of
`RegisterSpec`, which asks for fairness, that is its safety (`RegisterSafety`). Only
model-checked is liveness under fairness, out of the prover's reach: the rest of
`RegisterSpec`, `LatestFrameIsShown`, `ViewFollowsWindow`, `PictureFits`,
`SilentAgentIsReleased`, `ServerListensAgain`, `StopReturns`, `DisplayFollowsPage`,
`ReleaseReaches`.

## 5. Findings

Three defects of the code and one divergence from the documents have a run that
exhibits them, and `PROJECT.json` quotes the lines:

* `frame_ring_reset`: a ring replaced during a handshake forces no new one.
* `viewport_mailbox_lost`: a viewport stored between store and load is lost.
* `server_scaling_still`: an exact frame dropped on a still page.
* `stream_session_stop`: a `Stop` that waits for a viewer.

Others are shown by the exceptions the properties have to name, without a run of
their own: the claim handled after its session was closed (`orphaned`), keys
that leave the books unreleased (`leaked` of InputRoute), the route that stays
forgotten after an overload (`overflowed`), the claim overtaken by a revocation
(`overtaken`), a device unplugged with keys held (`leaked` of AgentCapture), the key
an unplugged keyboard leaves in its group's chord (`stuck`), and the
four races of AgentLink (`crossed`, `discarded`, `routeLost`, `misnumbered`) with its
cleared Hello, and the text a Go without a load leaves in the URL bar (`unanswered`). Each exception but `stuck` is reached in its run: without it
the property fails.

## 6. Not modelled, and the plan

Not modelled because there is no state or only calls of the operating system:
byte-level framing, JSON, pipe security, configuration, logging, launcher,
drawing. Failed Direct3D allocations are left out: the code bounds or orders
nothing about them.

What would come next:

1. AgentLink composed with InputRoute, whose sessions it has only as a claim: an
   agent whose route is lost while heartbeats go on keeps control of the page.
2. The grain of StreamSession for the ring's replacement: the generation is
   increased outside `ring_mutex_`, the handshake reads stamps while the UI thread
   writes them; and `StreamClient::Stop`, which cancels the I/O of its pipe once.
3. Pure algorithms against reference definitions: the clamping of
   `CompositePopup`, the scaling of `WindowToSource`.
