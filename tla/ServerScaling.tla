----------------------------- MODULE ServerScaling -----------------------------
(***************************************************************************)
(* Server scaling end to end: the compositor's window thread asks for its  *)
(* client size, the pipe carries the size, the producer's mailbox          *)
(* (ViewportMailbox) hands it to the browser, Chromium paints the new      *)
(* size, the compositor keeps a frame only if it has the size of the       *)
(* window, and its timer presents it.  Width and height are one number.    *)
(*                                                                         *)
(* The frame stream is FrameRing's promise in short: while the link is     *)
(* open the newest frame, or a newer one, is posted to the window.         *)
(***************************************************************************)
EXTENDS ViewportMailbox, Sequences, FiniteSets

CONSTANTS
  MinView,     \* the 320 by 240 SendScalingViewport raises a size to
  Output,      \* output_width and output_height
  NumSlots,    \* kOutputSlots: frames on their way to the window
  MaxChanges   \* bound: resizes, F12 presses and broken connections

\* In a window larger than the output, SetPresentationSize expects frames of
\* the output's size while SendScalingViewport asks for the window's, so that
\* every frame is dropped: such windows are left out.
Clients == 1 .. Output

\* Stores that linger are ViewportMailbox's subject: Next has no Drain, and
\* the runs have StoreLingers = FALSE.
ASSUME ScalingAssumption ==
  /\ Output \in Nat /\ MinView \in 1 .. Output
  /\ MinView .. Output \subseteq Sizes
  /\ NumSlots \in Nat \ {0} /\ MaxChanges \in Nat

VARIABLES
  clientSize,     \* client_width and client_height
  serverScaling,  \* server_scaling
  connected,      \* what the window thread believes
  requested,      \* requested_width and requested_height; 0 for none
  shown,          \* size of the frame in local_frame_; 0 for none
  needsRender,    \* needs_render
  presented,      \* size of the frame on the screen; 0 for none
  posts,          \* kConnectionMessage and kFrameMessage posts
  link,           \* the client thread's connection
  pipe,           \* ViewportSize messages on their way to the producer
  content,        \* content_width_ and content_height_; 0 before a paint
  unsent,         \* the newest frame has not been posted to the window
  resizeDue,      \* Chromium owes a paint after WasResized
  retryPending,   \* viewport_retry_pending_: the 50 ms task is posted
  changes         \* what the user and the network have done so far

screen == <<needsRender, presented>>
window == <<clientSize, serverScaling, connected, requested, shown, screen>>
channel == <<posts, link, pipe>>
browser == <<content, unsent, resizeDue, retryPending>>
vars == <<mailboxVars, window, channel, browser, changes>>

Up == [type |-> "Up", size |-> 0]
Down == [type |-> "Down", size |-> 0]
Frame(s) == [type |-> "Frame", size |-> s]
Posts == {Up, Down} \union {Frame(s) : s \in Sizes}

Init ==
  /\ MailboxInit
  /\ clientSize \in Clients /\ serverScaling \in BOOLEAN
  /\ connected = FALSE /\ requested = 0 /\ shown = 0
  /\ needsRender = TRUE /\ presented = 0
  /\ posts = <<>> /\ link = "closed" /\ pipe = <<>>
  /\ content = 0 /\ unsent = FALSE /\ resizeDue = TRUE /\ retryPending = FALSE
  /\ changes = 0

-----------------------------------------------------------------------------
(***************************************************************************)
(* The compositor's window thread.                                         *)
(***************************************************************************)

\* SendScalingViewport with the values its caller has just assigned.  A send
\* on a closed pipe fails and is not remembered.
Fault_Wanted(scaling, client) == IF ~scaling THEN Output ELSE client
Wanted(scaling, client) ==
  IF ~scaling THEN Output ELSE IF client < MinView THEN MinView ELSE client
SendScalingViewport(on, scaling, client, req) ==
  IF on /\ link # "closed" /\ req # Wanted(scaling, client)
  THEN /\ requested' = Wanted(scaling, client)
       /\ pipe' = Append(pipe, Wanted(scaling, client))
  ELSE requested' = req /\ UNCHANGED pipe

\* Render draws the frame the renderer has, if it has one.
Render == presented' = shown /\ needsRender' = FALSE

\* WM_TIMER.
RenderIfNeeded ==
  /\ needsRender
  /\ Render
  /\ UNCHANGED <<mailboxVars, clientSize, serverScaling, connected, requested,
                 shown, channel, browser, changes>>

\* WM_SIZE, and F11 through it.
Resize(c) ==
  /\ changes < MaxChanges /\ c # clientSize
  /\ changes' = changes + 1
  /\ clientSize' = c
  /\ Render
  /\ IF serverScaling
     THEN SendScalingViewport(connected, TRUE, c, requested)
     ELSE UNCHANGED <<requested, pipe>>
  /\ UNCHANGED <<mailboxVars, serverScaling, connected, shown, posts, link, browser>>

\* SetServerScaling by F12.
ToggleScaling ==
  /\ changes < MaxChanges
  /\ changes' = changes + 1
  /\ serverScaling' = ~serverScaling
  /\ SendScalingViewport(connected, ~serverScaling, clientSize, 0)
  /\ UNCHANGED <<mailboxVars, clientSize, connected, shown, screen, posts, link, browser>>

Posted(type) == posts # <<>> /\ Head(posts).type = type

\* kConnectionMessage.
Fault_ConnectionUp ==
  /\ Posted("Up")
  /\ posts' = Tail(posts)
  /\ connected' = TRUE
  /\ UNCHANGED <<mailboxVars, clientSize, serverScaling, requested, shown, screen,
                 link, pipe, browser, changes>>
ConnectionUp ==
  /\ Posted("Up")
  /\ posts' = Tail(posts)
  /\ connected' = TRUE
  /\ IF serverScaling
     THEN SendScalingViewport(TRUE, TRUE, clientSize, requested)
     ELSE UNCHANGED <<requested, pipe>>
  /\ UNCHANGED <<mailboxVars, clientSize, serverScaling, shown, screen, link,
                 browser, changes>>

Fault_ConnectionDown ==
  /\ Posted("Down")
  /\ posts' = Tail(posts)
  /\ connected' = FALSE
  /\ UNCHANGED <<mailboxVars, clientSize, serverScaling, requested, shown, screen,
                 link, pipe, browser, changes>>
ConnectionDown ==
  /\ Posted("Down")
  /\ posts' = Tail(posts)
  /\ connected' = FALSE
  /\ requested' = 0
  /\ UNCHANGED <<mailboxVars, clientSize, serverScaling, shown, screen, link,
                 pipe, browser, changes>>

\* kFrameMessage: ConsumeFrame releases every frame and keeps it unless it
\* is a transitional one; either is presented by the next timer.
ConsumeFrame ==
  /\ Posted("Frame")
  /\ posts' = Tail(posts)
  /\ shown' = IF serverScaling /\ Head(posts).size # clientSize
              THEN shown ELSE Head(posts).size
  /\ needsRender' = TRUE
  /\ UNCHANGED <<mailboxVars, clientSize, serverScaling, connected, requested,
                 presented, link, pipe, browser, changes>>

\* kRingMessage, after everything posted before it: OpenRing starts with a
\* new device and no frame.  The server offers its ring once the view was
\* painted.
RingOffered == link = "greeting" /\ posts = <<>> /\ content # 0
WithoutFrame == shown' = 0 /\ needsRender' = TRUE
OpenRing ==
  /\ RingOffered
  /\ link' = "answered"
  /\ WithoutFrame
  /\ UNCHANGED <<mailboxVars, clientSize, serverScaling, connected, requested,
                 presented, posts, pipe, browser, changes>>

-----------------------------------------------------------------------------
(***************************************************************************)
(* The client thread and the producer's end of the pipe.                   *)
(***************************************************************************)

Connect ==
  /\ link = "closed"
  /\ link' = "greeting"
  /\ UNCHANGED <<mailboxVars, window, posts, pipe, browser, changes>>

\* The acceptance reaches the server, which starts streaming with its newest
\* frame.
Accepted ==
  /\ link = "answered" /\ pipe = <<>>
  /\ link' = "open"
  /\ posts' = Append(posts, Up)
  /\ unsent' = TRUE
  /\ UNCHANGED <<mailboxVars, window, pipe, content, resizeDue, retryPending, changes>>

Close ==
  /\ link' = "closed"
  /\ pipe' = <<>>
  /\ posts' = Append(posts, Down)

\* A size the window sends during the handshake stands where the server
\* expects the acceptance.
StrayRequest ==
  /\ link \in {"greeting", "answered"} /\ pipe # <<>>
  /\ Close
  /\ UNCHANGED <<mailboxVars, window, browser, changes>>

\* The ring is refused, because the device or a texture cannot be had.
RingRefused ==
  /\ RingOffered /\ changes < MaxChanges
  /\ changes' = changes + 1
  /\ WithoutFrame
  /\ Close
  /\ UNCHANGED <<mailboxVars, clientSize, serverScaling, connected, requested,
                 presented, browser>>

LinkBreaks ==
  /\ link # "closed" /\ changes < MaxChanges
  /\ changes' = changes + 1
  /\ Close
  /\ UNCHANGED <<mailboxVars, window, browser>>

\* ReaderMain on ViewportSize.
ReadRequest ==
  /\ link = "open" /\ pipe # <<>>
  /\ pipe' = Tail(pipe)
  /\ Store(Head(pipe))
  /\ UNCHANGED <<window, posts, link, browser, changes>>

\* PublishLatest, ClientRead and the post, as far as sizes are concerned.
FramesPosted == {i \in DOMAIN posts : posts[i].type = "Frame"}
DeliverFrame ==
  /\ link = "open" /\ unsent
  /\ Cardinality(FramesPosted) < NumSlots
  /\ unsent' = FALSE
  /\ posts' = Append(posts, Frame(content))
  /\ UNCHANGED <<mailboxVars, window, link, pipe, content, resizeDue,
                 retryPending, changes>>

-----------------------------------------------------------------------------
(***************************************************************************)
(* The producer's UI thread and Chromium.                                  *)
(***************************************************************************)

\* ApplyPendingViewerViewport step by step; OnViewerViewport asks Chromium
\* for a resize when the size is another one.
ApplyViewport ==
  /\ ApplyStep
  /\ resizeDue' = (resizeDue \/ view' # view)
  /\ UNCHANGED <<window, channel, content, unsent, retryPending, changes>>

SignalViewport == Signal /\ UNCHANGED <<window, channel, browser, changes>>

\* OnAcceleratedPaint of a frame of size s: the newest frame, and a retry
\* unless it has the size of the view.
Fault_Paint(s) ==
  /\ content' = s
  /\ unsent' = TRUE
  /\ resizeDue' = FALSE
  /\ UNCHANGED <<mailboxVars, window, channel, retryPending, changes>>
Paint(s) ==
  /\ content' = s
  /\ unsent' = TRUE
  /\ resizeDue' = FALSE
  /\ retryPending' = (retryPending \/ s # view)
  /\ UNCHANGED <<mailboxVars, window, channel, changes>>

\* After a resize Chromium may still deliver frames of any earlier size.
PaintAfterResize(s) == resizeDue /\ Paint(s)

\* The page changes by itself.
Repaint == content # 0 /\ ~resizeDue /\ Paint(content)

\* RetryViewerViewport.
RetryViewport ==
  /\ retryPending
  /\ retryPending' = FALSE
  /\ resizeDue' = (resizeDue \/ content # view)
  /\ UNCHANGED <<mailboxVars, window, channel, content, unsent, changes>>

-----------------------------------------------------------------------------
HandlePost == ConnectionUp \/ ConnectionDown \/ ConsumeFrame \/ OpenRing
ClientStep == Connect \/ Accepted \/ StrayRequest \/ DeliverFrame
UserStep == (\E c \in Clients : Resize(c)) \/ ToggleScaling

Next ==
  \/ UserStep \/ HandlePost \/ RenderIfNeeded \/ ClientStep \/ RingRefused \/ LinkBreaks
  \/ ReadRequest \/ SignalViewport \/ ApplyViewport
  \/ (\E s \in Sizes : PaintAfterResize(s)) \/ Repaint \/ RetryViewport

Spec == Init /\ [][Next]_vars

\* Every thread runs its loop; Chromium paints after a resize, and does not
\* answer every one of infinitely many resizes with a stale frame.
FairSpec ==
  /\ Spec
  /\ WF_vars(HandlePost) /\ WF_vars(RenderIfNeeded) /\ WF_vars(ClientStep)
  /\ WF_vars(ReadRequest) /\ WF_vars(SignalViewport) /\ WF_vars(ApplyViewport)
  /\ WF_vars(RetryViewport)
  /\ WF_vars(\E s \in Sizes : PaintAfterResize(s))
  /\ SF_vars(PaintAfterResize(view))

\* A page that keeps painting.
AnimatedSpec == FairSpec /\ WF_vars(Repaint)

-----------------------------------------------------------------------------
(***************************************************************************)
(* Properties.                                                             *)
(***************************************************************************)

TypeOK ==
  /\ MailboxTypeOK
  /\ clientSize \in Clients /\ serverScaling \in BOOLEAN
  /\ connected \in BOOLEAN
  /\ requested \in Sizes \union {0} /\ shown \in Sizes \union {0}
  /\ posts \in Seq(Posts) /\ pipe \in Seq(Sizes)
  /\ needsRender \in BOOLEAN /\ presented \in Sizes \union {0}
  /\ link \in {"closed", "greeting", "answered", "open"}
  /\ content \in Sizes \union {0}
  /\ unsent \in BOOLEAN /\ resizeDue \in BOOLEAN /\ retryPending \in BOOLEAN
  /\ changes \in 0 .. MaxChanges

\* SendScalingViewport sends nothing when the size equals the one requested
\* last.  That is sound because the size it remembers is the last one the
\* producer was sent on this connection and will apply: a remembered request
\* never outlives the connection that carried it.
LastSent == IF pipe = <<>> THEN stored ELSE pipe[Len(pipe)]
RequestIsNotStale ==
  link = "open" /\ requested # 0 /\ (\A i \in DOMAIN posts : posts[i] # Down) =>
    requested = LastSent

\* A window size the browser can have and the compositor accept.
Presentable == serverScaling /\ clientSize >= MinView

\* Once the user and the network leave the system alone, the browser has the
\* size of the window: no request is lost between the window, the pipe and
\* the mailbox, through disconnections, mode changes and coalescing.
ViewFollowsWindow == <>[](Presentable => view = clientSize)

\* And the screen shows a frame of exactly that size, through transitional
\* frames, refused rings, new devices and the timer's dirty flag.
PictureFits == <>[](Presentable => presented = clientSize)
=============================================================================
