------------------------------ MODULE FrameRing ------------------------------
(***************************************************************************)
(* The shared-texture ring between the producer's CEF UI thread            *)
(* (D3DFramePipeline) and the viewer's window thread (D3DRenderer), with   *)
(* the ordered channels that connect them: the server's outgoing queue and *)
(* pipe, the viewer's window message queue, the pipe back to the server's  *)
(* reader and the UI task queue.                                           *)
(*                                                                         *)
(* A frame is its frame_id: a composed image (CEF view plus popup) is      *)
(* abstracted to the identifier it is published under.  A ring is the set  *)
(* of output textures of one call of CreateOutputRing; rings are numbered  *)
(* in creation order and tex remembers all of them, because the viewer may *)
(* still hold an old one.  UI tasks are atomic (one thread runs them); the *)
(* handshake of a session is three steps of the server thread, so a UI     *)
(* task can fall between them.                                             *)
(***************************************************************************)
EXTENDS Integers, Sequences, FiniteSets

CONSTANTS
  NumSlots,      \* kOutputSlots
  MaxFrame,      \* bound: frame identifiers composed
  MaxRing,       \* bound: rings after which a growing frame no longer arrives
  MaxSession,    \* bound: connection attempts; the last one is never broken
  CopyMayFail    \* whether the viewer's GPU copy may time out

Phases == {"idle", "offered", "running"}

ASSUME FrameRingAssumption ==
  /\ NumSlots \in Nat \ {0}
  /\ MaxFrame \in Nat
  /\ MaxRing \in Nat
  /\ MaxSession \in Nat
  /\ CopyMayFail \in BOOLEAN

Slots == 1 .. NumSlots
Frames == 0 .. MaxFrame

VARIABLES
  streaming,  \* streaming_enabled_
  latest,     \* latest_metadata_.frame_id, equal to frame_id_
  published,  \* published_frame_id_
  ring,       \* number of the ring in output_slots_; 0 before the first
  slot,       \* output_slots_[s].state and .frame_id
  tex,        \* keyed mutex and image of every texture of every ring
  phase,      \* progress of the server thread through ServerMain
  ringReady,  \* ring_ready_event_
  session,    \* connection attempts so far (session_)
  sring,      \* the ring the server offered in this session
  tainted,    \* history: offered rings whose handshake went wrong (see Settled)
  toViewer,   \* outgoing_ and the pipe behind it
  toServer,   \* the pipe as ReaderMain and PerformHandshake read it
  tasks,      \* tasks the server threads posted to TID_UI
  linkUp,     \* the viewer's end of the pipe is open
  waiting,    \* the client thread waits for AcceptRing
  window,     \* kRingMessage and kFrameMessage posts
  vring,      \* the ring the renderer has open; 0 for none
  shown       \* the frame in local_frame_; 0 for none

pipeline == <<streaming, latest, published, ring, slot, tex>>
server == <<phase, ringReady, session, sring, tainted, toServer, tasks>>
viewer == <<linkUp, waiting, window, vring, shown>>
vars == <<pipeline, server, toViewer, viewer>>

SlotStates == {"Available", "Published"}

\* key0 and key1 are the mutex keys 0 and 1; "held" is the viewer between
\* AcquireSync(1) and ReleaseSync(0); "abandoned" is a holder that died.
Keys == {"key0", "key1", "held", "abandoned"}
Texture == [key : Keys, frame : Frames]

FrameReady(r, s, f) == [type |-> "FrameReady", ring |-> r, slot |-> s, frame |-> f]
RingMessage(r) == [type |-> "Ring", ring |-> r, slot |-> 0, frame |-> 0]
StreamReset == [type |-> "StreamReset", ring |-> 0, slot |-> 0, frame |-> 0]
Released(s, f) == [type |-> "FrameReleased", slot |-> s, frame |-> f]
GenerationAccepted(r) == [type |-> "GenerationAccepted", ring |-> r, slot |-> 0, frame |-> 0]
Ready == [type |-> "Ready", slot |-> 0, frame |-> 0]
Disconnected == [type |-> "Disconnected", slot |-> 0, frame |-> 0]

\* What can be in the channels once R rings exist.
Announcement(R) ==
  [type : {"FrameReady"}, ring : 1 .. R, slot : Slots, frame : Frames]
ViewerMessage(R) == Announcement(R) \union {StreamReset}
WindowMessage(R) == Announcement(R) \union {RingMessage(r) : r \in 0 .. R}
ServerMessage(R) ==
  [type : {"FrameReleased"}, slot : Slots, frame : Frames]
    \union {GenerationAccepted(r) : r \in 0 .. R}
Task ==
  [type : {"FrameReleased"}, slot : Slots, frame : Frames]
    \union {Ready, Disconnected}

FreshSlots == [s \in Slots |-> [state |-> "Available", frame |-> 0]]
FreshTextures == [s \in Slots |-> [key |-> "key0", frame |-> 0]]

Init ==
  /\ streaming = FALSE /\ latest = 0 /\ published = 0 /\ ring = 0
  /\ slot = FreshSlots /\ tex = [r \in 1 .. 0 |-> FreshTextures]
  /\ phase = "idle" /\ ringReady = FALSE /\ session = 0 /\ sring = 0 /\ tainted = {}
  /\ toViewer = <<>> /\ toServer = <<>> /\ tasks = <<>>
  /\ linkUp = FALSE /\ waiting = FALSE /\ window = <<>>
  /\ vring = 0 /\ shown = 0

-----------------------------------------------------------------------------
(***************************************************************************)
(* The producer's UI thread.                                               *)
(***************************************************************************)

\* QueueMessage and WriterMain: one queue, written to the pipe in order.
Fault_Queue(out, m) == <<m>> \o out
Queue(out, m) == Append(out, m)

\* The slots PublishLatest's loop does not skip, in ring r: AcquireSync(0, 0)
\* times out on a texture whose mutex rests on key 1 or is held.
Fault_AcquirableIgnoresKey(r, slots, rings) ==
  {s \in Slots : slots[s].state = "Available"}
Fault_AcquirableIgnoresState(r, slots, rings) ==
  {s \in Slots : rings[r][s].key \in {"key0", "abandoned"}}
Acquirable(r, slots, rings) ==
  {s \in Slots : /\ slots[s].state = "Available"
                 /\ rings[r][s].key \in {"key0", "abandoned"}}

\* The slot the loop publishes into: the first that is acquired, none when
\* that first one is abandoned (the loop gives up).
Target(r, slots, rings) ==
  {s \in Acquirable(r, slots, rings) :
     /\ \A t \in Acquirable(r, slots, rings) : s <= t
     /\ rings[r][s].key # "abandoned"}

\* The latest frame has not been published in this ring.
Fault_Unpublished(frame, pub) == TRUE
Unpublished(frame, pub) == frame > pub

\* PublishLatest, entered with the values the caller has just assigned.  The
\* publication reaches the viewer only in a running session; PublishFrame
\* drops it otherwise, and the slot stays published all the same.
PublishLatest(on, r, frame, pub, slots, rings, out) ==
  IF on /\ r # 0 /\ Unpublished(frame, pub) /\ Target(r, slots, rings) # {}
  THEN \E s \in Target(r, slots, rings) :
         /\ slot' = [slots EXCEPT ![s] = [state |-> "Published", frame |-> frame]]
         /\ tex' = [rings EXCEPT ![r][s] = [key |-> "key1", frame |-> frame]]
         /\ published' = frame
         /\ toViewer' = IF phase = "running"
                        THEN Queue(out, FrameReady(r, s, frame))
                        ELSE out
  ELSE slot' = slots /\ tex' = rings /\ published' = pub /\ toViewer' = out

\* CreateOutputRing, and ring_ready_callback_: ResetStream reaches the queue
\* only in a running session.  Its refusal during a handshake is ignored, so
\* the ring on offer is tainted.
WithFreshRing == [r \in 1 .. ring + 1 |-> IF r = ring + 1 THEN FreshTextures ELSE tex[r]]
Fault_AfterReset == toViewer
AfterReset == IF phase = "running" THEN Queue(toViewer, StreamReset) ELSE toViewer
Tainted == IF phase = "offered" THEN tainted \union {sring} ELSE tainted

\* CopyFromCef of a frame that fits the ring, SetPopupVisible, SetPopupBounds.
Fault_Compose ==
  /\ latest < MaxFrame
  /\ PublishLatest(streaming, ring, latest + 1, published, slot, tex, toViewer)
  /\ UNCHANGED <<streaming, latest, ring, server, viewer>>
Compose ==
  /\ latest < MaxFrame
  /\ latest' = latest + 1
  /\ PublishLatest(streaming, ring, latest + 1, published, slot, tex, toViewer)
  /\ UNCHANGED <<streaming, ring, server, viewer>>

\* CopyFromCef of the first view, or of one larger than the ring or in
\* another format: CreateViewRing, its callback, then the publication.
ComposeInNewRing ==
  /\ latest < MaxFrame
  /\ ring = 0 \/ (ring < MaxRing /\ session < MaxSession)
  /\ latest' = latest + 1
  /\ ring' = ring + 1
  /\ ringReady' = TRUE
  /\ tainted' = Tainted
  /\ PublishLatest(streaming, ring + 1, latest + 1, 0, FreshSlots,
                   WithFreshRing, AfterReset)
  /\ UNCHANGED <<streaming, phase, session, sring, toServer, tasks, viewer>>

\* OnViewerReady: SetStreamingEnabled(true).
ViewerReady ==
  /\ tasks # <<>> /\ Head(tasks).type = "Ready"
  /\ tasks' = Tail(tasks)
  /\ streaming' = TRUE
  /\ PublishLatest(TRUE, ring, latest, published, slot, tex, toViewer)
  /\ UNCHANGED <<latest, ring, phase, ringReady, session, sring, tainted,
                 toServer, viewer>>

\* OnFrameReleased: ReleaseOutputSlot, ignored unless slot and frame match.
ReleaseMatches(m) ==
  slot[m.slot].state = "Published" /\ slot[m.slot].frame = m.frame
FreedSlots(m) == [slot EXCEPT ![m.slot].state = "Available"]

Fault_FrameReleased ==
  /\ tasks # <<>> /\ Head(tasks).type = "FrameReleased"
  /\ tasks' = Tail(tasks)
  /\ slot' = IF ReleaseMatches(Head(tasks)) THEN FreedSlots(Head(tasks)) ELSE slot
  /\ UNCHANGED <<streaming, latest, published, tex, ring, phase, ringReady,
                 session, sring, tainted, toServer, toViewer, viewer>>
FrameReleased ==
  /\ tasks # <<>> /\ Head(tasks).type = "FrameReleased"
  /\ tasks' = Tail(tasks)
  /\ IF ReleaseMatches(Head(tasks))
     THEN PublishLatest(streaming, ring, latest, published,
                        FreedSlots(Head(tasks)), tex, toViewer)
     ELSE UNCHANGED <<slot, tex, published, toViewer>>
  /\ UNCHANGED <<streaming, latest, ring, phase, ringReady, session, sring,
                 tainted, toServer, viewer>>

\* OnViewerDisconnected: SetStreamingEnabled(false) makes a ring for the next
\* viewer and signals it, unless there is no capture texture yet.
ViewerDisconnected ==
  /\ tasks # <<>> /\ Head(tasks).type = "Disconnected"
  /\ tasks' = Tail(tasks)
  /\ streaming' = FALSE
  /\ IF ring = 0
     THEN UNCHANGED <<ring, slot, tex, published, ringReady, tainted, toViewer>>
     ELSE /\ ring' = ring + 1
          /\ slot' = FreshSlots
          /\ tex' = WithFreshRing
          /\ published' = 0
          /\ ringReady' = TRUE
          /\ tainted' = Tainted
          /\ toViewer' = AfterReset
  /\ UNCHANGED <<latest, phase, session, sring, toServer, viewer>>

-----------------------------------------------------------------------------
(***************************************************************************)
(* The server thread.                                                      *)
(***************************************************************************)

\* EndSession and DisconnectNamedPipe; what the viewer had written is lost.
EndSession ==
  /\ phase' = "idle"
  /\ ringReady' = FALSE
  /\ toViewer' = <<>>
  /\ toServer' = <<>>
  /\ tasks' = Append(tasks, Disconnected)
  /\ linkUp' = FALSE
  /\ waiting' = FALSE

\* PerformHandshake up to the RingDefinition: Hello, the ready event, the
\* snapshot; the client thread posts the definition to its window.
OfferRing ==
  /\ phase = "idle" /\ ringReady /\ session < MaxSession
  /\ phase' = "offered"
  /\ session' = session + 1
  /\ sring' = ring
  /\ linkUp' = TRUE
  /\ waiting' = TRUE
  /\ window' = Append(window, RingMessage(ring))
  /\ UNCHANGED <<pipeline, ringReady, tainted, toServer, tasks, toViewer, vring, shown>>

\* A connection that fails before the offer: no Hello, something other than
\* Hello, or no ring within 15 seconds.
HandshakeAborted ==
  /\ phase = "idle" /\ session + 1 < MaxSession
  /\ session' = session + 1
  /\ EndSession
  /\ UNCHANGED <<pipeline, sring, tainted, window, vring, shown>>

\* The rest of PerformHandshake: anything but the acceptance is a failure.
HandshakeRead ==
  /\ phase = "offered" /\ toServer # <<>>
  /\ IF Head(toServer).type = "GenerationAccepted"
     THEN /\ phase' = "running"
          /\ toServer' = Tail(toServer)
          /\ tasks' = Append(tasks, Ready)
          /\ tainted' = IF Head(toServer).ring = sring THEN tainted
                        ELSE tainted \union {sring}
          /\ UNCHANGED <<ringReady, toViewer, linkUp, waiting>>
     ELSE EndSession /\ UNCHANGED tainted
  /\ UNCHANGED <<pipeline, session, sring, window, vring, shown>>

\* ReaderMain: every release becomes a UI task.
ServerRead ==
  /\ phase = "running" /\ toServer # <<>>
  /\ toServer' = Tail(toServer)
  /\ tasks' = IF Head(toServer).type = "FrameReleased"
              THEN Append(tasks, Head(toServer)) ELSE tasks
  /\ UNCHANGED <<pipeline, phase, ringReady, session, sring, tainted, toViewer, viewer>>

\* A read or write on the closed pipe fails: the session ends, whether or not
\* the reader has drained what the viewer wrote before closing.
SessionLost ==
  /\ phase # "idle" /\ ~linkUp
  /\ EndSession
  /\ UNCHANGED <<pipeline, session, sring, tainted, window, vring, shown>>

-----------------------------------------------------------------------------
(***************************************************************************)
(* The viewer: client thread and window thread.                            *)
(***************************************************************************)

\* The client thread's read loop: frames are posted to the window, a reset
\* closes the pipe and with it drops what follows.
ClientRead ==
  /\ phase = "running" /\ linkUp /\ ~waiting /\ toViewer # <<>>
  /\ IF Head(toViewer).type = "StreamReset"
     THEN linkUp' = FALSE /\ toViewer' = <<>> /\ UNCHANGED window
     ELSE /\ window' = Append(window, Head(toViewer))
          /\ toViewer' = Tail(toViewer)
          /\ UNCHANGED linkUp
  /\ UNCHANGED <<pipeline, server, waiting, vring, shown>>

\* The viewer closes the pipe: an I/O error, the 10 second acceptance
\* timeout, or a ring it could not open.
LinkBreaks ==
  /\ linkUp /\ session < MaxSession
  /\ linkUp' = FALSE
  /\ waiting' = FALSE
  /\ toViewer' = <<>>
  /\ UNCHANGED <<pipeline, server, window, vring, shown>>

\* kRingMessage: OpenRing drops the local frame, then AcceptRing.  The client
\* thread, if it waits, takes any acceptance for the one it waits for.
RingAtHead == window # <<>> /\ Head(window).type = "Ring"
RingOpened ==
  /\ RingAtHead
  /\ window' = Tail(window)
  /\ vring' = Head(window).ring
  /\ shown' = 0
  /\ waiting' = FALSE
  /\ toServer' = IF waiting
                 THEN Append(toServer, GenerationAccepted(Head(window).ring))
                 ELSE toServer
  /\ UNCHANGED <<pipeline, phase, ringReady, session, sring, tainted, tasks,
                 toViewer, linkUp>>

\* OpenRing fails with the device already reset; the waiting client hangs up.
RingRefused ==
  /\ RingAtHead /\ session < MaxSession
  /\ window' = Tail(window)
  /\ vring' = 0
  /\ shown' = 0
  /\ waiting' = FALSE
  /\ linkUp' = (linkUp /\ ~waiting)
  /\ toViewer' = IF waiting THEN <<>> ELSE toViewer
  /\ UNCHANGED <<pipeline, server>>

\* The texture the head of the window queue names, in the ring that is open.
FrameAtHead == window # <<>> /\ Head(window).type = "FrameReady"
KeyAtHead == tex[vring][Head(window).slot].key
SetKeyAtHead(k) ==
  tex' = [tex EXCEPT ![vring][Head(window).slot].key = k]

\* ConsumeFrame: AcquireSync(1, 100) succeeds.
AcquireFrame ==
  /\ FrameAtHead /\ vring # 0
  /\ KeyAtHead = "key1"
  /\ SetKeyAtHead("held")
  /\ UNCHANGED <<streaming, latest, published, ring, slot, server, toViewer, viewer>>

\* ConsumeFrame after the copy: ReleaseSync(0), then ReleaseFrame on whatever
\* pipe the client has by now.
ShowFrame ==
  /\ FrameAtHead /\ vring # 0
  /\ KeyAtHead = "held"
  /\ SetKeyAtHead("key0")
  /\ shown' = tex[vring][Head(window).slot].frame
  /\ window' = Tail(window)
  /\ toServer' = IF linkUp
                 THEN Append(toServer, Released(Head(window).slot, Head(window).frame))
                 ELSE toServer
  /\ UNCHANGED <<streaming, latest, published, ring, slot, phase, ringReady,
                 session, sring, tainted, tasks, toViewer, linkUp, waiting, vring>>

\* ConsumeFrame failing: no ring is open, the acquisition times out, or (the
\* mutex stays held) the copy does.  Nothing is released.
Fault_SpendFrame ==
  /\ window' = Tail(window)
  /\ toServer' = Append(toServer, Released(Head(window).slot, Head(window).frame))
  /\ UNCHANGED <<pipeline, phase, ringReady, session, sring, tainted, tasks,
                 toViewer, linkUp, waiting, vring, shown>>
SpendFrame ==
  /\ window' = Tail(window)
  /\ UNCHANGED <<pipeline, server, toViewer, linkUp, waiting, vring, shown>>
AcquireTimesOut ==
  /\ FrameAtHead
  /\ vring # 0 => KeyAtHead \in {"key0", "abandoned"}
  /\ SpendFrame
CopyTimesOut ==
  /\ CopyMayFail /\ FrameAtHead /\ vring # 0
  /\ KeyAtHead = "held"
  /\ SpendFrame

\* The viewer process dies: its queue and textures go, its pipe breaks and
\* the mutexes it held are abandoned.
Abandon(t) == IF t.key = "held" THEN [t EXCEPT !.key = "abandoned"] ELSE t
ViewerExits ==
  /\ session < MaxSession
  /\ window # <<>> \/ vring # 0
  /\ linkUp' = FALSE
  /\ waiting' = FALSE
  /\ toViewer' = IF linkUp THEN <<>> ELSE toViewer
  /\ window' = <<>>
  /\ vring' = 0
  /\ shown' = 0
  /\ tex' = [r \in 1 .. ring |-> [s \in Slots |-> Abandon(tex[r][s])]]
  /\ UNCHANGED <<streaming, latest, published, ring, slot, server>>

-----------------------------------------------------------------------------
UIStep == ViewerReady \/ FrameReleased \/ ViewerDisconnected
ServerStep == OfferRing \/ HandshakeRead \/ ServerRead \/ SessionLost
WindowStep == RingOpened \/ AcquireFrame \/ ShowFrame \/ AcquireTimesOut
Environment == Compose \/ ComposeInNewRing \/ HandshakeAborted \/ LinkBreaks
                 \/ RingRefused \/ CopyTimesOut \/ ViewerExits

Next == UIStep \/ ServerStep \/ ClientRead \/ WindowStep \/ Environment

Spec == Init /\ [][Next]_vars

\* Each thread runs its message loop; the environment owes nothing.
FairSpec ==
  /\ Spec
  /\ WF_vars(UIStep)
  /\ WF_vars(ServerStep)
  /\ WF_vars(ClientRead)
  /\ WF_vars(WindowStep)

-----------------------------------------------------------------------------
(***************************************************************************)
(* Properties.                                                             *)
(***************************************************************************)

\* Every variable ranges over what the program can hold in it; in
\* particular no ring was ever published a frame that was not composed.
TypeOK ==
  /\ streaming \in BOOLEAN
  /\ latest \in Frames /\ published \in 0 .. latest
  /\ ring \in Nat /\ sring \in 0 .. ring /\ vring \in 0 .. ring
  /\ slot \in [Slots -> [state : SlotStates, frame : Frames]]
  /\ tex \in [1 .. ring -> [Slots -> Texture]]
  /\ phase \in Phases /\ ringReady \in BOOLEAN
  /\ session \in 0 .. MaxSession /\ tainted \subseteq 0 .. ring
  /\ toViewer \in Seq(ViewerMessage(ring))
  /\ window \in Seq(WindowMessage(ring))
  /\ toServer \in Seq(ServerMessage(ring))
  /\ tasks \in Seq(Task)
  /\ linkUp \in BOOLEAN /\ waiting \in BOOLEAN
  /\ shown \in Frames

FrameReadys(q) == {i \in DOMAIN q : q[i].type = "FrameReady"}

\* A frame the viewer was told of stays in its texture, under the viewer's
\* key, until the viewer takes it: no later publication, ring replacement,
\* stale release or viewer restart overwrites or hides it.  At the head of
\* the window queue the viewer may already hold the mutex.
HasFrame(m, keys) ==
  tex[m.ring][m.slot].frame = m.frame /\ tex[m.ring][m.slot].key \in keys
AnnouncedFrameIsReadable ==
  /\ \A i \in FrameReadys(toViewer) : HasFrame(toViewer[i], {"key1"})
  /\ \A i \in FrameReadys(window) :
       HasFrame(window[i], IF i = 1 THEN {"key1", "held"} ELSE {"key1"})

\* The viewer's next frame is of the ring it has open, if any: the frames of
\* a replacement follow a StreamReset, except in a tainted session.
FrameOfOpenRing ==
  FrameAtHead => vring \in {Head(window).ring, 0} \union tainted

\* Within a ring the viewer is told only of frames newer than the one it
\* shows: releasing a slot never publishes the frame just shown again (the
\* feedback loop PublishLatest's comment warns of).
AheadOfShown(m) == m.ring = vring => m.frame > shown
NoFeedbackLoop ==
  /\ \A i \in FrameReadys(toViewer) : AheadOfShown(toViewer[i])
  /\ \A i \in FrameReadys(window) : AheadOfShown(window[i])

\* A session that streams the pipeline's ring, whose handshake was about
\* that ring, and whose predecessors' disconnection has been handled.
Settled ==
  /\ phase = "running" /\ sring = ring /\ sring \notin tainted
  /\ \A i \in DOMAIN tasks : tasks[i].type # "Disconnected"

\* In a settled session the producer never finds the viewer's key on a slot
\* it thinks it owns, so AcquireSync(0, 0) never times out.
AvailableSlotIsFree ==
  Settled =>
    \A s \in Slots : slot[s].state = "Available" => tex[ring][s].key = "key0"

\* In a settled session with its pipe intact, exactly one message or task
\* stands for each published slot, wherever it is between the publication
\* and its release, and none for an available one.  A slot is left behind
\* only by a copy that timed out, with the mutex still held.
Carriers(q, s) ==
  {i \in DOMAIN q : q[i].type \in {"FrameReady", "FrameReleased"} /\ q[i].slot = s}
CarrierCount(s) ==
  Cardinality(Carriers(toViewer, s)) + Cardinality(Carriers(window, s))
    + Cardinality(Carriers(toServer, s)) + Cardinality(Carriers(tasks, s))
LeftBehind(s) ==
  slot[s].state = "Published" /\ tex[ring][s].key = "held" /\ CarrierCount(s) = 0
EverySlotHasOneCarrier ==
  Settled /\ linkUp =>
    \A s \in Slots :
      IF slot[s].state = "Available" THEN CarrierCount(s) = 0
      ELSE CarrierCount(s) = 1 \/ LeftBehind(s)

\* The viewer shows composed frames in order, skipping some: the ring and
\* its channels implement the frame feed.
Feed == INSTANCE FrameFeed WITH composed <- latest, displayed <- shown
FeedSpec == Feed!Spec

\* A frame composed once there is a ring is shown, or a later one is, unless
\* a copy timed out and left its slot behind, the session is tainted or the
\* bound on sessions is used up.
LatestFrameIsShown ==
  \A f \in 1 .. MaxFrame :
    (latest = f /\ ring # 0) ~>
      \/ shown >= f
      \/ Settled /\ linkUp /\ \E s \in Slots : LeftBehind(s)
      \/ sring \in tainted
      \/ phase = "idle" /\ session = MaxSession

\* browser_client.cc: "A ring regenerated while a viewer is attached requires
\* a fresh handshake."  A session whose ring was replaced has the reset that
\* forces the handshake on its way.
RegeneratedRingForcesHandshake ==
  phase = "running" /\ linkUp /\ sring # ring =>
    \E i \in DOMAIN toViewer : toViewer[i].type = "StreamReset"
=============================================================================
