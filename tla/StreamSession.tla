----------------------------- MODULE StreamSession -----------------------------
(***************************************************************************)
(* The stream server's threads: ServerMain with its sessions, WriterMain,  *)
(* and the CEF UI thread, which queues messages while the server thread    *)
(* opens and closes sessions, and finally stops the server.  Every access  *)
(* to state the threads share is a step.                                   *)
(*                                                                         *)
(* A message is its identifier: 0 if it is not critical, and otherwise one *)
(* that no other message in flight has.  Which messages the UI thread      *)
(* queues, and when, is left open.  Sessions are numbered modulo two,      *)
(* which tells a session from its neighbours.                              *)
(***************************************************************************)
EXTENDS Integers, Sequences, SequencesExt

CONSTANTS
  MaxQueue,  \* kMaximumOutgoingMessages
  MaxPipe    \* messages the pipe's buffer holds

ASSUME StreamSessionAssumption == MaxQueue \in Nat \ {0} /\ MaxPipe \in Nat \ {0}

Sessions == 0 .. 1
Criticals == 1 .. MaxQueue + MaxPipe + 2
Identifiers == Criticals \union {0}
Message == [id : Identifiers, entered : Sessions]

VARIABLES
  server,     \* where ServerMain is
  session,    \* number of the newest connection
  connected,  \* connected_
  running,    \* session_running_
  stopping,   \* stopping_
  ringReady,  \* ring_ready_event_
  writer,     \* where WriterMain is; "none" if writer_thread_ is not joinable
  writing,    \* the message WriterMain writes
  queue,      \* outgoing_
  ui,         \* where the UI thread is
  message,    \* the message its QueueMessage carries
  link,       \* the pipe between the two processes
  pipe        \* messages in the pipe

serverVars == <<server, session, connected, ringReady, link, pipe>>
writerVars == <<writer, writing>>
uiVars == <<ui, message>>
vars == <<serverVars, running, stopping, writerVars, queue, uiVars>>

ServerPlaces ==
  {"create", "armed", "pending", "listening", "greeting", "accepted", "starting",
   "reading", "ending", "unready", "closing", "disconnecting", "leaving",
   "joining", "stopped"}
UIPlaces ==
  {"idle", "reset", "push", "cancel", "quiet", "look", "joining", "await",
   "stopped", "crashed"}

Note(s) == [id |-> 0, entered |-> s]

Init ==
  /\ server = "create" /\ session = 0 /\ connected = FALSE /\ ringReady = FALSE
  /\ running = FALSE /\ stopping = FALSE
  /\ writer = "none" /\ writing = 0 /\ queue = <<>>
  /\ ui = "idle" /\ message = Note(0)
  /\ link = "none" /\ pipe = <<>>

-----------------------------------------------------------------------------
(***************************************************************************)
(* QueueMessage under the queue's lock.                                    *)
(***************************************************************************)

\* A full queue refuses a critical message and makes room for another one by
\* dropping the oldest that is not critical, if there is one.
Droppable(q) == {i \in DOMAIN q : q[i].id = 0}
Oldest(S) == {i \in S : \A j \in S : i <= j}
Fault_PushedBound(q, m) == IF Len(q) <= MaxQueue THEN Append(q, m) ELSE q
Fault_Pushed(q, m) ==
  IF Len(q) < MaxQueue THEN Append(q, m)
  ELSE IF m.id # 0 THEN q
  ELSE Append(Tail(q), m)
Pushed(q, m) ==
  IF Len(q) < MaxQueue THEN Append(q, m)
  ELSE IF m.id # 0 \/ Droppable(q) = {} THEN q
  ELSE Append(RemoveAt(q, CHOOSE i \in Oldest(Droppable(q)) : TRUE), m)

Push(m) == queue' = IF running THEN Pushed(queue, m) ELSE queue

-----------------------------------------------------------------------------
(***************************************************************************)
(* The UI thread: QueueMessage from any of its callers.                    *)
(***************************************************************************)

UIAt(place, next) == ui = place /\ ui' = next

InFlight ==
  pipe \o (IF writer = "writing" THEN <<writing>> ELSE <<>>)
    \o [i \in DOMAIN queue |-> queue[i].id]
Fresh == {c \in Criticals : \A i \in DOMAIN InFlight : InFlight[i] # c}
Critical == [id |-> CHOOSE c \in Fresh : \A d \in Fresh : c <= d, entered |-> session]

EnterQueueMessage(place) ==
  \/ /\ ~connected
     /\ UIAt(place, "idle")
     /\ UNCHANGED message
  \/ /\ connected
     /\ UIAt(place, "push")
     /\ message' = Critical

\* PublishFrame and its like.
SendCritical ==
  /\ connected /\ EnterQueueMessage("idle")
  /\ UNCHANGED <<serverVars, running, stopping, writerVars, queue>>

\* SendNavigationState, SetViewerVisible and SendCursorState.
SendNote ==
  /\ connected /\ UIAt("idle", "push")
  /\ message' = Note(session)
  /\ UNCHANGED <<serverVars, running, stopping, writerVars, queue>>

\* The pipeline's ring callback: NotifyRingReady, then ResetStream.
NotifyRingReady ==
  /\ UIAt("idle", "reset")
  /\ ringReady' = TRUE
  /\ UNCHANGED <<server, session, connected, link, pipe, running, stopping,
                 writerVars, queue, message>>
ResetStream ==
  /\ EnterQueueMessage("reset")
  /\ UNCHANGED <<serverVars, running, stopping, writerVars, queue>>

QueueMessage ==
  /\ UIAt("push", "idle")
  /\ Push(message)
  /\ message' = Note(0)
  /\ UNCHANGED <<serverVars, running, stopping, writerVars>>

-----------------------------------------------------------------------------
(***************************************************************************)
(* The UI thread: Stop.  CancelSynchronousIo has no effect on either       *)
(* thread, which wait for events.                                          *)
(***************************************************************************)

StopBegins ==
  /\ UIAt("idle", "cancel")
  /\ stopping' = TRUE
  /\ UNCHANGED <<serverVars, running, writerVars, queue, message>>

\* active_pipe_ is set from the pipe's creation until ConnectNamedPipe has
\* returned; cancelling ends a wait for a viewer that nobody has answered.
CancelPipe ==
  /\ UIAt("cancel", "quiet")
  /\ server' = IF server = "pending" /\ link = "none" THEN "create" ELSE server
  /\ UNCHANGED <<session, connected, ringReady, link, pipe, running, stopping,
                 writerVars, queue, message>>

StopSession ==
  /\ UIAt("quiet", "look")
  /\ running' = FALSE
  /\ UNCHANGED <<serverVars, stopping, writerVars, queue, message>>

StopLooksForWriter ==
  /\ UIAt("look", IF writer = "none" THEN "await" ELSE "joining")
  /\ UNCHANGED <<serverVars, running, stopping, writerVars, queue, message>>

StopJoinsWriter ==
  /\ writer \in {"done", "none"}
  /\ UIAt("joining", "await")
  /\ writer' = "none"
  /\ UNCHANGED <<serverVars, running, stopping, writing, queue, message>>

\* Both threads in join on one std::thread: undefined, a crash or no harm.
JoinTwice ==
  /\ server = "joining"
  /\ UIAt("joining", "crashed")
  /\ UNCHANGED <<serverVars, running, stopping, writerVars, queue, message>>

StopJoinsServer ==
  /\ server = "stopped"
  /\ UIAt("await", "stopped")
  /\ UNCHANGED <<serverVars, running, stopping, writerVars, queue, message>>

-----------------------------------------------------------------------------
(***************************************************************************)
(* The server thread.                                                      *)
(***************************************************************************)

ServerAt(place, next) == server = place /\ server' = next

Fault_CreatePipe ==
  /\ ServerAt("create", "armed")
  /\ UNCHANGED <<session, connected, ringReady, link, pipe, running, stopping,
                 writerVars, queue, uiVars>>
CreatePipe ==
  /\ server = "create"
  /\ server' = IF stopping THEN "stopped" ELSE "armed"
  /\ UNCHANGED <<session, connected, ringReady, link, pipe, running, stopping,
                 writerVars, queue, uiVars>>

\* ConnectNamedPipe, and the clearing of active_pipe_ after it.
BeginConnect ==
  /\ \/ link # "broken" /\ ServerAt("armed", "pending")
     \/ ServerAt("pending", "listening")
  /\ UNCHANGED <<session, connected, ringReady, link, pipe, running, stopping,
                 writerVars, queue, uiVars>>

\* A viewer that came and left before ConnectNamedPipe was called.
ConnectFails ==
  /\ link = "broken" /\ ServerAt("armed", "create")
  /\ link' = "none"
  /\ UNCHANGED <<session, connected, ringReady, pipe, running, stopping,
                 writerVars, queue, uiVars>>

ViewerConnected ==
  /\ link # "none"
  /\ ServerAt("listening", "greeting")
  /\ connected' = TRUE
  /\ session' = 1 - session
  /\ UNCHANGED <<ringReady, link, pipe, running, stopping, writerVars, queue, uiVars>>

\* PerformHandshake: the viewer's Hello, the wait for a ring of at most 15
\* seconds, the ring definition and the viewer's answer.
HandshakeDone ==
  /\ link = "open" /\ ringReady
  /\ ServerAt("greeting", "accepted")
  /\ UNCHANGED <<session, connected, ringReady, link, pipe, running, stopping,
                 writerVars, queue, uiVars>>
HandshakeFails ==
  /\ ServerAt("greeting", "ending")
  /\ UNCHANGED <<session, connected, ringReady, link, pipe, running, stopping,
                 writerVars, queue, uiVars>>

SessionRuns ==
  /\ ServerAt("accepted", "starting")
  /\ running' = TRUE
  /\ UNCHANGED <<session, connected, ringReady, link, pipe, stopping, writerVars,
                 queue, uiVars>>

\* The head of ReaderMain's loop.
ReadAgain == server' = IF stopping THEN "ending" ELSE "reading"

StartWriter ==
  /\ server = "starting" /\ ReadAgain
  /\ writer' = "waiting"
  /\ UNCHANGED <<session, connected, ringReady, link, pipe, running, stopping,
                 writing, queue, uiVars>>

\* Any message from the viewer: Ping is answered, the others are passed on.
ReadPing ==
  /\ server = "reading" /\ link = "open" /\ ReadAgain
  /\ Push(Note(session))
  /\ UNCHANGED <<session, connected, ringReady, link, pipe, running, stopping,
                 writerVars, uiVars>>
ReadOther ==
  /\ server = "reading" /\ link = "open" /\ ReadAgain
  /\ UNCHANGED <<session, connected, ringReady, link, pipe, running, stopping,
                 writerVars, queue, uiVars>>

\* A read that fails, or Shutdown.
ReadingEnds ==
  /\ ServerAt("reading", "ending")
  /\ UNCHANGED <<session, connected, ringReady, link, pipe, running, stopping,
                 writerVars, queue, uiVars>>

\* EndSession and what follows it, step by step.
Disconnected ==
  /\ ServerAt("ending", "unready")
  /\ connected' = FALSE
  /\ UNCHANGED <<session, ringReady, link, pipe, running, stopping, writerVars,
                 queue, uiVars>>
Fault_RingUnready ==
  /\ ServerAt("unready", "closing")
  /\ UNCHANGED <<session, connected, ringReady, link, pipe, running, stopping,
                 writerVars, queue, uiVars>>
RingUnready ==
  /\ ServerAt("unready", "closing")
  /\ ringReady' = FALSE
  /\ UNCHANGED <<session, connected, link, pipe, running, stopping, writerVars,
                 queue, uiVars>>
CloseQueue ==
  /\ ServerAt("closing", "disconnecting")
  /\ running' = FALSE
  /\ queue' = <<>>
  /\ UNCHANGED <<session, connected, ringReady, link, pipe, stopping, writerVars,
                 uiVars>>
DisconnectPipe ==
  /\ ServerAt("disconnecting", "leaving")
  /\ link' = "none" /\ pipe' = <<>>
  /\ UNCHANGED <<session, connected, ringReady, running, stopping, writerVars,
                 queue, uiVars>>
Fault_LookForWriter ==
  /\ ServerAt("leaving", "create")
  /\ UNCHANGED <<session, connected, ringReady, link, pipe, running, stopping,
                 writerVars, queue, uiVars>>
LookForWriter ==
  /\ ServerAt("leaving", IF writer = "none" THEN "create" ELSE "joining")
  /\ UNCHANGED <<session, connected, ringReady, link, pipe, running, stopping,
                 writerVars, queue, uiVars>>
JoinWriter ==
  /\ writer \in {"done", "none"}
  /\ ServerAt("joining", "create")
  /\ writer' = "none"
  /\ UNCHANGED <<session, connected, ringReady, link, pipe, running, stopping,
                 writing, queue, uiVars>>

-----------------------------------------------------------------------------
(***************************************************************************)
(* The writer thread.                                                      *)
(***************************************************************************)

WriterTakes ==
  /\ writer = "waiting" /\ queue # <<>>
  /\ writer' = "writing"
  /\ writing' = Head(queue).id
  /\ queue' = Tail(queue)
  /\ UNCHANGED <<serverVars, running, stopping, uiVars>>

Fault_WriterLeaves ==
  /\ writer = "waiting" /\ stopping /\ queue = <<>>
  /\ writer' = "done"
  /\ UNCHANGED <<serverVars, running, stopping, writing, queue, uiVars>>
WriterLeaves ==
  /\ writer = "waiting" /\ (stopping \/ ~running) /\ queue = <<>>
  /\ writer' = "done"
  /\ UNCHANGED <<serverVars, running, stopping, writing, queue, uiVars>>

WriteDone ==
  /\ writer = "writing" /\ link = "open" /\ Len(pipe) < MaxPipe
  /\ writer' = "waiting" /\ writing' = 0
  /\ pipe' = Append(pipe, writing)
  /\ UNCHANGED <<server, session, connected, ringReady, link, running, stopping,
                 queue, uiVars>>

\* A write that fails cancels the read under way.
WriteFails ==
  /\ writer = "writing" /\ link # "open"
  /\ writer' = "done" /\ writing' = 0
  /\ server' = IF server = "reading" THEN "ending" ELSE server
  /\ UNCHANGED <<session, connected, ringReady, link, pipe, running, stopping,
                 queue, uiVars>>

-----------------------------------------------------------------------------
(***************************************************************************)
(* The viewer.                                                             *)
(***************************************************************************)

ViewerOpens ==
  /\ server \in {"armed", "pending", "listening"} /\ link = "none"
  /\ link' = "open"
  /\ UNCHANGED <<server, session, connected, ringReady, pipe, running, stopping,
                 writerVars, queue, uiVars>>

ViewerReads ==
  /\ link = "open" /\ pipe # <<>>
  /\ pipe' = Tail(pipe)
  /\ UNCHANGED <<server, session, connected, ringReady, link, running, stopping,
                 writerVars, queue, uiVars>>

ViewerLeaves ==
  /\ link = "open"
  /\ link' = "broken" /\ pipe' = <<>>
  /\ UNCHANGED <<server, session, connected, ringReady, running, stopping,
                 writerVars, queue, uiVars>>

-----------------------------------------------------------------------------
UISends == SendCritical \/ SendNote \/ NotifyRingReady
UIContinues == ResetStream \/ QueueMessage
Stop ==
  \/ CancelPipe \/ StopSession \/ StopLooksForWriter \/ StopJoinsWriter
  \/ JoinTwice \/ StopJoinsServer
ServerStep ==
  \/ CreatePipe \/ BeginConnect \/ ConnectFails \/ ViewerConnected \/ SessionRuns
  \/ StartWriter \/ Disconnected \/ RingUnready \/ CloseQueue \/ DisconnectPipe
  \/ LookForWriter \/ JoinWriter
Handshake == HandshakeDone \/ HandshakeFails
Read == ReadPing \/ ReadOther \/ ReadingEnds
WriterStep == WriterTakes \/ WriterLeaves \/ WriteDone \/ WriteFails
ViewerStep == ViewerOpens \/ ViewerReads \/ ViewerLeaves

Next ==
  \/ UISends \/ UIContinues \/ StopBegins \/ Stop
  \/ ServerStep \/ Handshake \/ Read \/ WriterStep \/ ViewerStep

Spec == Init /\ [][Next]_vars

\* Threads that can run do; a handshake and a read end when the viewer has
\* gone, and the wait for a ring after its 15 seconds.
FairSpec ==
  /\ Spec
  /\ WF_vars(UIContinues) /\ WF_vars(Stop)
  /\ WF_vars(ServerStep) /\ WF_vars(WriterStep)
  /\ WF_vars(HandshakeFails /\ (link = "broken" \/ ~ringReady))
  /\ WF_vars(ReadingEnds /\ link = "broken")

\* Some viewer connects, and every viewer leaves in the end.
VisitedSpec ==
  FairSpec /\ WF_vars(ViewerOpens) /\ WF_vars(ViewerLeaves)

-----------------------------------------------------------------------------
(***************************************************************************)
(* Properties.                                                             *)
(***************************************************************************)

TypeOK ==
  /\ server \in ServerPlaces /\ session \in Sessions
  /\ connected \in BOOLEAN /\ ringReady \in BOOLEAN
  /\ running \in BOOLEAN /\ stopping \in BOOLEAN
  /\ writer \in {"none", "waiting", "writing", "done"} /\ writing \in Identifiers
  /\ queue \in Seq(Message) /\ Len(queue) <= MaxQueue
  /\ ui \in UIPlaces /\ message \in Message
  /\ link \in {"none", "open", "broken"}
  /\ pipe \in Seq(Identifiers) /\ Len(pipe) <= MaxPipe

\* A message goes to the viewer of the session in which its sender looked
\* at connected_.  The UI thread may be held up inside QueueMessage while
\* the server thread ends a session; what keeps the next one from running
\* meanwhile is that EndSession takes back the event which only the UI
\* thread sets.
QueueIsOfThisSession ==
  \A i \in DOMAIN queue : queue[i].entered = session

\* When writer_thread_ is assigned, no earlier writer is left in it, which
\* would end the process; and no writer outlives the pipe it writes to.
WriterIsOver ==
  server \in {"create", "armed", "pending", "listening", "greeting", "accepted",
             "starting"} => writer = "none"

\* Critical messages reach the viewer in order, once, unless their session
\* ends: stream_server.cc, "Frame transitions are never coalesced or dropped
\* after publication", of the messages the queue accepted.
CriticalsOf(q) ==
  LET ofFirst[n \in 0 .. Len(q)] ==
        IF n = 0 THEN <<>>
        ELSE IF q[n] = 0 THEN ofFirst[n - 1]
        ELSE Append(ofFirst[n - 1], q[n])
  IN  ofFirst[Len(q)]
Box == INSTANCE Outbox
         WITH Messages <- Criticals,
              open <- running /\ link = "open",
              owed <- IF link = "open" THEN CriticalsOf(InFlight) ELSE <<>>
OutboxSpec == Box!Spec

\* A viewer that left makes room for the next: the server offers another
\* pipe, or has been stopped.
ServerListensAgain ==
  (connected /\ link = "broken") ~> server \in {"armed", "stopped"}

\* Stop returns, if viewers come and go; two threads that join the writer at
\* once may bring the process down instead.
StopReturns == stopping ~> ui \in {"stopped", "crashed"}

\* compositor.md names "clean shutdown" among the behaviours to qualify:
\* a server that is stopped comes to an end, whatever the viewers do.
CleanShutdown == stopping ~> ui = "stopped"
=============================================================================
