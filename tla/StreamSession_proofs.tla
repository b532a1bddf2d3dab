------------------------- MODULE StreamSession_proofs -------------------------
(***************************************************************************)
(* What holds of the stream server's threads for any length of the queue   *)
(* and of the pipe: types, that a message is only queued for the session   *)
(* it was meant for, that writer_thread_ is free when it is assigned, and  *)
(* that critical messages reach the viewer in order, none lost and none    *)
(* twice, while their session is open.                                     *)
(***************************************************************************)
EXTENDS StreamSession, SequenceTheorems, FiniteSetTheorems, WellFoundedInduction, TLAPS

-----------------------------------------------------------------------------
(***************************************************************************)
(* Lemmas about the operators.                                             *)
(***************************************************************************)

LEMMA LeastExists ==
  ASSUME NEW T \in SUBSET Nat, T # {}
  PROVE  \E i \in T : \A j \in T : i <= j
<1> DEFINE Less == OpToRel(<, Nat)
<1>1. \A x, y \in Nat : <<y, x>> \in Less <=> y < x
  BY DEF OpToRel
<1>2. PICK i \in T : \A j \in T : <<j, i>> \notin Less
  <2>1. IsWellFoundedOn(Less, Nat)
    BY NatLessThanWellFounded
  <2> HIDE DEF Less
  <2> QED BY <2>1, WFMin
<1> HIDE DEF Less
<1>3. i \in Nat /\ \A j \in T : j \in Nat /\ ~ (j < i)
  BY <1>1, <1>2
<1>4. \A j \in T : i <= j
  BY <1>3
<1> QED BY <1>4

\* Dropping one message leaves a sequence of the others, one shorter.
LEMMA RemoveAtProperties ==
  ASSUME NEW S, NEW q \in Seq(S), NEW i \in 1 .. Len(q)
  PROVE  /\ RemoveAt(q, i) \in Seq(S)
         /\ Len(RemoveAt(q, i)) = Len(q) - 1
<1>1. Len(q) \in Nat /\ \A j \in 1 .. Len(q) : q[j] \in S
  BY LenProperties, ElementOfSeq
<1>2. /\ SubSeq(q, 1, i - 1) \in Seq(S)
      /\ Len(SubSeq(q, 1, i - 1)) = i - 1
  <2>1. \A j \in 1 .. i - 1 : q[j] \in S
    BY <1>1
  <2>2. Len(SubSeq(q, 1, i - 1)) = IF 1 <= i - 1 THEN (i - 1) - 1 + 1 ELSE 0
    BY <2>1, SubSeqProperties
  <2> QED BY <2>1, <2>2, SubSeqProperties
<1>3. /\ SubSeq(q, i + 1, Len(q)) \in Seq(S)
      /\ Len(SubSeq(q, i + 1, Len(q))) = Len(q) - i
  <2>1. \A j \in i + 1 .. Len(q) : q[j] \in S
    BY <1>1
  <2>2. i + 1 \in Int /\ Len(q) \in Int
    BY <1>1
  <2>3. Len(SubSeq(q, i + 1, Len(q)))
          = IF i + 1 <= Len(q) THEN Len(q) - (i + 1) + 1 ELSE 0
    BY <2>1, <2>2, SubSeqProperties
  <2>4. SubSeq(q, i + 1, Len(q)) \in Seq(S)
    BY <2>1, <2>2, SubSeqProperties
  <2> QED BY <1>1, <2>3, <2>4
<1> DEFINE before == SubSeq(q, 1, i - 1)
           after == SubSeq(q, i + 1, Len(q))
<1>4. RemoveAt(q, i) = before \o after
  BY DEF RemoveAt
<1> HIDE DEF before, after
<1>5. /\ before \o after \in Seq(S)
      /\ Len(before \o after) = Len(before) + Len(after)
  BY <1>2, <1>3, ConcatProperties DEF before, after
<1>6. Len(before) = i - 1 /\ Len(after) = Len(q) - i /\ Len(q) \in Nat
  BY <1>1, <1>2, <1>3 DEF before, after
<1> QED BY <1>4, <1>5, <1>6

\* Whatever the queue does with a message, it holds messages of the same
\* kind and stays within its limit.
LEMMA PushedProperties ==
  ASSUME NEW S, S \subseteq Message, NEW q \in Seq(S), NEW m \in S,
         Len(q) <= MaxQueue
  PROVE  Pushed(q, m) \in Seq(S) /\ Len(Pushed(q, m)) <= MaxQueue
<1> USE StreamSessionAssumption
<1>1. Len(q) \in Nat
  BY LenProperties
<1>2. CASE Len(q) < MaxQueue
  <2>1. Append(q, m) \in Seq(S) /\ Len(Append(q, m)) = Len(q) + 1
    OBVIOUS
  <2> QED BY <1>1, <1>2, <2>1 DEF Pushed
<1>3. CASE Len(q) >= MaxQueue /\ (m.id # 0 \/ Droppable(q) = {})
  <2>1. Pushed(q, m) = q
    BY <1>1, <1>3 DEF Pushed
  <2> QED BY <2>1
<1>4. CASE Len(q) >= MaxQueue /\ m.id = 0 /\ Droppable(q) # {}
  <2> DEFINE i == CHOOSE i \in Oldest(Droppable(q)) : TRUE
  <2>1. Droppable(q) \subseteq 1 .. Len(q) /\ 1 .. Len(q) \subseteq Nat
    BY <1>1, LenProperties DEF Droppable
  <2>2. Oldest(Droppable(q)) # {}
    BY <1>4, <2>1, LeastExists DEF Oldest
  <2>3. i \in 1 .. Len(q)
    BY <2>1, <2>2 DEF Oldest
  <2>4. Pushed(q, m) = Append(RemoveAt(q, i), m)
    BY <1>1, <1>4 DEF Pushed
  <2> HIDE DEF i
  <2>5. RemoveAt(q, i) \in Seq(S) /\ Len(RemoveAt(q, i)) = Len(q) - 1
    BY <2>3, RemoveAtProperties
  <2>6. /\ Append(RemoveAt(q, i), m) \in Seq(S)
        /\ Len(Append(RemoveAt(q, i), m)) = Len(RemoveAt(q, i)) + 1
    BY <2>5
  <2> QED BY <1>1, <2>4, <2>5, <2>6
<1> QED BY <1>1, <1>2, <1>3, <1>4

\* What is under way never takes up all identifiers.
LEMMA InFlightIsBounded ==
  ASSUME TypeOK
  PROVE  /\ InFlight \in Seq(Identifiers)
         /\ Len(InFlight) <= MaxQueue + MaxPipe + 1
<1> DEFINE inWriter == IF writer = "writing" THEN <<writing>> ELSE <<>>
           inQueue == [i \in DOMAIN queue |-> queue[i].id]
<1> USE StreamSessionAssumption
<1>1. /\ pipe \in Seq(Identifiers) /\ Len(pipe) <= MaxPipe
      /\ writing \in Identifiers
      /\ queue \in Seq(Message) /\ Len(queue) <= MaxQueue
  BY DEF TypeOK
<1>2. /\ inWriter \in Seq(Identifiers)
      /\ Len(inWriter) \in Nat /\ Len(inWriter) <= 1
  <2>1. CASE writer = "writing"
    BY <1>1, <2>1
  <2>2. CASE writer # "writing"
    BY <2>2
  <2> QED BY <2>1, <2>2
<1>3. inQueue \in Seq(Identifiers) /\ Len(inQueue) = Len(queue)
  <2>1. Len(queue) \in Nat /\ DOMAIN queue = 1 .. Len(queue)
    BY <1>1, LenProperties
  <2>2. \A i \in 1 .. Len(queue) : queue[i].id \in Identifiers
    <3>1. \A i \in 1 .. Len(queue) : queue[i] \in Message
      BY <1>1, ElementOfSeq
    <3> QED BY <3>1 DEF Message
  <2>3. inQueue \in [1 .. Len(queue) -> Identifiers]
    BY <2>1, <2>2
  <2>4. inQueue \in Seq(Identifiers)
    BY <2>1, <2>3, SeqDef
  <2>5. DOMAIN inQueue = 1 .. Len(queue) /\ DOMAIN inQueue = 1 .. Len(inQueue)
    BY <2>3, <2>4, LenProperties
  <2>6. Len(inQueue) \in Nat
    BY <2>4, LenProperties
  <2> HIDE DEF inQueue
  <2>7. Len(inQueue) = Len(queue)
    BY <2>1, <2>5, <2>6
  <2> QED BY <2>4, <2>7
<1>4. InFlight = (pipe \o inWriter) \o inQueue
  BY DEF InFlight
<1> HIDE DEF inWriter, inQueue
<1>5. /\ pipe \o inWriter \in Seq(Identifiers)
      /\ Len(pipe \o inWriter) = Len(pipe) + Len(inWriter)
  BY <1>1, <1>2, ConcatProperties
<1>6. /\ (pipe \o inWriter) \o inQueue \in Seq(Identifiers)
      /\ Len((pipe \o inWriter) \o inQueue)
           = Len(pipe) + Len(inWriter) + Len(inQueue)
  BY ZenonT(30), <1>3, <1>5, ConcatProperties
<1>7. /\ Len(pipe) \in Nat /\ Len(pipe) <= MaxPipe
      /\ Len(inWriter) \in Nat /\ Len(inWriter) <= 1
      /\ Len(inQueue) \in Nat /\ Len(inQueue) <= MaxQueue
  <2>1. Len(pipe) \in Nat /\ Len(queue) \in Nat /\ Len(inQueue) \in Nat
    BY <1>1, <1>3, LenProperties
  <2>2. Len(pipe) <= MaxPipe /\ Len(queue) <= MaxQueue
    BY <1>1
  <2>3. Len(inQueue) = Len(queue)
    BY <1>3
  <2>4. Len(inWriter) \in Nat /\ Len(inWriter) <= 1
    BY <1>2
  <2> QED BY <2>1, <2>2, <2>3, <2>4
<1>8. Len(InFlight) = Len(pipe) + Len(inWriter) + Len(inQueue)
  BY <1>4, <1>6
<1>9. Len(InFlight) <= MaxQueue + MaxPipe + 1
  BY <1>7, <1>8
<1>10. InFlight \in Seq(Identifiers)
  BY <1>4, <1>6
<1> QED BY <1>9, <1>10

LEMMA Pigeonhole ==
  ASSUME NEW n \in Nat, NEW k \in Nat, n < k, NEW f \in [1 .. k -> 1 .. n]
  PROVE  \E c, d \in 1 .. k : c # d /\ f[c] = f[d]
<1>1. IsFiniteSet(1 .. n) /\ IsFiniteSet(1 .. k)
  BY FS_Interval
<1>2. /\ Cardinality(1 .. n) = IF 1 > n THEN 0 ELSE n - 1 + 1
      /\ Cardinality(1 .. k) = IF 1 > k THEN 0 ELSE k - 1 + 1
  BY FS_Interval
<1>3. Cardinality(1 .. n) < Cardinality(1 .. k)
  BY <1>2
<1> QED BY <1>1, <1>3, FS_PigeonHole

\* So a critical message always finds an identifier.
LEMMA CriticalIsMessage ==
  ASSUME TypeOK
  PROVE  Critical \in Message /\ Critical.entered = session
<1> DEFINE n == Len(InFlight)
           position == [c \in Criticals |->
                          CHOOSE i \in 1 .. n : InFlight[i] = c]
<1> USE StreamSessionAssumption
<1>1. n \in Nat /\ n <= MaxQueue + MaxPipe + 1 /\ DOMAIN InFlight = 1 .. n
  BY InFlightIsBounded, LenProperties
<1>2. Fresh # {}
  <2> SUFFICES ASSUME Fresh = {} PROVE FALSE
    OBVIOUS
  <2>1. \A c \in Criticals : \E i \in 1 .. n : InFlight[i] = c
    BY <1>1 DEF Fresh
  <2>2. \A c \in Criticals : position[c] \in 1 .. n /\ InFlight[position[c]] = c
    BY <2>1
  <2>3. position \in [Criticals -> 1 .. n]
    BY <2>2
  <2>4. Criticals = 1 .. MaxQueue + MaxPipe + 2
    BY DEF Criticals
  <2> HIDE DEF position
  <2>5. ASSUME NEW k \in Nat, n < k, Criticals = 1 .. k
        PROVE  \E c, d \in Criticals : c # d /\ position[c] = position[d]
    <3>1. position \in [1 .. k -> 1 .. n]
      BY <2>3, <2>5
    <3> HIDE DEF n
    <3>2. \E c, d \in 1 .. k : c # d /\ position[c] = position[d]
      BY <1>1, <2>5, <3>1, Pigeonhole
    <3> QED BY <2>5, <3>2
  <2>6. PICK c, d \in Criticals : c # d /\ position[c] = position[d]
    <3>1. MaxQueue + MaxPipe + 2 \in Nat /\ n < MaxQueue + MaxPipe + 2
      BY <1>1
    <3> HIDE DEF n
    <3> QED BY <2>4, <2>5, <3>1
  <2> QED BY <2>2, <2>6
<1>3. Fresh \in SUBSET Nat
  BY DEF Fresh, Criticals
<1>4. \E c \in Fresh : \A d \in Fresh : c <= d
  BY <1>2, <1>3, LeastExists
<1>5. (CHOOSE c \in Fresh : \A d \in Fresh : c <= d) \in Identifiers
  BY <1>4 DEF Fresh, Identifiers
<1>6. session \in Sessions
  BY DEF TypeOK
<1> QED BY <1>5, <1>6 DEF Critical, Message

-----------------------------------------------------------------------------
(***************************************************************************)
(* The inductive invariant.                                                *)
(***************************************************************************)

Connected == {"greeting", "accepted", "starting", "reading", "ending"}
InSession == {"starting", "reading", "ending", "unready", "closing"}
WriterMayRun ==
  {"reading", "ending", "unready", "closing", "disconnecting", "leaving", "joining"}

\* The messages of session s.
MessagesOf(s) == {m \in Message : m.entered = s}

\* connected_, session_running_ and the queue follow the server thread.
SessionFollows ==
  /\ connected => server \in Connected
  /\ running \/ queue # <<>> => server \in InSession
  /\ queue \in Seq(MessagesOf(session))

\* While the UI thread is inside QueueMessage either its session is still
\* there, or no ring is ready, so no session runs that it does not belong to.
SenderIsHeldOff ==
  ui = "push" =>
    \/ message.entered = session /\ server \in Connected \union {"unready"}
    \/ message.entered = session /\ ~ringReady /\ server = "closing"
    \/ ~ringReady /\ ~running /\ server \notin {"accepted", "starting", "reading"}

WriterFollows == writer # "none" => server \in WriterMayRun

IInv == TypeOK /\ SessionFollows /\ SenderIsHeldOff /\ WriterFollows

-----------------------------------------------------------------------------
(***************************************************************************)
(* Type correctness.                                                       *)
(***************************************************************************)

\* A message of some session keeps the queue's type.
LEMMA PushKeepsType ==
  ASSUME TypeOK, NEW m \in Message, Push(m)
  PROVE  queue' \in Seq(Message) /\ Len(queue') <= MaxQueue
BY PushedProperties DEF TypeOK, Push

LEMMA NotesAreMessages ==
  \A s \in Sessions : Note(s) \in Message /\ Note(s).entered = s
BY DEF Note, Message, Identifiers

LEMMA UIStepKeepsTypes ==
  ASSUME TypeOK, UISends \/ UIContinues
  PROVE  TypeOK'
<1> USE DEF TypeOK, serverVars, writerVars, UIAt
<1>1. CASE SendCritical \/ ResetStream
  <2>1. message' \in Message
    BY <1>1, CriticalIsMessage DEF SendCritical, ResetStream, EnterQueueMessage
  <2>2. ui' \in UIPlaces
    BY <1>1 DEF SendCritical, ResetStream, EnterQueueMessage, UIPlaces
  <2> QED BY <1>1, <2>1, <2>2 DEF SendCritical, ResetStream
<1>2. CASE SendNote
  <2>1. message' \in Message /\ ui' \in UIPlaces
    BY <1>2, NotesAreMessages DEF SendNote, UIPlaces
  <2> QED BY <1>2, <2>1 DEF SendNote
<1>3. CASE NotifyRingReady
  <2>1. ringReady' \in BOOLEAN /\ ui' \in UIPlaces
    BY <1>3 DEF NotifyRingReady, UIPlaces
  <2> QED BY <1>3, <2>1 DEF NotifyRingReady
<1>4. CASE QueueMessage
  <2>1. queue' \in Seq(Message) /\ Len(queue') <= MaxQueue
    BY <1>4, PushKeepsType DEF QueueMessage
  <2>2. message' \in Message /\ ui' \in UIPlaces
    BY <1>4, NotesAreMessages DEF QueueMessage, UIPlaces, Sessions
  <2> QED BY <1>4, <2>1, <2>2 DEF QueueMessage
<1> QED BY <1>1, <1>2, <1>3, <1>4 DEF UISends, UIContinues

LEMMA StopStepKeepsTypes ==
  ASSUME TypeOK, StopBegins \/ Stop
  PROVE  TypeOK'
<1> USE DEF TypeOK, serverVars, writerVars, UIAt, UIPlaces
<1>1. CASE StopBegins
  BY <1>1 DEF StopBegins
<1>2. CASE CancelPipe
  <2>1. server' \in ServerPlaces
    BY <1>2 DEF CancelPipe, ServerPlaces
  <2> QED BY <1>2, <2>1 DEF CancelPipe
<1>3. CASE StopSession
  BY <1>3 DEF StopSession
<1>4. CASE StopLooksForWriter \/ StopJoinsWriter \/ JoinTwice \/ StopJoinsServer
  BY <1>4 DEF StopLooksForWriter, StopJoinsWriter, JoinTwice, StopJoinsServer
<1> QED BY <1>1, <1>2, <1>3, <1>4 DEF Stop

LEMMA ServerStepKeepsTypes ==
  ASSUME TypeOK, ServerStep \/ Handshake \/ Read
  PROVE  TypeOK'
<1> USE DEF TypeOK, writerVars, uiVars, ServerAt
<1>1. server' \in ServerPlaces
  BY DEF ServerPlaces, ServerStep, Handshake, Read, CreatePipe, BeginConnect,
         ConnectFails, ViewerConnected, SessionRuns, StartWriter, ReadAgain,
         Disconnected, RingUnready, CloseQueue, DisconnectPipe, LookForWriter,
         JoinWriter, HandshakeDone, HandshakeFails, ReadPing, ReadOther, ReadingEnds
<1>2. CASE CreatePipe \/ BeginConnect \/ LookForWriter \/ ReadOther
             \/ ReadingEnds \/ Handshake
  BY <1>1, <1>2 DEF CreatePipe, BeginConnect, LookForWriter, ReadOther,
                    ReadingEnds, Handshake, HandshakeDone, HandshakeFails
<1>3. CASE ConnectFails
  BY <1>1, <1>3 DEF ConnectFails
<1>10. CASE DisconnectPipe
  <2>1. pipe' \in Seq(Identifiers) /\ Len(pipe') <= MaxPipe
    BY <1>10, StreamSessionAssumption DEF DisconnectPipe
  <2> QED BY <1>1, <1>10, <2>1 DEF DisconnectPipe
<1>4. CASE ViewerConnected
  <2>1. session' \in Sessions
    BY <1>4 DEF ViewerConnected, Sessions
  <2> QED BY <1>1, <1>4, <2>1 DEF ViewerConnected
<1>5. CASE SessionRuns
  BY <1>1, <1>5 DEF SessionRuns
<1>6. CASE StartWriter \/ JoinWriter
  BY <1>1, <1>6 DEF StartWriter, JoinWriter
<1>7. CASE ReadPing
  <2>1. queue' \in Seq(Message) /\ Len(queue') <= MaxQueue
    BY <1>7, NotesAreMessages, PushKeepsType DEF ReadPing
  <2> QED BY <1>1, <1>7, <2>1 DEF ReadPing
<1>8. CASE Disconnected \/ RingUnready
  BY <1>1, <1>8 DEF Disconnected, RingUnready
<1>9. CASE CloseQueue
  <2>1. queue' \in Seq(Message) /\ Len(queue') <= MaxQueue
    BY <1>9, StreamSessionAssumption DEF CloseQueue
  <2> QED BY <1>1, <1>9, <2>1 DEF CloseQueue
<1> QED BY <1>2, <1>3, <1>4, <1>5, <1>6, <1>7, <1>8, <1>9, <1>10
        DEF ServerStep, Read

LEMMA WriterStepKeepsTypes ==
  ASSUME TypeOK, WriterStep \/ ViewerStep
  PROVE  TypeOK'
<1> USE DEF TypeOK, serverVars, writerVars, uiVars
<1>1. CASE WriterTakes
  <2>1. queue # <<>> /\ queue \in Seq(Message)
    BY <1>1 DEF WriterTakes
  <2>2. Head(queue) \in Message /\ Tail(queue) \in Seq(Message)
    BY <2>1, HeadTailProperties
  <2>3. Len(Tail(queue)) = Len(queue) - 1 /\ Len(queue) \in Nat
    BY <2>1, HeadTailProperties, LenProperties
  <2>4. Len(Tail(queue)) <= MaxQueue
    BY <2>3, StreamSessionAssumption
  <2>5. Head(queue).id \in Identifiers
    BY <2>2 DEF Message
  <2> QED BY <1>1, <2>2, <2>4, <2>5 DEF WriterTakes
<1>2. CASE WriterLeaves
  BY <1>2 DEF WriterLeaves
<1>3. CASE WriteDone
  <2>1. pipe' \in Seq(Identifiers) /\ Len(pipe') = Len(pipe) + 1
    BY <1>3 DEF WriteDone
  <2>2. Len(pipe) \in Nat /\ Len(pipe) < MaxPipe
    BY <1>3, LenProperties DEF WriteDone
  <2>3. Len(pipe') <= MaxPipe
    BY <2>1, <2>2, StreamSessionAssumption
  <2>4. writing' \in Identifiers /\ writer' = "waiting"
    BY <1>3 DEF WriteDone, Identifiers
  <2> QED BY <1>3, <2>1, <2>3, <2>4 DEF WriteDone
<1>4. CASE WriteFails
  BY <1>4 DEF WriteFails, Identifiers, ServerPlaces
<1>5. CASE ViewerOpens
  BY <1>5 DEF ViewerOpens
<1>6. CASE ViewerReads
  <2>1. pipe # <<>> /\ pipe \in Seq(Identifiers)
    BY <1>6 DEF ViewerReads
  <2>2. /\ Tail(pipe) \in Seq(Identifiers) /\ Len(Tail(pipe)) = Len(pipe) - 1
        /\ Len(pipe) \in Nat
    BY <2>1, HeadTailProperties, LenProperties
  <2>3. Len(Tail(pipe)) <= MaxPipe
    BY <2>2, StreamSessionAssumption
  <2> QED BY <1>6, <2>2, <2>3 DEF ViewerReads
<1>7. CASE ViewerLeaves
  <2>1. pipe' \in Seq(Identifiers) /\ Len(pipe') <= MaxPipe
    BY <1>7, StreamSessionAssumption DEF ViewerLeaves
  <2> QED BY <1>7, <2>1 DEF ViewerLeaves
<1> QED BY <1>1, <1>2, <1>3, <1>4, <1>5, <1>6, <1>7 DEF WriterStep, ViewerStep

LEMMA TypesAreInductive == TypeOK /\ [Next]_vars => TypeOK'
<1> SUFFICES ASSUME TypeOK, [Next]_vars PROVE TypeOK'
  OBVIOUS
<1>1. CASE UNCHANGED vars
  BY <1>1 DEF TypeOK, vars, serverVars, writerVars, uiVars
<1>2. CASE Next
  BY <1>2, UIStepKeepsTypes, StopStepKeepsTypes, ServerStepKeepsTypes,
     WriterStepKeepsTypes DEF Next
<1> QED BY <1>1, <1>2

LEMMA InitTypes == Init => TypeOK
<1> SUFFICES ASSUME Init PROVE TypeOK
  OBVIOUS
<1> USE StreamSessionAssumption DEF Init
<1>1. queue \in Seq(Message) /\ Len(queue) <= MaxQueue
  OBVIOUS
<1>2. pipe \in Seq(Identifiers) /\ Len(pipe) <= MaxPipe
  OBVIOUS
<1>3. message \in Message /\ session \in Sessions /\ writing \in Identifiers
  BY NotesAreMessages DEF Sessions, Identifiers
<1>4. /\ connected \in BOOLEAN /\ ringReady \in BOOLEAN
      /\ running \in BOOLEAN /\ stopping \in BOOLEAN
  BY Zenon
<1>5. /\ server \in ServerPlaces /\ ui \in UIPlaces
      /\ writer \in {"none", "waiting", "writing", "done"}
      /\ link \in {"none", "open", "broken"}
  BY DEF ServerPlaces, UIPlaces
<1> QED BY <1>1, <1>2, <1>3, <1>4, <1>5 DEF TypeOK

-----------------------------------------------------------------------------
(***************************************************************************)
(* The queue and the sender follow the session.                            *)
(***************************************************************************)

LEMMA MessagesOfSession ==
  ASSUME TypeOK
  PROVE  /\ MessagesOf(session) \subseteq Message
         /\ Note(session) \in MessagesOf(session)
         /\ Critical \in MessagesOf(session)
BY CriticalIsMessage, NotesAreMessages DEF MessagesOf, TypeOK

\* While a session runs, what is pushed is of that session.
LEMMA PushKeepsSession ==
  ASSUME TypeOK, SessionFollows, NEW m \in Message,
         running => m.entered = session, Push(m)
  PROVE  queue' \in Seq(MessagesOf(session)) /\ (queue' # <<>> => server \in InSession)
<1>1. CASE running
  <2>1. m \in MessagesOf(session)
    BY <1>1 DEF MessagesOf
  <2>2. queue' = Pushed(queue, m)
    BY <1>1 DEF Push
  <2>3. queue \in Seq(MessagesOf(session)) /\ Len(queue) <= MaxQueue
    BY DEF SessionFollows, TypeOK
  <2> QED
    BY <1>1, <2>1, <2>2, <2>3, MessagesOfSession, PushedProperties DEF SessionFollows
<1>2. CASE ~running
  BY <1>2 DEF Push, SessionFollows
<1> QED BY <1>1, <1>2

LEMMA UIStepFollowsSession ==
  ASSUME TypeOK, SessionFollows, SenderIsHeldOff, UISends \/ UIContinues
  PROVE  SessionFollows' /\ SenderIsHeldOff'
<1> USE DEF serverVars, UIAt
<1>1. CASE SendCritical \/ ResetStream \/ SendNote
  <2>1. ui' = "push" => connected /\ message'.entered = session
    BY <1>1, CriticalIsMessage DEF SendCritical, SendNote, ResetStream, EnterQueueMessage, Note
  <2>2. UNCHANGED <<server, session, connected, ringReady, running, queue>>
    BY <1>1 DEF SendCritical, SendNote, ResetStream
  <2> QED BY <2>1, <2>2 DEF SessionFollows, SenderIsHeldOff
<1>2. CASE NotifyRingReady
  BY <1>2 DEF NotifyRingReady, SessionFollows, SenderIsHeldOff
<1>3. CASE QueueMessage
  <2>1. ui = "push" /\ ui' = "idle"
        /\ UNCHANGED <<server, session, connected, running>>
    BY <1>3 DEF QueueMessage
  <2>2. running => message.entered = session
    BY <2>1 DEF SenderIsHeldOff
  <2>3. queue' \in Seq(MessagesOf(session)) /\ (queue' # <<>> => server \in InSession)
    BY <1>3, <2>2, PushKeepsSession DEF QueueMessage, TypeOK
  <2>4. SessionFollows'
    BY <2>1, <2>3 DEF SessionFollows
  <2> QED BY <2>1, <2>4 DEF SenderIsHeldOff
<1> QED BY <1>1, <1>2, <1>3 DEF UISends, UIContinues

LEMMA StopStepFollowsSession ==
  ASSUME SessionFollows, SenderIsHeldOff, StopBegins \/ Stop
  PROVE  SessionFollows' /\ SenderIsHeldOff'
<1> USE DEF serverVars, UIAt, SessionFollows, SenderIsHeldOff
<1>1. CASE CancelPipe
  BY <1>1 DEF CancelPipe, Connected, InSession
<1>2. CASE StopSession
  BY <1>2 DEF StopSession
<1>3. CASE StopBegins \/ StopLooksForWriter \/ StopJoinsWriter \/ JoinTwice \/ StopJoinsServer
  BY <1>3 DEF StopBegins, StopLooksForWriter, StopJoinsWriter, JoinTwice, StopJoinsServer
<1> QED BY <1>1, <1>2, <1>3 DEF Stop

\* Each place of the server thread has its own reason.  A stale sender keeps
\* the handshake from being done: no ring is ready.
LEMMA ServerStepFollowsSession ==
  ASSUME TypeOK, SessionFollows, SenderIsHeldOff, ServerStep \/ Handshake \/ Read
  PROVE  SessionFollows' /\ SenderIsHeldOff'
<1> USE DEF uiVars, ServerAt, SenderIsHeldOff, Connected, InSession
<1>1. CASE CreatePipe \/ BeginConnect \/ ConnectFails
  BY <1>1 DEF CreatePipe, BeginConnect, ConnectFails, SessionFollows
<1>2. CASE ViewerConnected
  <2>1. server = "listening" /\ server' = "greeting" /\ queue = <<>> /\ queue' = <<>>
        /\ ~running /\ UNCHANGED <<running, ringReady, ui, message>>
    BY <1>2 DEF ViewerConnected, SessionFollows
  <2>2. queue' \in Seq(MessagesOf(session'))
    BY <2>1
  <2>3. SessionFollows'
    BY <2>1, <2>2 DEF SessionFollows
  <2> QED BY <2>1, <2>3
<1>3. CASE Handshake
  BY <1>3 DEF Handshake, HandshakeDone, HandshakeFails, SessionFollows
<1>4. CASE SessionRuns \/ StartWriter
  BY <1>4 DEF SessionRuns, StartWriter, ReadAgain, SessionFollows
<1>5. CASE ReadPing
  <2>1. /\ server = "reading" /\ server' \in {"reading", "ending"}
        /\ UNCHANGED <<session, connected, ringReady, running, ui, message>>
    BY <1>5 DEF ReadPing, ReadAgain
  <2>2. queue' \in Seq(MessagesOf(session))
    BY <1>5, PushKeepsSession, NotesAreMessages DEF ReadPing, TypeOK
  <2>3. SessionFollows'
    BY <2>1, <2>2 DEF SessionFollows
  <2> QED BY <2>1, <2>3
<1>6. CASE ReadOther \/ ReadingEnds
  BY <1>6 DEF ReadOther, ReadingEnds, ReadAgain, SessionFollows
<1>7. CASE Disconnected
  BY <1>7 DEF Disconnected, SessionFollows
<1>8. CASE RingUnready
  BY <1>8 DEF RingUnready, SessionFollows
<1>9. CASE CloseQueue
  <2>1. queue' = <<>> /\ ~running' /\ server = "closing" /\ server' = "disconnecting"
        /\ UNCHANGED <<session, connected, ringReady, ui, message>>
    BY <1>9 DEF CloseQueue
  <2>2. queue' \in Seq(MessagesOf(session'))
    BY <2>1
  <2>3. SessionFollows'
    BY <2>1, <2>2 DEF SessionFollows
  <2> QED BY <2>1, <2>3
<1>10. CASE DisconnectPipe \/ LookForWriter \/ JoinWriter
  BY <1>10 DEF DisconnectPipe, LookForWriter, JoinWriter, SessionFollows
<1> QED BY <1>1, <1>2, <1>3, <1>4, <1>5, <1>6, <1>7, <1>8, <1>9, <1>10
        DEF ServerStep, Read

LEMMA WriterStepFollowsSession ==
  ASSUME TypeOK, SessionFollows, SenderIsHeldOff, WriterStep \/ ViewerStep
  PROVE  SessionFollows' /\ SenderIsHeldOff'
<1> USE DEF serverVars, uiVars
<1>1. CASE WriterTakes
  <2>1. /\ queue # <<>> /\ queue' = Tail(queue) /\ queue \in Seq(MessagesOf(session))
        /\ UNCHANGED <<server, session, connected, ringReady, running, ui, message>>
    BY <1>1 DEF WriterTakes, SessionFollows
  <2>2. queue' \in Seq(MessagesOf(session))
    BY <2>1, HeadTailProperties
  <2>3. SessionFollows'
    BY <2>1, <2>2 DEF SessionFollows
  <2> QED BY <2>1, <2>3 DEF SenderIsHeldOff
<1>2. CASE WriteFails
  BY <1>2 DEF WriteFails, SessionFollows, SenderIsHeldOff, Connected, InSession
<1>3. CASE WriterLeaves \/ WriteDone \/ ViewerStep
  BY <1>3 DEF WriterLeaves, WriteDone, ViewerStep, ViewerOpens, ViewerReads,
              ViewerLeaves, SessionFollows, SenderIsHeldOff
<1> QED BY <1>1, <1>2, <1>3 DEF WriterStep

-----------------------------------------------------------------------------
\* The writer thread starts only where no writer is left, and is joined
\* before the server thread goes back to listen.
LEMMA WriterStaysWithSession ==
  ASSUME WriterFollows, SessionFollows, Next
  PROVE  WriterFollows'
<1> USE DEF WriterFollows, WriterMayRun, serverVars, writerVars, uiVars, ServerAt, UIAt
<1>1. CASE UISends \/ UIContinues \/ StopBegins
  BY <1>1 DEF UISends, UIContinues, SendCritical, SendNote, NotifyRingReady,
              ResetStream, QueueMessage, StopBegins
<1>2. CASE Stop
  BY <1>2 DEF Stop, CancelPipe, StopSession, StopLooksForWriter, StopJoinsWriter,
              JoinTwice, StopJoinsServer
<1>3. CASE ServerStep
  BY <1>3 DEF ServerStep, CreatePipe, BeginConnect, ConnectFails, ViewerConnected,
              SessionRuns, StartWriter, ReadAgain, Disconnected, RingUnready,
              CloseQueue, DisconnectPipe, LookForWriter, JoinWriter
<1>4. CASE Handshake \/ Read
  BY <1>4 DEF Handshake, Read, HandshakeDone, HandshakeFails, ReadPing, ReadOther,
              ReadingEnds, ReadAgain
<1>5. CASE WriterStep
  <2>1. writer # "none"
    BY <1>5 DEF WriterStep, WriterTakes, WriterLeaves, WriteDone, WriteFails
  <2>2. server' \in WriterMayRun
    BY <1>5, <2>1 DEF WriterStep, WriterTakes, WriterLeaves, WriteDone, WriteFails
  <2> QED BY <2>2
<1>6. CASE ViewerStep
  BY <1>6 DEF ViewerStep, ViewerOpens, ViewerReads, ViewerLeaves
<1> QED BY <1>1, <1>2, <1>3, <1>4, <1>5, <1>6 DEF Next

-----------------------------------------------------------------------------
LEMMA IInvHolds == Spec => []IInv
<1>1. Init => IInv
  <2> SUFFICES ASSUME Init PROVE IInv
    OBVIOUS
  <2>1. SessionFollows
    <3>1. queue \in Seq(MessagesOf(session)) /\ queue = <<>>
      BY DEF Init
    <3>2. ~connected /\ ~running
      BY Zenon DEF Init
    <3> QED BY <3>1, <3>2 DEF SessionFollows
  <2>2. SenderIsHeldOff /\ WriterFollows
    BY DEF Init, SenderIsHeldOff, WriterFollows
  <2> QED BY <2>1, <2>2, InitTypes DEF IInv
<1>2. IInv /\ [Next]_vars => IInv'
  <2> SUFFICES ASSUME IInv, [Next]_vars PROVE IInv'
    OBVIOUS
  <2>1. CASE UNCHANGED vars
    BY <2>1 DEF IInv, TypeOK, SessionFollows, SenderIsHeldOff, WriterFollows, vars,
                serverVars, writerVars, uiVars
  <2>2. CASE Next
    <3>1. TypeOK'
      BY TypesAreInductive DEF IInv
    <3>2. SessionFollows' /\ SenderIsHeldOff'
      BY <2>2, UIStepFollowsSession, StopStepFollowsSession,
         ServerStepFollowsSession, WriterStepFollowsSession DEF IInv, Next
    <3>3. WriterFollows'
      BY <2>2, WriterStaysWithSession DEF IInv
    <3> QED BY <3>1, <3>2, <3>3 DEF IInv
  <2> QED BY <2>1, <2>2
<1> QED BY <1>1, <1>2, PTL DEF Spec

\* The variables keep their types; in particular the queue never exceeds
\* kMaximumOutgoingMessages, whatever is queued and dropped.
THEOREM TypeCorrect == Spec => []TypeOK
<1>1. IInv => TypeOK
  BY DEF IInv
<1> QED BY <1>1, IInvHolds, PTL

\* QueueMessage only puts messages into the queue of the session its caller
\* was connected in, however long it is held up between connected_ and the
\* queue's lock.
THEOREM QueueStaysInSession == Spec => []QueueIsOfThisSession
<1>1. IInv => QueueIsOfThisSession
  <2> SUFFICES ASSUME IInv, NEW i \in DOMAIN queue PROVE queue[i].entered = session
    BY DEF QueueIsOfThisSession
  <2>1. queue \in Seq(MessagesOf(session))
    BY DEF IInv, SessionFollows
  <2>2. queue[i] \in MessagesOf(session)
    BY <2>1, LenProperties, ElementOfSeq
  <2> QED BY <2>2 DEF MessagesOf
<1> QED BY <1>1, IInvHolds, PTL

\* ServerMain assigns writer_thread_ only when no earlier writer is left in
\* it, whichever of the two joins came first.
THEOREM WriterIsAlwaysOver == Spec => []WriterIsOver
<1>1. IInv => WriterIsOver
  BY DEF IInv, WriterFollows, WriterIsOver, WriterMayRun
<1> QED BY <1>1, IInvHolds, PTL

-----------------------------------------------------------------------------
(***************************************************************************)
(* The queue, the writer and the pipe implement the outbox.  CriticalsOf   *)
(* is a recursion along a sequence; what it computes is proved by taking   *)
(* the least number at which a fact would fail.                            *)
(***************************************************************************)

\* f[n] holds the critical messages among the first n of q.
SelectsFrom(q, f) ==
  /\ f \in [0 .. Len(q) -> Seq(Criticals)]
  /\ f[0] = <<>>
  /\ \A n \in 1 .. Len(q) : f[n] = IF q[n] = 0 THEN f[n - 1] ELSE Append(f[n - 1], q[n])

\* Proof by the least number for which a fact fails.
LEMMA LeastCounterexample ==
  ASSUME NEW T \in SUBSET Nat, 0 \in T, \A n \in Nat \ {0} : n - 1 \in T => n \in T
  PROVE  T = Nat
<1> SUFFICES ASSUME Nat \ T # {} PROVE FALSE
  OBVIOUS
<1>1. PICK n \in Nat \ T : \A m \in Nat \ T : n <= m
  BY LeastExists
<1>2. n # 0 /\ n - 1 \in Nat /\ ~ (n <= n - 1)
  BY <1>1
<1> QED BY <1>1, <1>2

LEMMA SelectionOfAppend ==
  ASSUME NEW q \in Seq(Identifiers), NEW x \in Identifiers, NEW f, SelectsFrom(q, f)
  PROVE  SelectsFrom(Append(q, x),
           [n \in 0 .. Len(q) + 1 |->
              IF n <= Len(q) THEN f[n] ELSE IF x = 0 THEN f[Len(q)] ELSE Append(f[Len(q)], x)])
<1> DEFINE a == Append(q, x)
           last == IF x = 0 THEN f[Len(q)] ELSE Append(f[Len(q)], x)
           g == [n \in 0 .. Len(q) + 1 |-> IF n <= Len(q) THEN f[n] ELSE last]
<1>1. PICK l \in Nat : l = Len(q)
  BY LenProperties
<1>2. /\ Len(a) = l + 1 /\ a[l + 1] = x
      /\ \A n \in 1 .. l : a[n] = q[n]
  BY <1>1, AppendProperties
<1>3. f[l] \in Seq(Criticals) /\ \A n \in 0 .. l : f[n] \in Seq(Criticals)
  <2>1. f \in [0 .. l -> Seq(Criticals)] /\ l \in 0 .. l
    BY <1>1 DEF SelectsFrom
  <2> QED BY <2>1
<1>4. last \in Seq(Criticals)
  BY <1>1, <1>3 DEF Identifiers
<1>5. \A n \in 0 .. l + 1 : g[n] = IF n <= l THEN f[n] ELSE last
  BY <1>1
<1>6. DOMAIN g = 0 .. l + 1 /\ last = IF x = 0 THEN f[l] ELSE Append(f[l], x)
  BY <1>1
<1>7. g = [n \in 0 .. l + 1 |-> IF n <= l THEN f[n] ELSE last]
  BY <1>1
<1> HIDE DEF a, last
<1>8. g \in [0 .. l + 1 -> Seq(Criticals)]
  BY <1>3, <1>4, <1>7
<1> HIDE DEF g
<1>9. g[0] = <<>>
  BY <1>5 DEF SelectsFrom
<1>10. ASSUME NEW n \in 1 .. l + 1
       PROVE  g[n] = IF a[n] = 0 THEN g[n - 1] ELSE Append(g[n - 1], a[n])
  <2>1. CASE n <= l
    <3>1. n \in 1 .. l /\ n \in 0 .. l + 1 /\ n - 1 \in 0 .. l + 1 /\ n - 1 <= l
      BY <2>1
    <3>2. g[n] = f[n] /\ g[n - 1] = f[n - 1] /\ a[n] = q[n]
      BY <1>2, <1>5, <2>1, <3>1
    <3> QED BY <1>1, <3>1, <3>2 DEF SelectsFrom
  <2>2. CASE n = l + 1
    <3>1. g[n] = last /\ g[n - 1] = f[l] /\ a[n] = x
      BY <1>2, <1>5, <2>2
    <3> QED BY <1>6, <3>1
  <2> QED BY <2>1, <2>2
<1>11. SelectsFrom(a, g)
  BY <1>2, <1>8, <1>9, <1>10 DEF SelectsFrom
<1> QED BY <1>11 DEF a, g, last

LEMMA SelectionExists ==
  \A q \in Seq(Identifiers) : \E f : SelectsFrom(q, f)
<1> DEFINE T == {l \in Nat : \A q \in Seq(Identifiers) : Len(q) = l => \E f : SelectsFrom(q, f)}
<1>1. 0 \in T
  <2> SUFFICES ASSUME NEW q \in Seq(Identifiers), Len(q) = 0 PROVE \E f : SelectsFrom(q, f)
    OBVIOUS
  <2>1. [n \in 0 .. 0 |-> <<>>] \in [0 .. 0 -> Seq(Criticals)]
    OBVIOUS
  <2>2. SelectsFrom(q, [n \in 0 .. 0 |-> <<>>])
    BY <2>1 DEF SelectsFrom
  <2> QED BY <2>2
<1>2. ASSUME NEW l \in Nat \ {0}, l - 1 \in T PROVE l \in T
  <2> SUFFICES ASSUME NEW q \in Seq(Identifiers), Len(q) = l PROVE \E f : SelectsFrom(q, f)
    OBVIOUS
  <2>1. PICK p \in Seq(Identifiers), x \in Identifiers : q = Append(p, x)
    <3>1. q # <<>>
      BY EmptySeq
    <3> QED BY <3>1, SequenceEmptyOrAppend
  <2>2. Len(p) = l - 1
    BY <2>1, AppendProperties, LenProperties
  <2>3. PICK f : SelectsFrom(p, f)
    BY <1>2, <2>2
  <2> QED BY <2>1, <2>3, SelectionOfAppend
<1>3. T = Nat
  <2> HIDE DEF T
  <2>1. T \in SUBSET Nat
    BY DEF T
  <2> QED BY <1>1, <1>2, <2>1, LeastCounterexample
<1> QED BY <1>3, LenProperties

\* What CriticalsOf computes.
LEMMA CriticalsSelect ==
  ASSUME NEW q \in Seq(Identifiers), NEW f, SelectsFrom(q, f)
  PROVE  CriticalsOf(q) = f[Len(q)] /\ CriticalsOf(q) \in Seq(Criticals)
<1> DEFINE Fits(g) == g = [n \in 0 .. Len(q) |-> IF n = 0 THEN <<>>
                             ELSE IF q[n] = 0 THEN g[n - 1]
                             ELSE Append(g[n - 1], q[n])]
           F == CHOOSE g : Fits(g)
<1>1. PICK l \in Nat : l = Len(q)
  BY LenProperties
<1>2. Fits(f)
  <2>1. \A n \in 0 .. l : f[n] = IF n = 0 THEN <<>> ELSE IF q[n] = 0 THEN f[n - 1]
                                  ELSE Append(f[n - 1], q[n])
    <3>1. \A n \in 0 .. l : n = 0 \/ n \in 1 .. l
      OBVIOUS
    <3>2. /\ f[0] = <<>>
          /\ \A n \in 1 .. l : n # 0 /\ f[n] = IF q[n] = 0 THEN f[n - 1] ELSE Append(f[n - 1], q[n])
      BY <1>1 DEF SelectsFrom
    <3> QED BY <3>1, <3>2
  <2> QED BY <1>1, <2>1 DEF SelectsFrom
<1>3. Fits(F)
  <2> HIDE DEF Fits
  <2> QED BY <1>2
<1>4. CriticalsOf(q) = F[l]
  BY <1>1 DEF CriticalsOf
<1>5. \A n \in 0 .. l : F[n] = IF n = 0 THEN <<>> ELSE IF q[n] = 0 THEN F[n - 1]
                                ELSE Append(F[n - 1], q[n])
  <2> HIDE DEF F
  <2> QED BY <1>1, <1>3
<1> HIDE DEF F, Fits
<1> DEFINE T == {n \in Nat : n <= l => F[n] = f[n]}
<1>6. 0 \in T
  BY <1>5 DEF SelectsFrom
<1>7. ASSUME NEW n \in Nat \ {0}, n - 1 \in T PROVE n \in T
  <2> SUFFICES ASSUME n <= l PROVE F[n] = f[n]
    OBVIOUS
  <2>1. n \in 1 .. l /\ n \in 0 .. l /\ F[n - 1] = f[n - 1]
    BY <1>7
  <2> QED BY <1>1, <1>5, <2>1 DEF SelectsFrom
<1>8. T = Nat
  <2> HIDE DEF T
  <2>1. T \in SUBSET Nat
    BY DEF T
  <2> QED BY <1>6, <1>7, <2>1, LeastCounterexample
<1>9. F[l] = f[l]
  BY <1>8
<1>10. f[l] \in Seq(Criticals)
  BY <1>1 DEF SelectsFrom
<1> QED BY <1>1, <1>4, <1>9, <1>10

\* CriticalsOf, as a recursion along the sequence.
LEMMA CriticalsRecursion ==
  /\ CriticalsOf(<<>>) = <<>>
  /\ \A q \in Seq(Identifiers) : CriticalsOf(q) \in Seq(Criticals)
  /\ \A q \in Seq(Identifiers), x \in Identifiers :
       CriticalsOf(Append(q, x)) =
         IF x = 0 THEN CriticalsOf(q) ELSE Append(CriticalsOf(q), x)
<1>1. CriticalsOf(<<>>) = <<>>
  <2>1. <<>> \in Seq(Identifiers) /\ Len(<<>>) = 0
    OBVIOUS
  <2>2. PICK f : SelectsFrom(<<>>, f)
    BY <2>1, SelectionExists
  <2> QED BY <2>1, <2>2, CriticalsSelect DEF SelectsFrom
<1>2. ASSUME NEW q \in Seq(Identifiers) PROVE CriticalsOf(q) \in Seq(Criticals)
  BY SelectionExists, CriticalsSelect
<1>3. ASSUME NEW q \in Seq(Identifiers), NEW x \in Identifiers
      PROVE  CriticalsOf(Append(q, x)) =
               IF x = 0 THEN CriticalsOf(q) ELSE Append(CriticalsOf(q), x)
  <2>1. PICK f : SelectsFrom(q, f)
    BY SelectionExists
  <2>2. PICK l \in Nat : l = Len(q)
    BY LenProperties
  <2> DEFINE g == [n \in 0 .. Len(q) + 1 |->
                     IF n <= Len(q) THEN f[n]
                     ELSE IF x = 0 THEN f[Len(q)] ELSE Append(f[Len(q)], x)]
  <2>3. SelectsFrom(Append(q, x), g)
    BY <2>1, SelectionOfAppend
  <2>4. g[l + 1] = IF x = 0 THEN f[l] ELSE Append(f[l], x)
    BY <2>2
  <2>5. Append(q, x) \in Seq(Identifiers) /\ Len(Append(q, x)) = l + 1
    BY <2>2, AppendProperties
  <2> HIDE DEF g
  <2>6. CriticalsOf(Append(q, x)) = g[l + 1]
    BY <2>3, <2>5, CriticalsSelect
  <2>7. CriticalsOf(q) = f[l]
    BY <2>1, <2>2, CriticalsSelect
  <2> QED BY <2>4, <2>6, <2>7
<1> QED BY <1>1, <1>2, <1>3

\* What is selected from two sequences in a row.
LEMMA CriticalsOfConcat ==
  \A a, b \in Seq(Identifiers) : CriticalsOf(a \o b) = CriticalsOf(a) \o CriticalsOf(b)
<1> DEFINE T == {l \in Nat : \A a, b \in Seq(Identifiers) :
                   Len(b) = l => CriticalsOf(a \o b) = CriticalsOf(a) \o CriticalsOf(b)}
<1>1. 0 \in T
  <2> SUFFICES ASSUME NEW a \in Seq(Identifiers), NEW b \in Seq(Identifiers), Len(b) = 0
               PROVE  CriticalsOf(a \o b) = CriticalsOf(a) \o CriticalsOf(b)
    OBVIOUS
  <2>1. b = <<>>
    BY EmptySeq
  <2>2. a \o b = a
    BY <2>1, ConcatEmptySeq
  <2>3. CriticalsOf(a) \in Seq(Criticals) /\ CriticalsOf(b) = <<>>
    BY <2>1, CriticalsRecursion
  <2>4. CriticalsOf(a) \o CriticalsOf(b) = CriticalsOf(a)
    BY <2>3, ConcatEmptySeq
  <2> QED BY <2>2, <2>4
<1>2. ASSUME NEW l \in Nat \ {0}, l - 1 \in T PROVE l \in T
  <2> SUFFICES ASSUME NEW a \in Seq(Identifiers), NEW b \in Seq(Identifiers), Len(b) = l
               PROVE  CriticalsOf(a \o b) = CriticalsOf(a) \o CriticalsOf(b)
    OBVIOUS
  <2>1. PICK p \in Seq(Identifiers), x \in Identifiers : b = Append(p, x)
    <3>1. b # <<>>
      BY EmptySeq
    <3> QED BY <3>1, SequenceEmptyOrAppend
  <2>2. Len(p) = l - 1
    BY <2>1, AppendProperties, LenProperties
  <2>3. CriticalsOf(a \o p) = CriticalsOf(a) \o CriticalsOf(p)
    BY <1>2, <2>2
  <2>4. a \o b = Append(a \o p, x) /\ a \o p \in Seq(Identifiers)
    <3>1. b = p \o <<x>> /\ <<x>> \in Seq(Identifiers)
      BY <2>1, AppendIsConcat
    <3>2. a \o (p \o <<x>>) = (a \o p) \o <<x>> /\ a \o p \in Seq(Identifiers)
      BY <3>1, ConcatAssociative, ConcatProperties
    <3> QED BY <3>1, <3>2, AppendIsConcat
  <2>5. /\ CriticalsOf(a) \in Seq(Criticals)
        /\ CriticalsOf(p) \in Seq(Criticals)
        /\ CriticalsOf(b) = IF x = 0 THEN CriticalsOf(p) ELSE Append(CriticalsOf(p), x)
        /\ CriticalsOf(a \o b) = IF x = 0 THEN CriticalsOf(a \o p) ELSE Append(CriticalsOf(a \o p), x)
    BY <2>1, <2>4, CriticalsRecursion
  <2>6. CASE x = 0
    BY <2>3, <2>5, <2>6
  <2>7. CASE x # 0
    <3>1. x \in Criticals
      BY <2>7 DEF Identifiers
    <3>2. CriticalsOf(a) \o Append(CriticalsOf(p), x) = Append(CriticalsOf(a) \o CriticalsOf(p), x)
      <4> DEFINE c == CriticalsOf(a)
                 d == CriticalsOf(p)
      <4>1. c \in Seq(Criticals) /\ d \in Seq(Criticals) /\ <<x>> \in Seq(Criticals)
        BY <2>5, <3>1
      <4> HIDE DEF c, d
      <4>2. Append(d, x) = d \o <<x>> /\ c \o d \in Seq(Criticals)
        BY <3>1, <4>1, AppendIsConcat, ConcatProperties
      <4>3. c \o (d \o <<x>>) = (c \o d) \o <<x>>
        BY <4>1, ConcatAssociative
      <4>5. Append(c \o d, x) = (c \o d) \o <<x>>
        BY <3>1, <4>2, AppendIsConcat
      <4>4. c \o Append(d, x) = Append(c \o d, x)
        BY <4>2, <4>3, <4>5
      <4> QED BY <4>4 DEF c, d
    <3> QED BY <2>3, <2>5, <2>7, <3>2
  <2> QED BY <2>6, <2>7
<1>3. T = Nat
  <2> HIDE DEF T
  <2>1. T \in SUBSET Nat
    BY DEF T
  <2> QED BY <1>1, <1>2, <2>1, LeastCounterexample
<1> QED BY <1>3, LenProperties

LEMMA CriticalsOfOne ==
  ASSUME NEW x \in Identifiers
  PROVE  CriticalsOf(<<x>>) = IF x = 0 THEN <<>> ELSE <<x>>
<1>1. <<>> \in Seq(Identifiers) /\ Append(<<>>, x) = <<x>>
  OBVIOUS
<1>2. CriticalsOf(Append(<<>>, x)) = IF x = 0 THEN <<>> ELSE Append(<<>>, x)
  BY <1>1, CriticalsRecursion
<1> QED BY <1>1, <1>2

\* The identifiers of the messages in a queue.
Ids(q) == [i \in DOMAIN q |-> q[i].id]

LEMMA IdsType ==
  ASSUME NEW q \in Seq(Message)
  PROVE  /\ Ids(q) \in Seq(Identifiers) /\ Len(Ids(q)) = Len(q)
         /\ \A i \in 1 .. Len(q) : Ids(q)[i] = q[i].id
<1>1. PICK n \in Nat : n = Len(q) /\ DOMAIN q = 1 .. n
  BY LenProperties
<1>2. \A i \in 1 .. n : q[i].id \in Identifiers
  <2>1. \A i \in 1 .. n : q[i] \in Message
    BY <1>1, ElementOfSeq
  <2> QED BY <2>1 DEF Message
<1>3. Ids(q) \in [1 .. n -> Identifiers]
  BY <1>1, <1>2 DEF Ids
<1>4. Ids(q) \in Seq(Identifiers) /\ Len(Ids(q)) = n
  BY <1>3, SeqDef, LenProperties, IsASeq
<1> QED BY <1>1, <1>4 DEF Ids

LEMMA IdsOfConcat ==
  ASSUME NEW a \in Seq(Message), NEW b \in Seq(Message)
  PROVE  Ids(a \o b) = Ids(a) \o Ids(b)
<1>1. PICK k \in Nat, l \in Nat : k = Len(a) /\ l = Len(b)
  BY LenProperties
<1>2. /\ a \o b \in Seq(Message) /\ Len(a \o b) = k + l
      /\ \A i \in 1 .. k + l : (a \o b)[i] = IF i <= k THEN a[i] ELSE b[i - k]
  BY <1>1, ConcatProperties
<1>3. Ids(a) \in Seq(Identifiers) /\ Len(Ids(a)) = k /\ \A i \in 1 .. k : Ids(a)[i] = a[i].id
  <2>1. /\ Ids(a) \in Seq(Identifiers) /\ Len(Ids(a)) = Len(a)
        /\ \A i \in 1 .. Len(a) : Ids(a)[i] = a[i].id
    BY IdsType
  <2> QED BY <1>1, <2>1
<1>7. Ids(b) \in Seq(Identifiers) /\ Len(Ids(b)) = l /\ \A i \in 1 .. l : Ids(b)[i] = b[i].id
  <2>1. /\ Ids(b) \in Seq(Identifiers) /\ Len(Ids(b)) = Len(b)
        /\ \A i \in 1 .. Len(b) : Ids(b)[i] = b[i].id
    BY IdsType
  <2> QED BY <1>1, <2>1
<1>4. /\ Ids(a \o b) \in Seq(Identifiers) /\ Len(Ids(a \o b)) = k + l
      /\ \A i \in 1 .. k + l : Ids(a \o b)[i] = (a \o b)[i].id
  BY <1>2, IdsType
<1>5. /\ Ids(a) \o Ids(b) \in Seq(Identifiers) /\ Len(Ids(a) \o Ids(b)) = k + l
      /\ \A i \in 1 .. k + l : (Ids(a) \o Ids(b))[i] = IF i <= k THEN Ids(a)[i] ELSE Ids(b)[i - k]
  BY <1>3, <1>7, ConcatProperties
<1>6. ASSUME NEW i \in 1 .. k + l PROVE Ids(a \o b)[i] = (Ids(a) \o Ids(b))[i]
  <2>3. Ids(a \o b)[i] = (a \o b)[i].id
    BY <1>4
  <2>1. CASE i <= k
    <3>1. i \in 1 .. k
      BY <2>1
    <3>2. (a \o b)[i] = a[i] /\ Ids(a)[i] = a[i].id
      BY <1>2, <1>3, <2>1, <3>1
    <3>3. (Ids(a) \o Ids(b))[i] = Ids(a)[i]
      BY <1>5, <2>1
    <3> QED BY <2>3, <3>2, <3>3
  <2>2. CASE ~ (i <= k)
    <3>1. i - k \in 1 .. l
      BY <2>2
    <3>2. (a \o b)[i] = b[i - k] /\ Ids(b)[i - k] = b[i - k].id
      BY <1>2, <1>7, <2>2, <3>1
    <3>3. (Ids(a) \o Ids(b))[i] = Ids(b)[i - k]
      BY <1>5, <2>2
    <3> QED BY <2>3, <3>2, <3>3
  <2> QED BY <2>1, <2>2
<1> QED BY <1>4, <1>5, <1>6, SeqEqual

LEMMA IdsOfOne ==
  ASSUME NEW m \in Message
  PROVE  Ids(<<m>>) = <<m.id>> /\ m.id \in Identifiers /\ <<m>> \in Seq(Message)
<1>1. <<m>> \in Seq(Message) /\ Len(<<m>>) = 1 /\ <<m>>[1] = m
  OBVIOUS
<1>2. m.id \in Identifiers
  BY DEF Message
<1>3. Ids(<<m>>) \in Seq(Identifiers) /\ Len(Ids(<<m>>)) = 1 /\ Ids(<<m>>)[1] = m.id
  <2> DEFINE q == <<m>>
  <2>1. q \in Seq(Message) /\ Len(q) = 1 /\ q[1] = m
    BY <1>1
  <2> HIDE DEF q
  <2>2. /\ Ids(q) \in Seq(Identifiers) /\ Len(Ids(q)) = Len(q)
        /\ \A i \in 1 .. Len(q) : Ids(q)[i] = q[i].id
    BY <2>1, IdsType
  <2>3. Ids(q) \in Seq(Identifiers) /\ Len(Ids(q)) = 1 /\ Ids(q)[1] = m.id
    BY <2>1, <2>2
  <2> QED BY <2>3 DEF q
<1>4. <<m.id>> \in Seq(Identifiers) /\ Len(<<m.id>>) = 1 /\ <<m.id>>[1] = m.id
  BY <1>2
<1>5. \A i \in 1 .. 1 : Ids(<<m>>)[i] = <<m.id>>[i]
  BY <1>3, <1>4
<1>6. Ids(<<m>>) = <<m.id>>
  BY <1>3, <1>4, <1>5, SeqEqual
<1> QED BY <1>1, <1>2, <1>6

LEMMA NoIds == Ids(<<>>) = <<>>
<1>1. <<>> \in Seq(Message) /\ Len(<<>>) = 0
  OBVIOUS
<1>2. Ids(<<>>) \in Seq(Identifiers) /\ Len(Ids(<<>>)) = 0
  BY <1>1, IdsType
<1> QED BY <1>2, EmptySeq

\* The critical messages of a queue.
Queued(q) == CriticalsOf(Ids(q))

LEMMA QueuedOfConcat ==
  ASSUME NEW a \in Seq(Message), NEW b \in Seq(Message)
  PROVE  /\ Queued(a \o b) = Queued(a) \o Queued(b)
         /\ Queued(a) \in Seq(Criticals)
<1>1. Ids(a) \in Seq(Identifiers) /\ Ids(b) \in Seq(Identifiers)
  BY IdsType
<1>2. Ids(a \o b) = Ids(a) \o Ids(b)
  BY IdsOfConcat
<1> QED BY <1>1, <1>2, CriticalsOfConcat, CriticalsRecursion DEF Queued

LEMMA QueuedOfOne ==
  ASSUME NEW m \in Message
  PROVE  Queued(<<m>>) = IF m.id = 0 THEN <<>> ELSE <<m.id>>
BY IdsOfOne, CriticalsOfOne DEF Queued

LEMMA HeadAndTail ==
  ASSUME NEW S, NEW q \in Seq(S), q # <<>>
  PROVE  q = <<Head(q)>> \o Tail(q) /\ Head(q) \in S /\ Tail(q) \in Seq(S)
<1>1. PICK n \in Nat : n = Len(q) /\ n >= 1
  BY LenProperties, EmptySeq
<1>2. 1 \in 1 .. Len(q) /\ Len(q) \in 1 .. Len(q)
  BY <1>1
<1>3. SubSeq(q, 1, Len(q)) = <<q[1]>> \o SubSeq(q, 1 + 1, Len(q))
  BY <1>2, SubSeqRecursiveFirst
<1>4. Tail(q) = SubSeq(q, 2, Len(q)) /\ Head(q) = q[1] /\ SubSeq(q, 1, Len(q)) = q
  BY TailIsSubSeq, SubSeqFull, HeadTailProperties
<1>5. Head(q) \in S /\ Tail(q) \in Seq(S)
  BY HeadTailProperties
<1> QED BY <1>3, <1>4, <1>5

LEMMA SplitAt ==
  ASSUME NEW S, NEW q \in Seq(S), NEW i \in 1 .. Len(q)
  PROVE  /\ q = SubSeq(q, 1, i - 1) \o (<<q[i]>> \o SubSeq(q, i + 1, Len(q)))
         /\ SubSeq(q, 1, i - 1) \in Seq(S)
         /\ SubSeq(q, i + 1, Len(q)) \in Seq(S)
         /\ <<q[i]>> \in Seq(S) /\ q[i] \in S
<1> DEFINE n == Len(q)
<1>1. n \in Nat /\ n = Len(q)
  BY LenProperties
<1>2. \A j \in 1 .. n : q[j] \in S
  BY <1>1, ElementOfSeq
<1>3. SubSeq(q, i, n) = <<q[i]>> \o SubSeq(q, i + 1, n)
  BY <1>1, SubSeqRecursiveFirst
<1>4. /\ 1 \in 1 .. n + 1 /\ i - 1 \in 1 - 1 .. n /\ n \in i - 1 .. n
      /\ (i - 1) + 1 = i
  BY <1>1
<1>5. SubSeq(q, 1, i - 1) \o SubSeq(q, (i - 1) + 1, n) = SubSeq(q, 1, n)
  BY <1>1, <1>4, ConcatAdjacentSubSeq
<1>6. SubSeq(q, 1, n) = q
  BY <1>1, SubSeqFull
<1>7. \A j \in 1 .. i - 1 : q[j] \in S
  BY <1>1, <1>2
<1>8. \A j \in i + 1 .. n : q[j] \in S
  BY <1>1, <1>2
<1>9. SubSeq(q, 1, i - 1) \in Seq(S)
  BY <1>1, <1>7, SubSeqProperties
<1>10. SubSeq(q, i + 1, n) \in Seq(S)
  BY <1>1, <1>8, SubSeqProperties
<1>11. q = SubSeq(q, 1, i - 1) \o (<<q[i]>> \o SubSeq(q, i + 1, n))
  BY <1>3, <1>4, <1>5, <1>6
<1>12. q[i] \in S
  BY <1>1, <1>2
<1>13. <<q[i]>> \in Seq(S)
  BY <1>12
<1> QED BY <1>9, <1>10, <1>11, <1>12, <1>13

\* Of what is pushed the queue takes a critical message at its end or not at
\* all, and what it drops for another is not critical.
LEMMA QueuedOfPushed ==
  ASSUME NEW q \in Seq(Message), NEW m \in Message, Len(q) <= MaxQueue
  PROVE  \/ Queued(Pushed(q, m)) = Queued(q)
         \/ m.id \in Criticals /\ Queued(Pushed(q, m)) = Append(Queued(q), m.id)
<1> USE StreamSessionAssumption
<1>1. Len(q) \in Nat
  BY LenProperties
<1>0. ASSUME NEW p \in Seq(Message)
      PROVE  Queued(Append(p, m)) = IF m.id = 0 THEN Queued(p) ELSE Append(Queued(p), m.id)
  <2>1. Ids(p) \in Seq(Identifiers) /\ m.id \in Identifiers /\ <<m>> \in Seq(Message)
    BY IdsType, IdsOfOne
  <2>2. Append(p, m) = p \o <<m>> /\ Append(Ids(p), m.id) = Ids(p) \o <<m.id>>
    BY <2>1, AppendIsConcat
  <2>3. Ids(Append(p, m)) = Append(Ids(p), m.id)
    BY <2>1, <2>2, IdsOfConcat, IdsOfOne
  <2>4. CriticalsOf(Append(Ids(p), m.id))
          = IF m.id = 0 THEN CriticalsOf(Ids(p)) ELSE Append(CriticalsOf(Ids(p)), m.id)
    BY <2>1, CriticalsRecursion
  <2> QED BY <2>3, <2>4 DEF Queued
<1>5. m.id # 0 => m.id \in Criticals
  BY DEF Message, Identifiers
<1>2. CASE Len(q) < MaxQueue
  BY <1>0, <1>2, <1>5 DEF Pushed
<1>3. CASE Len(q) >= MaxQueue /\ (m.id # 0 \/ Droppable(q) = {})
  BY <1>1, <1>3 DEF Pushed
<1>4. CASE Len(q) >= MaxQueue /\ m.id = 0 /\ Droppable(q) # {}
  <2> DEFINE i == CHOOSE i \in Oldest(Droppable(q)) : TRUE
             before == SubSeq(q, 1, i - 1)
             after == SubSeq(q, i + 1, Len(q))
  <2>1. Droppable(q) \subseteq 1 .. Len(q) /\ 1 .. Len(q) \subseteq Nat
    BY <1>1, LenProperties DEF Droppable
  <2>2. Oldest(Droppable(q)) # {}
    BY <1>4, <2>1, LeastExists DEF Oldest
  <2>3. i \in 1 .. Len(q) /\ q[i].id = 0
    BY <2>1, <2>2 DEF Oldest, Droppable
  <2>4. Pushed(q, m) = Append(RemoveAt(q, i), m)
    BY <1>1, <1>4 DEF Pushed
  <2> HIDE DEF i
  <2>5. /\ q = before \o (<<q[i]>> \o after)
        /\ before \in Seq(Message) /\ after \in Seq(Message)
        /\ <<q[i]>> \in Seq(Message) /\ q[i] \in Message
    <3>1. ASSUME NEW j \in 1 .. Len(q)
          PROVE  /\ q = SubSeq(q, 1, j - 1) \o (<<q[j]>> \o SubSeq(q, j + 1, Len(q)))
                 /\ SubSeq(q, 1, j - 1) \in Seq(Message)
                 /\ SubSeq(q, j + 1, Len(q)) \in Seq(Message)
                 /\ <<q[j]>> \in Seq(Message) /\ q[j] \in Message
      BY SplitAt
    <3> QED BY Zenon, <2>3, <3>1
  <2>6. RemoveAt(q, i) = before \o after
    BY DEF RemoveAt
  <2> HIDE DEF before, after
  <2>7. /\ Queued(before \o after) = Queued(before) \o Queued(after)
        /\ before \o after \in Seq(Message)
    BY <2>5, QueuedOfConcat, ConcatProperties
  <2>8. Queued(<<q[i]>> \o after) = Queued(after)
    <3>1. Queued(<<q[i]>>) = <<>>
      BY <2>3, <2>5, QueuedOfOne
    <3>2. /\ Queued(<<q[i]>> \o after) = Queued(<<q[i]>>) \o Queued(after)
          /\ Queued(after) \in Seq(Criticals)
      BY <2>5, QueuedOfConcat
    <3> QED BY <3>1, <3>2, ConcatEmptySeq
  <2>9. Queued(q) = Queued(before) \o Queued(after)
    <3>1. <<q[i]>> \o after \in Seq(Message)
      BY <2>5, ConcatProperties
    <3>2. Queued(before \o (<<q[i]>> \o after)) = Queued(before) \o Queued(<<q[i]>> \o after)
      BY <2>5, <3>1, QueuedOfConcat
    <3> QED BY <2>5, <2>8, <3>2
  <2>10. Queued(Append(before \o after, m)) = Queued(before \o after)
    BY <1>0, <1>4, <2>7
  <2> QED BY <2>4, <2>6, <2>7, <2>9, <2>10
<1> QED BY <1>1, <1>2, <1>3, <1>4

-----------------------------------------------------------------------------
\* What lies in the pipe is of a session: the pipe is emptied, and closed,
\* before the server thread looks for the writer.
PipeFollows ==
  /\ pipe # <<>> => server \in {"reading", "ending", "unready", "closing", "disconnecting"}
  /\ server \in {"leaving", "joining"} => link = "none"

LEMMA PipeStaysWithSession ==
  ASSUME PipeFollows, WriterFollows, [Next]_vars
  PROVE  PipeFollows'
<1> USE DEF PipeFollows, serverVars, writerVars, uiVars, ServerAt, UIAt
<1>1. CASE UISends \/ UIContinues \/ StopBegins \/ UNCHANGED vars
  BY <1>1 DEF UISends, UIContinues, SendCritical, SendNote, NotifyRingReady,
              ResetStream, QueueMessage, StopBegins, vars
<1>2. CASE Stop
  BY <1>2 DEF Stop, CancelPipe, StopSession, StopLooksForWriter, StopJoinsWriter,
              JoinTwice, StopJoinsServer
<1>3. CASE ServerStep
  BY <1>3 DEF ServerStep, CreatePipe, BeginConnect, ConnectFails, ViewerConnected,
              SessionRuns, StartWriter, ReadAgain, Disconnected, RingUnready,
              CloseQueue, DisconnectPipe, LookForWriter, JoinWriter
<1>4. CASE Handshake \/ Read
  BY <1>4 DEF Handshake, Read, HandshakeDone, HandshakeFails, ReadPing, ReadOther,
              ReadingEnds, ReadAgain
<1>5. CASE WriterStep
  BY <1>5 DEF WriterStep, WriterTakes, WriterLeaves, WriteDone, WriteFails,
              WriterFollows, WriterMayRun
<1>6. CASE ViewerStep
  <2>1. pipe' # <<>> => pipe # <<>>
    BY <1>6 DEF ViewerStep, ViewerOpens, ViewerReads, ViewerLeaves
  <2> QED BY <1>6, <2>1 DEF ViewerStep, ViewerOpens, ViewerReads, ViewerLeaves
<1> QED BY <1>1, <1>2, <1>3, <1>4, <1>5, <1>6 DEF Next

OutboxInv == IInv /\ PipeFollows

-----------------------------------------------------------------------------
\* What the outbox owes, in its parts.
Written == IF writer = "writing" THEN <<writing>> ELSE <<>>
Owed == IF link = "open" THEN CriticalsOf(InFlight) ELSE <<>>
Open == running /\ link = "open"

\* The critical messages of a pipe p, a writer w and a queue q.
UnderWay(p, w, q) == (CriticalsOf(p) \o CriticalsOf(w)) \o Queued(q)

LEMMA CriticalsUnderWay ==
  ASSUME NEW p \in Seq(Identifiers), NEW w \in Seq(Identifiers), NEW q \in Seq(Message)
  PROVE  /\ CriticalsOf(p \o w \o Ids(q)) = UnderWay(p, w, q)
         /\ CriticalsOf(p) \in Seq(Criticals)
         /\ CriticalsOf(w) \in Seq(Criticals)
         /\ Queued(q) \in Seq(Criticals)
<1>1. Ids(q) \in Seq(Identifiers) /\ p \o w \in Seq(Identifiers)
  BY IdsType, ConcatProperties
<1>2. CriticalsOf((p \o w) \o Ids(q)) = CriticalsOf(p \o w) \o CriticalsOf(Ids(q))
  BY <1>1, CriticalsOfConcat
<1>3. CriticalsOf(p \o w) = CriticalsOf(p) \o CriticalsOf(w)
  BY CriticalsOfConcat
<1> QED BY <1>1, <1>2, <1>3, CriticalsRecursion DEF Queued, UnderWay

LEMMA OwedParts ==
  ASSUME TypeOK
  PROVE  /\ pipe \in Seq(Identifiers) /\ Written \in Seq(Identifiers) /\ queue \in Seq(Message)
         /\ CriticalsOf(InFlight) = UnderWay(pipe, Written, queue)
         /\ writing \in Identifiers
<1>1. pipe \in Seq(Identifiers) /\ queue \in Seq(Message) /\ writing \in Identifiers
  BY DEF TypeOK
<1>2. Written \in Seq(Identifiers)
  BY <1>1 DEF Written
<1>3. InFlight = (pipe \o Written) \o Ids(queue)
  BY DEF InFlight, Written, Ids
<1> QED BY <1>1, <1>2, <1>3, CriticalsUnderWay

LEMMA OwedPartsNext ==
  ASSUME TypeOK'
  PROVE  /\ pipe' \in Seq(Identifiers) /\ Written' \in Seq(Identifiers) /\ queue' \in Seq(Message)
         /\ CriticalsOf(InFlight') = UnderWay(pipe', Written', queue')
         /\ writing' \in Identifiers
<1>1. pipe' \in Seq(Identifiers) /\ queue' \in Seq(Message) /\ writing' \in Identifiers
  BY DEF TypeOK
<1>2. Written' \in Seq(Identifiers)
  BY <1>1 DEF Written
<1>3. InFlight' = (pipe' \o Written') \o Ids(queue')
  BY DEF InFlight, Written, Ids
<1> QED BY <1>1, <1>2, <1>3, CriticalsUnderWay

\* The outbox's steps, in these terms.
BoxStep ==
  \/ Open' = Open /\ Owed' = Owed
  \/ ~Open /\ Owed = <<>> /\ Open' = TRUE /\ Owed' = Owed
  \/ \E c \in Criticals : Open /\ Owed' = Append(Owed, c) /\ Open' = Open
  \/ Owed # <<>> /\ Owed' = Tail(Owed) /\ Open' = Open
  \/ Open' = FALSE /\ \E n \in 0 .. Len(Owed) : Owed' = SubSeq(Owed, 1, n)

LEMMA Associative ==
  ASSUME NEW S
  PROVE  \A a, b, c \in Seq(S) : (a \o b) \o c = a \o (b \o c)
BY ConcatAssociative

LEMMA CriticalsAssociate ==
  \A a, b, c \in Seq(Criticals) : (a \o b) \o c = a \o (b \o c)
BY Associative

LEMMA FrontOfConcat ==
  ASSUME NEW S, NEW a \in Seq(S), NEW b \in Seq(S)
  PROVE  \E n \in 0 .. Len(a \o b) : a = SubSeq(a \o b, 1, n)
<1>1. PICK k \in Nat, l \in Nat : k = Len(a) /\ l = Len(b)
  BY LenProperties
<1>2. a \o b \in Seq(S) /\ Len(a \o b) = k + l /\ k \in 0 .. k + l
  BY <1>1, ConcatProperties
<1>3. a = SubSeq(a \o b, 1, k)
  <2>1. CASE k = 0
    <3>1. a = <<>>
      BY <1>1, <2>1, EmptySeq
    <3>2. SubSeq(a \o b, 1, k) = <<>>
      BY <2>1, SubSeqEmpty
    <3> QED BY <3>1, <3>2
  <2>2. CASE k # 0
    <3>1. 1 \in 1 .. Len(a) /\ Len(a) \in 1 .. Len(a)
      BY <1>1, <2>2
    <3>2. SubSeq(a \o b, 1, Len(a)) = SubSeq(a, 1, Len(a))
      BY <3>1, SubSeqOfConcat1
    <3> QED BY <1>1, <3>2, SubSeqFull
  <2> QED BY <2>1, <2>2
<1> QED BY <1>2, <1>3

LEMMA OwedIsSequence ==
  ASSUME TypeOK
  PROVE  Owed \in Seq(Criticals)
<1>1. InFlight \in Seq(Identifiers)
  BY InFlightIsBounded
<1>2. CriticalsOf(InFlight) \in Seq(Criticals)
  BY <1>1, CriticalsRecursion
<1> QED BY <1>2 DEF Owed

\* A session may close and keep all that is owed, or nothing.
LEMMA ClosesKeeping ==
  ASSUME TypeOK, ~Open', Owed' = Owed \/ Owed' = <<>>
  PROVE  BoxStep
<1>1. Owed \in Seq(Criticals) /\ Len(Owed) \in Nat
  BY OwedIsSequence, LenProperties
<1>2. Open' = FALSE
  BY DEF Open
<1>3. SubSeq(Owed, 1, 0) = <<>> /\ SubSeq(Owed, 1, Len(Owed)) = Owed
  BY <1>1, SubSeqEmpty, SubSeqFull
<1>4. 0 \in 0 .. Len(Owed) /\ Len(Owed) \in 0 .. Len(Owed)
  BY <1>1
<1>5. \E n \in 0 .. Len(Owed) : Owed' = SubSeq(Owed, 1, n)
  BY <1>3, <1>4
<1> QED BY <1>2, <1>5 DEF BoxStep

\* Nothing owed changes.
LEMMA OwedIsKept ==
  ASSUME UNCHANGED <<pipe, Written, queue, link>>
  PROVE  Owed' = Owed
<1>1. InFlight = (pipe \o Written) \o Ids(queue) /\ InFlight' = (pipe' \o Written') \o Ids(queue')
  BY DEF InFlight, Written, Ids
<1>2. InFlight' = InFlight
  BY <1>1
<1> QED BY <1>2 DEF Owed

LEMMA QuietStep ==
  ASSUME WriterFollows,
         \/ UISends \/ ResetStream \/ StopBegins \/ CancelPipe \/ StopLooksForWriter
         \/ StopJoinsWriter \/ JoinTwice \/ StopJoinsServer \/ CreatePipe \/ BeginConnect
         \/ ViewerConnected \/ StartWriter \/ Disconnected \/ RingUnready
         \/ LookForWriter \/ JoinWriter \/ Handshake \/ ReadOther \/ ReadingEnds
         \/ WriterLeaves \/ UNCHANGED vars
  PROVE  BoxStep
<1>1. UNCHANGED <<running, link, pipe, Written, queue>>
  <2> USE DEF serverVars, writerVars, uiVars, Written, UIAt, ServerAt, WriterFollows, WriterMayRun
  <2>1. CASE UISends \/ ResetStream \/ StopBegins \/ CancelPipe \/ StopLooksForWriter
               \/ StopJoinsWriter \/ JoinTwice \/ StopJoinsServer \/ UNCHANGED vars
    BY <2>1 DEF UISends, SendCritical, SendNote, NotifyRingReady, ResetStream, StopBegins,
                CancelPipe, StopLooksForWriter, StopJoinsWriter, JoinTwice, StopJoinsServer, vars
  <2>2. CASE CreatePipe \/ BeginConnect \/ ViewerConnected \/ StartWriter \/ Disconnected
               \/ RingUnready \/ LookForWriter \/ JoinWriter
    BY <2>2 DEF CreatePipe, BeginConnect, ViewerConnected, StartWriter, Disconnected,
                RingUnready, LookForWriter, JoinWriter
  <2>3. CASE Handshake \/ ReadOther \/ ReadingEnds \/ WriterLeaves
    BY <2>3 DEF Handshake, HandshakeDone, HandshakeFails, ReadOther, ReadingEnds, WriterLeaves
  <2> QED BY <2>1, <2>2, <2>3
<1>2. Owed' = Owed
  BY <1>1, OwedIsKept
<1>3. Open' = Open
  BY <1>1 DEF Open
<1> QED BY <1>2, <1>3 DEF BoxStep

\* Where no session is, nothing is under way.
LEMMA NothingUnderWay ==
  ASSUME OutboxInv, server \in {"armed", "pending", "listening", "accepted"}
  PROVE  ~running /\ pipe = <<>> /\ queue = <<>> /\ Written = <<>>
BY DEF OutboxInv, IInv, SessionFollows, InSession, WriterFollows, WriterMayRun, PipeFollows, Written

LEMMA NothingOwed ==
  ASSUME pipe = <<>>, queue = <<>>, Written = <<>>
  PROVE  Owed = <<>>
<1>1. InFlight = (pipe \o Written) \o Ids(queue)
  BY DEF InFlight, Written, Ids
<1>2. <<>> \o <<>> = <<>>
  BY ConcatEmptySeq, EmptySeq
<1>3. InFlight = <<>>
  BY <1>1, <1>2, NoIds
<1> QED BY <1>3, CriticalsRecursion DEF Owed

\* The pipe opens, closes or is lost; a session begins or is stopped.
LEMMA LinkStep ==
  ASSUME OutboxInv,
         \/ ConnectFails \/ WriteFails \/ DisconnectPipe \/ ViewerLeaves
         \/ ViewerOpens \/ StopSession \/ SessionRuns
  PROVE  BoxStep
<1> USE DEF serverVars, writerVars, uiVars, UIAt, ServerAt
<1>0. TypeOK
  BY DEF OutboxInv, IInv
<1>1. CASE ConnectFails \/ WriteFails \/ DisconnectPipe \/ ViewerLeaves
  <2>1. link' # "open"
    BY <1>1 DEF ConnectFails, WriteFails, DisconnectPipe, ViewerLeaves
  <2>2. Owed' = <<>> /\ ~Open'
    BY <2>1 DEF Owed, Open
  <2> QED BY <1>0, <2>2, ClosesKeeping
<1>2. CASE ViewerOpens
  <2>1. server \in {"armed", "pending", "listening"} /\ UNCHANGED <<running, pipe, queue, writer, writing>>
    BY <1>2 DEF ViewerOpens
  <2>2. ~running /\ pipe = <<>> /\ queue = <<>> /\ Written = <<>>
    BY <2>1, NothingUnderWay
  <2>3. UNCHANGED <<pipe, Written, queue>>
    BY <2>1 DEF Written
  <2>4. InFlight' = InFlight /\ InFlight = <<>>
    <3>1. InFlight = (pipe \o Written) \o Ids(queue) /\ InFlight' = (pipe' \o Written') \o Ids(queue')
      BY DEF InFlight, Written, Ids
    <3>2. <<>> \o <<>> = <<>>
      BY ConcatEmptySeq, EmptySeq
    <3> QED BY <2>2, <2>3, <3>1, <3>2, NoIds
  <2>5. Owed' = <<>> /\ ~Open'
    BY <2>1, <2>2, <2>4, CriticalsRecursion DEF Owed, Open
  <2> QED BY <1>0, <2>5, ClosesKeeping
<1>3. CASE StopSession
  <2>1. UNCHANGED <<pipe, Written, queue, link>> /\ ~Open'
    BY <1>3 DEF StopSession, Written, Open
  <2> QED BY <1>0, <2>1, OwedIsKept, ClosesKeeping
<1>4. CASE SessionRuns
  <2>1. UNCHANGED <<pipe, Written, queue, link>> /\ server = "accepted" /\ running' = TRUE
    BY <1>4 DEF SessionRuns, Written
  <2>2. Owed = <<>> /\ ~running
    BY <2>1, NothingUnderWay, NothingOwed
  <2>3. Owed' = Owed
    BY <2>1, OwedIsKept
  <2>4. CASE link = "open"
    <3>1. ~Open /\ Open' = TRUE
      BY <2>1, <2>2, <2>4 DEF Open
    <3> QED BY <2>2, <2>3, <3>1 DEF BoxStep
  <2>5. CASE link # "open"
    <3>1. ~Open'
      BY <2>1, <2>5 DEF Open
    <3> QED BY <1>0, <2>3, <3>1, ClosesKeeping
  <2> QED BY <2>4, <2>5
<1> QED BY <1>1, <1>2, <1>3, <1>4

LEMMA PushStep ==
  ASSUME TypeOK, TypeOK', NEW m \in Message, Push(m),
         UNCHANGED <<pipe, writerVars, running, link>>
  PROVE  BoxStep
<1>1. Written' = Written /\ Open' = Open
  BY DEF writerVars, Written, Open
<1>2. CASE running /\ link = "open"
  <2>1. queue' = Pushed(queue, m) /\ Len(queue) <= MaxQueue
    BY <1>2 DEF Push, TypeOK
  <2> DEFINE c == CriticalsOf(pipe) \o CriticalsOf(Written)
  <2>2. /\ c \in Seq(Criticals) /\ Queued(queue) \in Seq(Criticals)
        /\ pipe \in Seq(Identifiers) /\ Written \in Seq(Identifiers) /\ queue \in Seq(Message)
    BY OwedParts, CriticalsUnderWay, ConcatProperties
  <2>3. Owed = c \o Queued(queue)
    BY <1>2, OwedParts DEF Owed, UnderWay
  <2>4. Owed' = c \o Queued(queue')
    <3>1. CriticalsOf(InFlight') = UnderWay(pipe', Written', queue')
      BY OwedPartsNext
    <3>2. CriticalsOf(InFlight') = (CriticalsOf(pipe) \o CriticalsOf(Written)) \o Queued(queue')
      BY <1>1, <3>1 DEF UnderWay
    <3> QED BY <1>2, <3>2 DEF Owed
  <2> HIDE DEF c
  <2>5. CASE Queued(queue') = Queued(queue)
    BY <1>1, <2>3, <2>4, <2>5 DEF BoxStep
  <2>6. CASE m.id \in Criticals /\ Queued(queue') = Append(Queued(queue), m.id)
    <3> DEFINE r == Queued(queue)
    <3>1. r \in Seq(Criticals) /\ m.id \in Criticals /\ <<m.id>> \in Seq(Criticals)
      BY <2>2, <2>6
    <3>2. Append(r, m.id) = r \o <<m.id>>
      BY <3>1, AppendIsConcat
    <3>3. c \o (r \o <<m.id>>) = (c \o r) \o <<m.id>>
      BY <2>2, <3>1, ConcatAssociative
    <3>4. c \o r \in Seq(Criticals)
      BY <2>2, <3>1, ConcatProperties
    <3>5. Append(c \o r, m.id) = (c \o r) \o <<m.id>>
      BY <3>1, <3>4, AppendIsConcat
    <3>6. Owed' = Append(Owed, m.id)
      BY <2>3, <2>4, <2>6, <3>2, <3>3, <3>5
    <3>7. Open
      BY <1>2 DEF Open
    <3> QED BY <1>1, <3>1, <3>6, <3>7 DEF BoxStep
  <2>7. \/ Queued(queue') = Queued(queue)
        \/ m.id \in Criticals /\ Queued(queue') = Append(Queued(queue), m.id)
    BY <2>1, <2>2, QueuedOfPushed
  <2> QED BY <2>5, <2>6, <2>7
<1>3. CASE ~running
  <2>1. queue' = queue
    BY <1>3 DEF Push
  <2> QED BY <1>1, <2>1, OwedIsKept DEF BoxStep
<1>4. CASE link # "open"
  <2>1. Owed = <<>> /\ Owed' = <<>>
    BY <1>4 DEF Owed
  <2> QED BY <1>1, <2>1 DEF BoxStep
<1> QED BY <1>2, <1>3, <1>4

LEMMA CloseQueueStep ==
  ASSUME TypeOK, TypeOK', CloseQueue
  PROVE  BoxStep
<1>1. UNCHANGED <<pipe, Written, link>> /\ queue' = <<>> /\ running' = FALSE
  BY DEF CloseQueue, writerVars, Written
<1>2. ~Open' /\ Open' = FALSE
  BY <1>1 DEF Open
<1>3. CASE link = "open"
  <2> DEFINE c == CriticalsOf(pipe) \o CriticalsOf(Written)
  <2>1. c \in Seq(Criticals) /\ Queued(queue) \in Seq(Criticals)
    BY OwedParts, CriticalsUnderWay, ConcatProperties
  <2>2. Owed = c \o Queued(queue)
    BY <1>3, OwedParts DEF Owed, UnderWay
  <2>3. Queued(<<>>) = <<>>
    BY NoIds, CriticalsRecursion DEF Queued
  <2>4. Owed' = c
    <3>1. CriticalsOf(InFlight') = UnderWay(pipe', Written', queue')
      BY OwedPartsNext
    <3>2. CriticalsOf(InFlight') = c \o <<>>
      BY <1>1, <2>3, <3>1 DEF UnderWay
    <3> HIDE DEF c
    <3>3. c \o <<>> = c
      BY <2>1, ConcatEmptySeq
    <3> QED BY <1>1, <1>3, <3>2, <3>3 DEF Owed
  <2> HIDE DEF c
  <2>5. \E n \in 0 .. Len(Owed) : Owed' = SubSeq(Owed, 1, n)
    BY <2>1, <2>2, <2>4, FrontOfConcat
  <2> QED BY <1>2, <2>5 DEF BoxStep
<1>4. CASE link # "open"
  <2>1. Owed' = <<>>
    BY <1>1, <1>4 DEF Owed
  <2> QED BY <1>2, <2>1, ClosesKeeping
<1> QED BY <1>3, <1>4

\* The writer takes a message from the queue, then puts it into the pipe.
LEMMA WriterKeepsOwed ==
  ASSUME TypeOK, TypeOK', WriterTakes \/ WriteDone
  PROVE  BoxStep
<1>0. UNCHANGED <<running, link>>
  BY DEF WriterTakes, WriteDone, serverVars
<1>1. CriticalsOf(InFlight') = CriticalsOf(InFlight)
  <2> DEFINE p == CriticalsOf(pipe)
             w == CriticalsOf(Written)
             q == Queued(queue)
  <2>1. /\ p \in Seq(Criticals) /\ w \in Seq(Criticals) /\ q \in Seq(Criticals)
        /\ CriticalsOf(InFlight) = (p \o w) \o q
    BY OwedParts, CriticalsUnderWay DEF UnderWay
  <2>2. CriticalsOf(InFlight') = (CriticalsOf(pipe') \o CriticalsOf(Written')) \o Queued(queue')
    BY OwedPartsNext DEF UnderWay
  <2>3. CASE WriterTakes
    <3>1. /\ queue # <<>> /\ queue' = Tail(queue) /\ pipe' = pipe
          /\ Written = <<>> /\ Written' = <<Head(queue).id>>
      BY <2>3 DEF WriterTakes, serverVars, Written
    <3>2. /\ queue = <<Head(queue)>> \o Tail(queue)
          /\ Head(queue) \in Message /\ Tail(queue) \in Seq(Message)
      BY <3>1, HeadAndTail DEF TypeOK
    <3> DEFINE h == CriticalsOf(<<Head(queue).id>>)
               t == Queued(Tail(queue))
    <3>3. q = h \o t /\ h \in Seq(Criticals) /\ t \in Seq(Criticals)
      <4>1. Ids(<<Head(queue)>>) = <<Head(queue).id>> /\ <<Head(queue)>> \in Seq(Message)
        BY <3>2, IdsOfOne
      <4>2. Queued(<<Head(queue)>> \o Tail(queue)) = Queued(<<Head(queue)>>) \o Queued(Tail(queue))
        BY <3>2, <4>1, QueuedOfConcat
      <4>3. Queued(<<Head(queue)>>) \in Seq(Criticals) /\ Queued(Tail(queue)) \in Seq(Criticals)
        BY <3>2, <4>1, QueuedOfConcat
      <4>4. Queued(<<Head(queue)>>) = h
        BY <4>1 DEF Queued
      <4> QED BY <3>2, <4>2, <4>3, <4>4
    <3>4. w = <<>>
      BY <3>1, CriticalsRecursion
    <3>5. CriticalsOf(InFlight') = (p \o h) \o t
      BY <2>2, <3>1
    <3> HIDE DEF p, w, q, h, t
    <3>6. (p \o w) \o q = p \o (h \o t)
      BY <2>1, <3>3, <3>4, ConcatEmptySeq
    <3>8. p \in Seq(Criticals) /\ h \in Seq(Criticals) /\ t \in Seq(Criticals)
      BY <2>1, <3>3
    <3>7. (p \o h) \o t = p \o (h \o t)
      BY Zenon, <3>8, CriticalsAssociate
    <3> QED BY <2>1, <3>5, <3>6, <3>7
  <2>4. CASE WriteDone
    <3>1. pipe' = Append(pipe, writing) /\ queue' = queue /\ Written = <<writing>> /\ Written' = <<>>
      BY <2>4 DEF WriteDone, Written
    <3>2. pipe \in Seq(Identifiers) /\ writing \in Identifiers /\ Written \in Seq(Identifiers)
      BY OwedParts
    <3>3. pipe' = pipe \o Written
      BY <3>1, <3>2, AppendIsConcat
    <3>4. CriticalsOf(pipe') = p \o w
      BY <3>2, <3>3, CriticalsOfConcat
    <3>5. CriticalsOf(Written') = <<>> /\ Queued(queue') = q
      BY <3>1, CriticalsRecursion
    <3> HIDE DEF p, w, q
    <3>6. p \o w \in Seq(Criticals)
      BY <2>1, ConcatProperties
    <3>7. (p \o w) \o <<>> = p \o w
      BY <3>6, ConcatEmptySeq
    <3> QED BY <2>1, <2>2, <3>4, <3>5, <3>7
  <2> QED BY <2>3, <2>4
<1>2. Owed' = Owed
  BY <1>0, <1>1 DEF Owed
<1>3. Open' = Open
  BY <1>0 DEF Open
<1> QED BY <1>2, <1>3 DEF BoxStep

\* The viewer reads the oldest message under way.
LEMMA ViewerReadsStep ==
  ASSUME TypeOK, TypeOK', ViewerReads
  PROVE  BoxStep
<1>1. /\ link = "open" /\ pipe # <<>> /\ pipe' = Tail(pipe)
      /\ UNCHANGED <<running, link, queue, Written>>
  BY DEF ViewerReads, writerVars, Written
<1>2. pipe = <<Head(pipe)>> \o Tail(pipe) /\ Head(pipe) \in Identifiers /\ Tail(pipe) \in Seq(Identifiers)
  BY <1>1, HeadAndTail DEF TypeOK
<1> DEFINE t == CriticalsOf(Tail(pipe))
           w == CriticalsOf(Written)
           q == Queued(queue)
           one == CriticalsOf(<<Head(pipe)>>)
<1>3. /\ w \in Seq(Criticals) /\ q \in Seq(Criticals)
      /\ Owed = (CriticalsOf(pipe) \o w) \o q
  BY <1>1, OwedParts, CriticalsUnderWay DEF UnderWay, Owed
<1>4. Owed' = (t \o w) \o q
  <2>1. CriticalsOf(InFlight') = UnderWay(pipe', Written', queue')
    BY OwedPartsNext
  <2>2. UnderWay(pipe', Written', queue') = (t \o w) \o q
    BY <1>1 DEF UnderWay
  <2> QED BY <1>1, <2>1, <2>2 DEF Owed
<1>5. CriticalsOf(pipe) = one \o t /\ one \in Seq(Criticals) /\ t \in Seq(Criticals)
  <2>1. <<Head(pipe)>> \in Seq(Identifiers)
    BY <1>2
  <2>2. CriticalsOf(<<Head(pipe)>> \o Tail(pipe)) = one \o t
    BY <1>2, <2>1, CriticalsOfConcat
  <2> QED BY <1>2, <2>1, <2>2, CriticalsRecursion
<1>6. one = IF Head(pipe) = 0 THEN <<>> ELSE <<Head(pipe)>>
  BY <1>2, CriticalsOfOne
<1>7. Open' = Open
  BY <1>1 DEF Open
<1>8. Head(pipe) # 0 => Head(pipe) \in Criticals
  BY <1>2 DEF Identifiers
<1> HIDE DEF t, w, q, one
<1> DEFINE rest == (t \o w) \o q
<1>9. rest \in Seq(Criticals)
  <2>1. t \o w \in Seq(Criticals)
    BY <1>3, <1>5, ConcatProperties
  <2> QED BY <1>3, <2>1, ConcatProperties
<1>10. Owed = one \o rest
  <2>0. /\ one \in Seq(Criticals) /\ t \in Seq(Criticals)
        /\ w \in Seq(Criticals) /\ q \in Seq(Criticals)
    BY <1>3, <1>5
  <2> DEFINE tw == t \o w
  <2>2. tw \in Seq(Criticals)
    BY <2>0, ConcatProperties
  <2>3. (one \o t) \o w = one \o tw
    <3>1. one \in Seq(Criticals) /\ t \in Seq(Criticals) /\ w \in Seq(Criticals)
      BY <2>0
    <3> QED BY Zenon, <3>1, CriticalsAssociate
  <2>1. ((one \o t) \o w) \o q = one \o (tw \o q)
    <3> HIDE DEF tw
    <3>2. one \in Seq(Criticals) /\ tw \in Seq(Criticals) /\ q \in Seq(Criticals)
      BY <2>0, <2>2
    <3>1. (one \o tw) \o q = one \o (tw \o q)
      BY Zenon, <3>2, CriticalsAssociate
    <3> QED BY Zenon, <2>3, <3>1
  <2> QED BY <1>3, <1>5, <2>1
<1>11. Owed' = rest
  BY <1>4
<1> HIDE DEF rest
<1>12. CASE Head(pipe) = 0
  <2>1. Owed = rest
    BY <1>6, <1>9, <1>10, <1>12, ConcatEmptySeq
  <2> QED BY <1>7, <1>11, <2>1 DEF BoxStep
<1>13. CASE Head(pipe) # 0
  <2> DEFINE h == Head(pipe)
  <2>1. h \in Criticals /\ Owed = <<h>> \o rest
    BY <1>6, <1>8, <1>10, <1>13
  <2> HIDE DEF h
  <2>2. <<h>> \o rest # <<>> /\ Tail(<<h>> \o rest) = rest
    BY <1>9, <2>1
  <2> QED BY <1>7, <1>11, <2>1, <2>2 DEF BoxStep
<1> QED BY <1>12, <1>13

LEMMA EveryStepIsBoxStep ==
  ASSUME OutboxInv, TypeOK', [Next]_vars
  PROVE  BoxStep
<1>0. TypeOK /\ WriterFollows
  BY DEF OutboxInv, IInv
<1>1. CASE QueueMessage
  <2>1. message \in Message /\ Push(message) /\ UNCHANGED <<pipe, writerVars, running, link>>
    BY <1>0, <1>1 DEF QueueMessage, serverVars, TypeOK
  <2> QED BY <1>0, <2>1, PushStep
<1>2. CASE ReadPing
  <2>1. /\ Note(session) \in Message /\ Push(Note(session))
        /\ UNCHANGED <<pipe, writerVars, running, link>>
    BY <1>0, <1>2, NotesAreMessages DEF ReadPing, TypeOK
  <2> QED BY <1>0, <2>1, PushStep
<1>3. CASE CloseQueue \/ WriterTakes \/ WriteDone \/ ViewerReads
  BY <1>0, <1>3, CloseQueueStep, WriterKeepsOwed, ViewerReadsStep
<1>4. CASE \/ ConnectFails \/ WriteFails \/ DisconnectPipe \/ ViewerLeaves
           \/ ViewerOpens \/ StopSession \/ SessionRuns
  BY <1>4, LinkStep
<1>5. CASE \/ UISends \/ ResetStream \/ StopBegins \/ CancelPipe \/ StopLooksForWriter
           \/ StopJoinsWriter \/ JoinTwice \/ StopJoinsServer \/ CreatePipe \/ BeginConnect
           \/ ViewerConnected \/ StartWriter \/ Disconnected \/ RingUnready
           \/ LookForWriter \/ JoinWriter \/ Handshake \/ ReadOther \/ ReadingEnds
           \/ WriterLeaves \/ UNCHANGED vars
  BY <1>0, <1>5, QuietStep
<1> QED BY <1>1, <1>2, <1>3, <1>4, <1>5
        DEF Next, UIContinues, Stop, ServerStep, Read, WriterStep, ViewerStep

\* Critical messages reach the viewer in the order in which the queue took
\* them, none lost and none twice while their session is open: dropping
\* another message to make room, and every step of the writer between queue
\* and pipe, is invisible to the outbox; closing a session cuts off the
\* newest.
THEOREM OutboxIsImplemented == Spec => OutboxSpec
<1>1. Init => Box!Init
  <2> SUFFICES ASSUME Init PROVE Box!Init
    OBVIOUS
  <2>1. running = FALSE /\ link # "open"
    BY Zenon DEF Init
  <2> QED BY <2>1 DEF Box!Init
<1>2. Init => PipeFollows
  BY DEF Init, PipeFollows
<1>3. PipeFollows /\ WriterFollows /\ [Next]_vars => PipeFollows'
  BY PipeStaysWithSession
<1>4. OutboxInv /\ TypeOK' /\ [Next]_vars => [Box!Next]_(Box!vars)
  <2> SUFFICES ASSUME OutboxInv, TypeOK', [Next]_vars PROVE [Box!Next]_(Box!vars)
    OBVIOUS
  <2>1. BoxStep
    BY EveryStepIsBoxStep
  <2> QED BY <2>1 DEF BoxStep, Owed, Open, Box!Next, Box!vars, Box!Open, Box!Accept,
                      Box!Deliver, Box!Close
<1>5. IInv => WriterFollows /\ TypeOK
  BY DEF IInv
<1>6. Spec => []OutboxInv
  <2>1. Spec => []IInv
    BY IInvHolds
  <2>2. IInv /\ PipeFollows => OutboxInv
    BY DEF OutboxInv
  <2> QED BY <1>2, <1>3, <1>5, <2>1, <2>2, PTL DEF Spec
<1>7. OutboxInv => TypeOK
  BY DEF OutboxInv, IInv
<1> QED BY <1>1, <1>4, <1>6, <1>7, PTL DEF Spec, OutboxSpec, Box!Spec
=============================================================================
