--------------------------- MODULE FrameRing_proofs ---------------------------
(***************************************************************************)
(* What holds of the ring for any number of slots, frames, rings and       *)
(* sessions: type correctness, that an announced frame stays readable      *)
(* until the viewer takes it, that no frame comes back to the viewer, that *)
(* it is shown frames of the ring it has open, that in the end it sees the *)
(* frame feed - composed frames, each newer than the one before - and that *)
(* every slot is free, on its way to the viewer or on its way back.        *)
(***************************************************************************)
EXTENDS FrameRing, SequenceTheorems, FunctionTheorems, FiniteSetTheorems, TLAPS

\* The types of the producer's slots and of its textures when R rings exist.
SlotsType == [Slots -> [state : SlotStates, frame : Frames]]
TexturesType(R) == [1 .. R -> [Slots -> Texture]]

\* The two halves of TypeOK, for the steps that leave one of them alone.
PipelineType ==
  /\ streaming \in BOOLEAN
  /\ latest \in Frames /\ published \in 0 .. latest
  /\ ring \in Nat
  /\ slot \in SlotsType
  /\ tex \in TexturesType(ring)
ChannelType ==
  /\ sring \in 0 .. ring /\ vring \in 0 .. ring
  /\ phase \in Phases /\ ringReady \in BOOLEAN
  /\ session \in 0 .. MaxSession /\ tainted \subseteq 0 .. ring
  /\ toViewer \in Seq(ViewerMessage(ring))
  /\ window \in Seq(WindowMessage(ring))
  /\ toServer \in Seq(ServerMessage(ring))
  /\ tasks \in Seq(Task)
  /\ linkUp \in BOOLEAN /\ waiting \in BOOLEAN
  /\ shown \in Frames

LEMMA TypeHalves ==
  /\ TypeOK => PipelineType /\ ChannelType
  /\ PipelineType /\ ChannelType => TypeOK
  /\ PipelineType' /\ ChannelType' => TypeOK'
BY DEF TypeOK, PipelineType, ChannelType, SlotsType, TexturesType

\* Slots are positive, and frame 0 is a frame.
LEMMA ConstantFacts ==
  /\ Slots \subseteq Nat \ {0}
  /\ Frames \subseteq Nat
  /\ 0 \in Frames
  /\ MaxSession \in Nat
BY FrameRingAssumption DEF Slots, Frames

\* The messages that exist with R rings exist with one more.
LEMMA MessagesGrow ==
  ASSUME NEW R \in Nat
  PROVE  /\ Seq(ViewerMessage(R)) \subseteq Seq(ViewerMessage(R + 1))
         /\ Seq(WindowMessage(R)) \subseteq Seq(WindowMessage(R + 1))
         /\ Seq(ServerMessage(R)) \subseteq Seq(ServerMessage(R + 1))
<1>1. /\ ViewerMessage(R) \subseteq ViewerMessage(R + 1)
      /\ WindowMessage(R) \subseteq WindowMessage(R + 1)
  <2>1. Announcement(R) \subseteq Announcement(R + 1)
    BY DEF Announcement
  <2> QED BY <2>1 DEF ViewerMessage, WindowMessage
<1>2. ServerMessage(R) \subseteq ServerMessage(R + 1)
  BY DEF ServerMessage
<1> QED BY <1>1, <1>2, SeqMonotonic

\* A publication keeps the types of what it touches.
LEMMA PublishLatestType ==
  ASSUME NEW R \in Nat, NEW on, NEW r \in 0 .. R, NEW frame \in Frames,
         NEW pub \in 0 .. frame, NEW slots \in SlotsType,
         NEW rings \in TexturesType(R), NEW out \in Seq(ViewerMessage(R)),
         PublishLatest(on, r, frame, pub, slots, rings, out)
  PROVE  /\ slot' \in SlotsType
         /\ tex' \in TexturesType(R)
         /\ published' \in 0 .. frame
         /\ toViewer' \in Seq(ViewerMessage(R))
<1>1. CASE on /\ r # 0 /\ Unpublished(frame, pub) /\ Target(r, slots, rings) # {}
  <2>1. PICK s \in Target(r, slots, rings) :
          /\ slot' = [slots EXCEPT ![s] = [state |-> "Published", frame |-> frame]]
          /\ tex' = [rings EXCEPT ![r][s] = [key |-> "key1", frame |-> frame]]
          /\ published' = frame
          /\ toViewer' = IF phase = "running"
                         THEN Queue(out, FrameReady(r, s, frame))
                         ELSE out
    BY <1>1 DEF PublishLatest
  <2>2. s \in Slots /\ r \in 1 .. R
    BY <1>1 DEF Target, Acquirable
  <2>3. slot' \in SlotsType
    BY <2>1, <2>2 DEF SlotsType, SlotStates
  <2>4. [key |-> "key1", frame |-> frame] \in Texture
    BY DEF Texture, Keys
  <2>5. tex' \in TexturesType(R)
    BY <2>1, <2>2, <2>4 DEF TexturesType
  <2>6. FrameReady(r, s, frame) \in ViewerMessage(R)
    BY <2>2 DEF FrameReady, ViewerMessage, Announcement
  <2>7. toViewer' \in Seq(ViewerMessage(R))
    BY <2>1, <2>6, AppendProperties DEF Queue
  <2>8. published' \in 0 .. frame
    BY <2>1, ConstantFacts
  <2> QED BY <2>3, <2>5, <2>7, <2>8
<1>2. CASE ~(on /\ r # 0 /\ Unpublished(frame, pub) /\ Target(r, slots, rings) # {})
  BY <1>2 DEF PublishLatest
<1> QED BY <1>1, <1>2

\* A fresh ring is typed, and so is the queue it may put a reset into.
LEMMA FreshRingType ==
  ASSUME TypeOK
  PROVE  /\ FreshSlots \in SlotsType
         /\ WithFreshRing \in TexturesType(ring + 1)
         /\ AfterReset \in Seq(ViewerMessage(ring + 1))
         /\ Tainted \subseteq 0 .. ring + 1
<1>1. FreshSlots \in SlotsType
  BY ConstantFacts DEF FreshSlots, SlotsType, SlotStates
<1>2. FreshTextures \in [Slots -> Texture]
  BY ConstantFacts DEF FreshTextures, Texture, Keys
<1>3. WithFreshRing \in TexturesType(ring + 1)
  BY <1>2 DEF WithFreshRing, TexturesType, TypeOK
<1>4. toViewer \in Seq(ViewerMessage(ring + 1))
  BY MessagesGrow DEF TypeOK
<1>5. StreamReset \in ViewerMessage(ring + 1)
  BY DEF ViewerMessage
<1>6. AfterReset \in Seq(ViewerMessage(ring + 1))
  BY <1>4, <1>5, AppendProperties DEF AfterReset, Queue
<1>7. Tainted \subseteq 0 .. ring + 1
  BY DEF Tainted, TypeOK
<1> QED BY <1>1, <1>3, <1>6, <1>7

\* The producer's half of TypeOK, given a publication.
LEMMA PublishingStepType ==
  ASSUME TypeOK, NEW on, NEW frame \in Frames, NEW pub \in 0 .. frame,
         NEW slots \in SlotsType, NEW rings \in TexturesType(ring'),
         NEW out \in Seq(ViewerMessage(ring')),
         ring' \in {ring, ring + 1}, latest' = frame, streaming' \in BOOLEAN,
         PublishLatest(on, ring', frame, pub, slots, rings, out)
  PROVE  PipelineType' /\ toViewer' \in Seq(ViewerMessage(ring'))
<1>1. ring' \in Nat
  BY DEF TypeOK
<1>2. /\ slot' \in SlotsType
      /\ tex' \in TexturesType(ring')
      /\ published' \in 0 .. frame
      /\ toViewer' \in Seq(ViewerMessage(ring'))
  BY <1>1, PublishLatestType
<1> QED BY <1>1, <1>2 DEF PipelineType

\* A step that leaves the pipeline alone, and one that leaves the rest alone.
LEMMA PipelineTypeKept ==
  ASSUME TypeOK, UNCHANGED pipeline
  PROVE  PipelineType' /\ ring' = ring
BY DEF pipeline, TypeOK, PipelineType, SlotsType, TexturesType

LEMMA ChannelTypeKept ==
  ASSUME TypeOK, ring' \in {ring, ring + 1},
         toViewer' \in Seq(ViewerMessage(ring')), tasks' \in Seq(Task),
         ringReady' \in BOOLEAN, tainted' \subseteq 0 .. ring',
         UNCHANGED <<phase, session, sring, toServer, viewer>>
  PROVE  ChannelType'
<1>1. /\ window \in Seq(WindowMessage(ring'))
      /\ toServer \in Seq(ServerMessage(ring'))
  BY MessagesGrow DEF TypeOK
<1> QED BY <1>1 DEF viewer, TypeOK, ChannelType

\* Ending a session empties the channels and posts one task.
LEMMA EndSessionType ==
  ASSUME TypeOK, EndSession
  PROVE  /\ phase' \in Phases /\ ringReady' \in BOOLEAN
         /\ toViewer' \in Seq(ViewerMessage(ring))
         /\ toServer' \in Seq(ServerMessage(ring)) /\ tasks' \in Seq(Task)
         /\ linkUp' \in BOOLEAN /\ waiting' \in BOOLEAN
<1>1. tasks' = Append(tasks, Disconnected) /\ tasks \in Seq(Task) /\ Disconnected \in Task
  BY DEF EndSession, Task, TypeOK
<1>2. tasks' \in Seq(Task)
  BY <1>1, AppendProperties
<1> QED BY <1>2, EmptySeq DEF EndSession, Phases

\* The window thread handles an announcement of some ring and slot.
LEMMA FrameAtHeadType ==
  ASSUME TypeOK, FrameAtHead
  PROVE  /\ window # <<>>
         /\ Head(window) \in Announcement(ring)
         /\ Head(window).ring \in 1 .. ring
         /\ Head(window).slot \in Slots
         /\ Head(window).frame \in Frames
         /\ Tail(window) \in Seq(WindowMessage(ring))
<1>1. /\ window # <<>> /\ Head(window) \in WindowMessage(ring)
      /\ Tail(window) \in Seq(WindowMessage(ring))
  BY HeadTailProperties DEF FrameAtHead, TypeOK
<1>2. Head(window) \in Announcement(ring)
  BY <1>1 DEF FrameAtHead, WindowMessage, RingMessage
<1> QED BY <1>1, <1>2 DEF Announcement

\* Changing a key in the open ring changes that key only.
LEMMA SetKeyType ==
  ASSUME TypeOK, FrameAtHead, vring # 0, NEW k \in Keys, SetKeyAtHead(k)
  PROVE  /\ tex' \in TexturesType(ring)
         /\ \A r \in 1 .. ring, s \in Slots :
              tex'[r][s] = IF r = vring /\ s = Head(window).slot
                           THEN [key |-> k, frame |-> tex[r][s].frame]
                           ELSE tex[r][s]
<1>1. vring \in 1 .. ring /\ Head(window).slot \in Slots
  BY FrameAtHeadType DEF TypeOK
<1>2. tex \in TexturesType(ring)
  BY DEF TypeOK, TexturesType
<1> DEFINE h == Head(window).slot
           old == tex[vring][h]
           new == [key |-> k, frame |-> old.frame]
<1>3. old \in Texture /\ tex[vring] \in [Slots -> Texture]
  BY <1>1, <1>2 DEF TexturesType
<1>4. [old EXCEPT !.key = k] = new /\ new \in Texture
  BY <1>3 DEF Texture
<1>5. tex' = [tex EXCEPT ![vring] = [tex[vring] EXCEPT ![h] = new]]
  BY <1>4 DEF SetKeyAtHead
<1> HIDE DEF h, old, new
<1>6. [tex[vring] EXCEPT ![h] = new] \in [Slots -> Texture]
  BY <1>3, <1>4
<1>7. tex' \in TexturesType(ring)
  BY <1>2, <1>5, <1>6 DEF TexturesType
<1>8. \A r \in 1 .. ring, s \in Slots :
        tex'[r][s] = IF r = vring /\ s = h THEN new ELSE tex[r][s]
  BY <1>1, <1>2, <1>3, <1>5 DEF TexturesType
<1> QED BY <1>7, <1>8 DEF h, old, new

\* A viewer's death abandons the mutexes it held and spares the images.
LEMMA AbandonType ==
  ASSUME TypeOK, ViewerExits
  PROVE  /\ tex' \in TexturesType(ring)
         /\ \A r \in 1 .. ring, s \in Slots :
              /\ tex'[r][s].frame = tex[r][s].frame
              /\ tex[r][s].key # "held" => tex'[r][s].key = tex[r][s].key
<1>1. \A t \in Texture : /\ Abandon(t) \in Texture
                         /\ Abandon(t).frame = t.frame
                         /\ t.key # "held" => Abandon(t).key = t.key
  BY DEF Abandon, Texture, Keys
<1>2. tex' = [r \in 1 .. ring |-> [s \in Slots |-> Abandon(tex[r][s])]]
  BY DEF ViewerExits
<1>3. tex \in TexturesType(ring)
  BY DEF TypeOK, TexturesType
<1>4. \A r \in 1 .. ring, s \in Slots : tex[r][s] \in Texture
  BY <1>3 DEF TexturesType
<1> QED BY <1>1, <1>2, <1>4 DEF TexturesType

LEMMA InitType == Init => TypeOK
<1> SUFFICES ASSUME Init PROVE TypeOK
  OBVIOUS
<1>1. /\ latest \in Frames /\ published \in 0 .. latest /\ shown \in Frames
      /\ ring \in Nat /\ sring \in 0 .. ring /\ vring \in 0 .. ring
      /\ session \in 0 .. MaxSession /\ tainted \subseteq 0 .. ring
  BY ConstantFacts DEF Init
<1>2. /\ streaming \in BOOLEAN /\ ringReady \in BOOLEAN
      /\ linkUp \in BOOLEAN /\ waiting \in BOOLEAN
  BY DEF Init
<1>3. slot \in SlotsType
  BY ConstantFacts DEF Init, FreshSlots, SlotsType, SlotStates
<1>4. tex \in TexturesType(ring)
  BY DEF Init, TexturesType
<1>5. /\ toViewer \in Seq(ViewerMessage(ring)) /\ window \in Seq(WindowMessage(ring))
      /\ toServer \in Seq(ServerMessage(ring)) /\ tasks \in Seq(Task)
  BY EmptySeq DEF Init
<1>6. phase \in Phases
  BY DEF Init, Phases
<1> QED BY <1>1, <1>2, <1>3, <1>4, <1>5, <1>6, TypeHalves DEF PipelineType, ChannelType

LEMMA StepType == TypeOK /\ [Next]_vars => TypeOK'
<1> SUFFICES ASSUME TypeOK, [Next]_vars PROVE TypeOK'
  OBVIOUS
<1>1. ASSUME Compose PROVE TypeOK'
  <2>1. PublishLatest(streaming, ring', latest + 1, published, slot, tex, toViewer)
    BY <1>1 DEF Compose
  <2>2. /\ latest + 1 \in Frames /\ latest' = latest + 1 /\ ring' = ring
        /\ streaming' \in BOOLEAN /\ published \in 0 .. latest + 1
    BY <1>1, FrameRingAssumption DEF Compose, TypeOK, Frames
  <2>3. /\ slot \in SlotsType /\ tex \in TexturesType(ring')
        /\ toViewer \in Seq(ViewerMessage(ring'))
    BY <2>2 DEF TypeOK, SlotsType, TexturesType
  <2>4. PipelineType' /\ toViewer' \in Seq(ViewerMessage(ring'))
    BY <2>1, <2>2, <2>3, PublishingStepType
  <2>5. ChannelType'
    BY <1>1, <2>2, <2>4, ChannelTypeKept DEF Compose, server, TypeOK
  <2> QED BY <2>4, <2>5, TypeHalves
<1>2. ASSUME ComposeInNewRing PROVE TypeOK'
  <2>1. PublishLatest(streaming, ring', latest + 1, 0, FreshSlots, WithFreshRing, AfterReset)
    BY <1>2 DEF ComposeInNewRing
  <2>2. /\ latest + 1 \in Frames /\ latest' = latest + 1 /\ ring' = ring + 1
        /\ streaming' \in BOOLEAN /\ 0 \in 0 .. latest + 1
    BY <1>2, FrameRingAssumption DEF ComposeInNewRing, TypeOK, Frames
  <2>3. /\ FreshSlots \in SlotsType /\ WithFreshRing \in TexturesType(ring')
        /\ AfterReset \in Seq(ViewerMessage(ring')) /\ Tainted \subseteq 0 .. ring'
    BY <2>2, FreshRingType
  <2>4. PipelineType' /\ toViewer' \in Seq(ViewerMessage(ring'))
    BY <2>1, <2>2, <2>3, PublishingStepType
  <2>5. ChannelType'
    BY <1>2, <2>2, <2>3, <2>4, ChannelTypeKept DEF ComposeInNewRing, TypeOK
  <2> QED BY <2>4, <2>5, TypeHalves
<1>3. ASSUME ViewerReady PROVE TypeOK'
  <2>1. PublishLatest(TRUE, ring', latest, published, slot, tex, toViewer)
    BY <1>3 DEF ViewerReady
  <2>2. /\ latest' = latest /\ ring' = ring /\ latest \in Frames
        /\ streaming' \in BOOLEAN /\ published \in 0 .. latest
    BY <1>3 DEF ViewerReady, TypeOK
  <2>3. /\ slot \in SlotsType /\ tex \in TexturesType(ring')
        /\ toViewer \in Seq(ViewerMessage(ring'))
    BY <2>2 DEF TypeOK, SlotsType, TexturesType
  <2>4. PipelineType' /\ toViewer' \in Seq(ViewerMessage(ring'))
    BY <2>1, <2>2, <2>3, PublishingStepType
  <2>5. tasks' \in Seq(Task)
    BY <1>3, HeadTailProperties DEF ViewerReady, TypeOK
  <2>6. ChannelType'
    BY <1>3, <2>2, <2>4, <2>5, ChannelTypeKept DEF ViewerReady, TypeOK
  <2> QED BY <2>4, <2>6, TypeHalves
<1>4. ASSUME FrameReleased PROVE TypeOK'
  <2>1. tasks' \in Seq(Task) /\ Head(tasks) \in Task
    BY <1>4, HeadTailProperties DEF FrameReleased, TypeOK
  <2>2. /\ latest' = latest /\ ring' = ring /\ latest \in Frames
        /\ streaming' \in BOOLEAN /\ published \in 0 .. latest
    BY <1>4 DEF FrameReleased, TypeOK
  <2>3. /\ slot \in SlotsType /\ tex \in TexturesType(ring')
        /\ toViewer \in Seq(ViewerMessage(ring'))
    BY <2>2 DEF TypeOK, SlotsType, TexturesType
  <2>4. PipelineType' /\ toViewer' \in Seq(ViewerMessage(ring'))
    <3>1. CASE ReleaseMatches(Head(tasks))
      <4>1. PublishLatest(streaming, ring', latest, published,
                          FreedSlots(Head(tasks)), tex, toViewer)
        BY <1>4, <3>1 DEF FrameReleased
      <4>2. Head(tasks).slot \in Slots
        BY <1>4, <2>1 DEF FrameReleased, Task, Ready, Disconnected
      <4>3. FreedSlots(Head(tasks)) \in SlotsType
        BY <2>3, <4>2 DEF FreedSlots, SlotsType, SlotStates
      <4> QED BY <4>1, <4>3, <2>2, <2>3, PublishingStepType
    <3>2. CASE ~ReleaseMatches(Head(tasks))
      BY <1>4, <2>2, <2>3, <3>2 DEF FrameReleased, TypeOK, PipelineType
    <3> QED BY <3>1, <3>2
  <2>5. ChannelType'
    BY <1>4, <2>1, <2>2, <2>4, ChannelTypeKept DEF FrameReleased, TypeOK
  <2> QED BY <2>4, <2>5, TypeHalves
<1>5. ASSUME ViewerDisconnected PROVE TypeOK'
  <2>1. tasks' \in Seq(Task)
    BY <1>5, HeadTailProperties DEF ViewerDisconnected, TypeOK
  <2>2. CASE ring = 0
    <3>1. PipelineType' /\ ring' = ring
      BY <1>5, <2>2 DEF ViewerDisconnected, TypeOK, PipelineType, SlotsType, TexturesType
    <3>2. ChannelType'
      BY <1>5, <2>1, <2>2, <3>1, ChannelTypeKept DEF ViewerDisconnected, TypeOK
    <3> QED BY <3>1, <3>2, TypeHalves
  <2>3. CASE ring # 0
    <3>1. /\ ring' = ring + 1 /\ latest' = latest /\ published' = 0
          /\ slot' = FreshSlots /\ tex' = WithFreshRing
          /\ toViewer' = AfterReset /\ tainted' = Tainted
          /\ ringReady' \in BOOLEAN /\ streaming' \in BOOLEAN
      BY <1>5, <2>3 DEF ViewerDisconnected
    <3>2. PipelineType'
      BY <3>1, FreshRingType, ConstantFacts DEF TypeOK, PipelineType
    <3>3. ChannelType'
      BY <1>5, <2>1, <3>1, FreshRingType, ChannelTypeKept DEF ViewerDisconnected, TypeOK
    <3> QED BY <3>2, <3>3, TypeHalves
  <2> QED BY <2>2, <2>3
<1>6. ASSUME OfferRing PROVE TypeOK'
  <2>1. PipelineType' /\ ring' = ring
    BY <1>6, PipelineTypeKept DEF OfferRing
  <2>2. /\ window' = Append(window, RingMessage(ring))
        /\ window \in Seq(WindowMessage(ring))
        /\ RingMessage(ring) \in WindowMessage(ring)
    BY <1>6 DEF OfferRing, TypeOK, WindowMessage
  <2>3. window' \in Seq(WindowMessage(ring))
    BY <2>2, AppendProperties
  <2>4. session' \in 0 .. MaxSession
    BY <1>6, ConstantFacts DEF OfferRing, TypeOK
  <2>5. ChannelType'
    BY <1>6, <2>1, <2>3, <2>4 DEF OfferRing, TypeOK, ChannelType, Phases
  <2> QED BY <2>1, <2>5, TypeHalves
<1>7. ASSUME HandshakeAborted PROVE TypeOK'
  <2>1. PipelineType' /\ ring' = ring
    BY <1>7, PipelineTypeKept DEF HandshakeAborted
  <2>2. session' \in 0 .. MaxSession
    BY <1>7, ConstantFacts DEF HandshakeAborted, TypeOK
  <2>3. EndSession
    BY <1>7 DEF HandshakeAborted
  <2>4. ChannelType'
    BY <1>7, <2>1, <2>2, <2>3, EndSessionType DEF HandshakeAborted, TypeOK, ChannelType
  <2> QED BY <2>1, <2>4, TypeHalves
<1>8. ASSUME HandshakeRead PROVE TypeOK'
  <2>1. PipelineType' /\ ring' = ring
    BY <1>8, PipelineTypeKept DEF HandshakeRead
  <2>2. CASE Head(toServer).type = "GenerationAccepted"
    <3>1. toServer' \in Seq(ServerMessage(ring))
      BY <1>8, <2>2, HeadTailProperties DEF HandshakeRead, TypeOK
    <3>2. tasks' = Append(tasks, Ready) /\ tasks \in Seq(Task) /\ Ready \in Task
      BY <1>8, <2>2 DEF HandshakeRead, TypeOK, Task
    <3>3. tasks' \in Seq(Task)
      BY <3>2, AppendProperties
    <3>4. tainted' \subseteq 0 .. ring
      BY <1>8, <2>2 DEF HandshakeRead, TypeOK
    <3>5. ChannelType'
      BY <1>8, <2>1, <2>2, <3>1, <3>3, <3>4 DEF HandshakeRead, TypeOK, ChannelType, Phases
    <3> QED BY <2>1, <3>5, TypeHalves
  <2>3. CASE Head(toServer).type # "GenerationAccepted"
    <3>1. EndSession /\ UNCHANGED <<session, sring, window, vring, shown, tainted>>
      BY <1>8, <2>3 DEF HandshakeRead
    <3>2. ChannelType'
      BY <2>1, <3>1, EndSessionType DEF TypeOK, ChannelType
    <3> QED BY <2>1, <3>2, TypeHalves
  <2> QED BY <2>2, <2>3
<1>9. ASSUME ServerRead PROVE TypeOK'
  <2>1. PipelineType' /\ ring' = ring
    BY <1>9, PipelineTypeKept DEF ServerRead
  <2>2. toServer' \in Seq(ServerMessage(ring)) /\ Head(toServer) \in ServerMessage(ring)
    BY <1>9, HeadTailProperties DEF ServerRead, TypeOK
  <2>3. tasks' \in Seq(Task)
    <3>1. CASE Head(toServer).type = "FrameReleased"
      <4>1. Head(toServer) \in Task
        BY <2>2, <3>1 DEF ServerMessage, GenerationAccepted, Task
      <4> QED BY <1>9, <3>1, <4>1, AppendProperties DEF ServerRead, TypeOK
    <3>2. CASE Head(toServer).type # "FrameReleased"
      BY <1>9, <3>2 DEF ServerRead, TypeOK
    <3> QED BY <3>1, <3>2
  <2>4. ChannelType'
    BY <1>9, <2>1, <2>2, <2>3 DEF ServerRead, viewer, TypeOK, ChannelType
  <2> QED BY <2>1, <2>4, TypeHalves
<1>10. ASSUME SessionLost PROVE TypeOK'
  <2>1. PipelineType' /\ ring' = ring
    BY <1>10, PipelineTypeKept DEF SessionLost
  <2>2. EndSession /\ UNCHANGED <<session, sring, tainted, window, vring, shown>>
    BY <1>10 DEF SessionLost
  <2>3. ChannelType'
    BY <2>1, <2>2, EndSessionType DEF TypeOK, ChannelType
  <2> QED BY <2>1, <2>3, TypeHalves
<1>11. ASSUME ClientRead PROVE TypeOK'
  <2>1. PipelineType' /\ ring' = ring
    BY <1>11, PipelineTypeKept DEF ClientRead
  <2>2. Tail(toViewer) \in Seq(ViewerMessage(ring)) /\ Head(toViewer) \in ViewerMessage(ring)
    BY <1>11, HeadTailProperties DEF ClientRead, TypeOK
  <2>3. toViewer' \in Seq(ViewerMessage(ring))
    BY <1>11, <2>2, EmptySeq DEF ClientRead
  <2>4. window' \in Seq(WindowMessage(ring))
    <3>1. CASE Head(toViewer).type = "StreamReset"
      BY <1>11, <3>1 DEF ClientRead, TypeOK
    <3>2. CASE Head(toViewer).type # "StreamReset"
      <4>1. Head(toViewer) \in WindowMessage(ring)
        BY <2>2, <3>2 DEF ViewerMessage, StreamReset, WindowMessage
      <4>2. window' = Append(window, Head(toViewer)) /\ window \in Seq(WindowMessage(ring))
        BY <1>11, <3>2 DEF ClientRead, TypeOK
      <4> QED BY <4>1, <4>2, AppendProperties
    <3> QED BY <3>1, <3>2
  <2>5. ChannelType'
    BY <1>11, <2>1, <2>3, <2>4 DEF ClientRead, server, TypeOK, ChannelType
  <2> QED BY <2>1, <2>5, TypeHalves
<1>12. ASSUME LinkBreaks PROVE TypeOK'
  <2>1. PipelineType' /\ ring' = ring
    BY <1>12, PipelineTypeKept DEF LinkBreaks
  <2>2. ChannelType'
    BY <1>12, <2>1, EmptySeq DEF LinkBreaks, server, TypeOK, ChannelType
  <2> QED BY <2>1, <2>2, TypeHalves
<1>13. ASSUME RingOpened PROVE TypeOK'
  <2>1. PipelineType' /\ ring' = ring
    BY <1>13, PipelineTypeKept DEF RingOpened
  <2>2. window' \in Seq(WindowMessage(ring)) /\ Head(window) \in WindowMessage(ring)
    BY <1>13, HeadTailProperties DEF RingOpened, RingAtHead, TypeOK
  <2>3. Head(window).ring \in 0 .. ring
    BY <2>2 DEF WindowMessage, Announcement, RingMessage, TypeOK
  <2>4. toServer' \in Seq(ServerMessage(ring))
    <3>1. /\ toServer \in Seq(ServerMessage(ring))
          /\ toServer' \in {toServer, Append(toServer, GenerationAccepted(Head(window).ring))}
      BY <1>13 DEF RingOpened, TypeOK
    <3>2. GenerationAccepted(Head(window).ring) \in ServerMessage(ring)
      BY <2>3 DEF ServerMessage
    <3> QED BY <3>1, <3>2, AppendProperties
  <2>5. ChannelType'
    BY <1>13, <2>1, <2>2, <2>3, <2>4, ConstantFacts DEF RingOpened, TypeOK, ChannelType
  <2> QED BY <2>1, <2>5, TypeHalves
<1>14. ASSUME RingRefused PROVE TypeOK'
  <2>1. PipelineType' /\ ring' = ring
    BY <1>14, PipelineTypeKept DEF RingRefused
  <2>2. window' \in Seq(WindowMessage(ring))
    BY <1>14, HeadTailProperties DEF RingRefused, RingAtHead, TypeOK
  <2>3. toViewer' \in Seq(ViewerMessage(ring))
    BY <1>14, EmptySeq DEF RingRefused, TypeOK
  <2>4. linkUp' \in BOOLEAN /\ waiting' \in BOOLEAN
    BY <1>14 DEF RingRefused, TypeOK
  <2>5. ChannelType'
    BY <1>14, <2>1, <2>2, <2>3, <2>4, ConstantFacts
       DEF RingRefused, server, TypeOK, ChannelType
  <2> QED BY <2>1, <2>5, TypeHalves
<1>15. ASSUME AcquireFrame PROVE TypeOK'
  <2>1. tex' \in TexturesType(ring)
    BY <1>15, SetKeyType DEF AcquireFrame, Keys
  <2>2. PipelineType' /\ ring' = ring
    BY <1>15, <2>1 DEF AcquireFrame, TypeOK, PipelineType, SlotsType
  <2>3. ChannelType'
    BY <1>15, <2>2 DEF AcquireFrame, server, viewer, TypeOK, ChannelType
  <2> QED BY <2>2, <2>3, TypeHalves
<1>16. ASSUME ShowFrame PROVE TypeOK'
  <2>1. tex' \in TexturesType(ring)
    BY <1>16, SetKeyType DEF ShowFrame, Keys
  <2>2. PipelineType' /\ ring' = ring
    BY <1>16, <2>1 DEF ShowFrame, TypeOK, PipelineType, SlotsType
  <2>3. window' \in Seq(WindowMessage(ring))
    BY <1>16, FrameAtHeadType DEF ShowFrame
  <2>4. Head(window).slot \in Slots /\ Head(window).frame \in Frames /\ vring \in 1 .. ring
    BY <1>16, FrameAtHeadType DEF ShowFrame, TypeOK
  <2>5. shown' \in Frames
    BY <1>16, <2>4 DEF ShowFrame, TypeOK, Texture
  <2>6. toServer' \in Seq(ServerMessage(ring))
    <3>1. /\ toServer \in Seq(ServerMessage(ring))
          /\ toServer' \in {toServer,
               Append(toServer, Released(Head(window).slot, Head(window).frame))}
      BY <1>16 DEF ShowFrame, TypeOK
    <3>2. Released(Head(window).slot, Head(window).frame) \in ServerMessage(ring)
      BY <2>4 DEF Released, ServerMessage
    <3> QED BY <3>1, <3>2, AppendProperties
  <2>7. ChannelType'
    BY <1>16, <2>2, <2>3, <2>5, <2>6 DEF ShowFrame, TypeOK, ChannelType
  <2> QED BY <2>2, <2>7, TypeHalves
<1>17. ASSUME AcquireTimesOut \/ CopyTimesOut PROVE TypeOK'
  <2>1. FrameAtHead /\ SpendFrame
    BY <1>17 DEF AcquireTimesOut, CopyTimesOut
  <2>2. PipelineType' /\ ring' = ring
    BY <2>1, PipelineTypeKept DEF SpendFrame
  <2>3. window' \in Seq(WindowMessage(ring))
    BY <2>1, FrameAtHeadType DEF SpendFrame
  <2>4. ChannelType'
    BY <2>1, <2>2, <2>3 DEF SpendFrame, server, TypeOK, ChannelType
  <2> QED BY <2>2, <2>4, TypeHalves
<1>18. ASSUME ViewerExits PROVE TypeOK'
  <2>1. tex' \in TexturesType(ring)
    BY <1>18, AbandonType
  <2>2. PipelineType' /\ ring' = ring
    BY <1>18, <2>1 DEF ViewerExits, TypeOK, PipelineType, SlotsType
  <2>3. toViewer' \in Seq(ViewerMessage(ring)) /\ window' \in Seq(WindowMessage(ring))
    BY <1>18, EmptySeq DEF ViewerExits, TypeOK
  <2>4. /\ UNCHANGED <<phase, ringReady, session, sring, tainted, toServer, tasks>>
        /\ vring' = 0 /\ shown' = 0 /\ linkUp' = FALSE /\ waiting' = FALSE
    BY <1>18 DEF ViewerExits, server
  <2>5. vring' \in 0 .. ring /\ shown' \in Frames
    BY <2>4, ConstantFacts DEF TypeOK
  <2>6. ChannelType'
    BY <2>2, <2>3, <2>4, <2>5 DEF TypeOK, ChannelType
  <2> QED BY <2>2, <2>6, TypeHalves
<1>19. ASSUME UNCHANGED vars PROVE TypeOK'
  <2>1. PipelineType' /\ ring' = ring
    BY <1>19, PipelineTypeKept DEF vars
  <2>2. ChannelType'
    BY <1>19, <2>1 DEF vars, server, viewer, TypeOK, ChannelType
  <2> QED BY <2>1, <2>2, TypeHalves
<1> QED
  BY <1>1, <1>2, <1>3, <1>4, <1>5, <1>6, <1>7, <1>8, <1>9, <1>10, <1>11, <1>12,
     <1>13, <1>14, <1>15, <1>16, <1>17, <1>18, <1>19
  DEF Next, UIStep, ServerStep, WindowStep, Environment

\* Every variable stays in its type, however many slots, frames, rings and
\* sessions there are.
THEOREM TypeCorrect == Spec => []TypeOK
<1>1. Init => TypeOK
  BY InitType
<1>2. TypeOK /\ [Next]_vars => TypeOK'
  BY StepType
<1> QED BY <1>1, <1>2, PTL DEF Spec

-----------------------------------------------------------------------------
(***************************************************************************)
(* An announced frame is readable.  The inductive invariant adds, to what  *)
(* is to be proved, that no texture is announced twice and that the rings  *)
(* named along the channels never decrease, from the one the viewer has    *)
(* open to the newest.  A publication takes a texture on key 0, which no   *)
(* announcement names; the viewer, when its ring is not the one announced, *)
(* touches a texture of an older ring than any still announced.            *)
(***************************************************************************)
Intact(rings, m) ==
  rings[m.ring][m.slot].frame = m.frame /\ rings[m.ring][m.slot].key = "key1"
Acquired(rings, m) ==
  rings[m.ring][m.slot].frame = m.frame /\ rings[m.ring][m.slot].key = "held"
Readable(rings, out, win) ==
  /\ \A i \in FrameReadys(out) : Intact(rings, out[i])
  /\ \A i \in FrameReadys(win) : Intact(rings, win[i]) \/ (i = 1 /\ Acquired(rings, win[i]))

SameTexture(m, n) == m.ring = n.ring /\ m.slot = n.slot
AnnouncedOnce(out, win) ==
  /\ \A i, j \in FrameReadys(out) : SameTexture(out[i], out[j]) => i = j
  /\ \A i, j \in FrameReadys(win) : SameTexture(win[i], win[j]) => i = j
  /\ \A i \in FrameReadys(out), j \in FrameReadys(win) : ~SameTexture(out[i], win[j])

RingsAscend(v, out, win) ==
  /\ \A i \in DOMAIN win : v <= win[i].ring
  /\ \A i, j \in DOMAIN win : i < j => win[i].ring <= win[j].ring
  /\ \A i \in FrameReadys(out) : v <= out[i].ring
  /\ \A i \in FrameReadys(out), j \in DOMAIN win : win[j].ring <= out[i].ring
  /\ \A i, j \in FrameReadys(out) : i < j => out[i].ring <= out[j].ring

Channels(rings, v, out, win) ==
  Readable(rings, out, win) /\ AnnouncedOnce(out, win) /\ RingsAscend(v, out, win)

IInv ==
  /\ TypeOK
  /\ Channels(tex, vring, toViewer, window)
  /\ phase # "running" => toViewer = <<>>

LEMMA IInvImplies == IInv => AnnouncedFrameIsReadable
BY DEF IInv, Channels, Readable, Intact, Acquired, AnnouncedFrameIsReadable, HasFrame

\* A message put at the end of a queue.
LEMMA AppendIndices ==
  ASSUME NEW S, NEW q \in Seq(S), NEW m \in S
  PROVE  /\ DOMAIN Append(q, m) = 1 .. Len(q) + 1
         /\ DOMAIN q = 1 .. Len(q) /\ Len(q) \in Nat
         /\ \A i \in DOMAIN q : Append(q, m)[i] = q[i]
         /\ Append(q, m)[Len(q) + 1] = m
BY AppendProperties, LenProperties

\* A message taken from the front of a queue.
LEMMA TailIndices ==
  ASSUME NEW S, NEW q \in Seq(S), q # <<>>
  PROVE  /\ 1 \in DOMAIN q /\ Head(q) = q[1]
         /\ \A i \in DOMAIN Tail(q) : i \in Nat /\ i >= 1 /\ i + 1 \in DOMAIN q
         /\ \A i \in DOMAIN Tail(q) : Tail(q)[i] = q[i + 1]
BY HeadTailProperties, LenProperties, EmptySeq

\* Dropping what is on its way to the viewer disturbs nothing.
LEMMA DropKeeps ==
  ASSUME NEW rings, NEW v, NEW out, NEW win, Channels(rings, v, out, win)
  PROVE  Channels(rings, v, <<>>, win)
<1>1. FrameReadys(<<>>) = {}
  BY DEF FrameReadys
<1> QED BY <1>1 DEF Channels, Readable, Intact, Acquired, AnnouncedOnce, RingsAscend

\* Nor does what is not an announcement.
LEMMA ResetKeeps ==
  ASSUME NEW R \in Nat, NEW rings, NEW v, NEW out \in Seq(ViewerMessage(R)), NEW win,
         Channels(rings, v, out, win)
  PROVE  Channels(rings, v, Append(out, StreamReset), win)
<1> DEFINE q == Append(out, StreamReset)
<1>1. FrameReadys(q) = FrameReadys(out) /\ \A i \in FrameReadys(out) : q[i] = out[i]
  <2>1. StreamReset \in ViewerMessage(R) /\ StreamReset.type # "FrameReady"
    BY DEF ViewerMessage, StreamReset
  <2> QED BY <2>1, AppendIndices DEF FrameReadys
<1> HIDE DEF q
<1>2. Channels(rings, v, q, win)
  BY <1>1 DEF Channels, Readable, Intact, Acquired, AnnouncedOnce, RingsAscend
<1> QED BY <1>2 DEF q

\* Rings the viewer knows nothing of disturb nothing either.
LEMMA FreshRingKeeps ==
  ASSUME TypeOK, NEW out, NEW win \in Seq(WindowMessage(ring)),
         out \in Seq(ViewerMessage(ring)), Channels(tex, vring, out, win)
  PROVE  Channels(WithFreshRing, vring, out, win)
<1>1. \A i \in FrameReadys(out) : out[i].ring \in 1 .. ring
  BY ElementOfSeq, LenProperties DEF FrameReadys, ViewerMessage, StreamReset, Announcement
<1>2. \A i \in FrameReadys(win) : win[i].ring \in 1 .. ring
  BY ElementOfSeq, LenProperties DEF FrameReadys, WindowMessage, RingMessage, Announcement
<1>3. \A r \in 1 .. ring : WithFreshRing[r] = tex[r]
  BY DEF WithFreshRing, TypeOK
<1> QED BY <1>1, <1>2, <1>3 DEF Channels, Readable, Intact, Acquired

\* A publication announces a texture of the newest ring that was on key 0.
LEMMA PublishLatestKeeps ==
  ASSUME NEW R \in Nat, NEW on, NEW frame \in Frames, NEW pub, NEW v \in 0 .. R,
         NEW slots, NEW rings \in TexturesType(R),
         NEW out \in Seq(ViewerMessage(R)), NEW win \in Seq(WindowMessage(R)),
         Channels(rings, v, out, win),
         PublishLatest(on, R, frame, pub, slots, rings, out)
  PROVE  Channels(tex', v, toViewer', win)
<1>1. CASE on /\ R # 0 /\ Unpublished(frame, pub) /\ Target(R, slots, rings) # {}
  <2>1. PICK s \in Target(R, slots, rings) :
          /\ tex' = [rings EXCEPT ![R][s] = [key |-> "key1", frame |-> frame]]
          /\ toViewer' = IF phase = "running"
                         THEN Queue(out, FrameReady(R, s, frame))
                         ELSE out
    BY <1>1 DEF PublishLatest
  <2>2. s \in Slots /\ R \in 1 .. R /\ rings[R][s].key = "key0"
    BY <1>1 DEF Target, Acquirable
  <2>3. \A r \in 1 .. R, t \in Slots :
          tex'[r][t] = IF r = R /\ t = s THEN [key |-> "key1", frame |-> frame] ELSE rings[r][t]
    BY <2>1, <2>2 DEF TexturesType
  <2>4. \A i \in FrameReadys(out) : out[i] \in Announcement(R)
    BY ElementOfSeq, LenProperties DEF FrameReadys, ViewerMessage, StreamReset
  <2>5. \A i \in FrameReadys(win) : win[i] \in Announcement(R)
    BY ElementOfSeq, LenProperties DEF FrameReadys, WindowMessage, RingMessage
  <2>6. /\ \A i \in FrameReadys(out) : ~(out[i].ring = R /\ out[i].slot = s)
        /\ \A i \in FrameReadys(win) : ~(win[i].ring = R /\ win[i].slot = s)
    BY <2>2 DEF Channels, Readable, Intact, Acquired
  <2>7. Channels(tex', v, out, win)
    <3>1. /\ \A i \in FrameReadys(out) :
               tex'[out[i].ring][out[i].slot] = rings[out[i].ring][out[i].slot]
          /\ \A i \in FrameReadys(win) :
               tex'[win[i].ring][win[i].slot] = rings[win[i].ring][win[i].slot]
      BY <2>3, <2>4, <2>5, <2>6 DEF Announcement
    <3> QED BY SMTT(30), <3>1 DEF Channels, Readable, Intact, Acquired
  <2>8. CASE phase = "running"
    <3> DEFINE m == FrameReady(R, s, frame)
               n == Len(out) + 1
    <3>1. m \in Announcement(R) /\ m \in ViewerMessage(R)
      BY <2>2 DEF FrameReady, Announcement, ViewerMessage
    <3>2. toViewer' = Append(out, m)
      BY <2>1, <2>8 DEF Queue
    <3>3. /\ FrameReadys(toViewer') = FrameReadys(out) \union {n}
          /\ toViewer'[n] = m /\ n \in Nat
          /\ \A i \in FrameReadys(out) : toViewer'[i] = out[i] /\ i < n /\ i \in Nat
      BY <3>1, <3>2, AppendIndices DEF FrameReadys, Announcement
    <3>4. m.ring = R /\ m.slot = s /\ m.frame = frame
      BY DEF FrameReady
    <3> HIDE DEF m, n
    <3>5. Readable(tex', toViewer', win)
      <4>1. tex'[m.ring][m.slot].frame = m.frame /\ tex'[m.ring][m.slot].key = "key1"
        BY <2>2, <2>3, <3>4
      <4>2. Readable(tex', out, win)
        BY <2>7 DEF Channels
      <4>3. Intact(tex', m)
        BY <4>1 DEF Intact
      <4> QED BY <3>3, <4>2, <4>3 DEF Readable
    <3>6. AnnouncedOnce(toViewer', win)
      <4>1. /\ \A i \in FrameReadys(out) : ~SameTexture(out[i], m) /\ ~SameTexture(m, out[i])
            /\ \A j \in FrameReadys(win) : ~SameTexture(m, win[j])
        BY <2>6, <3>4 DEF SameTexture
      <4>2. AnnouncedOnce(out, win)
        BY <2>7 DEF Channels
      <4> QED BY <3>3, <4>1, <4>2 DEF AnnouncedOnce
    <3>7. /\ \A j \in DOMAIN win : win[j].ring \in 0 .. R
          /\ \A i \in FrameReadys(out) : out[i].ring \in 0 .. R
      <4>1. \A w \in WindowMessage(R) : w.ring \in 0 .. R
        BY DEF WindowMessage, RingMessage, Announcement
      <4>2. \A j \in DOMAIN win : win[j] \in WindowMessage(R)
        BY ElementOfSeq, LenProperties
      <4> QED BY <2>4, <4>1, <4>2 DEF Announcement
    <3>8. RingsAscend(v, toViewer', win)
      <4>1. RingsAscend(v, out, win)
        BY <2>7 DEF Channels
      <4>2. /\ \A i \in FrameReadys(toViewer') : v <= toViewer'[i].ring
            /\ \A i \in FrameReadys(toViewer'), j \in DOMAIN win :
                 win[j].ring <= toViewer'[i].ring
        BY <3>3, <3>4, <3>7, <4>1 DEF RingsAscend
      <4>3. \A i, j \in FrameReadys(toViewer') :
              i < j => toViewer'[i].ring <= toViewer'[j].ring
        BY <3>3, <3>4, <3>7, <4>1 DEF RingsAscend
      <4> QED BY <4>1, <4>2, <4>3 DEF RingsAscend
    <3> QED BY <3>5, <3>6, <3>8 DEF Channels
  <2>9. CASE phase # "running"
    BY <2>1, <2>7, <2>9
  <2> QED BY <2>8, <2>9
<1>2. CASE ~(on /\ R # 0 /\ Unpublished(frame, pub) /\ Target(R, slots, rings) # {})
  BY <1>2 DEF PublishLatest
<1> QED BY <1>1, <1>2

\* The window thread's queue loses its head, and the viewer may open the ring
\* the head names, or close its own.
LEMMA WindowTailKeeps ==
  ASSUME NEW R \in Nat, NEW rings, NEW v, NEW out \in Seq(ViewerMessage(R)),
         NEW win \in Seq(WindowMessage(R)), win # <<>>, Channels(rings, v, out, win)
  PROVE  /\ Channels(rings, v, out, Tail(win))
         /\ Channels(rings, Head(win).ring, out, Tail(win))
         /\ Channels(rings, 0, out, Tail(win))
<1> DEFINE q == Tail(win)
<1>1. /\ 1 \in DOMAIN win /\ Head(win) = win[1]
      /\ \A i \in DOMAIN q : i \in Nat /\ i >= 1 /\ i + 1 \in DOMAIN win /\ q[i] = win[i + 1]
  BY TailIndices
<1>2. \A i \in FrameReadys(q) : i + 1 \in FrameReadys(win) /\ i + 1 # 1
  BY <1>1 DEF FrameReadys
<1>3. \A i \in FrameReadys(q) : i \in DOMAIN q
  BY DEF FrameReadys
<1> HIDE DEF q
<1>4. Readable(rings, out, q)
  BY <1>1, <1>2, <1>3 DEF Channels, Readable, Intact, Acquired
<1>5. AnnouncedOnce(out, q)
  <2>1. \A i, j \in FrameReadys(q) : SameTexture(q[i], q[j]) => i = j
    BY <1>1, <1>2, <1>3 DEF Channels, AnnouncedOnce
  <2>2. \A i \in FrameReadys(out), j \in FrameReadys(q) : ~SameTexture(out[i], q[j])
    BY <1>1, <1>2, <1>3 DEF Channels, AnnouncedOnce
  <2> QED BY <2>1, <2>2 DEF Channels, AnnouncedOnce
<1>6. /\ \A w \in WindowMessage(R) : w.ring \in 0 .. R
      /\ \A m \in Announcement(R) : m.ring \in 0 .. R
  BY DEF WindowMessage, RingMessage, Announcement
<1>7. /\ \A i \in DOMAIN win : win[i].ring \in 0 .. R
      /\ \A i \in FrameReadys(out) : out[i].ring \in 0 .. R
  <2>1. \A i \in DOMAIN win : win[i] \in WindowMessage(R)
    BY ElementOfSeq, LenProperties
  <2>2. \A i \in FrameReadys(out) : out[i] \in Announcement(R)
    BY ElementOfSeq, LenProperties DEF FrameReadys, ViewerMessage, StreamReset
  <2> QED BY <1>6, <2>1, <2>2
<1>8. ASSUME NEW u \in {v, Head(win).ring, 0} PROVE RingsAscend(u, out, q)
  <2>1. RingsAscend(v, out, win)
    BY DEF Channels
  <2>2. \A i \in DOMAIN q : u <= q[i].ring
    BY <1>1, <1>7, <1>8, <2>1 DEF RingsAscend
  <2>3. \A i \in FrameReadys(out) : u <= out[i].ring
    BY <1>1, <1>7, <1>8, <2>1 DEF RingsAscend
  <2>4. \A i, j \in DOMAIN q : i < j => q[i].ring <= q[j].ring
    BY <1>1, <2>1 DEF RingsAscend
  <2>5. \A i \in FrameReadys(out), j \in DOMAIN q : q[j].ring <= out[i].ring
    BY <1>1, <2>1 DEF RingsAscend
  <2> QED BY <2>1, <2>2, <2>3, <2>4, <2>5 DEF RingsAscend
<1> QED BY <1>4, <1>5, <1>8 DEF Channels, q

\* An announcement moves from the pipe to the window thread's queue.
LEMMA ClientReadKeeps ==
  ASSUME NEW R \in Nat, NEW rings, NEW v \in 0 .. R, NEW out \in Seq(ViewerMessage(R)),
         NEW win \in Seq(WindowMessage(R)), out # <<>>,
         Head(out) \in Announcement(R), Channels(rings, v, out, win)
  PROVE  Channels(rings, v, Tail(out), Append(win, Head(out)))
<1> DEFINE p == Tail(out)
           m == Head(out)
           q == Append(win, m)
           n == Len(win) + 1
<1>1. /\ 1 \in DOMAIN out /\ m = out[1]
      /\ \A i \in DOMAIN p : i \in Nat /\ i >= 1 /\ i + 1 \in DOMAIN out /\ p[i] = out[i + 1]
  BY TailIndices
<1>2. 1 \in FrameReadys(out) /\ \A i \in FrameReadys(p) : i \in DOMAIN p /\ i + 1 \in FrameReadys(out)
  BY <1>1 DEF FrameReadys, Announcement
<1>3. m \in WindowMessage(R)
  BY DEF WindowMessage
<1>4. /\ DOMAIN q = DOMAIN win \union {n} /\ q[n] = m /\ n \in Nat
      /\ \A i \in DOMAIN win : q[i] = win[i] /\ i \in Nat /\ i < n
  BY SMTT(30), <1>3, AppendIndices
<1>5. FrameReadys(q) = FrameReadys(win) \union {n}
  BY <1>4 DEF FrameReadys, Announcement
<1>6. \A i \in FrameReadys(win) : i \in DOMAIN win
  BY DEF FrameReadys
<1> HIDE DEF p, m, q, n
<1>7. Readable(rings, p, q)
  <2>1. Readable(rings, out, win)
    BY DEF Channels
  <2>2. \A i \in FrameReadys(p) : Intact(rings, p[i])
    BY <1>1, <1>2, <2>1 DEF Readable
  <2>3. Intact(rings, m)
    BY <1>1, <1>2, <2>1 DEF Readable
  <2>4. \A i \in FrameReadys(win) : i # n /\ q[i] = win[i]
    BY <1>4, <1>6
  <2> QED BY <1>4, <1>5, <2>1, <2>2, <2>3, <2>4 DEF Readable
<1>8. AnnouncedOnce(p, q)
  <2>1. AnnouncedOnce(out, win)
    BY DEF Channels
  <2>2. \A i, j \in FrameReadys(p) : SameTexture(p[i], p[j]) => i = j
    BY <1>1, <1>2, <2>1 DEF AnnouncedOnce
  <2>3. \A i \in FrameReadys(p) : ~SameTexture(p[i], m)
    BY <1>1, <1>2, <2>1 DEF AnnouncedOnce
  <2>4. \A j \in FrameReadys(win) : ~SameTexture(m, win[j]) /\ ~SameTexture(win[j], m)
    BY <1>1, <1>2, <2>1 DEF AnnouncedOnce, SameTexture
  <2>5. \A i \in FrameReadys(p), j \in FrameReadys(win) : ~SameTexture(p[i], win[j])
    BY <1>1, <1>2, <2>1 DEF AnnouncedOnce
  <2>6. \A i, j \in FrameReadys(q) : SameTexture(q[i], q[j]) => i = j
    BY <1>4, <1>5, <1>6, <2>1, <2>4 DEF AnnouncedOnce
  <2>7. \A i \in FrameReadys(p), j \in FrameReadys(q) : ~SameTexture(p[i], q[j])
    BY <1>4, <1>5, <1>6, <2>3, <2>5
  <2> QED BY <2>2, <2>6, <2>7 DEF AnnouncedOnce
<1>9. RingsAscend(v, p, q)
  <2>1. RingsAscend(v, out, win)
    BY DEF Channels
  <2>2. m.ring \in 0 .. R /\ v <= m.ring
    BY <1>1, <1>2, <2>1 DEF RingsAscend, Announcement, m
  <2>3. \A i \in DOMAIN win : win[i].ring <= m.ring
    BY <1>1, <1>2, <2>1 DEF RingsAscend
  <2>4. \A i \in FrameReadys(p) : m.ring <= p[i].ring
    BY <1>1, <1>2, <2>1 DEF RingsAscend
  <2>5. \A i, j \in DOMAIN q : i < j => q[i].ring <= q[j].ring
    BY <1>4, <2>1, <2>2, <2>3 DEF RingsAscend
  <2>6. \A i \in DOMAIN q : v <= q[i].ring
    BY <1>4, <2>1, <2>2 DEF RingsAscend
  <2>7. \A i \in FrameReadys(p), j \in DOMAIN q : q[j].ring <= p[i].ring
    BY <1>1, <1>2, <1>4, <2>1, <2>4 DEF RingsAscend
  <2>8. \A i \in FrameReadys(p) : v <= p[i].ring
    BY <1>1, <1>2, <2>1 DEF RingsAscend
  <2>9. ASSUME NEW i \in FrameReadys(p), NEW j \in FrameReadys(p), i < j
        PROVE  p[i].ring <= p[j].ring
    <3>1. i + 1 < j + 1 /\ i + 1 \in FrameReadys(out) /\ j + 1 \in FrameReadys(out)
      BY <1>1, <1>2, <2>9
    <3>2. p[i] = out[i + 1] /\ p[j] = out[j + 1]
      BY <1>1, <1>2
    <3> QED BY <2>1, <3>1, <3>2 DEF RingsAscend
  <2> QED BY SMTT(30), <2>5, <2>6, <2>7, <2>8, <2>9 DEF RingsAscend
<1> QED BY <1>7, <1>8, <1>9 DEF Channels, p, q, m

\* A definition of the newest ring joins the window thread's queue.
LEMMA OfferRingKeeps ==
  ASSUME NEW R \in Nat, NEW rings, NEW v \in 0 .. R, NEW win \in Seq(WindowMessage(R)),
         Channels(rings, v, <<>>, win)
  PROVE  Channels(rings, v, <<>>, Append(win, RingMessage(R)))
<1> DEFINE q == Append(win, RingMessage(R))
           n == Len(win) + 1
<1>1. RingMessage(R) \in WindowMessage(R) /\ RingMessage(R).ring = R
  BY DEF WindowMessage, RingMessage
<1>2. /\ DOMAIN q = DOMAIN win \union {n} /\ q[n] = RingMessage(R) /\ n \in Nat
      /\ \A i \in DOMAIN win : q[i] = win[i] /\ i \in Nat /\ i < n
  BY <1>1, AppendIndices
<1>3. FrameReadys(q) = FrameReadys(win)
  BY <1>2 DEF FrameReadys, RingMessage
<1>4. FrameReadys(<<>>) = {} /\ \A i \in FrameReadys(win) : i \in DOMAIN win
  BY DEF FrameReadys
<1> HIDE DEF q, n
<1>5. \A i \in DOMAIN win : win[i].ring \in 0 .. R
  <2>1. \A w \in WindowMessage(R) : w.ring \in 0 .. R
    BY DEF WindowMessage, RingMessage, Announcement
  <2>2. \A i \in DOMAIN win : win[i] \in WindowMessage(R)
    BY ElementOfSeq, LenProperties
  <2> QED BY <2>1, <2>2
<1>6. Readable(rings, <<>>, q)
  BY <1>2, <1>3, <1>4 DEF Channels, Readable, Intact, Acquired
<1>7. AnnouncedOnce(<<>>, q)
  BY <1>2, <1>3, <1>4 DEF Channels, AnnouncedOnce
<1>8. RingsAscend(v, <<>>, q)
  BY <1>1, <1>2, <1>4, <1>5 DEF Channels, RingsAscend
<1> QED BY <1>6, <1>7, <1>8 DEF Channels, q

\* No other announcement names the texture the window thread works on, even
\* when the ring it has open is not the one announced.
LEMMA HeadTextureIsPrivate ==
  ASSUME IInv, FrameAtHead, vring # 0
  PROVE  /\ \A i \in FrameReadys(toViewer) :
              ~(toViewer[i].ring = vring /\ toViewer[i].slot = Head(window).slot)
         /\ \A i \in FrameReadys(window) : i # 1 =>
              ~(window[i].ring = vring /\ window[i].slot = Head(window).slot)
<1>1. /\ 1 \in FrameReadys(window) /\ Head(window) = window[1]
      /\ Head(window).ring \in Nat /\ vring \in Nat /\ ring \in Nat
  <2>1. window \in Seq(WindowMessage(ring)) /\ window # <<>>
    BY DEF IInv, TypeOK, FrameAtHead
  <2> QED BY <2>1, TailIndices, FrameAtHeadType DEF IInv, TypeOK, FrameAtHead, FrameReadys
<1>2. CASE Head(window).ring = vring
  BY <1>1, <1>2 DEF IInv, Channels, AnnouncedOnce, SameTexture
<1>3. CASE Head(window).ring # vring
  <2>1. vring < Head(window).ring
    BY <1>1, <1>3 DEF IInv, Channels, RingsAscend, FrameReadys
  <2>2. \A i \in FrameReadys(toViewer) : Head(window).ring <= toViewer[i].ring
    BY <1>1 DEF IInv, Channels, RingsAscend, FrameReadys
  <2>3. \A i \in FrameReadys(window) : i # 1 => Head(window).ring <= window[i].ring
    <3>1. \A i \in FrameReadys(window) : i \in DOMAIN window /\ i \in Nat /\ i >= 1
      BY LenProperties DEF FrameReadys, IInv, TypeOK
    <3> QED BY <1>1, <3>1 DEF IInv, Channels, RingsAscend
  <2> QED BY <1>1, <2>1, <2>2, <2>3
<1> QED BY <1>2, <1>3

\* Messages of the other channels are typed as TypeOK says.
LEMMA QueueTypes ==
  ASSUME TypeOK
  PROVE  /\ ring \in Nat /\ vring \in 0 .. ring
         /\ tex \in TexturesType(ring)
         /\ toViewer \in Seq(ViewerMessage(ring))
         /\ window \in Seq(WindowMessage(ring))
BY DEF TypeOK, TexturesType

\* A step that drops what is on its way to the viewer, or not even that.
LEMMA QuietStepKeeps ==
  ASSUME IInv, tex' = tex, vring' = vring, window' = window,
         toViewer' \in {toViewer, <<>>}
  PROVE  Channels(tex, vring, toViewer, window)'
BY DropKeeps DEF IInv

\* An announcement names a texture that exists.
LEMMA AnnouncedTextures ==
  ASSUME TypeOK
  PROVE  /\ \A i \in FrameReadys(toViewer) :
              toViewer[i].ring \in 1 .. ring /\ toViewer[i].slot \in Slots
         /\ \A i \in FrameReadys(window) :
              window[i].ring \in 1 .. ring /\ window[i].slot \in Slots
<1>1. \A i \in FrameReadys(toViewer) : toViewer[i] \in Announcement(ring)
  BY QueueTypes, ElementOfSeq, LenProperties DEF FrameReadys, ViewerMessage, StreamReset
<1>2. \A i \in FrameReadys(window) : window[i] \in Announcement(ring)
  BY SMTT(30), QueueTypes, ElementOfSeq, LenProperties DEF FrameReadys, WindowMessage, RingMessage
<1> QED BY <1>1, <1>2 DEF Announcement

\* The window thread's lock and unlock leave every announced texture alone but
\* the one at its head, whose image stays.
LEMMA SetKeyKeeps ==
  ASSUME IInv, FrameAtHead, vring # 0, NEW k \in Keys, SetKeyAtHead(k)
  PROVE  /\ \A i \in FrameReadys(toViewer) :
              tex'[toViewer[i].ring][toViewer[i].slot] = tex[toViewer[i].ring][toViewer[i].slot]
         /\ \A i \in FrameReadys(window) : i # 1 =>
              tex'[window[i].ring][window[i].slot] = tex[window[i].ring][window[i].slot]
         /\ \A i \in FrameReadys(window) :
              /\ tex'[window[i].ring][window[i].slot].frame
                   = tex[window[i].ring][window[i].slot].frame
              /\ tex'[window[i].ring][window[i].slot].key
                   \in {k, tex[window[i].ring][window[i].slot].key}
<1>1. TypeOK
  BY DEF IInv
<1>2. \A r \in 1 .. ring, s \in Slots :
        tex'[r][s] = IF r = vring /\ s = Head(window).slot
                     THEN [key |-> k, frame |-> tex[r][s].frame]
                     ELSE tex[r][s]
  BY <1>1, SetKeyType
<1>3. /\ \A i \in FrameReadys(toViewer) :
           toViewer[i].ring \in 1 .. ring /\ toViewer[i].slot \in Slots
      /\ \A i \in FrameReadys(window) :
           window[i].ring \in 1 .. ring /\ window[i].slot \in Slots
  BY <1>1, AnnouncedTextures
<1>4. ASSUME NEW r \in 1 .. ring, NEW s \in Slots
      PROVE  tex'[r][s].frame = tex[r][s].frame /\ tex'[r][s].key \in {k, tex[r][s].key}
  <2>1. CASE r = vring /\ s = Head(window).slot
    <3>1. tex'[r][s] = [key |-> k, frame |-> tex[r][s].frame]
      BY <1>2, <2>1
    <3> QED BY <3>1
  <2>2. CASE ~(r = vring /\ s = Head(window).slot)
    <3>1. tex'[r][s] = tex[r][s]
      BY <1>2, <2>2
    <3> QED BY <3>1
  <2> QED BY <2>1, <2>2
<1>5. \A i \in FrameReadys(toViewer) :
        tex'[toViewer[i].ring][toViewer[i].slot] = tex[toViewer[i].ring][toViewer[i].slot]
  BY <1>2, <1>3, HeadTextureIsPrivate
<1>6. \A i \in FrameReadys(window) : i # 1 =>
        tex'[window[i].ring][window[i].slot] = tex[window[i].ring][window[i].slot]
  BY <1>2, <1>3, HeadTextureIsPrivate
<1>7. \A i \in FrameReadys(window) :
        /\ tex'[window[i].ring][window[i].slot].frame = tex[window[i].ring][window[i].slot].frame
        /\ tex'[window[i].ring][window[i].slot].key
             \in {k, tex[window[i].ring][window[i].slot].key}
  BY <1>3, <1>4
<1> QED BY <1>5, <1>6, <1>7

LEMMA InitIInv == Init => IInv
<1> SUFFICES ASSUME Init PROVE IInv
  OBVIOUS
<1>1. TypeOK
  BY InitType
<1>2. toViewer = <<>> /\ window = <<>> /\ FrameReadys(<<>>) = {} /\ DOMAIN <<>> = {}
  BY DEF Init, FrameReadys
<1>3. Channels(tex, vring, toViewer, window)
  BY <1>2 DEF Channels, Readable, Intact, Acquired, AnnouncedOnce, RingsAscend
<1> QED BY <1>1, <1>2, <1>3 DEF IInv

LEMMA StepIInv == IInv /\ [Next]_vars => IInv'
<1> SUFFICES ASSUME IInv, [Next]_vars PROVE IInv'
  OBVIOUS
<1> USE DEF IInv
<1>a. TypeOK /\ TypeOK'
  BY StepType
<1>b. /\ ring \in Nat /\ vring \in 0 .. ring
      /\ tex \in TexturesType(ring)
      /\ toViewer \in Seq(ViewerMessage(ring))
      /\ window \in Seq(WindowMessage(ring))
  BY <1>a, QueueTypes
<1> DEFINE Goal == Channels(tex, vring, toViewer, window)' /\ (phase # "running" => toViewer = <<>>)'
<1>1. ASSUME Compose PROVE Goal
  <2>1. PublishLatest(streaming, ring, latest + 1, published, slot, tex, toViewer)
    BY <1>1 DEF Compose
  <2>2. /\ latest + 1 \in Frames
        /\ vring' = vring /\ window' = window /\ phase' = phase
    BY <1>1, <1>a, FrameRingAssumption DEF Compose, server, viewer, TypeOK, Frames
  <2>3. Channels(tex', vring, toViewer', window)
    BY <1>b, <2>1, <2>2, PublishLatestKeeps
  <2>4. phase # "running" => toViewer' = <<>>
    BY <2>1 DEF PublishLatest
  <2> QED BY <2>2, <2>3, <2>4
<1>2. ASSUME ComposeInNewRing PROVE Goal
  <2>1. PublishLatest(streaming, ring + 1, latest + 1, 0, FreshSlots, WithFreshRing, AfterReset)
    BY <1>2 DEF ComposeInNewRing
  <2>2. /\ latest + 1 \in Frames
        /\ vring' = vring /\ window' = window /\ phase' = phase
    BY <1>2, <1>a, FrameRingAssumption DEF ComposeInNewRing, viewer, TypeOK, Frames
  <2>3. Channels(tex, vring, AfterReset, window)
    BY <1>b, ResetKeeps DEF AfterReset, Queue
  <2>4. AfterReset \in Seq(ViewerMessage(ring))
    <3>1. StreamReset \in ViewerMessage(ring)
      BY DEF ViewerMessage
    <3> QED BY <1>b, <3>1, AppendProperties DEF AfterReset, Queue
  <2>5. Channels(WithFreshRing, vring, AfterReset, window)
    BY <1>a, <1>b, <2>3, <2>4, FreshRingKeeps
  <2>6. /\ WithFreshRing \in TexturesType(ring + 1) /\ vring \in 0 .. ring + 1
        /\ AfterReset \in Seq(ViewerMessage(ring + 1))
        /\ window \in Seq(WindowMessage(ring + 1))
    BY <1>a, <1>b, FreshRingType, MessagesGrow
  <2>7. Channels(tex', vring, toViewer', window)
    BY <1>b, <2>1, <2>2, <2>5, <2>6, PublishLatestKeeps
  <2>8. phase # "running" => toViewer' = <<>>
    BY <2>1 DEF PublishLatest, AfterReset
  <2> QED BY <2>2, <2>7, <2>8
<1>3. ASSUME ViewerReady PROVE Goal
  <2>1. PublishLatest(TRUE, ring, latest, published, slot, tex, toViewer)
    BY <1>3 DEF ViewerReady
  <2>2. /\ latest \in Frames
        /\ vring' = vring /\ window' = window /\ phase' = phase
    BY <1>3, <1>a DEF ViewerReady, viewer, TypeOK
  <2>3. Channels(tex', vring, toViewer', window)
    BY <1>b, <2>1, <2>2, PublishLatestKeeps
  <2>4. phase # "running" => toViewer' = <<>>
    BY <2>1 DEF PublishLatest
  <2> QED BY <2>2, <2>3, <2>4
<1>4. ASSUME FrameReleased PROVE Goal
  <2>1. /\ latest \in Frames
        /\ vring' = vring /\ window' = window /\ phase' = phase
    BY <1>4, <1>a DEF FrameReleased, viewer, TypeOK
  <2>2. CASE ReleaseMatches(Head(tasks))
    <3>1. PublishLatest(streaming, ring, latest, published,
                        FreedSlots(Head(tasks)), tex, toViewer)
      BY <1>4, <2>2 DEF FrameReleased
    <3>2. Channels(tex', vring, toViewer', window)
      BY <1>b, <2>1, <3>1, PublishLatestKeeps
    <3>3. phase # "running" => toViewer' = <<>>
      BY <3>1 DEF PublishLatest
    <3> QED BY <2>1, <3>2, <3>3
  <2>3. CASE ~ReleaseMatches(Head(tasks))
    BY <1>4, <2>1, <2>3 DEF FrameReleased
  <2> QED BY <2>2, <2>3
<1>5. ASSUME ViewerDisconnected PROVE Goal
  <2>1. vring' = vring /\ window' = window /\ phase' = phase
    BY <1>5 DEF ViewerDisconnected, viewer
  <2>2. CASE ring = 0
    BY <1>5, <2>1, <2>2 DEF ViewerDisconnected
  <2>3. CASE ring # 0
    <3>1. tex' = WithFreshRing /\ toViewer' = AfterReset
      BY <1>5, <2>3 DEF ViewerDisconnected
    <3>2. Channels(tex, vring, AfterReset, window)
      BY <1>b, ResetKeeps DEF AfterReset, Queue
    <3>3. AfterReset \in Seq(ViewerMessage(ring))
      <4>1. StreamReset \in ViewerMessage(ring)
        BY DEF ViewerMessage
      <4> QED BY <1>b, <4>1, AppendProperties DEF AfterReset, Queue
    <3>4. Channels(WithFreshRing, vring, AfterReset, window)
      BY <1>a, <1>b, <3>2, <3>3, FreshRingKeeps
    <3> QED BY <2>1, <3>1, <3>4 DEF AfterReset
  <2> QED BY <2>2, <2>3
<1>6. ASSUME OfferRing PROVE Goal
  <2>1. /\ toViewer = <<>> /\ toViewer' = toViewer /\ tex' = tex /\ vring' = vring
        /\ window' = Append(window, RingMessage(ring))
    BY <1>6 DEF OfferRing, pipeline
  <2> QED BY <1>b, <2>1, OfferRingKeeps
<1>7. ASSUME HandshakeAborted \/ HandshakeRead \/ SessionLost PROVE Goal
  <2>1. /\ tex' = tex /\ vring' = vring /\ window' = window
        /\ toViewer' = <<>> \/ (phase' = "running" /\ toViewer' = toViewer)
    BY <1>7 DEF HandshakeAborted, HandshakeRead, SessionLost, EndSession, pipeline
  <2> QED BY <2>1, QuietStepKeeps
<1>8. ASSUME ServerRead PROVE Goal
  <2>1. /\ tex' = tex /\ vring' = vring /\ window' = window
        /\ toViewer' = toViewer /\ phase' = phase
    BY <1>8 DEF ServerRead, viewer, pipeline
  <2> QED BY <2>1
<1>9. ASSUME ClientRead PROVE Goal
  <2>1. /\ tex' = tex /\ vring' = vring /\ phase' = phase /\ phase = "running"
        /\ toViewer # <<>>
    BY <1>9 DEF ClientRead, server, pipeline
  <2>2. CASE Head(toViewer).type = "StreamReset"
    BY <1>9, <2>1, <2>2, QuietStepKeeps DEF ClientRead
  <2>3. CASE Head(toViewer).type # "StreamReset"
    <3>1. Head(toViewer) \in Announcement(ring)
      BY <1>b, <2>1, <2>3, HeadTailProperties DEF ViewerMessage, StreamReset
    <3>2. window' = Append(window, Head(toViewer)) /\ toViewer' = Tail(toViewer)
      BY <1>9, <2>3 DEF ClientRead
    <3> QED BY <1>b, <2>1, <3>1, <3>2, ClientReadKeeps
  <2> QED BY <2>2, <2>3
<1>10. ASSUME LinkBreaks PROVE Goal
  <2>1. tex' = tex /\ vring' = vring /\ window' = window /\ toViewer' = <<>>
    BY <1>10 DEF LinkBreaks, pipeline
  <2> QED BY <2>1, QuietStepKeeps
<1>11. ASSUME RingOpened PROVE Goal
  <2>1. /\ tex' = tex /\ vring' = Head(window).ring /\ window' = Tail(window)
        /\ window # <<>> /\ toViewer' = toViewer /\ phase' = phase
    BY <1>11 DEF RingOpened, RingAtHead, pipeline
  <2> QED BY <1>b, <2>1, WindowTailKeeps
<1>12. ASSUME RingRefused PROVE Goal
  <2>1. /\ tex' = tex /\ vring' = 0 /\ window' = Tail(window)
        /\ window # <<>> /\ toViewer' \in {toViewer, <<>>} /\ phase' = phase
    BY <1>12 DEF RingRefused, RingAtHead, pipeline, server
  <2>2. Channels(tex, 0, toViewer, Tail(window))
    BY <1>b, <2>1, WindowTailKeeps
  <2> QED BY <2>1, <2>2, DropKeeps
<1>13. ASSUME AcquireFrame PROVE Goal
  <2>1. /\ vring' = vring /\ window' = window /\ toViewer' = toViewer /\ phase' = phase
        /\ FrameAtHead /\ vring # 0 /\ SetKeyAtHead("held") /\ "held" \in Keys
    BY <1>13 DEF AcquireFrame, server, viewer, Keys
  <2>2. Readable(tex', toViewer, window)
    <3> HIDE DEF Goal
    <3>1. Readable(tex, toViewer, window)
      BY DEF Channels
    <3>2. \A i \in FrameReadys(toViewer) : Intact(tex', toViewer[i])
      BY <2>1, <3>1, SetKeyKeeps DEF Readable, Intact
    <3>3. \A i \in FrameReadys(window) : i # 1 => Intact(tex', window[i])
      BY <2>1, <3>1, SetKeyKeeps DEF Readable, Intact
    <3>4. ASSUME 1 \in FrameReadys(window)
          PROVE  Intact(tex', window[1]) \/ Acquired(tex', window[1])
      <4> DEFINE x == tex'[window[1].ring][window[1].slot]
                 y == tex[window[1].ring][window[1].slot]
      <4>1. y.frame = window[1].frame /\ y.key \in {"key1", "held"}
        BY <3>1, <3>4 DEF Readable, Intact, Acquired
      <4>2. x.frame = y.frame /\ x.key \in {"held", y.key}
        BY <2>1, <3>4, SetKeyKeeps
      <4>3. x.frame = window[1].frame /\ x.key \in {"key1", "held"}
        BY <4>1, <4>2
      <4> QED BY <4>3 DEF Intact, Acquired
    <3> QED BY <3>2, <3>3, <3>4 DEF Readable
  <2> QED BY <2>1, <2>2 DEF Channels
<1>14. ASSUME ShowFrame PROVE Goal
  <2>1. /\ vring' = vring /\ window' = Tail(window) /\ toViewer' = toViewer /\ phase' = phase
        /\ FrameAtHead /\ window # <<>> /\ vring # 0
        /\ SetKeyAtHead("key0") /\ "key0" \in Keys
    BY <1>14 DEF ShowFrame, FrameAtHead, Keys
  <2>2. Channels(tex, vring, toViewer, Tail(window))
    BY <1>b, <2>1, WindowTailKeeps
  <2>3. \A i \in DOMAIN Tail(window) :
          i \in Nat /\ i >= 1 /\ i + 1 \in DOMAIN window /\ Tail(window)[i] = window[i + 1]
    BY <1>b, <2>1, TailIndices
  <2>4. \A i \in FrameReadys(Tail(window)) :
          /\ i \in Nat /\ i >= 1 /\ i + 1 \in FrameReadys(window) /\ i + 1 # 1
          /\ Tail(window)[i] = window[i + 1]
    BY SMTT(30), <2>3 DEF FrameReadys
  <2>5. /\ \A i \in FrameReadys(toViewer) :
             tex'[toViewer[i].ring][toViewer[i].slot] = tex[toViewer[i].ring][toViewer[i].slot]
        /\ \A i \in FrameReadys(window) : i # 1 =>
             tex'[window[i].ring][window[i].slot] = tex[window[i].ring][window[i].slot]
    BY <2>1, SetKeyKeeps
  <2>6. Readable(tex', toViewer, Tail(window))
    <3>1. Readable(tex, toViewer, window)
      BY DEF Channels
    <3>2. \A i \in FrameReadys(toViewer) :
            /\ tex'[toViewer[i].ring][toViewer[i].slot].frame = toViewer[i].frame
            /\ tex'[toViewer[i].ring][toViewer[i].slot].key = "key1"
      BY <2>5, <3>1 DEF Readable, Intact, Acquired
    <3>3. \A i \in FrameReadys(window) : i # 1 =>
            /\ tex'[window[i].ring][window[i].slot].frame = window[i].frame
            /\ tex'[window[i].ring][window[i].slot].key = "key1"
      BY <2>5, <3>1 DEF Readable, Intact, Acquired
    <3>4. ASSUME NEW i \in FrameReadys(Tail(window))
          PROVE  /\ tex'[Tail(window)[i].ring][Tail(window)[i].slot].frame = Tail(window)[i].frame
                 /\ tex'[Tail(window)[i].ring][Tail(window)[i].slot].key = "key1"
      <4>1. i + 1 \in FrameReadys(window) /\ i + 1 # 1 /\ Tail(window)[i] = window[i + 1]
        BY <2>4
      <4> DEFINE j == i + 1
      <4>2. j \in FrameReadys(window) /\ j # 1 /\ Tail(window)[i] = window[j]
        BY <4>1
      <4> HIDE DEF j
      <4> QED BY <3>3, <4>2
    <3> HIDE DEF Goal
    <3> QED BY <3>2, <3>4 DEF Readable, Intact, Acquired
  <2> QED BY <2>1, <2>2, <2>6 DEF Channels
<1>15. ASSUME AcquireTimesOut \/ CopyTimesOut PROVE Goal
  <2>1. /\ tex' = tex /\ vring' = vring /\ window' = Tail(window)
        /\ window # <<>> /\ toViewer' = toViewer /\ phase' = phase
    BY <1>15 DEF AcquireTimesOut, CopyTimesOut, SpendFrame, FrameAtHead, pipeline, server
  <2> QED BY <1>b, <2>1, WindowTailKeeps
<1>16. ASSUME ViewerExits PROVE Goal
  <2>1. /\ window' = <<>> /\ vring' = 0 /\ phase' = phase
        /\ toViewer' \in {toViewer, <<>>}
    BY <1>16 DEF ViewerExits, server
  <2>2. \A r \in 1 .. ring, s \in Slots :
          /\ tex'[r][s].frame = tex[r][s].frame
          /\ tex[r][s].key # "held" => tex'[r][s].key = tex[r][s].key
    BY <1>16, <1>a, AbandonType
  <2>3. \A i \in FrameReadys(toViewer) :
          toViewer[i].ring \in 1 .. ring /\ toViewer[i].slot \in Slots
    BY <1>a, AnnouncedTextures
  <2>4. FrameReadys(<<>>) = {} /\ DOMAIN <<>> = {}
    BY DEF FrameReadys
  <2>5. Channels(tex', 0, toViewer, <<>>)
    <3>1. Readable(tex', toViewer, <<>>)
      BY <2>2, <2>3, <2>4 DEF Channels, Readable, Intact, Acquired
    <3>2. AnnouncedOnce(toViewer, <<>>)
      BY <2>4 DEF Channels, AnnouncedOnce
    <3>3. RingsAscend(0, toViewer, <<>>)
      BY <2>3, <2>4 DEF Channels, RingsAscend
    <3> QED BY <3>1, <3>2, <3>3 DEF Channels
  <2> QED BY <2>1, <2>5, DropKeeps
<1>17. ASSUME UNCHANGED vars PROVE Goal
  <2>1. /\ tex' = tex /\ vring' = vring /\ window' = window
        /\ toViewer' = toViewer /\ phase' = phase
    BY <1>17 DEF vars, viewer, pipeline, server
  <2> QED BY <2>1
<1>18. Goal
  BY <1>1, <1>2, <1>3, <1>4, <1>5, <1>6, <1>7, <1>8, <1>9, <1>10, <1>11, <1>12,
     <1>13, <1>14, <1>15, <1>16, <1>17
  DEF Next, UIStep, ServerStep, WindowStep, Environment
<1> QED BY <1>a, <1>18

\* A frame the viewer was told of stays readable until the viewer takes it.
THEOREM AnnouncedFramesStayReadable == Spec => []AnnouncedFrameIsReadable
<1>1. Init => IInv
  BY InitIInv
<1>2. IInv /\ [Next]_vars => IInv'
  BY StepIInv
<1>3. IInv => AnnouncedFrameIsReadable
  BY IInvImplies
<1> QED BY <1>1, <1>2, <1>3, PTL DEF Spec

-----------------------------------------------------------------------------
(***************************************************************************)
(* Frames ascend.  Along the window thread's queue and then the pipe the   *)
(* frames of a ring ascend, all of them after the one shown when the ring  *)
(* is the open one, and none after the last one published in the newest    *)
(* ring.  When the open ring is not the one announced it is older than all *)
(* that are still announced (RingsAscend), so what the viewer then shows   *)
(* is compared with nothing.                                               *)
(***************************************************************************)
FramesAscend(out, win) ==
  /\ \A i, j \in FrameReadys(out) :
       i < j /\ out[i].ring = out[j].ring => out[i].frame < out[j].frame
  /\ \A i, j \in FrameReadys(win) :
       i < j /\ win[i].ring = win[j].ring => win[i].frame < win[j].frame
  /\ \A i \in FrameReadys(win), j \in FrameReadys(out) :
       win[i].ring = out[j].ring => win[i].frame < out[j].frame

NewerThan(v, sh, m) == m.frame > 0 /\ (m.ring = v => m.frame > sh)
FramesNewer(v, sh, out, win) ==
  /\ \A i \in FrameReadys(out) : NewerThan(v, sh, out[i])
  /\ \A i \in FrameReadys(win) : NewerThan(v, sh, win[i])

FramesPublished(R, pub, v, sh, out, win) ==
  /\ \A i \in FrameReadys(out) : out[i].ring = R => out[i].frame <= pub
  /\ \A i \in FrameReadys(win) : win[i].ring = R => win[i].frame <= pub
  /\ v = R => sh <= pub

FramesInOrder(R, pub, v, sh, out, win) ==
  /\ FramesAscend(out, win)
  /\ FramesNewer(v, sh, out, win)
  /\ FramesPublished(R, pub, v, sh, out, win)

FrameInv == IInv /\ FramesInOrder(ring, published, vring, shown, toViewer, window)

LEMMA FrameInvImplies == FrameInv => NoFeedbackLoop
BY DEF FrameInv, FramesInOrder, FramesNewer, NewerThan, NoFeedbackLoop, AheadOfShown

\* The fields of announcements.
LEMMA AnnouncementTypes ==
  ASSUME NEW R \in Nat, NEW out \in Seq(ViewerMessage(R)), NEW win \in Seq(WindowMessage(R))
  PROVE  /\ \A i \in FrameReadys(out) :
              /\ i \in Nat /\ i \in DOMAIN out
              /\ out[i].ring \in 1 .. R /\ out[i].slot \in Slots /\ out[i].frame \in Nat
         /\ \A i \in FrameReadys(win) :
              /\ i \in Nat /\ i \in DOMAIN win
              /\ win[i].ring \in 1 .. R /\ win[i].slot \in Slots /\ win[i].frame \in Nat
<1>1. \A i \in FrameReadys(out) : i \in Nat /\ i \in DOMAIN out /\ out[i] \in Announcement(R)
  BY ElementOfSeq, LenProperties DEF FrameReadys, ViewerMessage, StreamReset
<1>2. \A i \in FrameReadys(win) : i \in Nat /\ i \in DOMAIN win /\ win[i] \in Announcement(R)
  BY ElementOfSeq, LenProperties DEF FrameReadys, WindowMessage, RingMessage
<1>3. \A m \in Announcement(R) : m.ring \in 1 .. R /\ m.slot \in Slots /\ m.frame \in Nat
  BY ConstantFacts DEF Announcement
<1> QED BY <1>1, <1>2, <1>3

\* Dropping the pipe, adding what is no announcement, making a ring.
LEMMA FramesDrop ==
  ASSUME NEW R, NEW pub, NEW v, NEW sh, NEW out, NEW win, FramesInOrder(R, pub, v, sh, out, win)
  PROVE  FramesInOrder(R, pub, v, sh, <<>>, win)
<1>1. FrameReadys(<<>>) = {}
  BY DEF FrameReadys
<1> QED BY <1>1 DEF FramesInOrder, FramesAscend, FramesNewer, FramesPublished

LEMMA FramesReset ==
  ASSUME NEW N \in Nat, NEW R, NEW pub, NEW v, NEW sh, NEW out \in Seq(ViewerMessage(N)),
         NEW win, FramesInOrder(R, pub, v, sh, out, win)
  PROVE  FramesInOrder(R, pub, v, sh, Append(out, StreamReset), win)
<1> DEFINE q == Append(out, StreamReset)
<1>1. FrameReadys(q) = FrameReadys(out) /\ \A i \in FrameReadys(out) : q[i] = out[i]
  <2>1. StreamReset \in ViewerMessage(N) /\ StreamReset.type # "FrameReady"
    BY DEF ViewerMessage, StreamReset
  <2> QED BY <2>1, AppendIndices DEF FrameReadys
<1> HIDE DEF q
<1>2. FramesInOrder(R, pub, v, sh, q, win)
  BY <1>1 DEF FramesInOrder, FramesAscend, FramesNewer, FramesPublished
<1> QED BY <1>2 DEF q

LEMMA FramesOffer ==
  ASSUME NEW N \in Nat, NEW R, NEW pub, NEW v, NEW sh, NEW out, NEW win \in Seq(WindowMessage(N)),
         NEW r \in 0 .. N, FramesInOrder(R, pub, v, sh, out, win)
  PROVE  FramesInOrder(R, pub, v, sh, out, Append(win, RingMessage(r)))
<1> DEFINE q == Append(win, RingMessage(r))
<1>1. FrameReadys(q) = FrameReadys(win) /\ \A i \in FrameReadys(win) : q[i] = win[i]
  <2>1. RingMessage(r) \in WindowMessage(N) /\ RingMessage(r).type # "FrameReady"
    BY DEF WindowMessage, RingMessage
  <2> QED BY <2>1, AppendIndices DEF FrameReadys
<1> HIDE DEF q
<1>2. FramesInOrder(R, pub, v, sh, out, q)
  BY <1>1 DEF FramesInOrder, FramesAscend, FramesNewer, FramesPublished
<1> QED BY <1>2 DEF q

LEMMA FramesFreshRing ==
  ASSUME NEW R \in Nat, NEW pub, NEW v \in 0 .. R, NEW sh,
         NEW out \in Seq(ViewerMessage(R)), NEW win \in Seq(WindowMessage(R)),
         FramesInOrder(R, pub, v, sh, out, win)
  PROVE  FramesInOrder(R + 1, 0, v, sh, out, win)
<1>1. /\ \A i \in FrameReadys(out) : out[i].ring # R + 1
      /\ \A i \in FrameReadys(win) : win[i].ring # R + 1
      /\ v # R + 1
  BY AnnouncementTypes
<1> QED BY <1>1 DEF FramesInOrder, FramesPublished

\* A publication is newer than all before it.
LEMMA FramesPublish ==
  ASSUME NEW R \in Nat, NEW on, NEW frame \in Frames, NEW pub \in 0 .. frame,
         NEW v \in 0 .. R, NEW sh \in Nat, NEW slots, NEW rings,
         NEW out \in Seq(ViewerMessage(R)), NEW win \in Seq(WindowMessage(R)),
         FramesInOrder(R, pub, v, sh, out, win),
         PublishLatest(on, R, frame, pub, slots, rings, out)
  PROVE  FramesInOrder(R, published', v, sh, toViewer', win)
<1>0. frame \in Nat /\ pub \in Nat
  BY ConstantFacts
<1>a. /\ \A i \in FrameReadys(out) :
           i \in Nat /\ i \in DOMAIN out /\ out[i].ring \in 1 .. R /\ out[i].frame \in Nat
      /\ \A i \in FrameReadys(win) : win[i].ring \in 1 .. R /\ win[i].frame \in Nat
  BY AnnouncementTypes
<1>1. CASE on /\ R # 0 /\ Unpublished(frame, pub) /\ Target(R, slots, rings) # {}
  <2>1. PICK s \in Target(R, slots, rings) :
          /\ published' = frame
          /\ toViewer' = IF phase = "running"
                         THEN Queue(out, FrameReady(R, s, frame))
                         ELSE out
    BY <1>1 DEF PublishLatest
  <2>2. s \in Slots /\ R \in 1 .. R /\ pub < frame
    BY <1>1 DEF Target, Acquirable, Unpublished
  <2>3. FramesPublished(R, frame, v, sh, out, win) /\ (v = R => sh < frame)
    BY <1>0, <1>a, <2>2 DEF FramesInOrder, FramesPublished
  <2>4. CASE phase # "running"
    BY <2>1, <2>3, <2>4 DEF FramesInOrder
  <2>5. CASE phase = "running"
    <3> DEFINE m == FrameReady(R, s, frame)
               n == Len(out) + 1
    <3>1. m \in Announcement(R) /\ m \in ViewerMessage(R)
      BY <2>2 DEF FrameReady, Announcement, ViewerMessage
    <3>2. toViewer' = Append(out, m)
      BY <2>1, <2>5 DEF Queue
    <3>3. /\ FrameReadys(toViewer') = FrameReadys(out) \union {n}
          /\ toViewer'[n] = m /\ n \in Nat
          /\ \A i \in FrameReadys(out) : toViewer'[i] = out[i] /\ i < n
      BY <3>1, <3>2, AppendIndices DEF FrameReadys, Announcement
    <3>4. m.ring = R /\ m.frame = frame
      BY DEF FrameReady
    <3> HIDE DEF m, n
    <3>5. /\ \A i \in FrameReadys(out) : out[i].ring = R => out[i].frame < frame
          /\ \A i \in FrameReadys(win) : win[i].ring = R => win[i].frame < frame
      BY <1>0, <1>a, <2>2 DEF FramesInOrder, FramesPublished
    <3>6. FramesAscend(toViewer', win)
      <4>1. ASSUME NEW i \in FrameReadys(toViewer'), NEW j \in FrameReadys(toViewer'),
                   i < j, toViewer'[i].ring = toViewer'[j].ring
            PROVE  toViewer'[i].frame < toViewer'[j].frame
        <5>1. i \in FrameReadys(out)
          BY <1>a, <3>3, <4>1
        <5>2. CASE j = n
          BY <3>3, <3>4, <3>5, <4>1, <5>1, <5>2
        <5>3. CASE j \in FrameReadys(out)
          BY <3>3, <4>1, <5>1, <5>3 DEF FramesInOrder, FramesAscend
        <5> QED BY <3>3, <5>2, <5>3
      <4>2. ASSUME NEW i \in FrameReadys(win), NEW j \in FrameReadys(toViewer'),
                   win[i].ring = toViewer'[j].ring
            PROVE  win[i].frame < toViewer'[j].frame
        BY <3>3, <3>4, <3>5, <4>2 DEF FramesInOrder, FramesAscend
      <4> QED BY <4>1, <4>2 DEF FramesInOrder, FramesAscend
    <3>7. FramesNewer(v, sh, toViewer', win)
      <4>1. frame > 0
        BY <1>0, <2>2
      <4>2. NewerThan(v, sh, m)
        BY <1>0, <2>3, <3>4, <4>1 DEF NewerThan
      <4> QED BY <3>3, <4>2 DEF FramesInOrder, FramesNewer
    <3>8. FramesPublished(R, frame, v, sh, toViewer', win)
      <4>1. m.ring = R => m.frame <= frame
        BY <1>0, <3>4
      <4> QED BY <2>3, <3>3, <4>1 DEF FramesPublished
    <3> QED BY <2>1, <3>6, <3>7, <3>8 DEF FramesInOrder
  <2> QED BY <2>4, <2>5
<1>2. CASE ~(on /\ R # 0 /\ Unpublished(frame, pub) /\ Target(R, slots, rings) # {})
  BY <1>2 DEF PublishLatest
<1> QED BY <1>1, <1>2

\* The window thread's queue loses its head; with v or no ring open.
LEMMA FramesTail ==
  ASSUME NEW N \in Nat, NEW R \in Nat, NEW pub \in Nat, NEW v, NEW sh,
         NEW out \in Seq(ViewerMessage(N)), NEW win \in Seq(WindowMessage(N)), win # <<>>,
         FramesInOrder(R, pub, v, sh, out, win)
  PROVE  /\ FramesInOrder(R, pub, v, sh, out, Tail(win))
         /\ \A u : FramesInOrder(R, pub, u, 0, out, Tail(win))
<1> DEFINE q == Tail(win)
<1>1. \A i \in DOMAIN q : i \in Nat /\ i + 1 \in DOMAIN win /\ q[i] = win[i + 1]
  BY TailIndices
<1>2. \A i \in FrameReadys(q) : i \in Nat /\ i + 1 \in FrameReadys(win) /\ q[i] = win[i + 1]
  BY <1>1 DEF FrameReadys
<1> HIDE DEF q
<1>3. FramesAscend(out, q)
  <2>1. \A i, j \in FrameReadys(q) : i < j => i + 1 < j + 1
    BY <1>2
  <2>2. \A i, j \in FrameReadys(q) :
          i < j /\ q[i].ring = q[j].ring => q[i].frame < q[j].frame
    BY <1>2, <2>1 DEF FramesInOrder, FramesAscend
  <2> QED BY <1>2, <2>2 DEF FramesInOrder, FramesAscend
<1>4. FramesNewer(v, sh, out, q)
  BY <1>2 DEF FramesInOrder, FramesNewer
<1>5. FramesPublished(R, pub, v, sh, out, q)
  BY <1>2 DEF FramesInOrder, FramesPublished
<1>6. \A u : FramesNewer(u, 0, out, q)
  BY <1>4 DEF FramesNewer, NewerThan
<1>7. \A u : FramesPublished(R, pub, u, 0, out, q)
  BY <1>5 DEF FramesPublished
<1> QED BY <1>3, <1>4, <1>5, <1>6, <1>7 DEF FramesInOrder, q

\* An announcement moves from the pipe to the window thread's queue.
LEMMA FramesClientRead ==
  ASSUME NEW N \in Nat, NEW R, NEW pub, NEW v, NEW sh,
         NEW out \in Seq(ViewerMessage(N)), NEW win \in Seq(WindowMessage(N)), out # <<>>,
         Head(out) \in Announcement(N), FramesInOrder(R, pub, v, sh, out, win)
  PROVE  FramesInOrder(R, pub, v, sh, Tail(out), Append(win, Head(out)))
<1> DEFINE p == Tail(out)
           m == Head(out)
           q == Append(win, m)
           n == Len(win) + 1
<1>1. /\ 1 \in DOMAIN out /\ m = out[1]
      /\ \A i \in DOMAIN p : i \in Nat /\ i >= 1 /\ i + 1 \in DOMAIN out /\ p[i] = out[i + 1]
  BY TailIndices
<1>2. /\ 1 \in FrameReadys(out)
      /\ \A i \in FrameReadys(p) :
           i \in Nat /\ 1 < i + 1 /\ i + 1 \in FrameReadys(out) /\ p[i] = out[i + 1]
  BY <1>1 DEF FrameReadys, Announcement
<1>3. m \in WindowMessage(N)
  BY DEF WindowMessage
<1>4. /\ DOMAIN q = DOMAIN win \union {n} /\ q[n] = m /\ n \in Nat
      /\ \A i \in DOMAIN win : q[i] = win[i] /\ i \in Nat /\ i < n
  BY SMTT(30), <1>3, AppendIndices
<1>5. /\ FrameReadys(q) = FrameReadys(win) \union {n}
      /\ \A i \in FrameReadys(win) : q[i] = win[i] /\ i \in Nat /\ i < n
  BY <1>4 DEF FrameReadys, Announcement
<1> HIDE DEF p, m, q, n
<1>6. FramesAscend(p, q)
  <2>1. \A i, j \in FrameReadys(p) : i < j => i + 1 < j + 1
    BY <1>2
  <2>2. \A i, j \in FrameReadys(p) :
          i < j /\ p[i].ring = p[j].ring => p[i].frame < p[j].frame
    BY <1>2, <2>1 DEF FramesInOrder, FramesAscend
  <2>3. ASSUME NEW i \in FrameReadys(q), NEW j \in FrameReadys(q), i < j, q[i].ring = q[j].ring
        PROVE  q[i].frame < q[j].frame
    <3>1. i \in FrameReadys(win)
      BY <1>4, <1>5, <2>3
    <3>2. CASE j = n
      BY <1>1, <1>2, <1>4, <1>5, <2>3, <3>1, <3>2 DEF FramesInOrder, FramesAscend
    <3>3. CASE j \in FrameReadys(win)
      BY <1>5, <2>3, <3>1, <3>3 DEF FramesInOrder, FramesAscend
    <3> QED BY <1>5, <3>2, <3>3
  <2>4. ASSUME NEW i \in FrameReadys(q), NEW j \in FrameReadys(p), q[i].ring = p[j].ring
        PROVE  q[i].frame < p[j].frame
    <3>1. CASE i = n
      BY <1>1, <1>2, <1>4, <2>4, <3>1 DEF FramesInOrder, FramesAscend
    <3>2. CASE i \in FrameReadys(win)
      BY <1>2, <1>5, <2>4, <3>2 DEF FramesInOrder, FramesAscend
    <3> QED BY <1>5, <3>1, <3>2
  <2> QED BY <2>2, <2>3, <2>4 DEF FramesAscend
<1>7. FramesNewer(v, sh, p, q)
  BY <1>1, <1>2, <1>4, <1>5 DEF FramesInOrder, FramesNewer
<1>8. FramesPublished(R, pub, v, sh, p, q)
  BY <1>1, <1>2, <1>4, <1>5 DEF FramesInOrder, FramesPublished
<1> QED BY <1>6, <1>7, <1>8 DEF FramesInOrder, p, q, m

\* The viewer shows what its head names, or a texture of an older ring than
\* any that is still announced.
LEMMA FramesShow ==
  ASSUME FrameInv, ShowFrame
  PROVE  FramesInOrder(ring, published, vring, shown', toViewer, Tail(window))
<1>1. /\ TypeOK /\ ring \in Nat /\ vring \in 1 .. ring /\ published \in Nat
      /\ toViewer \in Seq(ViewerMessage(ring)) /\ window \in Seq(WindowMessage(ring))
      /\ FrameAtHead /\ window # <<>> /\ shown' = tex[vring][Head(window).slot].frame
  BY SMTT(30), ConstantFacts DEF FrameInv, IInv, TypeOK, ShowFrame, FrameAtHead
<1> DEFINE q == Tail(window)
           h == Head(window)
           sh2 == shown'
<1>2. /\ 1 \in DOMAIN window /\ h = window[1]
      /\ \A i \in DOMAIN q : i \in Nat /\ i >= 1 /\ i + 1 \in DOMAIN window /\ q[i] = window[i + 1]
  BY <1>1, TailIndices
<1>3. /\ 1 \in FrameReadys(window) /\ h.ring \in 1 .. ring /\ h.frame \in Nat
      /\ h = window[1]
  BY <1>1, <1>2, FrameAtHeadType, ConstantFacts DEF FrameAtHead, FrameReadys
<1>4. \A i \in FrameReadys(q) :
        i \in Nat /\ i + 1 \in FrameReadys(window) /\ 1 < i + 1 /\ q[i] = window[i + 1]
  BY <1>2 DEF FrameReadys
<1>5. FramesInOrder(ring, published, vring, shown, toViewer, q)
  BY <1>1, FramesTail DEF FrameInv
<1>6. /\ \A i \in FrameReadys(toViewer) :
           toViewer[i].ring \in 1 .. ring /\ toViewer[i].frame \in Nat
      /\ \A i \in FrameReadys(window) :
           window[i].ring \in 1 .. ring /\ window[i].frame \in Nat
  BY <1>1, AnnouncementTypes
<1>7. RingsAscend(vring, toViewer, window) /\ Readable(tex, toViewer, window)
  BY DEF FrameInv, IInv, Channels
<1> HIDE DEF q, h, sh2
<1>8. CASE h.ring = vring
  <2>1. sh2 = h.frame
    BY <1>1, <1>3, <1>7, <1>8 DEF Readable, Intact, Acquired, sh2, h
  <2>2. /\ \A i \in FrameReadys(q) : q[i].ring = vring => q[i].frame > h.frame
        /\ \A i \in FrameReadys(toViewer) : toViewer[i].ring = vring => toViewer[i].frame > h.frame
    BY <1>3, <1>4, <1>6, <1>8 DEF FrameInv, FramesInOrder, FramesAscend
  <2>3. vring = ring => h.frame <= published
    BY <1>3, <1>8 DEF FrameInv, FramesInOrder, FramesPublished
  <2>4. FramesNewer(vring, sh2, toViewer, q)
    BY <1>5, <2>1, <2>2 DEF FramesInOrder, FramesNewer, NewerThan
  <2>5. FramesPublished(ring, published, vring, sh2, toViewer, q)
    BY <1>5, <2>1, <2>3 DEF FramesInOrder, FramesPublished
  <2> QED BY <1>5, <2>4, <2>5 DEF FramesInOrder, q, sh2
<1>9. CASE h.ring # vring
  <2>1. vring < h.ring
    BY <1>1, <1>2, <1>3, <1>7, <1>9 DEF RingsAscend
  <2>2. /\ \A i \in FrameReadys(q) : q[i].ring # vring
        /\ \A i \in FrameReadys(toViewer) : toViewer[i].ring # vring
        /\ vring # ring
    <3>1. \A i \in FrameReadys(window) : i \in DOMAIN window
      BY DEF FrameReadys
    <3>2. \A i \in FrameReadys(window) : 1 < i => h.ring <= window[i].ring
      BY <1>2, <1>3, <1>7, <3>1 DEF RingsAscend
    <3>3. \A i \in FrameReadys(toViewer) : h.ring <= toViewer[i].ring
      BY <1>2, <1>3, <1>7 DEF RingsAscend
    <3>4. \A i \in FrameReadys(q) : h.ring <= q[i].ring /\ q[i].ring \in Nat
      BY <1>4, <1>6, <3>2
    <3> QED BY <1>1, <1>3, <1>6, <2>1, <3>3, <3>4
  <2>3. FramesNewer(vring, sh2, toViewer, q)
    BY <1>5, <2>2 DEF FramesInOrder, FramesNewer, NewerThan
  <2>4. FramesPublished(ring, published, vring, sh2, toViewer, q)
    BY <1>5, <2>2 DEF FramesInOrder, FramesPublished
  <2> QED BY <1>5, <2>3, <2>4 DEF FramesInOrder, q, sh2
<1> QED BY <1>8, <1>9

LEMMA InitFrameInv == Init => FrameInv
<1> SUFFICES ASSUME Init PROVE FrameInv
  OBVIOUS
<1>1. toViewer = <<>> /\ window = <<>> /\ FrameReadys(<<>>) = {} /\ shown = 0 /\ published = 0
  BY DEF Init, FrameReadys
<1>2. FramesInOrder(ring, published, vring, shown, toViewer, window)
  BY <1>1 DEF FramesInOrder, FramesAscend, FramesNewer, FramesPublished
<1> QED BY <1>2, InitIInv DEF FrameInv

LEMMA StepFrameInv == FrameInv /\ [Next]_vars => FrameInv'
<1> SUFFICES ASSUME FrameInv, [Next]_vars PROVE FrameInv'
  OBVIOUS
<1>a. IInv /\ IInv' /\ TypeOK /\ FramesInOrder(ring, published, vring, shown, toViewer, window)
  BY StepIInv DEF FrameInv, IInv
<1>b. /\ ring \in Nat /\ vring \in 0 .. ring /\ shown \in Nat
      /\ published \in 0 .. latest /\ published \in Nat /\ latest \in Frames
      /\ toViewer \in Seq(ViewerMessage(ring)) /\ window \in Seq(WindowMessage(ring))
  BY <1>a, ConstantFacts DEF TypeOK
<1> DEFINE Goal == FramesInOrder(ring, published, vring, shown, toViewer, window)'
<1>1. ASSUME Compose PROVE Goal
  <2>1. /\ PublishLatest(streaming, ring, latest + 1, published, slot, tex, toViewer)
        /\ UNCHANGED <<ring, vring, shown, window>> /\ latest < MaxFrame
    BY <1>1 DEF Compose, viewer
  <2>2. latest + 1 \in Frames /\ published \in 0 .. latest + 1
    BY <1>b, <2>1, FrameRingAssumption DEF Frames
  <2>3. FramesInOrder(ring, published', vring, shown, toViewer', window)
    BY <1>a, <1>b, <2>1, <2>2, FramesPublish
  <2> QED BY <2>1, <2>3
<1>2. ASSUME ComposeInNewRing PROVE Goal
  <2>1. /\ PublishLatest(streaming, ring + 1, latest + 1, 0, FreshSlots, WithFreshRing, AfterReset)
        /\ ring' = ring + 1 /\ UNCHANGED <<vring, shown, window>> /\ latest < MaxFrame
    BY <1>2 DEF ComposeInNewRing, viewer
  <2>2. latest + 1 \in Frames /\ 0 \in 0 .. latest + 1
    BY <1>b, <2>1, FrameRingAssumption DEF Frames
  <2>3. FramesInOrder(ring, published, vring, shown, AfterReset, window)
    BY <1>a, <1>b, FramesReset DEF AfterReset, Queue
  <2>4. AfterReset \in Seq(ViewerMessage(ring))
    <3>1. StreamReset \in ViewerMessage(ring)
      BY DEF ViewerMessage
    <3> QED BY <1>b, <3>1, AppendProperties DEF AfterReset, Queue
  <2>5. FramesInOrder(ring + 1, 0, vring, shown, AfterReset, window)
    BY <1>b, <2>3, <2>4, FramesFreshRing
  <2>6. /\ vring \in 0 .. ring + 1 /\ ring + 1 \in Nat
        /\ AfterReset \in Seq(ViewerMessage(ring + 1))
        /\ window \in Seq(WindowMessage(ring + 1))
    BY <1>a, <1>b, FreshRingType, MessagesGrow
  <2>7. FramesInOrder(ring + 1, published', vring, shown, toViewer', window)
    BY <1>b, <2>1, <2>2, <2>5, <2>6, FramesPublish
  <2> QED BY <2>1, <2>7
<1>3. ASSUME ViewerReady PROVE Goal
  <2>1. /\ PublishLatest(TRUE, ring, latest, published, slot, tex, toViewer)
        /\ UNCHANGED <<ring, vring, shown, window>>
    BY <1>3 DEF ViewerReady, viewer
  <2>2. FramesInOrder(ring, published', vring, shown, toViewer', window)
    BY <1>a, <1>b, <2>1, FramesPublish
  <2> QED BY <2>1, <2>2
<1>4. ASSUME FrameReleased PROVE Goal
  <2>1. UNCHANGED <<ring, vring, shown, window>>
    BY <1>4 DEF FrameReleased, viewer
  <2>2. CASE ReleaseMatches(Head(tasks))
    <3>1. PublishLatest(streaming, ring, latest, published, FreedSlots(Head(tasks)), tex, toViewer)
      BY <1>4, <2>2 DEF FrameReleased
    <3>2. FramesInOrder(ring, published', vring, shown, toViewer', window)
      BY <1>a, <1>b, <3>1, FramesPublish
    <3> QED BY <2>1, <3>2
  <2>3. CASE ~ReleaseMatches(Head(tasks))
    BY <1>4, <1>a, <2>1, <2>3 DEF FrameReleased
  <2> QED BY <2>2, <2>3
<1>5. ASSUME ViewerDisconnected PROVE Goal
  <2>1. UNCHANGED <<vring, shown, window>>
    BY <1>5 DEF ViewerDisconnected, viewer
  <2>2. CASE ring = 0
    BY <1>5, <1>a, <2>1, <2>2 DEF ViewerDisconnected
  <2>3. CASE ring # 0
    <3>1. ring' = ring + 1 /\ published' = 0 /\ toViewer' = AfterReset
      BY <1>5, <2>3 DEF ViewerDisconnected
    <3>2. FramesInOrder(ring, published, vring, shown, AfterReset, window)
      BY <1>a, <1>b, FramesReset DEF AfterReset, Queue
    <3>3. AfterReset \in Seq(ViewerMessage(ring))
      <4>1. StreamReset \in ViewerMessage(ring)
        BY DEF ViewerMessage
      <4> QED BY <1>b, <4>1, AppendProperties DEF AfterReset, Queue
    <3>4. FramesInOrder(ring + 1, 0, vring, shown, AfterReset, window)
      BY <1>b, <3>2, <3>3, FramesFreshRing
    <3> QED BY <2>1, <3>1, <3>4
  <2> QED BY <2>2, <2>3
<1>6. ASSUME OfferRing PROVE Goal
  <2>1. /\ UNCHANGED <<ring, published, vring, shown, toViewer>>
        /\ window' = Append(window, RingMessage(ring)) /\ ring \in 0 .. ring
    BY <1>6, <1>b DEF OfferRing, pipeline
  <2>2. FramesInOrder(ring, published, vring, shown, toViewer, window')
    BY <1>a, <1>b, <2>1, FramesOffer
  <2> QED BY <2>1, <2>2
<1>7. ASSUME UNCHANGED <<ring, published, vring, shown, window>>, toViewer' \in {toViewer, <<>>}
      PROVE  Goal
  BY <1>7, <1>a, FramesDrop
<1>8. ASSUME HandshakeAborted \/ HandshakeRead \/ SessionLost \/ ServerRead \/ LinkBreaks
      PROVE  Goal
  BY <1>7, <1>8
  DEF HandshakeAborted, HandshakeRead, SessionLost, ServerRead, LinkBreaks, EndSession,
      pipeline, viewer
<1>9. ASSUME ClientRead PROVE Goal
  <2>1. UNCHANGED <<ring, published, vring, shown>> /\ toViewer # <<>>
    BY <1>9 DEF ClientRead, pipeline
  <2>2. CASE Head(toViewer).type = "StreamReset"
    BY <1>7, <1>9, <2>1, <2>2 DEF ClientRead
  <2>3. CASE Head(toViewer).type # "StreamReset"
    <3>1. Head(toViewer) \in Announcement(ring)
      BY <1>b, <2>1, <2>3, HeadTailProperties DEF ViewerMessage, StreamReset
    <3>2. window' = Append(window, Head(toViewer)) /\ toViewer' = Tail(toViewer)
      BY <1>9, <2>3 DEF ClientRead
    <3>3. FramesInOrder(ring, published, vring, shown, Tail(toViewer), Append(window, Head(toViewer)))
      BY <1>a, <1>b, <2>1, <3>1, FramesClientRead
    <3> QED BY <2>1, <3>2, <3>3
  <2> QED BY <2>2, <2>3
<1>10. ASSUME RingOpened \/ RingRefused PROVE Goal
  <2>1. /\ UNCHANGED <<ring, published>> /\ shown' = 0
        /\ window # <<>> /\ window' = Tail(window) /\ toViewer' \in {toViewer, <<>>}
    BY <1>10 DEF RingOpened, RingRefused, RingAtHead, pipeline
  <2>2. FramesInOrder(ring, published, vring', 0, toViewer, Tail(window))
    BY <1>a, <1>b, <2>1, FramesTail
  <2>3. FramesInOrder(ring, published, vring', 0, <<>>, Tail(window))
    BY <2>2, FramesDrop
  <2> QED BY <2>1, <2>2, <2>3
<1>11. ASSUME AcquireFrame PROVE Goal
  BY <1>7, <1>11 DEF AcquireFrame, viewer
<1>12. ASSUME ShowFrame PROVE Goal
  <2>1. UNCHANGED <<ring, published, vring, toViewer>> /\ window' = Tail(window)
    BY <1>12 DEF ShowFrame
  <2>2. FramesInOrder(ring, published, vring, shown', toViewer, Tail(window))
    BY <1>12, FramesShow
  <2> QED BY <2>1, <2>2
<1>13. ASSUME AcquireTimesOut \/ CopyTimesOut PROVE Goal
  <2>1. /\ UNCHANGED <<ring, published, vring, shown, toViewer>>
        /\ window # <<>> /\ window' = Tail(window)
    BY <1>13 DEF AcquireTimesOut, CopyTimesOut, SpendFrame, FrameAtHead, pipeline
  <2>2. FramesInOrder(ring, published, vring, shown, toViewer, Tail(window))
    BY <1>a, <1>b, <2>1, FramesTail
  <2> QED BY <2>1, <2>2
<1>14. ASSUME ViewerExits PROVE Goal
  <2>1. /\ UNCHANGED <<ring, published>> /\ vring' = 0 /\ shown' = 0 /\ window' = <<>>
        /\ toViewer' \in {toViewer, <<>>}
    BY <1>14 DEF ViewerExits
  <2>2. FrameReadys(<<>>) = {}
    BY DEF FrameReadys
  <2>3. \A i \in FrameReadys(toViewer) : toViewer[i].ring # 0
    BY <1>b, AnnouncementTypes
  <2>4. FramesInOrder(ring, published, 0, 0, toViewer, <<>>)
    BY <1>a, <1>b, <2>2, <2>3
       DEF FramesInOrder, FramesAscend, FramesNewer, NewerThan, FramesPublished
  <2>5. FramesInOrder(ring, published, 0, 0, <<>>, <<>>)
    BY <2>4, FramesDrop
  <2> QED BY <2>1, <2>4, <2>5
<1>15. ASSUME UNCHANGED vars PROVE Goal
  BY <1>7, <1>15 DEF vars, pipeline, viewer
<1>16. Goal
  BY <1>1, <1>2, <1>3, <1>4, <1>5, <1>6, <1>8, <1>9, <1>10, <1>11, <1>12, <1>13, <1>14, <1>15
  DEF Next, UIStep, ServerStep, WindowStep, Environment
<1> QED BY <1>a, <1>16 DEF FrameInv

\* Releasing a slot, or making a ring, never announces to the viewer the
\* frame it shows or an older one of the ring it has open.
THEOREM NoFrameFeedsBack == Spec => []NoFeedbackLoop
<1>1. Init => FrameInv
  BY InitFrameInv
<1>2. FrameInv /\ [Next]_vars => FrameInv'
  BY StepFrameInv
<1>3. FrameInv => NoFeedbackLoop
  BY FrameInvImplies
<1> QED BY <1>1, <1>2, <1>3, PTL DEF Spec

-----------------------------------------------------------------------------
(***************************************************************************)
(* The frame at the head of the window queue is of the ring that is open.  *)
(* When a message of that queue is reached, the ring open then is the one  *)
(* of the last definition before it, or the present one when there is      *)
(* none; in the end it is the ring offered in this session (or none, after *)
(* a refusal).  What is on the pipe names the offered ring too, unless a   *)
(* reset comes first or the handshake tainted it; and the handshake        *)
(* offered the pipeline's ring, unless tainted.                            *)
(***************************************************************************)
IsRing(m) == m.type = "Ring"
IsReset(m) == m.type = "StreamReset"

LastRing(win, j, i) ==
  /\ j < i /\ IsRing(win[j])
  /\ \A k \in DOMAIN win : j < k /\ k < i => ~IsRing(win[k])
NoRingBefore(win, i) == \A j \in DOMAIN win : j < i => ~IsRing(win[j])

\* The ring open once the messages before the i-th are handled is in S.
OpenIsIn(v, win, i, S) ==
  /\ NoRingBefore(win, i) => v \in S
  /\ \A j \in DOMAIN win : LastRing(win, j, i) => win[j].ring \in S

WindowAgrees(v, win, sr, bad) ==
  /\ OpenIsIn(v, win, Len(win) + 1, {sr, 0})
  /\ \A i \in FrameReadys(win) : OpenIsIn(v, win, i, {win[i].ring, 0} \union bad)

ResetBefore(out, i) == \E j \in DOMAIN out : j < i /\ IsReset(out[j])
PipeAgrees(R, sr, bad, out) ==
  sr \notin bad =>
    /\ R = sr \/ ResetBefore(out, Len(out) + 1)
    /\ \A i \in FrameReadys(out) : out[i].ring = sr \/ ResetBefore(out, i)

RingsAgreeAt(R, v, win, sr, link, ph, out, bad) ==
  /\ WindowAgrees(v, win, sr, bad)
  /\ link /\ ph = "running" => PipeAgrees(R, sr, bad, out)
  /\ ph = "offered" => R = sr \/ sr \in bad
RingsAgree == RingsAgreeAt(ring, vring, window, sring, linkUp, phase, toViewer, tainted)

OpenInv == IInv /\ RingsAgree

LEMMA OpenInvImplies == OpenInv => FrameOfOpenRing
<1> SUFFICES ASSUME OpenInv, FrameAtHead PROVE vring \in {Head(window).ring, 0} \union tainted
  BY DEF FrameOfOpenRing
<1>1. window \in Seq(WindowMessage(ring)) /\ window # <<>>
  BY DEF OpenInv, IInv, TypeOK, FrameAtHead
<1>2. 1 \in DOMAIN window /\ Head(window) = window[1] /\ \A j \in DOMAIN window : ~(j < 1)
  BY <1>1, TailIndices, LenProperties
<1>3. 1 \in FrameReadys(window) /\ NoRingBefore(window, 1)
  BY <1>2 DEF FrameReadys, FrameAtHead, NoRingBefore
<1>4. OpenIsIn(vring, window, 1, {window[1].ring, 0} \union tainted)
  BY <1>3 DEF OpenInv, RingsAgree, RingsAgreeAt, WindowAgrees
<1> QED BY <1>2, <1>3, <1>4 DEF OpenIsIn

\* A message put at the end of the window queue.
LEMMA OpenAppend ==
  ASSUME NEW N, NEW v, NEW win \in Seq(N), NEW m \in N, NEW S, NEW i \in 1 .. Len(win) + 1,
         OpenIsIn(v, win, i, S)
  PROVE  OpenIsIn(v, Append(win, m), i, S)
<1> DEFINE q == Append(win, m)
           n == Len(win) + 1
<1>1. /\ DOMAIN q = DOMAIN win \union {n} /\ n \in Nat
      /\ \A j \in DOMAIN win : q[j] = win[j] /\ j \in Nat /\ j < n
  BY AppendIndices
<1>2. i \in Nat /\ i <= n
  BY LenProperties
<1> HIDE DEF q, n
<1>3. ~(n < i)
  BY <1>1, <1>2
<1>4. NoRingBefore(q, i) => NoRingBefore(win, i)
  BY <1>1 DEF NoRingBefore
<1>5. \A j \in DOMAIN q : LastRing(q, j, i) => j \in DOMAIN win /\ LastRing(win, j, i) /\ q[j] = win[j]
  BY <1>1, <1>3 DEF LastRing
<1>6. OpenIsIn(v, q, i, S)
  BY <1>4, <1>5 DEF OpenIsIn
<1> QED BY <1>6 DEF q

LEMMA OpenAppendEnd ==
  ASSUME NEW N, NEW v, NEW win \in Seq(N), NEW m \in N, NEW S,
         IF IsRing(m) THEN m.ring \in S ELSE OpenIsIn(v, win, Len(win) + 1, S)
  PROVE  OpenIsIn(v, Append(win, m), Len(Append(win, m)) + 1, S)
<1> DEFINE q == Append(win, m)
           n == Len(win) + 1
           e == Len(q) + 1
<1>1. /\ DOMAIN q = DOMAIN win \union {n} /\ n \in Nat /\ q[n] = m
      /\ \A j \in DOMAIN win : q[j] = win[j] /\ j \in Nat /\ j < n
  BY AppendIndices
<1>2. e = n + 1
  BY AppendProperties, LenProperties
<1>3. IF IsRing(m) THEN m.ring \in S ELSE OpenIsIn(v, win, n, S)
  OBVIOUS
<1> HIDE DEF q, n, e
<1>4. n < e /\ n \in DOMAIN q /\ \A j \in DOMAIN win : j < e /\ j < n
  BY <1>1, <1>2
<1>5. CASE IsRing(m)
  <2>1. ~NoRingBefore(q, e)
    BY <1>1, <1>4, <1>5 DEF NoRingBefore
  <2>2. \A j \in DOMAIN q : LastRing(q, j, e) => j = n
    BY <1>1, <1>4, <1>5 DEF LastRing
  <2> QED BY <1>1, <1>3, <1>5, <2>1, <2>2 DEF OpenIsIn, q, e
<1>6. CASE ~IsRing(m)
  <2>1. NoRingBefore(q, e) => NoRingBefore(win, n)
    BY <1>1, <1>4 DEF NoRingBefore
  <2>2. \A j \in DOMAIN q : LastRing(q, j, e) => j \in DOMAIN win /\ LastRing(win, j, n) /\ q[j] = win[j]
    BY <1>1, <1>4, <1>6 DEF LastRing
  <2> QED BY <1>3, <1>6, <2>1, <2>2 DEF OpenIsIn, q, e
<1> QED BY <1>5, <1>6

\* The head of the window queue handled: what is open is then its ring, if
\* it defines one, and may be closed.
LEMMA OpenTail ==
  ASSUME NEW N, NEW v, NEW win \in Seq(N), win # <<>>, NEW S, NEW i \in Nat, i >= 1,
         OpenIsIn(v, win, i + 1, S),
         NEW u, IF IsRing(Head(win)) THEN u = Head(win).ring \/ u \in S ELSE u = v
  PROVE  OpenIsIn(u, Tail(win), i, S)
<1> DEFINE q == Tail(win)
           m == Head(win)
           e == i + 1
<1>1. /\ 1 \in DOMAIN win /\ m = win[1] /\ Len(win) \in Nat /\ DOMAIN win = 1 .. Len(win)
      /\ \A j \in DOMAIN q : j \in Nat /\ j >= 1 /\ j + 1 \in DOMAIN win /\ q[j] = win[j + 1]
  BY TailIndices, LenProperties
<1>2. \A k \in DOMAIN win : k = 1 \/ (k - 1 \in DOMAIN q /\ k \in Nat)
  BY <1>1, HeadTailProperties, LenProperties
<1>3. OpenIsIn(v, win, e, S) /\ 1 < e /\ e \in Nat /\ e = i + 1
  OBVIOUS
<1> HIDE DEF q, m, e
<1>4. \A k \in DOMAIN win : k # 1 => k - 1 \in DOMAIN q /\ q[k - 1] = win[k]
  <2> SUFFICES ASSUME NEW k \in DOMAIN win, k # 1 PROVE k - 1 \in DOMAIN q /\ q[k - 1] = win[k]
    OBVIOUS
  <2>1. k - 1 \in DOMAIN q /\ k \in Nat
    BY <1>2
  <2>2. q[k - 1] = win[(k - 1) + 1] /\ (k - 1) + 1 = k
    BY <1>1, <2>1
  <2> QED BY <2>1, <2>2
<1>5. ASSUME NEW j \in DOMAIN q, LastRing(q, j, i) PROVE q[j].ring \in S
  <2>1. j \in Nat /\ j >= 1 /\ j + 1 \in DOMAIN win /\ q[j] = win[j + 1]
    BY <1>1
  <2>2. LastRing(win, j + 1, e)
    <3>1. j + 1 < e /\ IsRing(win[j + 1])
      BY <1>3, <1>5, <2>1 DEF LastRing
    <3>2. ASSUME NEW k \in DOMAIN win, j + 1 < k, k < e PROVE ~IsRing(win[k])
      <4>1. k # 1 /\ k \in Nat
        BY <1>1, <2>1, <3>2
      <4>2. k - 1 \in DOMAIN q /\ q[k - 1] = win[k]
        BY <1>4, <4>1
      <4>3. j < k - 1 /\ k - 1 < i
        BY <1>3, <2>1, <3>2, <4>1
      <4> QED BY <1>5, <4>2, <4>3 DEF LastRing
    <3> QED BY <3>1, <3>2 DEF LastRing
  <2> QED BY <1>3, <2>1, <2>2 DEF OpenIsIn
<1>6. ASSUME NoRingBefore(q, i) PROVE u \in S
  <2>1. ASSUME NEW k \in DOMAIN win, k # 1, k < e PROVE ~IsRing(win[k])
    <3>1. k - 1 \in DOMAIN q /\ q[k - 1] = win[k] /\ k - 1 < i
      BY <1>1, <1>3, <1>4, <2>1
    <3> QED BY <1>6, <3>1 DEF NoRingBefore
  <2>2. CASE IsRing(m)
    <3>1. LastRing(win, 1, e)
      BY <1>1, <1>3, <2>1, <2>2 DEF LastRing
    <3>2. m.ring \in S
      BY <1>1, <1>3, <3>1 DEF OpenIsIn
    <3> QED BY <2>2, <3>2 DEF m
  <2>3. CASE ~IsRing(m)
    <3>1. NoRingBefore(win, e)
      BY <1>1, <2>1, <2>3 DEF NoRingBefore
    <3> QED BY <1>3, <2>3, <3>1 DEF OpenIsIn, m
  <2> QED BY <2>2, <2>3
<1> QED BY <1>5, <1>6 DEF OpenIsIn, q

\* The window queue loses its head, the viewer opening the ring it defines
\* or closing the one it has; and a frame or a ring definition arrives.
LEMMA WindowTailAgrees ==
  ASSUME NEW R \in Nat, NEW v, NEW win \in Seq(WindowMessage(R)), win # <<>>, NEW sr, NEW bad,
         WindowAgrees(v, win, sr, bad),
         NEW u, IF IsRing(Head(win)) THEN u = Head(win).ring \/ u = 0 ELSE u = v
  PROVE  WindowAgrees(u, Tail(win), sr, bad)
<1> DEFINE q == Tail(win)
<1>1. /\ q \in Seq(WindowMessage(R)) /\ Len(q) + 1 \in Nat /\ Len(q) + 1 >= 1
      /\ (Len(q) + 1) + 1 = Len(win) + 1
  BY HeadTailProperties, LenProperties
<1>2. OpenIsIn(v, win, (Len(q) + 1) + 1, {sr, 0})
  BY <1>1 DEF WindowAgrees
<1>3. OpenIsIn(u, q, Len(q) + 1, {sr, 0})
  BY <1>1, <1>2, OpenTail
<1>4. ASSUME NEW i \in FrameReadys(q) PROVE OpenIsIn(u, q, i, {q[i].ring, 0} \union bad)
  <2>1. i \in Nat /\ i >= 1 /\ i + 1 \in FrameReadys(win) /\ q[i] = win[i + 1]
    BY TailIndices DEF FrameReadys
  <2>2. OpenIsIn(v, win, i + 1, {q[i].ring, 0} \union bad)
    BY <2>1 DEF WindowAgrees
  <2> QED BY <2>1, <2>2, OpenTail
<1> QED BY <1>3, <1>4 DEF WindowAgrees, q

LEMMA WindowFrameAgrees ==
  ASSUME NEW R \in Nat, NEW v, NEW win \in Seq(WindowMessage(R)), NEW m \in Announcement(R),
         NEW sr, NEW bad, WindowAgrees(v, win, sr, bad), m.ring = sr \/ sr \in bad
  PROVE  WindowAgrees(v, Append(win, m), sr, bad)
<1> DEFINE q == Append(win, m)
           n == Len(win) + 1
<1>1. m \in WindowMessage(R) /\ ~IsRing(m) /\ m.type = "FrameReady"
  BY DEF WindowMessage, Announcement, IsRing
<1>2. /\ DOMAIN q = DOMAIN win \union {n} /\ n \in Nat /\ q[n] = m
      /\ DOMAIN win = 1 .. Len(win) /\ n \in 1 .. Len(win) + 1
      /\ \A i \in DOMAIN win : q[i] = win[i] /\ i \in 1 .. Len(win) + 1
  BY <1>1, AppendIndices
<1>3. OpenIsIn(v, win, n, {sr, 0})
  BY DEF WindowAgrees
<1>4. OpenIsIn(v, q, Len(q) + 1, {sr, 0})
  BY <1>1, <1>3, OpenAppendEnd
<1>5. ASSUME NEW i \in FrameReadys(q) PROVE OpenIsIn(v, q, i, {q[i].ring, 0} \union bad)
  <2>1. CASE i = n
    <3>1. OpenIsIn(v, q, n, {sr, 0})
      BY <1>1, <1>2, <1>3, OpenAppend
    <3>2. {sr, 0} \subseteq {q[n].ring, 0} \union bad
      BY <1>2
    <3> QED BY <2>1, <3>1, <3>2 DEF OpenIsIn
  <2>2. CASE i # n
    <3>1. i \in FrameReadys(win) /\ q[i] = win[i] /\ i \in 1 .. Len(win) + 1
      BY <1>2, <2>2 DEF FrameReadys
    <3>2. OpenIsIn(v, win, i, {q[i].ring, 0} \union bad)
      BY <3>1 DEF WindowAgrees
    <3> QED BY <1>1, <3>1, <3>2, OpenAppend
  <2> QED BY <2>1, <2>2
<1> QED BY <1>4, <1>5 DEF WindowAgrees, q

LEMMA WindowRingAgrees ==
  ASSUME NEW R \in Nat, NEW v, NEW win \in Seq(WindowMessage(R)), NEW r \in 0 .. R,
         NEW sr, NEW bad, WindowAgrees(v, win, sr, bad)
  PROVE  WindowAgrees(v, Append(win, RingMessage(r)), r, bad)
<1> DEFINE m == RingMessage(r)
           q == Append(win, m)
           n == Len(win) + 1
<1>1. m \in WindowMessage(R) /\ IsRing(m) /\ m.type # "FrameReady" /\ m.ring = r
  BY DEF WindowMessage, RingMessage, IsRing
<1> HIDE DEF m
<1>2. /\ DOMAIN q = DOMAIN win \union {n} /\ n \in Nat /\ q[n] = m
      /\ DOMAIN win = 1 .. Len(win)
      /\ \A i \in DOMAIN win : q[i] = win[i] /\ i \in 1 .. Len(win) + 1
  BY <1>1, AppendIndices
<1>3. OpenIsIn(v, q, Len(q) + 1, {r, 0})
  BY <1>1, OpenAppendEnd
<1>4. ASSUME NEW i \in FrameReadys(q) PROVE OpenIsIn(v, q, i, {q[i].ring, 0} \union bad)
  <2>1. i \in FrameReadys(win) /\ q[i] = win[i] /\ i \in 1 .. Len(win) + 1
    BY <1>1, <1>2 DEF FrameReadys
  <2>2. OpenIsIn(v, win, i, {q[i].ring, 0} \union bad)
    BY <2>1 DEF WindowAgrees
  <2> QED BY <1>1, <2>1, <2>2, OpenAppend
<1> QED BY <1>3, <1>4 DEF WindowAgrees, q, m

\* More tainted rings demand less.
LEMMA TaintAgrees ==
  ASSUME NEW v, NEW win, NEW sr, NEW bad, NEW worse, bad \subseteq worse,
         WindowAgrees(v, win, sr, bad)
  PROVE  WindowAgrees(v, win, sr, worse)
<1>1. \A i : {win[i].ring, 0} \union bad \subseteq {win[i].ring, 0} \union worse
  OBVIOUS
<1> QED BY <1>1 DEF WindowAgrees, OpenIsIn

\* The pipe: its head read, a reset put behind a replaced ring, a frame of
\* the newest ring.
LEMMA PipeTailAgrees ==
  ASSUME NEW R \in Nat, NEW N, NEW out \in Seq(ViewerMessage(R)), out # <<>>, ~IsReset(Head(out)),
         NEW sr, NEW bad, PipeAgrees(N, sr, bad, out)
  PROVE  PipeAgrees(N, sr, bad, Tail(out))
<1> DEFINE q == Tail(out)
           e == Len(q) + 1
           f == Len(out) + 1
<1>1. /\ 1 \in DOMAIN out /\ Head(out) = out[1] /\ DOMAIN out = 1 .. Len(out)
      /\ \A i \in DOMAIN q : i \in Nat /\ i >= 1 /\ i + 1 \in DOMAIN out /\ q[i] = out[i + 1]
  BY TailIndices, LenProperties
<1>2. f = e + 1 /\ e \in Nat
  BY HeadTailProperties, LenProperties
<1>3. \A k \in DOMAIN out : k # 1 => k \in Nat /\ k - 1 \in DOMAIN q
  BY <1>1, HeadTailProperties, LenProperties
<1> HIDE DEF q, e, f
<1>4. ASSUME NEW i \in Nat, ResetBefore(out, i + 1) PROVE ResetBefore(q, i)
  <2>1. PICK k \in DOMAIN out : k < i + 1 /\ IsReset(out[k])
    BY <1>4 DEF ResetBefore
  <2>2. k # 1
    BY <1>1, <2>1
  <2>3. k - 1 \in DOMAIN q /\ k \in Nat
    BY <1>3, <2>2
  <2>4. q[k - 1] = out[(k - 1) + 1] /\ (k - 1) + 1 = k /\ k - 1 < i
    BY <1>1, <2>1, <2>3
  <2> QED BY <2>1, <2>3, <2>4 DEF ResetBefore
<1>5. \A i \in FrameReadys(q) : i \in Nat /\ i + 1 \in FrameReadys(out) /\ q[i] = out[i + 1]
  BY <1>1 DEF FrameReadys
<1>6. sr \notin bad => N = sr \/ ResetBefore(q, e)
  <2>1. sr \notin bad => N = sr \/ ResetBefore(out, f)
    BY DEF PipeAgrees, f
  <2> QED BY <1>2, <1>4, <2>1
<1>7. sr \notin bad => \A i \in FrameReadys(q) : q[i].ring = sr \/ ResetBefore(q, i)
  BY <1>4, <1>5 DEF PipeAgrees
<1> QED BY <1>6, <1>7 DEF PipeAgrees, q, e

LEMMA PipeQueueAgrees ==
  ASSUME NEW R \in Nat, NEW N, NEW M, NEW out \in Seq(ViewerMessage(R)), NEW m \in ViewerMessage(R),
         NEW sr, NEW bad, PipeAgrees(N, sr, bad, out),
         IsReset(m) \/ (N = M /\ m.ring = N)
  PROVE  PipeAgrees(M, sr, bad, Append(out, m))
<1> DEFINE q == Append(out, m)
           n == Len(out) + 1
           e == Len(q) + 1
<1>1. /\ DOMAIN q = DOMAIN out \union {n} /\ n \in Nat /\ q[n] = m
      /\ \A i \in DOMAIN out : q[i] = out[i] /\ i \in Nat /\ i < n
  BY AppendIndices
<1>2. e = n + 1
  BY AppendProperties, LenProperties
<1>3. PipeAgrees(N, sr, bad, out) /\ (sr \notin bad => N = sr \/ ResetBefore(out, n))
  BY DEF PipeAgrees
<1> HIDE DEF q, n, e
<1>4. \A i : ResetBefore(out, i) => ResetBefore(q, i)
  BY <1>1 DEF ResetBefore
<1>5. ResetBefore(q, n) => ResetBefore(q, e)
  <2> SUFFICES ASSUME ResetBefore(q, n) PROVE ResetBefore(q, e)
    OBVIOUS
  <2>1. PICK k \in DOMAIN q : k < n /\ IsReset(q[k])
    BY DEF ResetBefore
  <2>2. k < e
    BY <1>1, <1>2, <2>1
  <2> QED BY <2>1, <2>2 DEF ResetBefore
<1>6. IsReset(m) => ResetBefore(q, e)
  BY <1>1, <1>2 DEF ResetBefore
<1>7. sr \notin bad => M = sr \/ ResetBefore(q, e)
  BY <1>3, <1>4, <1>5, <1>6
<1>8. ASSUME sr \notin bad, NEW i \in FrameReadys(q) PROVE q[i].ring = sr \/ ResetBefore(q, i)
  <2>1. CASE i = n
    <3>1. ~IsReset(m)
      BY <1>1, <1>8, <2>1 DEF FrameReadys, IsReset
    <3> QED BY <1>1, <1>3, <1>4, <1>8, <2>1, <3>1
  <2>2. CASE i # n
    <3>1. i \in FrameReadys(out) /\ q[i] = out[i]
      BY <1>1, <2>2 DEF FrameReadys
    <3> QED BY <1>3, <1>4, <1>8, <3>1 DEF PipeAgrees
  <2> QED BY <2>1, <2>2
<1> QED BY <1>7, <1>8 DEF PipeAgrees, q, e

\* A publication announces a frame of the newest ring or nothing.
LEMMA PublishAgrees ==
  ASSUME NEW R \in Nat, NEW on, NEW frame \in Frames, NEW pub, NEW slots, NEW rings,
         NEW out \in Seq(ViewerMessage(R)), NEW sr, NEW bad, PipeAgrees(R, sr, bad, out),
         PublishLatest(on, R, frame, pub, slots, rings, out)
  PROVE  PipeAgrees(R, sr, bad, toViewer')
<1>1. CASE on /\ R # 0 /\ Unpublished(frame, pub) /\ Target(R, slots, rings) # {}
  <2>1. PICK s \in Target(R, slots, rings) :
          toViewer' = IF phase = "running" THEN Queue(out, FrameReady(R, s, frame)) ELSE out
    BY <1>1 DEF PublishLatest
  <2>2. s \in Slots /\ R \in 1 .. R
    BY <1>1 DEF Target, Acquirable
  <2> DEFINE m == FrameReady(R, s, frame)
  <2>3. m \in ViewerMessage(R) /\ m.ring = R
    BY <2>2 DEF FrameReady, ViewerMessage, Announcement
  <2> HIDE DEF m
  <2>4. PipeAgrees(R, sr, bad, Append(out, m))
    BY <2>3, PipeQueueAgrees
  <2> QED BY <2>1, <2>4 DEF Queue, m
<1>2. CASE ~(on /\ R # 0 /\ Unpublished(frame, pub) /\ Target(R, slots, rings) # {})
  BY <1>2 DEF PublishLatest
<1> QED BY <1>1, <1>2

LEMMA InitOpenInv == Init => OpenInv
<1> SUFFICES ASSUME Init PROVE OpenInv
  OBVIOUS
<1>1. /\ vring = 0 /\ window = <<>> /\ sring = 0 /\ linkUp = FALSE /\ phase = "idle"
      /\ DOMAIN window = {} /\ FrameReadys(window) = {}
  BY DEF Init, FrameReadys
<1>2. WindowAgrees(vring, window, sring, tainted)
  BY <1>1 DEF WindowAgrees, OpenIsIn
<1> QED BY <1>1, <1>2, InitIInv DEF OpenInv, RingsAgree, RingsAgreeAt

\* One step, whichever rings are excused, as long as an offered ring is
\* excused once it is replaced.
LEMMA StepRingsAgree ==
  ASSUME IInv, [Next]_vars, NEW bad, NEW worse, bad \subseteq worse,
         phase = "offered" /\ ring' # ring => sring \in worse,
         RingsAgreeAt(ring, vring, window, sring, linkUp, phase, toViewer, bad)
  PROVE  RingsAgreeAt(ring', vring', window', sring', linkUp', phase', toViewer', worse)
<1> DEFINE Agrees(b) == RingsAgreeAt(ring', vring', window', sring', linkUp', phase', toViewer', b)
<1>a. IInv' /\ TypeOK
  BY StepIInv DEF IInv
<1>b. /\ ring \in Nat /\ ring + 1 \in Nat /\ vring \in 0 .. ring /\ latest \in Frames
      /\ toViewer \in Seq(ViewerMessage(ring)) /\ window \in Seq(WindowMessage(ring))
      /\ latest < MaxFrame => latest + 1 \in Frames
  BY <1>a, FrameRingAssumption DEF TypeOK, Frames
<1>c. /\ WindowAgrees(vring, window, sring, bad)
      /\ linkUp /\ phase = "running" => PipeAgrees(ring, sring, bad, toViewer)
      /\ phase = "offered" => ring = sring \/ sring \in bad
      /\ phase # "running" => toViewer = <<>>
  BY <1>a DEF RingsAgreeAt, IInv
\* More bad rings demand less.
<1>z. Agrees(bad) => Agrees(worse)
  <2>1. WindowAgrees(vring', window', sring', bad) => WindowAgrees(vring', window', sring', worse)
    BY TaintAgrees
  <2>2. sring' \in bad => sring' \in worse
    OBVIOUS
  <2>3. PipeAgrees(ring', sring', bad, toViewer') => PipeAgrees(ring', sring', worse, toViewer')
    BY <2>2 DEF PipeAgrees
  <2> QED BY <2>1, <2>2, <2>3 DEF RingsAgreeAt
\* A ring is made: its reset is queued in a running session, and an offered
\* session is bad from now on.
<1>d. ASSUME ring' = ring + 1, UNCHANGED <<phase, linkUp, sring, vring, window>>,
             linkUp /\ phase = "running" => PipeAgrees(ring', sring, bad, toViewer')
      PROVE  Agrees(worse)
  <2>1. phase = "offered" => sring \in worse
    BY <1>b, <1>d
  <2>2. WindowAgrees(vring, window, sring, worse)
    BY <1>c, TaintAgrees
  <2>3. linkUp /\ phase = "running" => PipeAgrees(ring', sring, worse, toViewer')
    BY <1>d DEF PipeAgrees
  <2> QED BY <1>d, <2>1, <2>2, <2>3 DEF RingsAgreeAt
<1>e. linkUp /\ phase = "running" =>
        /\ PipeAgrees(ring + 1, sring, bad, AfterReset)
        /\ AfterReset \in Seq(ViewerMessage(ring + 1))
  <2>1. StreamReset \in ViewerMessage(ring) /\ IsReset(StreamReset)
    BY DEF ViewerMessage, StreamReset, IsReset
  <2> HIDE DEF StreamReset
  <2>2. linkUp /\ phase = "running" => PipeAgrees(ring + 1, sring, bad, Append(toViewer, StreamReset))
    BY <1>b, <1>c, <2>1, PipeQueueAgrees
  <2> QED BY <1>a, <2>2, FreshRingType DEF AfterReset, Queue
\* The session ends, or the pipe does.
<1>f. ASSUME UNCHANGED <<ring, sring, vring, window>>,
             linkUp' = FALSE \/ phase' = "idle", phase' \in {"idle", phase}
      PROVE  Agrees(bad)
  BY <1>f, <1>c DEF RingsAgreeAt
\* A publication of the ring there is.
<1>g. ASSUME UNCHANGED <<ring, sring, vring, window, linkUp, phase>>,
             NEW on, NEW frame \in Frames, NEW pub, NEW slots,
             PublishLatest(on, ring, frame, pub, slots, tex, toViewer)
      PROVE  Agrees(bad)
  <2>1. linkUp /\ phase = "running" => PipeAgrees(ring, sring, bad, toViewer')
    BY <1>b, <1>c, <1>g, PublishAgrees
  <2> QED BY <1>g, <1>c, <2>1 DEF RingsAgreeAt
\* Nothing the agreement is about changes.
<1>h. ASSUME UNCHANGED <<ring, sring, vring, window, linkUp, phase, toViewer>>
      PROVE  Agrees(bad)
  BY <1>h, <1>c DEF RingsAgreeAt
\* The window thread drops its head.
<1>i. ASSUME UNCHANGED <<ring, sring, phase>>, window # <<>>, window' = Tail(window),
             IF IsRing(Head(window)) THEN vring' \in {Head(window).ring, 0} ELSE vring' = vring,
             (linkUp' = linkUp /\ toViewer' = toViewer) \/ linkUp' = FALSE
      PROVE  Agrees(bad)
  <2>1. WindowAgrees(vring', Tail(window), sring, bad)
    BY <1>b, <1>c, <1>i, WindowTailAgrees
  <2> QED BY <1>i, <1>c, <2>1 DEF RingsAgreeAt
<1>1. ASSUME Compose PROVE Agrees(bad)
  BY <1>1, <1>b, <1>g DEF Compose, server, viewer
<1>2. ASSUME ComposeInNewRing PROVE Agrees(worse)
  <2>1. /\ PublishLatest(streaming, ring + 1, latest + 1, 0, FreshSlots, WithFreshRing, AfterReset)
        /\ ring' = ring + 1 /\ latest < MaxFrame
        /\ UNCHANGED <<phase, linkUp, sring, vring, window>>
    BY <1>2 DEF ComposeInNewRing, viewer
  <2>2. linkUp /\ phase = "running" => PipeAgrees(ring + 1, sring, bad, toViewer')
    BY <1>b, <1>e, <2>1, PublishAgrees
  <2> QED BY <1>d, <2>1, <2>2
<1>3. ASSUME ViewerReady PROVE Agrees(bad)
  BY <1>3, <1>b, <1>g DEF ViewerReady, viewer
<1>4. ASSUME FrameReleased PROVE Agrees(bad)
  <2>1. CASE ReleaseMatches(Head(tasks))
    BY <1>4, <1>b, <1>g, <2>1 DEF FrameReleased, viewer
  <2>2. CASE ~ReleaseMatches(Head(tasks))
    BY <1>4, <1>h, <2>2 DEF FrameReleased, viewer
  <2> QED BY <2>1, <2>2
<1>5. ASSUME ViewerDisconnected PROVE Agrees(worse)
  <2>1. CASE ring = 0
    BY <1>5, <1>h, <1>z, <2>1 DEF ViewerDisconnected, viewer
  <2>2. CASE ring # 0
    BY <1>5, <1>d, <1>e, <2>2 DEF ViewerDisconnected, viewer
  <2> QED BY <2>1, <2>2
<1>6. ASSUME OfferRing PROVE Agrees(bad)
  <2>1. /\ window' = Append(window, RingMessage(ring)) /\ sring' = ring /\ phase' = "offered"
        /\ UNCHANGED <<ring, vring>>
    BY <1>6 DEF OfferRing, pipeline
  <2>2. WindowAgrees(vring, window', ring, bad)
    <3>1. ring \in 0 .. ring
      BY <1>b
    <3> QED BY <1>b, <1>c, <2>1, <3>1, WindowRingAgrees
  <2> QED BY <2>1, <2>2 DEF RingsAgreeAt
<1>7. ASSUME HandshakeAborted \/ SessionLost PROVE Agrees(bad)
  BY <1>7, <1>f DEF HandshakeAborted, SessionLost, EndSession, pipeline
<1>8. ASSUME HandshakeRead PROVE Agrees(bad)
  <2>1. UNCHANGED <<ring, sring, window, vring>> /\ phase = "offered"
    BY <1>8 DEF HandshakeRead, pipeline
  <2>2. CASE Head(toServer).type = "GenerationAccepted"
    <3>1. phase' = "running" /\ UNCHANGED <<toViewer, linkUp>> /\ toViewer = <<>>
      BY <1>8, <1>c, <2>1, <2>2 DEF HandshakeRead
    <3>2. FrameReadys(<<>>) = {}
      BY DEF FrameReadys
    <3>3. PipeAgrees(ring, sring, bad, <<>>)
      BY <1>c, <2>1, <3>2 DEF PipeAgrees
    <3> QED BY <1>c, <2>1, <3>1, <3>3 DEF RingsAgreeAt
  <2>3. CASE Head(toServer).type # "GenerationAccepted"
    BY <1>8, <1>f, <2>1, <2>3 DEF HandshakeRead, EndSession
  <2> QED BY <2>2, <2>3
<1>9. ASSUME ServerRead PROVE Agrees(bad)
  BY <1>9, <1>h DEF ServerRead, pipeline, viewer
<1>10. ASSUME ClientRead PROVE Agrees(bad)
  <2>1. /\ UNCHANGED <<ring, sring, vring, phase>> /\ toViewer # <<>>
        /\ linkUp /\ phase = "running"
    BY <1>10 DEF ClientRead, pipeline, server
  <2>2. CASE Head(toViewer).type = "StreamReset"
    BY <1>10, <1>f, <2>1, <2>2 DEF ClientRead
  <2>3. CASE Head(toViewer).type # "StreamReset"
    <3> DEFINE m == Head(toViewer)
    <3>1. m \in Announcement(ring) /\ m.type = "FrameReady" /\ ~IsReset(m)
      BY <1>b, <2>1, <2>3, HeadTailProperties DEF ViewerMessage, StreamReset, Announcement, IsReset
    <3>2. 1 \in FrameReadys(toViewer) /\ m = toViewer[1] /\ ~ResetBefore(toViewer, 1)
      <4>1. 1 \in DOMAIN toViewer /\ m = toViewer[1] /\ \A k \in DOMAIN toViewer : ~(k < 1)
        BY <1>b, <2>1, TailIndices, LenProperties
      <4> QED BY <3>1, <4>1 DEF FrameReadys, ResetBefore
    <3>3. m.ring = sring \/ sring \in bad
      BY <1>c, <2>1, <3>2 DEF PipeAgrees
    <3>4. window' = Append(window, m) /\ toViewer' = Tail(toViewer) /\ linkUp' = linkUp
      BY <1>10, <2>3 DEF ClientRead
    <3> HIDE DEF m
    <3>5. WindowAgrees(vring, window', sring, bad)
      BY <1>b, <1>c, <3>1, <3>3, <3>4, WindowFrameAgrees
    <3>6. PipeAgrees(ring, sring, bad, toViewer')
      BY <1>b, <1>c, <2>1, <3>1, <3>4, PipeTailAgrees DEF m
    <3> QED BY <2>1, <3>4, <3>5, <3>6 DEF RingsAgreeAt
  <2> QED BY <2>2, <2>3
<1>11. ASSUME LinkBreaks PROVE Agrees(bad)
  BY <1>11, <1>f DEF LinkBreaks, pipeline, server
<1>12. ASSUME RingOpened PROVE Agrees(bad)
  BY <1>12, <1>i DEF RingOpened, RingAtHead, IsRing, pipeline
<1>13. ASSUME RingRefused PROVE Agrees(bad)
  BY <1>13, <1>i DEF RingRefused, RingAtHead, IsRing, pipeline, server
<1>14. ASSUME AcquireFrame PROVE Agrees(bad)
  BY <1>14, <1>h DEF AcquireFrame, server, viewer
<1>15. ASSUME ShowFrame PROVE Agrees(bad)
  BY <1>15, <1>i DEF ShowFrame, FrameAtHead, IsRing
<1>16. ASSUME AcquireTimesOut \/ CopyTimesOut PROVE Agrees(bad)
  BY <1>16, <1>i DEF AcquireTimesOut, CopyTimesOut, SpendFrame, FrameAtHead, IsRing, pipeline, server
<1>17. ASSUME ViewerExits PROVE Agrees(bad)
  <2>1. /\ UNCHANGED <<ring, sring, phase>> /\ linkUp' = FALSE
        /\ window' = <<>> /\ vring' = 0
    BY <1>17 DEF ViewerExits, server
  <2>2. WindowAgrees(0, <<>>, sring, bad)
    BY DEF WindowAgrees, OpenIsIn, FrameReadys
  <2> QED BY <1>c, <2>1, <2>2 DEF RingsAgreeAt
<1>18. ASSUME UNCHANGED vars PROVE Agrees(bad)
  BY <1>18, <1>h DEF vars, pipeline, server, viewer
<1>19. Agrees(bad) \/ Agrees(worse)
  BY <1>1, <1>2, <1>3, <1>4, <1>5, <1>6, <1>7, <1>8, <1>9, <1>10, <1>11, <1>12, <1>13, <1>14,
     <1>15, <1>16, <1>17, <1>18
  DEF Next, UIStep, ServerStep, WindowStep, Environment
<1> QED BY <1>z, <1>19

LEMMA StepOpenInv == OpenInv /\ [Next]_vars => OpenInv'
<1> SUFFICES ASSUME OpenInv, [Next]_vars PROVE OpenInv'
  OBVIOUS
<1>1. tainted \subseteq tainted' /\ (phase = "offered" /\ ring' # ring => sring \in tainted')
  <2>1. CASE ComposeInNewRing \/ ViewerDisconnected
    BY <2>1 DEF ComposeInNewRing, ViewerDisconnected, Tainted
  <2>2. CASE Compose \/ ViewerReady \/ FrameReleased \/ ServerStep \/ ClientRead \/ UNCHANGED vars
    BY <2>2 DEF Compose, ViewerReady, FrameReleased, ServerStep, OfferRing, HandshakeRead, ServerRead,
                SessionLost, ClientRead, vars, pipeline, server
  <2>3. CASE WindowStep \/ HandshakeAborted \/ LinkBreaks \/ RingRefused \/ CopyTimesOut \/ ViewerExits
    BY <2>3 DEF WindowStep, RingOpened, AcquireFrame, ShowFrame, AcquireTimesOut, HandshakeAborted,
                LinkBreaks, RingRefused, CopyTimesOut, SpendFrame, ViewerExits, pipeline, server
  <2> QED BY <2>1, <2>2, <2>3 DEF Next, UIStep, Environment
<1>2. RingsAgree'
  BY <1>1, StepRingsAgree DEF OpenInv, RingsAgree
<1> QED BY <1>2, StepIInv DEF OpenInv

\* The frame the window thread comes to is of the ring the renderer has open,
\* if it has one: the frames of a replacement follow a reset, except in a
\* session whose handshake went wrong.
THEOREM FramesAreOfOpenRing == Spec => []FrameOfOpenRing
<1>1. Init => OpenInv
  BY InitOpenInv
<1>2. OpenInv /\ [Next]_vars => OpenInv'
  BY StepOpenInv
<1>3. OpenInv => FrameOfOpenRing
  BY OpenInvImplies
<1> QED BY <1>1, <1>2, <1>3, PTL DEF Spec

-----------------------------------------------------------------------------
(***************************************************************************)
(* The feed.  The viewer may look into a ring that is not the one it is    *)
(* told of: a ring replaced while it was being offered (tainted).  What it *)
(* finds there was published before, to nobody, into one slot after        *)
(* another, and the announcements it follows name one slot after another   *)
(* too.  So even then the frames it shows ascend.                          *)
(***************************************************************************)

\* The textures of a ring no viewer has looked into: published in the order
\* of the slots, the rest as they were made.
Laid(t) ==
  /\ \A s \in Slots : \/ t[s].key = "key0" /\ t[s].frame = 0
                      \/ t[s].key = "key1" /\ t[s].frame > 0
  /\ \A s, u \in Slots : s < u /\ t[u].key = "key1" =>
       t[s].key = "key1" /\ t[s].frame < t[u].frame
UnusedIsFree(slots, t) == \A s \in Slots : t[s].key = "key0" => slots[s].state = "Available"
Unread(R) == Laid(tex[R]) /\ (R = ring => UnusedIsFree(slot, tex[R]))

\* What of it remains when a viewer has.
SlotsInOrder(t) ==
  \A s, u \in Slots : s < u /\ t[s].frame > 0 /\ t[u].frame > 0 => t[s].frame < t[u].frame
LaidRings == {r \in 1 .. ring : r < ring /\ SlotsInOrder(tex[r])}

LEMMA LaidIsInOrder ==
  ASSUME NEW t, Laid(t)
  PROVE  SlotsInOrder(t)
<1> SUFFICES ASSUME NEW s \in Slots, NEW u \in Slots, s < u, t[s].frame > 0, t[u].frame > 0
             PROVE  t[s].frame < t[u].frame
  BY DEF SlotsInOrder
<1>1. t[u].frame # 0
  OBVIOUS
<1>2. t[u].key = "key1"
  BY <1>1 DEF Laid
<1> QED BY <1>2 DEF Laid

\* Frames in the textures.
TexturesOld(R, pub, new, rings) ==
  /\ \A r \in 1 .. R, s \in Slots :
       rings[r][s].frame <= new /\ (rings[r][s].key # "key0" => rings[r][s].frame > 0)
  /\ R # 0 => \A s \in Slots : rings[R][s].frame <= pub

\* A publication takes the next slot of a ring nobody has looked into.
LEMMA PublishTextures ==
  ASSUME NEW R \in Nat, NEW on, NEW frame \in Frames, NEW pub \in 0 .. frame,
         NEW slots \in SlotsType, NEW rings \in TexturesType(R), NEW out,
         TexturesOld(R, pub, frame, rings),
         PublishLatest(on, R, frame, pub, slots, rings, out)
  PROVE  /\ TexturesOld(R, published', frame, tex')
         /\ \A r \in 1 .. R, s \in Slots :
              r # R \/ rings[r][s].key = "key1" => tex'[r][s] = rings[r][s]
         /\ R # 0 /\ Laid(rings[R]) /\ UnusedIsFree(slots, rings[R]) =>
              Laid(tex'[R]) /\ UnusedIsFree(slot', tex'[R])
<1>0. pub \in Nat /\ frame \in Nat
  BY ConstantFacts
<1>1. CASE on /\ R # 0 /\ Unpublished(frame, pub) /\ Target(R, slots, rings) # {}
  <2>1. PICK s \in Target(R, slots, rings) :
          /\ slot' = [slots EXCEPT ![s] = [state |-> "Published", frame |-> frame]]
          /\ tex' = [rings EXCEPT ![R][s] = [key |-> "key1", frame |-> frame]]
          /\ published' = frame
    BY <1>1 DEF PublishLatest
  <2>2. /\ s \in Slots /\ R \in 1 .. R /\ rings[R][s].key = "key0" /\ frame > pub
        /\ \A t \in Slots : slots[t].state = "Available" /\ rings[R][t].key = "key0" => s <= t
    BY <1>1 DEF Target, Acquirable, Unpublished
  <2> DEFINE new == [key |-> "key1", frame |-> frame]
  <2>3. \A r \in 1 .. R, t \in Slots : tex'[r][t] = IF r = R /\ t = s THEN new ELSE rings[r][t]
    BY <2>1, <2>2 DEF TexturesType
  <2>4. \A t \in Slots : slot'[t].state = IF t = s THEN "Published" ELSE slots[t].state
    BY <2>1, <2>2 DEF SlotsType
  <2>5. new.key = "key1" /\ new.frame = frame
    OBVIOUS
  <2>6. \A r \in 1 .. R, t \in Slots : rings[r][t].frame \in Nat
    BY ConstantFacts DEF TexturesType, Texture
  <2> HIDE DEF new
  <2>7. TexturesOld(R, published', frame, tex')
    <3>1. \A r \in 1 .. R, t \in Slots : tex'[r][t].frame <= frame /\ (tex'[r][t].key # "key0" => tex'[r][t].frame > 0)
      BY <1>0, <2>2, <2>3, <2>5, <2>6 DEF TexturesOld
    <3>2. R \in 1 .. R /\ published' = frame
      BY <2>1, <2>2
    <3> QED BY <3>1, <3>2 DEF TexturesOld
  <2>8. \A r \in 1 .. R, t \in Slots : r # R \/ rings[r][t].key = "key1" => tex'[r][t] = rings[r][t]
    BY <2>2, <2>3
  <2>9. ASSUME Laid(rings[R]), UnusedIsFree(slots, rings[R])
        PROVE  Laid(tex'[R]) /\ UnusedIsFree(slot', tex'[R])
    <3>1. \A t \in Slots : t < s => rings[R][t].key = "key1"
      <4> SUFFICES ASSUME NEW t \in Slots, t < s, rings[R][t].key # "key1" PROVE FALSE
        OBVIOUS
      <4>1. rings[R][t].key = "key0" /\ slots[t].state = "Available"
        BY <2>9 DEF Laid, UnusedIsFree
      <4>2. s <= t
        BY <2>2, <4>1
      <4>3. s \in Nat /\ t \in Nat
        BY <2>2, ConstantFacts
      <4> QED BY <4>2, <4>3
    <3>2. \A t \in Slots : s < t => rings[R][t].key # "key1"
      BY <2>2, <2>9 DEF Laid
    <3>3. \A t \in Slots : rings[R][t].frame < frame
      BY <1>0, <2>2, <2>6 DEF TexturesOld
    <3>4. \A t \in Slots : \/ tex'[R][t].key = "key0" /\ tex'[R][t].frame = 0
                           \/ tex'[R][t].key = "key1" /\ tex'[R][t].frame > 0
      BY <1>0, <2>2, <2>3, <2>5, <2>9 DEF Laid
    <3>5. \A t, u \in Slots : t < u /\ tex'[R][u].key = "key1" =>
            tex'[R][t].key = "key1" /\ tex'[R][t].frame < tex'[R][u].frame
      <4> SUFFICES ASSUME NEW t \in Slots, NEW u \in Slots, t < u, tex'[R][u].key = "key1"
                   PROVE  tex'[R][t].key = "key1" /\ tex'[R][t].frame < tex'[R][u].frame
        OBVIOUS
      <4>1. t # u
        BY ConstantFacts
      <4>2. CASE u = s
        BY <2>2, <2>3, <2>5, <3>1, <3>3, <4>1, <4>2
      <4>3. CASE t = s
        BY <2>2, <2>3, <3>2, <4>1, <4>3
      <4>4. CASE u # s /\ t # s
        BY <2>2, <2>3, <2>9, <4>4 DEF Laid
      <4> QED BY <4>2, <4>3, <4>4
    <3>6. UnusedIsFree(slot', tex'[R])
      BY <2>2, <2>3, <2>4, <2>5, <2>9 DEF UnusedIsFree
    <3> QED BY <3>4, <3>5, <3>6 DEF Laid
  <2> QED BY <2>7, <2>8, <2>9
<1>2. CASE ~(on /\ R # 0 /\ Unpublished(frame, pub) /\ Target(R, slots, rings) # {})
  <2>1. slot' = slots /\ tex' = rings /\ published' = pub
    BY <1>2 DEF PublishLatest
  <2> QED BY <2>1
<1> QED BY <1>1, <1>2

\* A ring just made is unread.
LEMMA FreshRingIsUnread ==
  ASSUME TypeOK, TexturesOld(ring, published, latest, tex)
  PROVE  /\ TexturesOld(ring + 1, 0, latest, WithFreshRing)
         /\ \A r \in 1 .. ring, s \in Slots : WithFreshRing[r][s] = tex[r][s]
         /\ Laid(WithFreshRing[ring + 1]) /\ UnusedIsFree(FreshSlots, WithFreshRing[ring + 1])
<1>1. ring \in Nat /\ latest \in Nat
  BY ConstantFacts DEF TypeOK
<1>2. /\ \A r \in 1 .. ring : WithFreshRing[r] = tex[r] /\ r \in 1 .. ring + 1 /\ r # ring + 1
      /\ WithFreshRing[ring + 1] = FreshTextures
      /\ \A r \in 1 .. ring + 1 : r = ring + 1 \/ r \in 1 .. ring
  BY <1>1 DEF WithFreshRing
<1>3. \A s \in Slots : FreshTextures[s].key = "key0" /\ FreshTextures[s].frame = 0 /\ FreshSlots[s].state = "Available"
  BY DEF FreshTextures, FreshSlots
<1>4. TexturesOld(ring + 1, 0, latest, WithFreshRing)
  BY <1>1, <1>2, <1>3 DEF TexturesOld
<1>5. Laid(WithFreshRing[ring + 1]) /\ UnusedIsFree(FreshSlots, WithFreshRing[ring + 1])
  BY <1>2, <1>3 DEF Laid, UnusedIsFree
<1> QED BY <1>2, <1>4, <1>5

\* What a step may do to the textures.
Old == TexturesOld(ring, published, latest, tex)
TexturesKept ==
  /\ Old'
  /\ ring' \in {ring, ring + 1}
  /\ \A r \in 1 .. ring, s \in Slots :
       /\ r < ring' => tex'[r][s].frame = tex[r][s].frame
       /\ tex[r][s].key = "key1" /\ (r # vring \/ ~FrameAtHead) => tex'[r][s] = tex[r][s]
  /\ \A r \in 1 .. ring : Unread(r) /\ (r # vring \/ ~FrameAtHead) => Unread(r)'
  /\ ring' # ring => Unread(ring)'

LEMMA PublishKeepsTextures ==
  ASSUME TypeOK, Old, ring' = ring, NEW on, NEW slots \in SlotsType, NEW out,
         latest' \in Frames, latest <= latest',
         \A s \in Slots : slot[s].state = "Available" => slots[s].state = "Available",
         PublishLatest(on, ring, latest', published, slots, tex, out)
  PROVE  TexturesKept
<1>1. /\ ring \in Nat /\ latest \in Nat /\ latest' \in Nat /\ published \in 0 .. latest'
      /\ tex \in TexturesType(ring)
  BY ConstantFacts DEF TypeOK, TexturesType
<1>2. TexturesOld(ring, published, latest', tex)
  <2>1. \A r \in 1 .. ring, s \in Slots : tex[r][s].frame \in Nat
    BY <1>1, ConstantFacts DEF TexturesType, Texture
  <2> QED BY <1>1, <2>1 DEF Old, TexturesOld
<1>3. /\ TexturesOld(ring, published', latest', tex')
      /\ \A r \in 1 .. ring, s \in Slots :
           r # ring \/ tex[r][s].key = "key1" => tex'[r][s] = tex[r][s]
      /\ ring # 0 /\ Laid(tex[ring]) /\ UnusedIsFree(slots, tex[ring]) =>
           Laid(tex'[ring]) /\ UnusedIsFree(slot', tex'[ring])
  BY <1>1, <1>2, PublishTextures
<1>4. ASSUME NEW r \in 1 .. ring, Unread(r) PROVE Unread(r)'
  <2>1. CASE r = ring
    <3>1. Laid(tex[ring]) /\ UnusedIsFree(slots, tex[ring]) /\ ring # 0
      BY <1>4, <2>1 DEF Unread, UnusedIsFree
    <3> QED BY <1>3, <2>1, <3>1 DEF Unread
  <2>2. CASE r # ring
    <3>1. \A s \in Slots : tex'[r][s] = tex[r][s]
      BY <1>3, <2>2
    <3> QED BY <1>4, <2>2, <3>1 DEF Unread, Laid
  <2> QED BY <2>1, <2>2
<1>5. \A r \in 1 .. ring, s \in Slots : r < ring' => tex'[r][s].frame = tex[r][s].frame
  <2>1. \A r \in 1 .. ring : r < ring => r # ring
    BY <1>1
  <2> QED BY <1>3, <2>1
<1> QED BY <1>3, <1>4, <1>5 DEF TexturesKept, Old

LEMMA NewRingKeepsTextures ==
  ASSUME TypeOK, Old, ring' = ring + 1, NEW on, NEW out,
         latest' \in Frames, latest <= latest',
         PublishLatest(on, ring + 1, latest', 0, FreshSlots, WithFreshRing, out)
  PROVE  TexturesKept
<1>1. /\ ring \in Nat /\ ring + 1 \in Nat \ {0} /\ latest \in Nat /\ latest' \in Nat /\ 0 \in 0 .. latest'
      /\ FreshSlots \in SlotsType /\ WithFreshRing \in TexturesType(ring + 1)
  BY ConstantFacts, FreshRingType DEF TypeOK
<1>2. /\ TexturesOld(ring + 1, 0, latest, WithFreshRing)
      /\ \A r \in 1 .. ring, s \in Slots : WithFreshRing[r][s] = tex[r][s]
      /\ Laid(WithFreshRing[ring + 1]) /\ UnusedIsFree(FreshSlots, WithFreshRing[ring + 1])
  BY FreshRingIsUnread DEF Old
<1>3. TexturesOld(ring + 1, 0, latest', WithFreshRing)
  <2>1. \A r \in 1 .. ring + 1, s \in Slots : WithFreshRing[r][s].frame \in Nat
    BY <1>1, ConstantFacts DEF TexturesType, Texture
  <2> QED BY <1>1, <1>2, <2>1 DEF TexturesOld
<1>4. /\ TexturesOld(ring + 1, published', latest', tex')
      /\ \A r \in 1 .. ring + 1, s \in Slots : r # ring + 1 => tex'[r][s] = WithFreshRing[r][s]
      /\ Laid(tex'[ring + 1]) /\ UnusedIsFree(slot', tex'[ring + 1])
  BY <1>1, <1>2, <1>3, PublishTextures
<1>5. \A r \in 1 .. ring, s \in Slots : tex'[r][s] = tex[r][s]
  <2>1. \A r \in 1 .. ring : r \in 1 .. ring + 1 /\ r # ring + 1
    BY <1>1
  <2> QED BY <1>2, <1>4, <2>1
<1>6. ASSUME NEW r \in 1 .. ring, Unread(r) PROVE Unread(r)'
  <2>1. r # ring'
    BY <1>1
  <2> QED BY <1>5, <1>6, <2>1 DEF Unread, Laid
<1> QED BY <1>4, <1>5, <1>6 DEF TexturesKept, Old, Unread

\* The viewer's own changes of a key.
LEMMA ViewerKeepsTextures ==
  ASSUME TypeOK, Old, UNCHANGED <<ring, slot, published, latest>>, FrameAtHead, vring # 0,
         NEW k \in Keys, SetKeyAtHead(k), KeyAtHead # "key0"
  PROVE  TexturesKept
<1>1. \A r \in 1 .. ring, s \in Slots :
        tex'[r][s] = IF r = vring /\ s = Head(window).slot
                     THEN [key |-> k, frame |-> tex[r][s].frame] ELSE tex[r][s]
  BY SetKeyType
<1>2. \A r \in 1 .. ring, s \in Slots :
        /\ tex'[r][s].frame = tex[r][s].frame
        /\ r # vring => tex'[r][s] = tex[r][s]
        /\ tex'[r][s].key # "key0" => tex[r][s].key # "key0"
  <2> SUFFICES ASSUME NEW r \in 1 .. ring, NEW s \in Slots
               PROVE  /\ tex'[r][s].frame = tex[r][s].frame
                      /\ r # vring => tex'[r][s] = tex[r][s]
                      /\ tex'[r][s].key # "key0" => tex[r][s].key # "key0"
    OBVIOUS
  <2>1. CASE r = vring /\ s = Head(window).slot
    <3>1. tex'[r][s] = [key |-> k, frame |-> tex[r][s].frame]
      BY <1>1, <2>1
    <3>2. tex[r][s].key # "key0"
      BY <2>1 DEF KeyAtHead
    <3> QED BY <2>1, <3>1, <3>2
  <2>2. CASE ~(r = vring /\ s = Head(window).slot)
    <3>1. tex'[r][s] = tex[r][s]
      BY <1>1, <2>2
    <3> QED BY <2>2, <3>1
  <2> QED BY <2>1, <2>2
<1>3. Old'
  <2>1. ring' = ring /\ published' = published /\ latest' = latest
    OBVIOUS
  <2>2. ring # 0 => ring \in 1 .. ring
    BY DEF TypeOK
  <2>3. TexturesOld(ring, published, latest, tex')
    <3>1. TexturesOld(ring, published, latest, tex)
      BY DEF Old
    <3> QED BY <1>2, <2>2, <3>1 DEF TexturesOld
  <2> QED BY <2>1, <2>3 DEF Old
<1>4. \A r \in 1 .. ring : r # vring /\ Unread(r) => Unread(r)'
  BY <1>2 DEF Unread, Laid, UnusedIsFree
<1> QED BY <1>2, <1>3, <1>4 DEF TexturesKept

LEMMA TextureStep ==
  ASSUME TypeOK, Old, [Next]_vars
  PROVE  TexturesKept
<1>a. /\ ring \in Nat /\ latest \in Frames /\ latest \in Nat /\ vring \in 0 .. ring
      /\ slot \in SlotsType /\ tex \in TexturesType(ring)
      /\ latest < MaxFrame => latest + 1 \in Frames
  BY ConstantFacts, FrameRingAssumption DEF TypeOK, SlotsType, TexturesType, Frames
<1>b. latest <= latest + 1 /\ latest <= latest
  BY <1>a
\* Only keys change, none of them in an unread ring.
<1>c. ASSUME UNCHANGED <<ring, slot, published, latest, tex>> PROVE TexturesKept
  BY <1>a, <1>c DEF TexturesKept, Old, Unread
<1>d. ASSUME tasks' = Tail(tasks), tasks # <<>>, Head(tasks).type = "FrameReleased"
      PROVE  /\ FreedSlots(Head(tasks)) \in SlotsType
             /\ \A s \in Slots : slot[s].state = "Available" => FreedSlots(Head(tasks))[s].state = "Available"
  <2>1. Head(tasks) \in Task
    BY <1>d, HeadTailProperties DEF TypeOK
  <2>2. Head(tasks).slot \in Slots
    BY <1>d, <2>1 DEF Task, Ready, Disconnected
  <2> QED BY <1>a, <2>2 DEF FreedSlots, SlotsType, SlotStates
<1>1. ASSUME Compose PROVE TexturesKept
  <2>1. /\ PublishLatest(streaming, ring, latest', published, slot, tex, toViewer)
        /\ ring' = ring /\ latest' = latest + 1 /\ latest < MaxFrame
    BY <1>1 DEF Compose
  <2> QED BY <1>a, <1>b, <2>1, PublishKeepsTextures
<1>2. ASSUME ComposeInNewRing PROVE TexturesKept
  <2>1. /\ PublishLatest(streaming, ring + 1, latest', 0, FreshSlots, WithFreshRing, AfterReset)
        /\ ring' = ring + 1 /\ latest' = latest + 1 /\ latest < MaxFrame
    BY <1>2 DEF ComposeInNewRing
  <2> QED BY <1>a, <1>b, <2>1, NewRingKeepsTextures
<1>3. ASSUME ViewerReady PROVE TexturesKept
  <2>1. /\ PublishLatest(TRUE, ring, latest', published, slot, tex, toViewer)
        /\ ring' = ring /\ latest' = latest
    BY <1>3 DEF ViewerReady
  <2> QED BY <1>a, <1>b, <2>1, PublishKeepsTextures
<1>4. ASSUME FrameReleased PROVE TexturesKept
  <2>1. ring' = ring /\ latest' = latest /\ tasks' = Tail(tasks) /\ tasks # <<>> /\ Head(tasks).type = "FrameReleased"
    BY <1>4 DEF FrameReleased
  <2>2. CASE ReleaseMatches(Head(tasks))
    <3>1. PublishLatest(streaming, ring, latest', published, FreedSlots(Head(tasks)), tex, toViewer)
      BY <1>4, <2>2 DEF FrameReleased
    <3> QED BY <1>a, <1>b, <1>d, <2>1, <3>1, PublishKeepsTextures
  <2>3. CASE ~ReleaseMatches(Head(tasks))
    BY <1>4, <1>c, <2>3 DEF FrameReleased
  <2> QED BY <2>2, <2>3
<1>5. ASSUME ViewerDisconnected PROVE TexturesKept
  <2>1. CASE ring = 0
    BY <1>5, <1>c, <2>1 DEF ViewerDisconnected
  <2>2. CASE ring # 0
    <3>1. /\ ring' = ring + 1 /\ latest' = latest
          /\ PublishLatest(FALSE, ring + 1, latest', 0, FreshSlots, WithFreshRing, AfterReset)
      BY <1>5, <2>2 DEF ViewerDisconnected, PublishLatest
    <3> QED BY <1>a, <1>b, <3>1, NewRingKeepsTextures
  <2> QED BY <2>1, <2>2
<1>6. ASSUME ServerStep \/ ClientRead \/ HandshakeAborted \/ LinkBreaks \/ RingRefused \/ UNCHANGED vars
      PROVE  TexturesKept
  BY <1>6, <1>c DEF ServerStep, OfferRing, HandshakeRead, ServerRead, SessionLost, ClientRead,
                    HandshakeAborted, LinkBreaks, RingRefused, vars, pipeline
<1>7. ASSUME RingOpened \/ AcquireTimesOut \/ CopyTimesOut PROVE TexturesKept
  BY <1>7, <1>c DEF RingOpened, AcquireTimesOut, CopyTimesOut, SpendFrame, pipeline
<1>8. ASSUME AcquireFrame \/ ShowFrame PROVE TexturesKept
  <2>1. /\ UNCHANGED <<ring, slot, published, latest>> /\ FrameAtHead /\ vring # 0 /\ KeyAtHead # "key0"
        /\ \E k \in Keys : SetKeyAtHead(k)
    BY <1>8 DEF AcquireFrame, ShowFrame, Keys
  <2> QED BY <2>1, ViewerKeepsTextures
<1>9. ASSUME ViewerExits PROVE TexturesKept
  <2>1. /\ \A r \in 1 .. ring, s \in Slots :
             /\ tex'[r][s].frame = tex[r][s].frame
             /\ tex[r][s].key # "held" => tex'[r][s].key = tex[r][s].key
        /\ tex' \in TexturesType(ring)
    BY <1>9, AbandonType
  <2>2. UNCHANGED <<ring, slot, published, latest>>
    BY <1>9 DEF ViewerExits
  <2>3. \A r \in 1 .. ring, s \in Slots : tex'[r][s].key # "key0" => tex[r][s].key # "key0"
    BY <2>1
  <2>4. \A r \in 1 .. ring, s \in Slots :
          tex[r][s].key \in {"key0", "key1"} => tex'[r][s] = tex[r][s]
    <3>1. \A r \in 1 .. ring, s \in Slots : tex'[r][s] \in Texture /\ tex[r][s] \in Texture
      BY <1>a, <2>1 DEF TexturesType
    <3>2. \A t, u \in Texture : t.key = u.key /\ t.frame = u.frame => t = u
      BY DEF Texture
    <3> QED BY <2>1, <3>1, <3>2
  <2>5. Old'
    <3>1. TexturesOld(ring, published, latest, tex')
      <4>1. ring # 0 => ring \in 1 .. ring
        BY <1>a
      <4> QED BY <2>1, <2>3, <4>1 DEF Old, TexturesOld
    <3> QED BY <2>2, <3>1 DEF Old
  <2>6. \A r \in 1 .. ring : Unread(r) => Unread(r)'
    <3> SUFFICES ASSUME NEW r \in 1 .. ring, Unread(r) PROVE Unread(r)'
      OBVIOUS
    <3>1. \A s \in Slots : tex'[r][s] = tex[r][s]
      BY <2>4 DEF Unread, Laid
    <3> QED BY <2>2, <3>1 DEF Unread, Laid, UnusedIsFree
  <2> QED BY <2>1, <2>2, <2>4, <2>5, <2>6 DEF TexturesKept
<1> QED BY <1>1, <1>2, <1>3, <1>4, <1>5, <1>6, <1>7, <1>8, <1>9
        DEF Next, UIStep, WindowStep, Environment

\* What a step may do to the window thread's queue: nothing, add a ring that
\* is offered or a frame that is read, handle its head, or be lost with it.
Offers ==
  /\ window' = Append(window, RingMessage(ring)) /\ UNCHANGED <<vring, shown, ring, tex, slot, toViewer>>
  /\ phase = "idle" /\ ringReady /\ phase' = "offered" /\ ringReady' /\ linkUp' /\ sring' = ring
Reads ==
  /\ window' = Append(window, Head(toViewer)) /\ toViewer' = Tail(toViewer) /\ toViewer # <<>>
  /\ Head(toViewer) \in Announcement(ring)
  /\ phase = "running" /\ linkUp
  /\ UNCHANGED <<vring, shown, phase, linkUp, pipeline, ringReady, sring>>
OpensRing ==
  /\ window # <<>> /\ window' = Tail(window) /\ IsRing(Head(window))
  /\ vring' \in {Head(window).ring, 0} /\ shown' = 0
  /\ \/ UNCHANGED <<linkUp, toViewer>>
     \/ linkUp' = FALSE /\ toViewer' = <<>>
  /\ UNCHANGED <<phase, pipeline, ringReady, sring>>
Handles ==
  /\ FrameAtHead /\ window' = Tail(window)
  /\ shown' = shown \/ (ShowFrame /\ shown' = tex[vring][Head(window).slot].frame)
  /\ UNCHANGED <<vring, phase, ring, slot, toViewer, linkUp, ringReady, sring>>
Exits ==
  window' = <<>> /\ vring' = 0 /\ shown' = 0 /\ linkUp' = FALSE
    /\ UNCHANGED <<phase, ring, slot, ringReady, sring>>
Keeps == UNCHANGED <<window, vring, shown>>

LEMMA WindowChanges ==
  ASSUME TypeOK, [Next]_vars
  PROVE  Keeps \/ Offers \/ Reads \/ OpensRing \/ Handles \/ Exits
<1>1. ASSUME UIStep \/ Compose \/ ComposeInNewRing PROVE Keeps
  BY <1>1 DEF UIStep, ViewerReady, FrameReleased, ViewerDisconnected, Compose, ComposeInNewRing,
              viewer, Keeps
<1>2. ASSUME OfferRing PROVE Offers
  BY <1>2 DEF OfferRing, pipeline, Offers
<1>3. ASSUME HandshakeRead \/ ServerRead \/ SessionLost \/ HandshakeAborted \/ LinkBreaks \/ AcquireFrame
             \/ UNCHANGED vars
      PROVE  Keeps
  BY <1>3 DEF HandshakeRead, ServerRead, SessionLost, HandshakeAborted, LinkBreaks, AcquireFrame,
              vars, viewer, Keeps
<1>4. ASSUME ClientRead PROVE Keeps \/ Reads
  <2>1. CASE Head(toViewer).type = "StreamReset"
    BY <1>4, <2>1 DEF ClientRead, Keeps
  <2>2. CASE Head(toViewer).type # "StreamReset"
    <3>1. toViewer # <<>> /\ Head(toViewer) \in ViewerMessage(ring)
      BY <1>4, HeadTailProperties DEF ClientRead, TypeOK
    <3>2. Head(toViewer) \in Announcement(ring)
      BY <2>2, <3>1 DEF ViewerMessage, StreamReset
    <3> QED BY <1>4, <2>2, <3>1, <3>2 DEF ClientRead, Reads, server, pipeline
  <2> QED BY <2>1, <2>2
<1>5. ASSUME RingOpened \/ RingRefused PROVE OpensRing
  <2>1. /\ window # <<>> /\ window' = Tail(window) /\ IsRing(Head(window))
        /\ vring' \in {Head(window).ring, 0} /\ shown' = 0
        /\ UNCHANGED <<phase, pipeline, ringReady, sring>>
    BY <1>5 DEF RingOpened, RingRefused, RingAtHead, IsRing, server
  <2>2. UNCHANGED <<linkUp, toViewer>> \/ (linkUp' = FALSE /\ toViewer' = <<>>)
    <3>1. CASE RingOpened
      BY <3>1 DEF RingOpened
    <3>2. CASE RingRefused /\ waiting
      BY <3>2 DEF RingRefused
    <3>3. CASE RingRefused /\ ~waiting
      BY <3>3 DEF RingRefused, TypeOK
    <3> QED BY <1>5, <3>1, <3>2, <3>3
  <2> QED BY <2>1, <2>2 DEF OpensRing
<1>6. ASSUME ShowFrame \/ AcquireTimesOut \/ CopyTimesOut PROVE Handles
  BY <1>6 DEF ShowFrame, AcquireTimesOut, CopyTimesOut, SpendFrame, Handles, pipeline, server
<1>7. ASSUME ViewerExits PROVE Exits
  BY <1>7 DEF ViewerExits, Exits, server
<1> QED BY <1>1, <1>2, <1>3, <1>4, <1>5, <1>6, <1>7
        DEF Next, UIStep, ServerStep, WindowStep, Environment

\* Rings newer than the one the viewer has open, or will open, are unread.
NewRingsUnread ==
  /\ vring # 0 => \A R \in 1 .. ring : R > vring => Unread(R)
  /\ \A i \in DOMAIN window :
       IsRing(window[i]) => \A R \in 1 .. ring : R > window[i].ring => Unread(R)

LEMMA StepNewRings ==
  ASSUME IInv, Old, NewRingsUnread, [Next]_vars
  PROVE  NewRingsUnread'
<1>0. /\ TexturesKept /\ ring \in Nat /\ ring' \in Nat /\ vring \in 0 .. ring
      /\ window \in Seq(WindowMessage(ring)) /\ toViewer \in Seq(ViewerMessage(ring))
  BY TextureStep DEF IInv, TypeOK, TexturesKept
<1>1. \A i \in DOMAIN window : vring <= window[i].ring /\ window[i].ring \in Nat
  <2>1. \A i \in DOMAIN window : window[i] \in WindowMessage(ring)
    BY <1>0, ElementOfSeq, LenProperties
  <2>2. \A m \in WindowMessage(ring) : m.ring \in Nat
    BY <1>0 DEF WindowMessage, Announcement, RingMessage
  <2> QED BY <2>1, <2>2 DEF IInv, Channels, RingsAscend
<1>2. ASSUME NEW v \in Nat, vring <= v, \A R \in 1 .. ring : R > v => Unread(R)
      PROVE  \A R \in 1 .. ring' : R > v => Unread(R)'
  <2> SUFFICES ASSUME NEW R \in 1 .. ring', R > v PROVE Unread(R)'
    OBVIOUS
  <2>1. CASE R \in 1 .. ring
    <3>1. R # vring
      BY <1>0, <1>2
    <3> QED BY <1>0, <1>2, <2>1, <3>1 DEF TexturesKept
  <2>2. CASE R \notin 1 .. ring
    <3>1. R = ring' /\ ring' # ring
      BY <1>0, <2>2 DEF TexturesKept
    <3> QED BY <1>0, <3>1 DEF TexturesKept, Unread
  <2> QED BY <2>1, <2>2
\* What the viewer has open, and what it will open.
<1>3. vring # 0 => \A R \in 1 .. ring' : R > vring => Unread(R)'
  <2>1. vring \in Nat /\ vring <= vring
    BY <1>0
  <2> QED BY <1>2, <2>1 DEF NewRingsUnread
<1>4. \A i \in DOMAIN window :
        IsRing(window[i]) => \A R \in 1 .. ring' : R > window[i].ring => Unread(R)'
  BY <1>1, <1>2 DEF NewRingsUnread
<1>5. ASSUME window # <<>>
      PROVE  /\ 1 \in DOMAIN window /\ Head(window) = window[1]
             /\ \A i \in DOMAIN Tail(window) : i + 1 \in DOMAIN window /\ Tail(window)[i] = window[i + 1]
  BY <1>0, <1>5, TailIndices
<1>6. CASE Keeps
  BY <1>3, <1>4, <1>6 DEF Keeps, NewRingsUnread
<1>7. CASE Offers \/ Reads
  <2>1. PICK m \in WindowMessage(ring) :
          /\ window' = Append(window, m) /\ vring' = vring /\ ring' = ring
          /\ IsRing(m) => m.ring = ring
    <3>1. CASE Offers
      <4>1. RingMessage(ring) \in WindowMessage(ring) /\ RingMessage(ring).ring = ring
        BY <1>0 DEF WindowMessage, RingMessage
      <4> QED BY <3>1, <4>1 DEF Offers
    <3>2. CASE Reads
      <4>1. Head(toViewer) \in Announcement(ring) /\ ring' = ring /\ vring' = vring
            /\ window' = Append(window, Head(toViewer))
        BY <3>2 DEF Reads, pipeline
      <4> QED BY <4>1 DEF WindowMessage, Announcement, IsRing
    <3> QED BY <1>7, <3>1, <3>2
  <2>2. \A i \in DOMAIN window' : (i \in DOMAIN window /\ window'[i] = window[i]) \/ window'[i] = m
    BY <1>0, <2>1, AppendIndices
  <2>3. \A R \in 1 .. ring' : ~(R > ring)
    BY <1>0, <2>1
  <2> QED BY <1>3, <1>4, <2>1, <2>2, <2>3 DEF NewRingsUnread
<1>8. CASE OpensRing
  <2>1. window # <<>> /\ window' = Tail(window) /\ IsRing(Head(window)) /\ vring' \in {Head(window).ring, 0}
    BY <1>8 DEF OpensRing
  <2> QED BY <1>4, <1>5, <2>1 DEF NewRingsUnread
<1>9. CASE Handles
  <2>1. window # <<>> /\ window' = Tail(window) /\ vring' = vring
    BY <1>9 DEF Handles, FrameAtHead
  <2> QED BY <1>3, <1>4, <1>5, <2>1 DEF NewRingsUnread
<1>10. CASE Exits
  BY <1>10 DEF Exits, NewRingsUnread
<1> QED BY <1>6, <1>7, <1>8, <1>9, <1>10, WindowChanges DEF IInv

\* A ring that may be offered, or is being offered, is unread, and no frame
\* of it is announced; what is announced comes before the offer.
RingAfter(win, i) == \E j \in DOMAIN win : i < j /\ IsRing(win[j])
OfferUnread ==
  /\ ringReady => ring > 0
  /\ ringReady /\ phase # "running" =>
       Unread(ring) /\ \A i \in FrameReadys(window) : window[i].ring < ring
  /\ phase = "offered" => ringReady
OfferLast ==
  phase = "offered" =>
    /\ \A i \in FrameReadys(window) : RingAfter(window, i)
    /\ shown = 0 \/ \E j \in DOMAIN window : IsRing(window[j])

\* How a session begins and ends, as the server thread sees it.
PhaseChanges ==
  \/ UNCHANGED <<phase, ringReady>>
  \/ phase' = phase /\ ringReady' /\ ring' = ring + 1
  \/ phase' = "idle" /\ ringReady' = FALSE
  \/ phase = "idle" /\ phase' = "offered" /\ ringReady /\ ringReady' /\ ring' = ring /\ Offers
  \/ phase = "offered" /\ phase' = "running" /\ ringReady' = ringReady /\ ring' = ring

LEMMA PhaseStep ==
  ASSUME TypeOK, [Next]_vars
  PROVE  PhaseChanges
<1>1. ASSUME Compose \/ ViewerReady \/ FrameReleased \/ ServerRead \/ ClientRead \/ LinkBreaks \/ UNCHANGED vars
      PROVE  UNCHANGED <<phase, ringReady>>
  BY <1>1 DEF Compose, ViewerReady, FrameReleased, ServerRead, ClientRead, LinkBreaks, server, vars
<1>2. ASSUME WindowStep \/ RingRefused \/ CopyTimesOut \/ ViewerExits
      PROVE  UNCHANGED <<phase, ringReady>>
  BY <1>2 DEF WindowStep, RingOpened, AcquireFrame, ShowFrame, AcquireTimesOut, RingRefused,
              CopyTimesOut, SpendFrame, ViewerExits, server
<1>3. ASSUME ComposeInNewRing PROVE phase' = phase /\ ringReady' /\ ring' = ring + 1
  BY <1>3 DEF ComposeInNewRing
<1>4. ASSUME ViewerDisconnected
      PROVE  UNCHANGED <<phase, ringReady>> \/ (phase' = phase /\ ringReady' /\ ring' = ring + 1)
  BY <1>4 DEF ViewerDisconnected
<1>5. ASSUME HandshakeAborted \/ SessionLost PROVE phase' = "idle" /\ ringReady' = FALSE
  BY <1>5 DEF HandshakeAborted, SessionLost, EndSession
<1>6. ASSUME OfferRing
      PROVE  phase = "idle" /\ phase' = "offered" /\ ringReady /\ ringReady' /\ ring' = ring /\ Offers
  BY <1>6 DEF OfferRing, Offers, pipeline
<1>7. ASSUME HandshakeRead
      PROVE  \/ phase' = "idle" /\ ringReady' = FALSE
             \/ phase = "offered" /\ phase' = "running" /\ ringReady' = ringReady /\ ring' = ring
  BY <1>7 DEF HandshakeRead, EndSession, pipeline
<1> QED BY <1>1, <1>2, <1>3, <1>4, <1>5, <1>6, <1>7
        DEF PhaseChanges, Next, UIStep, ServerStep, WindowStep, Environment

\* Every announcement in the queue after a step was in it, or is being read.
LEMMA FramesInQueue ==
  ASSUME TypeOK, [Next]_vars, phase # "running"
  PROVE  \A i \in FrameReadys(window') : \E j \in FrameReadys(window) : window'[i] = window[j]
<1>0. window \in Seq(WindowMessage(ring)) /\ ring \in Nat
  BY DEF TypeOK
<1>1. CASE Keeps
  BY <1>1 DEF Keeps
<1>2. CASE Offers
  <2> DEFINE m == RingMessage(ring)
  <2>1. m \in WindowMessage(ring) /\ m.type # "FrameReady" /\ window' = Append(window, m)
    BY <1>0, <1>2 DEF Offers, WindowMessage, RingMessage
  <2> HIDE DEF m
  <2>2. \A i \in DOMAIN window' : (i \in DOMAIN window /\ window'[i] = window[i]) \/ window'[i] = m
    BY <1>0, <2>1, AppendIndices
  <2> QED BY <2>1, <2>2 DEF FrameReadys
<1>3. CASE Reads
  BY <1>3 DEF Reads
<1>4. CASE OpensRing \/ Handles
  <2>1. window # <<>> /\ window' = Tail(window)
    BY <1>4 DEF OpensRing, Handles, FrameAtHead
  <2>2. \A i \in DOMAIN window' : i + 1 \in DOMAIN window /\ window'[i] = window[i + 1]
    BY <1>0, <2>1, TailIndices
  <2> QED BY <2>2 DEF FrameReadys
<1>5. CASE Exits
  BY <1>5 DEF Exits, FrameReadys
<1> QED BY <1>1, <1>2, <1>3, <1>4, <1>5, WindowChanges

LEMMA StepOfferUnread ==
  ASSUME IInv, Old, OfferUnread, [Next]_vars
  PROVE  OfferUnread'
<1>0. /\ TexturesKept /\ PhaseChanges /\ TypeOK /\ ring \in Nat
      /\ ring' \in {ring, ring + 1}
  BY TextureStep, PhaseStep DEF IInv, TypeOK, TexturesKept
<1>1. \A i \in FrameReadys(window) : window[i].ring \in 1 .. ring
  BY <1>0, AnnouncementTypes DEF TypeOK
<1>2. ASSUME ringReady, phase # "running" PROVE Unread(ring)'
  <2>1. CASE ring' = ring
    <3>1. ring \in 1 .. ring /\ Unread(ring) /\ (ring # vring \/ ~FrameAtHead)
      <4>1. ring > 0 /\ Unread(ring) /\ \A i \in FrameReadys(window) : window[i].ring < ring
        BY <1>2 DEF OfferUnread
      <4>2. ASSUME FrameAtHead PROVE vring # ring
        <5>1. 1 \in FrameReadys(window) /\ 1 \in DOMAIN window
          <6>1. 1 \in DOMAIN window /\ Head(window) = window[1]
            BY <4>2, TailIndices DEF TypeOK, FrameAtHead, IInv
          <6> QED BY <4>2, <6>1 DEF FrameAtHead, FrameReadys
        <5>2. vring <= window[1].ring /\ window[1].ring < ring /\ window[1].ring \in Nat /\ vring \in Nat
          BY <1>0, <1>1, <4>1, <5>1 DEF IInv, Channels, RingsAscend, TypeOK
        <5> QED BY <1>0, <5>2
      <4> QED BY <1>0, <4>1, <4>2
    <3>2. Unread(ring) => \A r \in 1 .. ring : r = ring => Unread(r)'
      BY <1>0, <3>1 DEF TexturesKept
    <3> QED BY <1>0, <2>1, <3>1, <3>2 DEF Unread
  <2>2. CASE ring' # ring
    BY <1>0, <2>2 DEF TexturesKept
  <2> QED BY <2>1, <2>2
<1>3. ASSUME phase # "running", ringReady \/ ring' = ring + 1
      PROVE  \A i \in FrameReadys(window') : window'[i].ring < ring'
  <2> SUFFICES ASSUME NEW i \in FrameReadys(window') PROVE window'[i].ring < ring'
    OBVIOUS
  <2>1. PICK j \in FrameReadys(window) : window'[i] = window[j]
    BY <1>0, <1>3, FramesInQueue
  <2>2. window[j].ring \in 1 .. ring
    BY <1>1
  <2>3. CASE ring' = ring + 1
    BY <1>0, <2>1, <2>2, <2>3
  <2>4. CASE ring' = ring /\ ringReady
    BY <1>3, <2>1, <2>4 DEF OfferUnread
  <2> QED BY <1>0, <1>3, <2>3, <2>4
<1>4. CASE UNCHANGED <<phase, ringReady>>
  BY <1>0, <1>2, <1>3, <1>4 DEF OfferUnread
<1>5. CASE phase' = phase /\ ringReady' /\ ring' = ring + 1
  <2>1. Unread(ring)' /\ ring' > 0
    BY <1>0, <1>5 DEF TexturesKept
  <2> QED BY <1>3, <1>5, <2>1 DEF OfferUnread
<1>6. CASE phase' = "idle" /\ ringReady' = FALSE
  BY <1>6 DEF OfferUnread
<1>7. CASE phase = "idle" /\ phase' = "offered" /\ ringReady /\ ringReady' /\ ring' = ring
  BY <1>2, <1>3, <1>7 DEF OfferUnread
<1>8. CASE phase = "offered" /\ phase' = "running" /\ ringReady' = ringReady /\ ring' = ring
  BY <1>8 DEF OfferUnread
<1> QED BY <1>0, <1>4, <1>5, <1>6, <1>7, <1>8 DEF PhaseChanges

HasRing(win) == \E j \in DOMAIN win : IsRing(win[j])

LEMMA RingAfterAppend ==
  ASSUME NEW R \in Nat, NEW win \in Seq(WindowMessage(R)), NEW m \in WindowMessage(R)
  PROVE  /\ \A i \in DOMAIN win : RingAfter(win, i) => RingAfter(Append(win, m), i)
         /\ IsRing(m) => \A i \in DOMAIN win : RingAfter(Append(win, m), i)
         /\ IsRing(m) \/ HasRing(win) => HasRing(Append(win, m))
         /\ HasRing(Append(win, m)) => IsRing(m) \/ HasRing(win)
<1> DEFINE q == Append(win, m)
           n == Len(win) + 1
<1>1. /\ DOMAIN q = DOMAIN win \union {n} /\ q[n] = m
      /\ \A i \in DOMAIN win : q[i] = win[i] /\ i \in Nat /\ i < n
  BY AppendIndices
<1> HIDE DEF q, n
<1>2. \A i \in DOMAIN win : RingAfter(win, i) => RingAfter(q, i)
  BY <1>1 DEF RingAfter
<1>3. IsRing(m) => \A i \in DOMAIN win : RingAfter(q, i)
  BY <1>1 DEF RingAfter
<1>4. IsRing(m) \/ HasRing(win) <=> HasRing(q)
  BY <1>1 DEF HasRing
<1> QED BY <1>2, <1>3, <1>4 DEF q

LEMMA RingAfterTail ==
  ASSUME NEW R \in Nat, NEW win \in Seq(WindowMessage(R)), win # <<>>
  PROVE  /\ \A i \in DOMAIN Tail(win) : RingAfter(win, i + 1) => RingAfter(Tail(win), i)
         /\ RingAfter(win, 1) => HasRing(Tail(win))
         /\ ~IsRing(Head(win)) /\ HasRing(win) => HasRing(Tail(win))
         /\ HasRing(Tail(win)) => HasRing(win)
<1> DEFINE q == Tail(win)
<1>1. /\ 1 \in DOMAIN win /\ Head(win) = win[1] /\ DOMAIN win = 1 .. Len(win) /\ Len(win) \in Nat
      /\ \A i \in DOMAIN q : i \in Nat /\ i >= 1 /\ i + 1 \in DOMAIN win /\ q[i] = win[i + 1]
  BY TailIndices, LenProperties
<1>2. \A k \in DOMAIN win : k # 1 => k \in Nat /\ k - 1 \in DOMAIN q
  BY <1>1, HeadTailProperties, LenProperties
<1>3. ASSUME NEW k \in DOMAIN win, k # 1 PROVE k - 1 \in DOMAIN q /\ q[k - 1] = win[k] /\ k \in Nat
  <2>1. k - 1 \in DOMAIN q /\ (k - 1) + 1 = k /\ k \in Nat
    BY <1>2, <1>3
  <2>2. q[k - 1] = win[(k - 1) + 1]
    BY <1>1, <2>1
  <2> QED BY <2>1, <2>2
<1> HIDE DEF q
<1>4. ASSUME NEW i \in DOMAIN q, RingAfter(win, i + 1) PROVE RingAfter(q, i)
  <2>1. PICK k \in DOMAIN win : i + 1 < k /\ IsRing(win[k])
    BY <1>4 DEF RingAfter
  <2>2. k # 1
    BY <1>1, <2>1
  <2>3. k - 1 \in DOMAIN q /\ q[k - 1] = win[k] /\ i < k - 1
    BY <1>1, <1>3, <2>1, <2>2
  <2> QED BY <2>1, <2>3 DEF RingAfter
<1>5. RingAfter(win, 1) => HasRing(q)
  <2>1. \A k \in DOMAIN win : 1 < k => k # 1
    BY <1>1
  <2> QED BY <1>3, <2>1 DEF RingAfter, HasRing
<1>6. ~IsRing(Head(win)) /\ HasRing(win) => HasRing(q)
  BY <1>1, <1>3 DEF HasRing
<1>7. HasRing(q) => HasRing(win)
  BY <1>1 DEF HasRing
<1> QED BY <1>4, <1>5, <1>6, <1>7 DEF q

LEMMA StepOfferLast ==
  ASSUME IInv, OfferLast, [Next]_vars
  PROVE  OfferLast'
<1> SUFFICES ASSUME phase' = "offered"
             PROVE  /\ \A i \in FrameReadys(window') : RingAfter(window', i)
                    /\ shown' = 0 \/ HasRing(window')
  BY DEF OfferLast, HasRing, RingAfter, FrameReadys
<1>0. /\ TypeOK /\ PhaseChanges /\ ring \in Nat /\ window \in Seq(WindowMessage(ring))
  BY PhaseStep DEF IInv, TypeOK
<1>1. ASSUME phase = "offered"
      PROVE  /\ \A i \in FrameReadys(window) : RingAfter(window, i)
             /\ shown = 0 \/ HasRing(window)
  BY <1>1 DEF OfferLast, HasRing
<1>2. CASE Offers
  <2> DEFINE m == RingMessage(ring)
  <2>1. m \in WindowMessage(ring) /\ IsRing(m) /\ m.type # "FrameReady" /\ window' = Append(window, m)
    BY <1>0, <1>2 DEF Offers, WindowMessage, RingMessage, IsRing
  <2> HIDE DEF m
  <2>2. \A i \in FrameReadys(window') : i \in DOMAIN window
    <3>1. \A i \in DOMAIN window' : i \in DOMAIN window \/ window'[i] = m
      BY <1>0, <2>1, AppendIndices
    <3> QED BY <2>1, <3>1 DEF FrameReadys
  <2> QED BY <1>0, <2>1, <2>2, RingAfterAppend
<1>3. ASSUME ~Offers PROVE phase = "offered"
  BY <1>0, <1>3 DEF PhaseChanges
<1>4. CASE Keeps /\ ~Offers
  BY <1>1, <1>3, <1>4 DEF Keeps
<1>5. CASE Reads
  BY <1>5 DEF Reads
<1>6. CASE (OpensRing \/ Handles) /\ ~Offers
  <2>1. window # <<>> /\ window' = Tail(window)
    BY <1>6 DEF OpensRing, Handles, FrameAtHead
  <2>2. /\ 1 \in DOMAIN window /\ Head(window) = window[1]
        /\ \A i \in DOMAIN window' : i + 1 \in DOMAIN window /\ window'[i] = window[i + 1]
    BY <1>0, <2>1, TailIndices
  <2>3. \A i \in FrameReadys(window') : RingAfter(window', i)
    <3>1. \A i \in FrameReadys(window') : i \in DOMAIN window' /\ i + 1 \in FrameReadys(window)
      BY <2>2 DEF FrameReadys
    <3> QED BY <1>0, <1>1, <1>3, <1>6, <2>1, <3>1, RingAfterTail
  <2>4. shown' = 0 \/ HasRing(window')
    <3>1. CASE OpensRing
      BY <3>1 DEF OpensRing
    <3>2. CASE Handles
      <4>1. 1 \in FrameReadys(window)
        BY <2>2, <3>2 DEF Handles, FrameAtHead, FrameReadys
      <4>2. RingAfter(window, 1)
        BY <1>1, <1>3, <1>6, <4>1
      <4> QED BY <1>0, <2>1, <4>2, RingAfterTail
    <3> QED BY <1>6, <3>1, <3>2
  <2> QED BY <2>3, <2>4
<1>7. CASE Exits
  BY <1>7 DEF Exits, FrameReadys
<1> QED BY <1>0, <1>2, <1>4, <1>5, <1>6, <1>7, WindowChanges

\* The rings the window thread may find open in place of the announced one.
AgreeLaid == RingsAgreeAt(ring, vring, window, sring, linkUp, phase, toViewer, LaidRings)

LEMMA StepAgreeLaid ==
  ASSUME IInv, Old, OfferUnread, AgreeLaid, [Next]_vars
  PROVE  AgreeLaid'
<1>1. TexturesKept /\ ring \in Nat
  BY TextureStep DEF IInv, TypeOK
<1>2. ASSUME NEW r \in 1 .. ring, r < ring', SlotsInOrder(tex[r]) PROVE r \in LaidRings'
  <2>1. \A s \in Slots : tex'[r][s].frame = tex[r][s].frame
    BY <1>1, <1>2 DEF TexturesKept
  <2>2. r \in 1 .. ring' /\ r < ring' /\ SlotsInOrder(tex'[r])
    BY <1>1, <1>2, <2>1 DEF TexturesKept, SlotsInOrder
  <2>3. LaidRings' = {q \in 1 .. ring' : q < ring' /\ SlotsInOrder(tex'[q])}
    BY DEF LaidRings, SlotsInOrder
  <2> QED BY <2>2, <2>3
<1>3. LaidRings \subseteq LaidRings'
  <2>1. \A r \in LaidRings : r \in 1 .. ring /\ r < ring' /\ SlotsInOrder(tex[r])
    BY <1>1 DEF LaidRings, TexturesKept
  <2> QED BY <1>2, <2>1
<1>4. ASSUME phase = "offered", ring' # ring PROVE sring \in LaidRings'
  <2>1. CASE sring \in LaidRings
    BY <1>3, <2>1
  <2>2. CASE sring = ring
    <3>1. ring > 0 /\ Unread(ring)
      BY <1>4 DEF OfferUnread
    <3>2. ring \in 1 .. ring /\ ring < ring'
      BY <1>1, <1>4, <3>1 DEF TexturesKept
    <3>3. SlotsInOrder(tex[ring])
      BY <3>1, LaidIsInOrder DEF Unread
    <3> QED BY <1>2, <2>2, <3>2, <3>3
  <2> QED BY <1>4, <2>1, <2>2 DEF AgreeLaid, RingsAgreeAt
<1> HIDE DEF LaidRings
<1>5. RingsAgreeAt(ring', vring', window', sring', linkUp', phase', toViewer', LaidRings')
  BY <1>3, <1>4, StepRingsAgree DEF AgreeLaid
<1> QED BY <1>5 DEF AgreeLaid

\* What a step may do to the pipe: add a frame newer than any published in
\* the ring, add the reset and perhaps the first frame of a new ring, drop
\* everything, or hand its head to the window thread.
Announces(out, pub) ==
  \/ toViewer' = out
  \/ ring' # 0 /\ \E s \in Slots, f \in Frames : f > pub /\ toViewer' = Append(out, FrameReady(ring', s, f))
PipeChanges ==
  \/ ring' = ring /\ Announces(toViewer, published)
  \/ ring' = ring + 1 /\ Announces(AfterReset, 0)
  \/ ring' = ring /\ toViewer' = <<>> /\ (linkUp' = FALSE \/ phase' = "idle")
  \/ Reads

LEMMA PublishAnnounces ==
  ASSUME NEW on, NEW frame \in Frames, NEW pub, NEW slots, NEW rings, NEW out,
         PublishLatest(on, ring', frame, pub, slots, rings, out)
  PROVE  Announces(out, pub)
<1>1. \A s \in Target(ring', slots, rings) : s \in Slots
  BY DEF Target, Acquirable
<1> QED BY <1>1 DEF PublishLatest, Announces, Unpublished, Queue

LEMMA PipeStep ==
  ASSUME TypeOK, [Next]_vars
  PROVE  PipeChanges
<1>0. latest \in Frames /\ (latest < MaxFrame => latest + 1 \in Frames)
  BY FrameRingAssumption DEF TypeOK, Frames
<1>1. ASSUME Compose PROVE ring' = ring /\ Announces(toViewer, published)
  BY <1>0, <1>1, PublishAnnounces DEF Compose
<1>2. ASSUME ViewerReady PROVE ring' = ring /\ Announces(toViewer, published)
  BY <1>0, <1>2, PublishAnnounces DEF ViewerReady
<1>3. ASSUME FrameReleased PROVE ring' = ring /\ Announces(toViewer, published)
  <2>1. CASE ReleaseMatches(Head(tasks))
    BY <1>0, <1>3, <2>1, PublishAnnounces DEF FrameReleased
  <2>2. CASE ~ReleaseMatches(Head(tasks))
    BY <1>3, <2>2 DEF FrameReleased, Announces
  <2> QED BY <2>1, <2>2
<1>4. ASSUME ComposeInNewRing PROVE ring' = ring + 1 /\ Announces(AfterReset, 0)
  <2>1. PublishLatest(streaming, ring', latest + 1, 0, FreshSlots, WithFreshRing, AfterReset)
    BY <1>4 DEF ComposeInNewRing
  <2> QED BY <1>0, <1>4, <2>1, PublishAnnounces DEF ComposeInNewRing
<1>5. ASSUME ViewerDisconnected
      PROVE  \/ ring' = ring /\ Announces(toViewer, published)
             \/ ring' = ring + 1 /\ Announces(AfterReset, 0)
  BY <1>5 DEF ViewerDisconnected, Announces
<1>6. ASSUME OfferRing \/ ServerRead \/ AcquireFrame \/ ShowFrame \/ RingOpened \/ AcquireTimesOut
             \/ CopyTimesOut \/ UNCHANGED vars
      PROVE  ring' = ring /\ Announces(toViewer, published)
  BY <1>6 DEF OfferRing, ServerRead, AcquireFrame, ShowFrame, RingOpened, AcquireTimesOut, CopyTimesOut,
              SpendFrame, vars, pipeline, Announces
<1>7. ASSUME HandshakeAborted \/ SessionLost \/ LinkBreaks
      PROVE  ring' = ring /\ toViewer' = <<>> /\ (linkUp' = FALSE \/ phase' = "idle")
  BY <1>7 DEF HandshakeAborted, SessionLost, LinkBreaks, EndSession, pipeline
<1>8. ASSUME HandshakeRead \/ RingRefused \/ ViewerExits PROVE PipeChanges
  <2>1. CASE HandshakeRead
    BY <2>1 DEF HandshakeRead, EndSession, pipeline, PipeChanges, Announces
  <2>2. CASE RingRefused
    <3>1. ring' = ring /\ linkUp' = (linkUp /\ ~waiting) /\ toViewer' = IF waiting THEN <<>> ELSE toViewer
      BY <2>2 DEF RingRefused, pipeline
    <3>2. CASE waiting
      BY <3>1, <3>2 DEF PipeChanges
    <3>3. CASE ~waiting
      BY <3>1, <3>3 DEF PipeChanges, Announces
    <3> QED BY <3>2, <3>3
  <2>3. CASE ViewerExits
    BY <2>3 DEF ViewerExits, PipeChanges, Announces
  <2> QED BY <1>8, <2>1, <2>2, <2>3
<1>9. ASSUME ClientRead PROVE PipeChanges
  <2>1. CASE Head(toViewer).type = "StreamReset"
    BY <1>9, <2>1 DEF ClientRead, pipeline, PipeChanges
  <2>2. CASE Head(toViewer).type # "StreamReset"
    <3>1. toViewer # <<>> /\ Head(toViewer) \in ViewerMessage(ring)
      BY <1>9, HeadTailProperties DEF ClientRead, TypeOK
    <3>2. Head(toViewer) \in Announcement(ring)
      BY <2>2, <3>1 DEF ViewerMessage, StreamReset
    <3> QED BY <1>9, <2>2, <3>1, <3>2 DEF ClientRead, Reads, server, pipeline, PipeChanges
  <2> QED BY <2>1, <2>2
<1> QED BY <1>1, <1>2, <1>3, <1>4, <1>5, <1>6, <1>7, <1>8, <1>9
        DEF PipeChanges, Next, UIStep, ServerStep, WindowStep, Environment

\* When a session runs after a step it ran before, or its handshake has just
\* been completed.
LEMMA SessionStep ==
  ASSUME TypeOK, [Next]_vars, linkUp', phase' = "running"
  PROVE  \/ linkUp /\ phase = "running"
         \/ phase = "offered" /\ UNCHANGED <<pipeline, toViewer, window, vring, shown>>
<1>1. ASSUME Compose \/ ComposeInNewRing \/ UIStep \/ ServerRead \/ ClientRead \/ UNCHANGED vars
      PROVE  linkUp /\ phase = "running"
  BY <1>1 DEF Compose, ComposeInNewRing, UIStep, ViewerReady, FrameReleased, ViewerDisconnected,
              ServerRead, ClientRead, vars, server, viewer
<1>2. ASSUME OfferRing \/ HandshakeAborted \/ SessionLost \/ LinkBreaks \/ ViewerExits
      PROVE  FALSE
  BY <1>2 DEF OfferRing, HandshakeAborted, SessionLost, LinkBreaks, ViewerExits, EndSession
<1>3. ASSUME HandshakeRead PROVE phase = "offered" /\ UNCHANGED <<pipeline, toViewer, window, vring, shown>>
  BY <1>3 DEF HandshakeRead, EndSession
<1>4. ASSUME WindowStep \/ CopyTimesOut PROVE linkUp /\ phase = "running"
  BY <1>4 DEF WindowStep, RingOpened, AcquireFrame, ShowFrame, AcquireTimesOut, CopyTimesOut, SpendFrame,
              server, viewer
<1>5. ASSUME RingRefused PROVE linkUp /\ phase = "running"
  BY <1>5 DEF RingRefused, server
<1> QED BY <1>1, <1>2, <1>3, <1>4, <1>5 DEF Next, ServerStep, Environment

\* Where the announcements there are after a step come from.
Announced(m) == (\E j \in FrameReadys(window) : m = window[j]) \/ (\E j \in FrameReadys(toViewer) : m = toViewer[j])

LEMMA AnnouncesFrames ==
  ASSUME NEW R \in Nat, NEW out \in Seq(ViewerMessage(R)), NEW pub, Announces(out, pub)
  PROVE  \A i \in FrameReadys(toViewer') :
           \/ \E j \in FrameReadys(out) : toViewer'[i] = out[j]
           \/ toViewer'[i].ring = ring' /\ toViewer'[i].frame > pub
<1>1. CASE toViewer' = out
  BY <1>1
<1>2. ASSUME NEW s \in Slots, NEW f \in Frames, f > pub, toViewer' = Append(out, FrameReady(ring', s, f))
      PROVE  \A i \in FrameReadys(toViewer') :
               \/ \E j \in FrameReadys(out) : toViewer'[i] = out[j]
               \/ toViewer'[i].ring = ring' /\ toViewer'[i].frame > pub
  <2> DEFINE m == FrameReady(ring', s, f)
  <2>1. m.ring = ring' /\ m.frame = f
    BY DEF FrameReady
  <2> HIDE DEF m
  <2>2. \A i \in DOMAIN toViewer' : (i \in DOMAIN out /\ toViewer'[i] = out[i]) \/ toViewer'[i] = m
    <3>1. /\ DOMAIN Append(out, m) = 1 .. Len(out) + 1 /\ DOMAIN out = 1 .. Len(out) /\ Len(out) \in Nat
          /\ \A i \in 1 .. Len(out) : Append(out, m)[i] = out[i]
          /\ Append(out, m)[Len(out) + 1] = m
      <4>1. out \in Seq(ViewerMessage(R) \union {m}) /\ m \in ViewerMessage(R) \union {m}
        BY SeqMonotonic
      <4> QED BY <4>1, AppendIndices
    <3>2. toViewer' = Append(out, m)
      BY <1>2 DEF m
    <3> QED BY <3>1, <3>2
  <2> QED BY <1>2, <2>1, <2>2 DEF FrameReadys
<1> QED BY <1>1, <1>2 DEF Announces

LEMMA ResetFrames ==
  ASSUME TypeOK
  PROVE  \A j \in FrameReadys(AfterReset) : j \in FrameReadys(toViewer) /\ AfterReset[j] = toViewer[j]
<1> DEFINE m == StreamReset
<1>1. m \in ViewerMessage(ring) /\ m.type # "FrameReady" /\ toViewer \in Seq(ViewerMessage(ring))
  BY DEF ViewerMessage, StreamReset, TypeOK
<1> HIDE DEF m
<1>2. \A j \in FrameReadys(Append(toViewer, m)) :
        j \in FrameReadys(toViewer) /\ Append(toViewer, m)[j] = toViewer[j]
  BY <1>1, AppendIndices DEF FrameReadys
<1> QED BY <1>2 DEF AfterReset, Queue, m

LEMMA QueuedFrames ==
  ASSUME TypeOK, [Next]_vars
  PROVE  /\ \A i \in FrameReadys(window') : Announced(window'[i])
         /\ \A i \in FrameReadys(toViewer') :
              \/ Announced(toViewer'[i])
              \/ toViewer'[i].ring = ring' /\ (ring' = ring => toViewer'[i].frame > published)
<1>0. /\ window \in Seq(WindowMessage(ring)) /\ toViewer \in Seq(ViewerMessage(ring))
      /\ AfterReset \in Seq(ViewerMessage(ring + 1)) /\ ring \in Nat /\ ring + 1 \in Nat
  BY FreshRingType DEF TypeOK
<1>1. ASSUME toViewer # <<>>, Tail(toViewer) = toViewer'
      PROVE  \A i \in FrameReadys(toViewer') : Announced(toViewer'[i])
  <2>1. \A i \in DOMAIN toViewer' : i + 1 \in DOMAIN toViewer /\ toViewer'[i] = toViewer[i + 1]
    BY <1>0, <1>1, TailIndices
  <2> QED BY <2>1 DEF FrameReadys, Announced
<1>2. \A i \in FrameReadys(toViewer') :
        \/ Announced(toViewer'[i])
        \/ toViewer'[i].ring = ring' /\ (ring' = ring => toViewer'[i].frame > published)
  <2>1. CASE ring' = ring /\ Announces(toViewer, published)
    BY <1>0, <2>1, AnnouncesFrames DEF Announced
  <2>2. CASE ring' = ring + 1 /\ Announces(AfterReset, 0)
    <3>1. \A i \in FrameReadys(toViewer') :
            \/ \E j \in FrameReadys(AfterReset) : toViewer'[i] = AfterReset[j]
            \/ toViewer'[i].ring = ring'
      BY <1>0, <2>2, AnnouncesFrames
    <3>2. ring' # ring
      BY <1>0, <2>2
    <3> QED BY <3>1, <3>2, ResetFrames DEF Announced
  <2>3. CASE toViewer' = <<>>
    BY <2>3 DEF FrameReadys
  <2>4. CASE Reads
    BY <1>1, <2>4 DEF Reads
  <2> QED BY <2>1, <2>2, <2>3, <2>4, PipeStep DEF PipeChanges
<1>3. \A i \in FrameReadys(window') : Announced(window'[i])
  <2>1. CASE Keeps
    BY <2>1 DEF Keeps, Announced
  <2>2. ASSUME NEW m \in WindowMessage(ring), window' = Append(window, m), m.type = "FrameReady" => Announced(m)
        PROVE  \A i \in FrameReadys(window') : Announced(window'[i])
    <3>1. \A i \in DOMAIN window' : (i \in DOMAIN window /\ window'[i] = window[i]) \/ window'[i] = m
      BY <1>0, <2>2, AppendIndices
    <3> QED BY <2>2, <3>1 DEF FrameReadys, Announced
  <2>3. CASE Offers
    <3>1. RingMessage(ring) \in WindowMessage(ring) /\ RingMessage(ring).type # "FrameReady"
      BY <1>0 DEF WindowMessage, RingMessage
    <3> QED BY <2>2, <2>3, <3>1 DEF Offers
  <2>4. CASE Reads
    <3>1. toViewer # <<>> /\ Head(toViewer) \in WindowMessage(ring) /\ window' = Append(window, Head(toViewer))
      BY <2>4 DEF Reads, WindowMessage
    <3>2. Head(toViewer).type = "FrameReady" => Announced(Head(toViewer))
      <4>1. 1 \in DOMAIN toViewer /\ Head(toViewer) = toViewer[1]
        BY <1>0, <3>1, TailIndices
      <4> QED BY <4>1 DEF FrameReadys, Announced
    <3> QED BY <2>2, <3>1, <3>2
  <2>5. CASE OpensRing \/ Handles
    <3>1. window # <<>> /\ window' = Tail(window)
      BY <2>5 DEF OpensRing, Handles, FrameAtHead
    <3>2. \A i \in DOMAIN window' : i + 1 \in DOMAIN window /\ window'[i] = window[i + 1]
      BY <1>0, <3>1, TailIndices
    <3> QED BY <3>2 DEF FrameReadys, Announced
  <2>6. CASE Exits
    BY <2>6 DEF Exits, FrameReadys
  <2> QED BY <2>1, <2>3, <2>4, <2>5, <2>6, WindowChanges
<1> QED BY <1>2, <1>3

\* What the viewer shows lies, in the ring it has open, in a slot that in
\* ring G holds a frame still unread and older than any of G announced.
OlderThan(frame, G, q) == \A i \in FrameReadys(q) : q[i].ring = G => frame < q[i].frame
Behind(G) ==
  vring # 0 /\ G # vring /\ shown # 0 =>
    \E p \in Slots :
      /\ tex[vring][p].frame = shown
      /\ tex[G][p].key = "key1"
      /\ OlderThan(tex[G][p].frame, G, window)
      /\ OlderThan(tex[G][p].frame, G, toViewer)

LEMMA BehindStep ==
  ASSUME IInv, Old, [Next]_vars, UNCHANGED <<vring, shown>>,
         NEW G \in 0 .. ring, vring <= G, Behind(G)
  PROVE  Behind(G)'
<1>0. /\ TypeOK /\ TexturesKept /\ ring \in Nat /\ vring \in 0 .. ring
      /\ tex \in TexturesType(ring)
  BY TextureStep DEF IInv, TypeOK, TexturesType
<1> SUFFICES ASSUME vring # 0, G # vring, shown # 0
             PROVE  \E p \in Slots :
                      /\ tex'[vring][p].frame = shown
                      /\ tex'[G][p].key = "key1"
                      /\ OlderThan(tex'[G][p].frame, G, window')
                      /\ OlderThan(tex'[G][p].frame, G, toViewer')
  BY DEF Behind, OlderThan, FrameReadys
<1>1. vring \in 1 .. ring /\ G \in 1 .. ring /\ vring < ring' /\ G < ring + 1
  BY <1>0 DEF TexturesKept
<1>2. PICK p \in Slots :
        /\ tex[vring][p].frame = shown
        /\ tex[G][p].key = "key1"
        /\ OlderThan(tex[G][p].frame, G, window)
        /\ OlderThan(tex[G][p].frame, G, toViewer)
  BY DEF Behind
<1>3. tex'[vring][p].frame = shown
  BY <1>0, <1>1, <1>2 DEF TexturesKept
<1>4. tex'[G][p] = tex[G][p]
  BY <1>0, <1>1, <1>2 DEF TexturesKept
<1> DEFINE f == tex[G][p].frame
<1>5. \A m : Announced(m) /\ m.ring = G => f < m.frame
  BY <1>2 DEF Announced, OlderThan
<1>6. f \in Nat /\ published \in Nat /\ (G = ring => f <= published)
  <2>1. tex[G][p] \in Texture
    BY <1>0, <1>1 DEF TexturesType
  <2>2. f \in Nat
    BY <2>1, ConstantFacts DEF Texture
  <2>3. latest \in Nat /\ published \in 0 .. latest
    BY <1>0, ConstantFacts DEF TypeOK
  <2>4. G = ring => f <= published
    BY <1>1 DEF Old, TexturesOld
  <2> QED BY <2>2, <2>3, <2>4
<1>7. OlderThan(f, G, window')
  BY <1>0, <1>5, QueuedFrames DEF OlderThan
<1>8. OlderThan(f, G, toViewer')
  <2> SUFFICES ASSUME NEW i \in FrameReadys(toViewer'), toViewer'[i].ring = G
               PROVE  f < toViewer'[i].frame
    BY DEF OlderThan
  <2>1. CASE Announced(toViewer'[i])
    BY <1>5, <2>1
  <2>2. CASE ~Announced(toViewer'[i])
    <3>1. toViewer'[i].ring = ring' /\ (ring' = ring => toViewer'[i].frame > published)
      BY <1>0, <2>2, QueuedFrames
    <3>2. ring' = ring /\ G = ring
      BY <1>0, <1>1, <3>1 DEF TexturesKept
    <3>3. toViewer'[i].frame \in Nat
      <4>1. toViewer' \in Seq(ViewerMessage(ring')) /\ ring' \in Nat /\ window' \in Seq(WindowMessage(ring'))
        BY <1>0, StepType DEF TypeOK
      <4> QED BY <4>1, AnnouncementTypes
    <3> QED BY <1>6, <3>1, <3>2, <3>3
  <2> QED BY <2>1, <2>2
<1> QED BY <1>2, <1>3, <1>4, <1>7, <1>8

\* A frame shown of a ring that is not the one announced: its slot is that
\* of the announcement.
LEMMA BehindShow ==
  ASSUME FrameInv, Old, NewRingsUnread, [Next]_vars, ShowFrame,
         NEW G, G = Head(window).ring
  PROVE  Behind(G)'
<1> DEFINE h == Head(window)
           p == h.slot
<1>0. /\ TypeOK /\ TexturesKept /\ ring \in Nat /\ vring \in 1 .. ring /\ FrameAtHead
      /\ window \in Seq(WindowMessage(ring)) /\ toViewer \in Seq(ViewerMessage(ring))
      /\ window # <<>> /\ window' = Tail(window) /\ toViewer' = toViewer /\ vring' = vring
      /\ shown' = tex[vring][p].frame
  BY TextureStep DEF FrameInv, IInv, TypeOK, ShowFrame, FrameAtHead
<1>1. /\ 1 \in FrameReadys(window) /\ h = window[1] /\ 1 \in DOMAIN window /\ h.ring = G
      /\ \A i \in FrameReadys(window') : i + 1 \in FrameReadys(window) /\ 1 < i + 1 /\ window'[i] = window[i + 1]
  BY <1>0, TailIndices DEF FrameReadys, FrameAtHead
<1>2. G \in 1 .. ring /\ p \in Slots
  BY <1>0, FrameAtHeadType
<1> SUFFICES ASSUME G # vring
             PROVE  /\ tex'[vring][p].frame = shown'
                    /\ tex'[G][p].key = "key1"
                    /\ OlderThan(tex'[G][p].frame, G, window')
                    /\ OlderThan(tex'[G][p].frame, G, toViewer')
  BY <1>0, <1>2 DEF Behind, OlderThan, FrameReadys
<1>3. vring < G
  BY <1>0, <1>1, <1>2 DEF FrameInv, IInv, Channels, RingsAscend
<1>4. Unread(G) /\ tex[G][p].frame = h.frame /\ tex[G][p].key \in {"key1", "held"}
  <2>1. Unread(G)
    BY <1>0, <1>2, <1>3 DEF NewRingsUnread
  <2>2. tex[G][p].frame = h.frame /\ tex[G][p].key \in {"key1", "held"}
    BY <1>1 DEF FrameInv, IInv, Channels, Readable, Intact, Acquired
  <2> QED BY <2>1, <2>2
<1>5. tex[G][p].key = "key1"
  BY <1>2, <1>4 DEF Unread, Laid
<1>6. tex'[vring][p].frame = tex[vring][p].frame /\ tex'[G][p] = tex[G][p]
  <2>1. /\ \A r \in 1 .. ring, s \in Slots :
             /\ r < ring' => tex'[r][s].frame = tex[r][s].frame
             /\ tex[r][s].key = "key1" /\ (r # vring \/ ~FrameAtHead) => tex'[r][s] = tex[r][s]
        /\ ring' \in {ring, ring + 1}
    BY <1>0 DEF TexturesKept
  <2>2. vring < ring' /\ G # vring
    BY <1>0, <1>2, <1>3, <2>1
  <2>3. tex'[vring][p].frame = tex[vring][p].frame
    BY <1>0, <1>2, <2>1, <2>2
  <2>4. tex'[G][p] = tex[G][p]
    BY <1>2, <1>5, <2>1, <2>2
  <2> QED BY <2>3, <2>4
<1>7. OlderThan(h.frame, G, window') /\ OlderThan(h.frame, G, toViewer')
  <2>1. FramesAscend(toViewer, window)
    BY DEF FrameInv, FramesInOrder
  <2> HIDE DEF h
  <2> QED BY <1>0, <1>1, <2>1 DEF FramesAscend, OlderThan
<1> QED BY <1>0, <1>4, <1>5, <1>6, <1>7

\* Between two ring definitions of the window's queue the frames are of one
\* ring; those behind the last one, and those on the pipe that the client
\* thread will pass on, are of the ring the running session began with.  What
\* the viewer shows is behind the first of them.
WindowSegments ==
  \A i, j \in FrameReadys(window) :
    i < j => \/ window[i].ring = window[j].ring
             \/ \E k \in DOMAIN window : i < k /\ k < j /\ IsRing(window[k])
Segment(F) ==
  /\ PipeAgrees(ring, F, {}, toViewer)
  /\ vring <= F /\ \A i \in DOMAIN window : window[i].ring <= F
  /\ \A i \in FrameReadys(window) : window[i].ring = F \/ RingAfter(window, i)
  /\ ~HasRing(window) => Behind(F)
RunningSegment == linkUp /\ phase = "running" => \E F \in 0 .. ring : Segment(F)
WindowBehind == \A i \in FrameReadys(window) : NoRingBefore(window, i) => Behind(window[i].ring)

LEMMA SessionKeepsPipe ==
  ASSUME TypeOK, [Next]_vars, linkUp, linkUp', phase = "running", phase' = "running",
         NEW F, PipeAgrees(ring, F, {}, toViewer)
  PROVE  PipeAgrees(ring', F, {}, toViewer')
<1>0. /\ toViewer \in Seq(ViewerMessage(ring)) /\ ring \in Nat /\ ring + 1 \in Nat
      /\ AfterReset \in Seq(ViewerMessage(ring + 1))
  BY FreshRingType DEF TypeOK
<1>1. ASSUME NEW out, ring' \in Nat, out \in Seq(ViewerMessage(ring')), NEW pub, Announces(out, pub),
             PipeAgrees(ring', F, {}, out)
      PROVE  PipeAgrees(ring', F, {}, toViewer')
  <2>1. CASE toViewer' = out
    BY <1>1, <2>1
  <2>2. ASSUME ring' # 0, NEW s \in Slots, NEW f \in Frames,
               toViewer' = Append(out, FrameReady(ring', s, f))
        PROVE  PipeAgrees(ring', F, {}, toViewer')
    <3> DEFINE m == FrameReady(ring', s, f)
    <3>1. m \in ViewerMessage(ring') /\ m.ring = ring'
      <4>1. ring' \in 1 .. ring'
        BY <1>1, <2>2
      <4> QED BY <4>1 DEF FrameReady, ViewerMessage, Announcement
    <3> HIDE DEF m
    <3>2. PipeAgrees(ring', F, {}, Append(out, m))
      BY <1>1, <3>1, PipeQueueAgrees
    <3> QED BY <2>2, <3>2 DEF m
  <2> QED BY <1>1, <2>1, <2>2 DEF Announces
<1>2. CASE ring' = ring /\ Announces(toViewer, published)
  BY <1>0, <1>1, <1>2
<1>3. CASE ring' = ring + 1 /\ Announces(AfterReset, 0)
  <2>1. StreamReset \in ViewerMessage(ring) /\ IsReset(StreamReset)
    BY DEF ViewerMessage, StreamReset, IsReset
  <2> HIDE DEF StreamReset
  <2>2. PipeAgrees(ring + 1, F, {}, Append(toViewer, StreamReset))
    BY <1>0, <2>1, PipeQueueAgrees
  <2>3. PipeAgrees(ring', F, {}, AfterReset)
    BY <1>3, <2>2 DEF AfterReset, Queue
  <2> QED BY <1>0, <1>1, <1>3, <2>3
<1>4. CASE Reads
  <2>1. toViewer' = Tail(toViewer) /\ toViewer # <<>> /\ ring' = ring /\ Head(toViewer) \in Announcement(ring)
    BY <1>4 DEF Reads, pipeline
  <2>2. ~IsReset(Head(toViewer))
    BY <2>1 DEF Announcement, IsReset
  <2>3. PipeAgrees(ring, F, {}, Tail(toViewer))
    BY <1>0, <2>1, <2>2, PipeTailAgrees
  <2> QED BY <2>1, <2>3
<1> QED BY <1>2, <1>3, <1>4, PipeStep DEF PipeChanges

\* The frame the client thread passes on is of the session's ring.
LEMMA ReadIsOfSegment ==
  ASSUME TypeOK, Reads, NEW F, Segment(F)
  PROVE  Head(toViewer).ring = F
<1>1. toViewer \in Seq(ViewerMessage(ring)) /\ toViewer # <<>> /\ Head(toViewer) \in Announcement(ring)
  BY DEF Reads, TypeOK
<1>2. 1 \in DOMAIN toViewer /\ Head(toViewer) = toViewer[1] /\ \A j \in DOMAIN toViewer : ~(j < 1)
  BY <1>1, TailIndices, LenProperties
<1>3. 1 \in FrameReadys(toViewer) /\ ~ResetBefore(toViewer, 1)
  BY <1>1, <1>2 DEF FrameReadys, Announcement, ResetBefore
<1> QED BY <1>2, <1>3 DEF Segment, PipeAgrees

LEMMA StepWindowSegments ==
  ASSUME IInv, WindowSegments, RunningSegment, [Next]_vars
  PROVE  WindowSegments'
<1>0. /\ TypeOK /\ ring \in Nat /\ window \in Seq(WindowMessage(ring))
  BY DEF IInv, TypeOK
<1> SUFFICES ASSUME NEW i \in FrameReadys(window'), NEW j \in FrameReadys(window'), i < j
             PROVE  \/ window'[i].ring = window'[j].ring
                    \/ \E k \in DOMAIN window' : i < k /\ k < j /\ IsRing(window'[k])
  BY DEF WindowSegments, FrameReadys, IsRing
<1>1. CASE Keeps
  BY <1>1 DEF Keeps, WindowSegments
<1>2. CASE Offers \/ Reads
  <2>1. PICK m \in WindowMessage(ring) :
          /\ window' = Append(window, m)
          /\ m.type # "FrameReady" \/ (Reads /\ m = Head(toViewer))
    <3>1. RingMessage(ring) \in WindowMessage(ring) /\ RingMessage(ring).type # "FrameReady"
      BY <1>0 DEF WindowMessage, RingMessage
    <3>2. Reads => Head(toViewer) \in WindowMessage(ring) /\ window' = Append(window, Head(toViewer))
      BY DEF Reads, WindowMessage
    <3> QED BY <1>2, <3>1, <3>2 DEF Offers
  <2> DEFINE n == Len(window) + 1
  <2>2. /\ DOMAIN window' = DOMAIN window \union {n} /\ window'[n] = m
        /\ \A k \in DOMAIN window : window'[k] = window[k] /\ k \in Nat /\ k < n
    BY <1>0, <2>1, AppendIndices
  <2> HIDE DEF n
  <2>3. n \in Nat
    BY <1>0, LenProperties DEF n
  <2>4. i # n /\ i \in FrameReadys(window)
    BY <2>2, <2>3 DEF FrameReadys
  <2>5. CASE j = n
    <3>1. Reads /\ m = Head(toViewer)
      BY <2>1, <2>2, <2>5 DEF FrameReadys
    <3>2. PICK F : Segment(F)
      BY <3>1 DEF RunningSegment, Reads
    <3>3. m.ring = F
      BY <1>0, <3>1, <3>2, ReadIsOfSegment
    <3>4. window[i].ring = F \/ RingAfter(window, i)
      BY <2>4, <3>2 DEF Segment
    <3>5. i \in DOMAIN window
      BY <2>4 DEF FrameReadys
    <3>6. RingAfter(window, i) => \E k \in DOMAIN window' : i < k /\ k < j /\ IsRing(window'[k])
      BY <2>2, <2>5 DEF RingAfter
    <3> QED BY <2>2, <2>5, <3>3, <3>4, <3>5, <3>6
  <2>6. CASE j # n
    <3>1. j \in FrameReadys(window) /\ i \in DOMAIN window /\ j \in DOMAIN window
      BY <2>2, <2>4, <2>6 DEF FrameReadys
    <3> QED BY <2>2, <2>4, <3>1 DEF WindowSegments
  <2> QED BY <2>5, <2>6
<1>3. CASE OpensRing \/ Handles
  <2>1. window # <<>> /\ window' = Tail(window)
    BY <1>3 DEF OpensRing, Handles, FrameAtHead
  <2>2. /\ Len(window) \in Nat /\ DOMAIN window = 1 .. Len(window)
        /\ DOMAIN window' = 1 .. Len(window) - 1
        /\ \A k \in DOMAIN window' : k \in Nat /\ k >= 1 /\ k + 1 \in DOMAIN window /\ window'[k] = window[k + 1]
    BY <1>0, <2>1, HeadTailProperties, LenProperties, TailIndices
  <2>3. i + 1 \in FrameReadys(window) /\ j + 1 \in FrameReadys(window) /\ i + 1 < j + 1 /\ i \in Nat /\ j \in Nat
    BY <2>2 DEF FrameReadys
  <2>4. window'[i] = window[i + 1] /\ window'[j] = window[j + 1]
    BY <2>2 DEF FrameReadys
  <2>5. ASSUME NEW k \in DOMAIN window, i + 1 < k, k < j + 1, IsRing(window[k])
        PROVE  \E l \in DOMAIN window' : i < l /\ l < j /\ IsRing(window'[l])
    <3>1. k - 1 \in DOMAIN window' /\ i < k - 1 /\ k - 1 < j /\ (k - 1) + 1 = k
      BY <2>2, <2>3, <2>5
    <3>2. window'[k - 1] = window[(k - 1) + 1]
      BY <2>2, <3>1
    <3> QED BY <2>5, <3>1, <3>2
  <2> QED BY <2>3, <2>4, <2>5 DEF WindowSegments
<1>4. CASE Exits
  BY <1>4 DEF Exits, FrameReadys
<1> QED BY <1>1, <1>2, <1>3, <1>4, WindowChanges DEF IInv

LEMMA StepRunningSegment ==
  ASSUME FrameInv, Old, NewRingsUnread, OfferLast, RunningSegment, [Next]_vars
  PROVE  RunningSegment'
<1>0. /\ IInv /\ TypeOK /\ PipeChanges /\ ring \in Nat /\ vring \in 0 .. ring
      /\ window \in Seq(WindowMessage(ring)) /\ ring' \in {ring, ring + 1}
      /\ phase # "running" => toViewer = <<>>
  BY TextureStep, PipeStep DEF FrameInv, IInv, TypeOK, TexturesKept
<1> DEFINE Goal(F) ==
      /\ PipeAgrees(ring', F, {}, toViewer')
      /\ vring' <= F /\ \A i \in DOMAIN window' : window'[i].ring <= F
      /\ \A i \in FrameReadys(window') : window'[i].ring = F \/ RingAfter(window', i)
      /\ ~HasRing(window') => Behind(F)'
<1> SUFFICES ASSUME linkUp', phase' = "running" PROVE \E F \in 0 .. ring' : Goal(F)
  BY DEF RunningSegment, Segment, RingAfter, HasRing, FrameReadys, IsRing, PipeAgrees, ResetBefore, IsReset
<1>1. CASE phase = "offered" /\ UNCHANGED <<pipeline, toViewer, window, vring, shown>>
  <2>1. toViewer' = <<>> /\ ring' = ring
    BY <1>0, <1>1 DEF pipeline
  <2>2. PipeAgrees(ring', ring, {}, toViewer')
    BY <2>1 DEF PipeAgrees, FrameReadys
  <2>3. \A i \in DOMAIN window : window[i].ring <= ring
    <3>1. \A i \in DOMAIN window : window[i] \in WindowMessage(ring)
      BY <1>0, ElementOfSeq, LenProperties
    <3>2. \A m \in WindowMessage(ring) : m.ring <= ring
      BY <1>0 DEF WindowMessage, Announcement, RingMessage
    <3> QED BY <3>1, <3>2
  <2>4. \A i \in FrameReadys(window) : RingAfter(window, i)
    BY <1>1 DEF OfferLast
  <2>5. ~HasRing(window) => shown' = 0
    BY <1>1 DEF OfferLast, HasRing
  <2>6. PICK F \in 0 .. ring' : F = ring
    BY <1>0, <2>1
  <2>7. ~HasRing(window') => Behind(F)'
    BY <1>1, <2>5 DEF Behind
  <2> QED BY <1>0, <1>1, <2>2, <2>3, <2>4, <2>6, <2>7
<1>2. CASE linkUp /\ phase = "running"
  <2>1. PICK F \in 0 .. ring : Segment(F)
    BY <1>2 DEF RunningSegment
  <2>2. PipeAgrees(ring', F, {}, toViewer')
    BY <1>0, <1>2, <2>1, SessionKeepsPipe DEF Segment
  <2>3. F \in 0 .. ring'
    BY <1>0
  <2>4. /\ vring <= F /\ \A i \in DOMAIN window : window[i].ring <= F
        /\ \A i \in FrameReadys(window) : window[i].ring = F \/ RingAfter(window, i)
        /\ ~HasRing(window) => Behind(F)
    BY <2>1 DEF Segment
  <2>5. CASE Keeps
    <3>1. ~HasRing(window) => Behind(F)'
      BY <1>0, <2>4, <2>5, BehindStep DEF Keeps
    <3> QED BY <2>2, <2>3, <2>4, <2>5, <3>1 DEF Keeps
  <2>6. CASE Reads
    <3> DEFINE m == Head(toViewer)
    <3>1. /\ m \in WindowMessage(ring) /\ m.type = "FrameReady" /\ window' = Append(window, m)
          /\ UNCHANGED <<vring, shown>>
      BY <2>6 DEF Reads, WindowMessage, Announcement
    <3>2. m.ring = F
      BY <1>0, <2>1, <2>6, ReadIsOfSegment
    <3> HIDE DEF m
    <3>3. \A i \in DOMAIN window' : (i \in DOMAIN window /\ window'[i] = window[i]) \/ window'[i] = m
      BY <1>0, <3>1, AppendIndices
    <3>4. \A i \in DOMAIN window' : window'[i].ring <= F
      BY <2>4, <3>2, <3>3
    <3>5. \A i \in FrameReadys(window') : window'[i].ring = F \/ RingAfter(window', i)
      <4> SUFFICES ASSUME NEW i \in FrameReadys(window'), window'[i] # m
                   PROVE  window'[i].ring = F \/ RingAfter(window', i)
        BY <3>2
      <4>1. i \in DOMAIN window /\ window'[i] = window[i] /\ i \in FrameReadys(window)
        BY <3>3 DEF FrameReadys
      <4>2. RingAfter(window, i) => RingAfter(window', i)
        BY <1>0, <3>1, <4>1, RingAfterAppend
      <4> QED BY <2>4, <4>1, <4>2
    <3>6. ~HasRing(window') => ~HasRing(window)
      BY <1>0, <3>1, RingAfterAppend
    <3>7. Behind(F) => Behind(F)'
      BY <1>0, <2>4, <3>1, BehindStep
    <3> QED BY <2>2, <2>3, <2>4, <3>1, <3>4, <3>5, <3>6, <3>7
  <2>7. CASE OpensRing \/ Handles
    <3>1. window # <<>> /\ window' = Tail(window)
      BY <2>7 DEF OpensRing, Handles, FrameAtHead
    <3>2. /\ 1 \in DOMAIN window /\ Head(window) = window[1]
          /\ \A i \in DOMAIN window' : i + 1 \in DOMAIN window /\ window'[i] = window[i + 1]
      BY <1>0, <3>1, TailIndices
    <3>3. \A i \in DOMAIN window' : window'[i].ring <= F
      BY <2>4, <3>2
    <3>4. \A i \in FrameReadys(window') : window'[i].ring = F \/ RingAfter(window', i)
      <4> SUFFICES ASSUME NEW i \in FrameReadys(window') PROVE window'[i].ring = F \/ RingAfter(window', i)
        OBVIOUS
      <4>1. i \in DOMAIN window' /\ i + 1 \in FrameReadys(window) /\ window'[i] = window[i + 1]
        BY <3>2 DEF FrameReadys
      <4>2. RingAfter(window, i + 1) => RingAfter(window', i)
        BY <1>0, <3>1, <4>1, RingAfterTail
      <4> QED BY <2>4, <4>1, <4>2
    <3>5. CASE OpensRing
      <4>1. vring' <= F /\ shown' = 0
        <5>1. vring' \in {Head(window).ring, 0} /\ shown' = 0
          BY <3>5 DEF OpensRing
        <5> QED BY <2>1, <2>4, <3>2, <5>1
      <4>2. Behind(F)'
        BY <4>1 DEF Behind
      <4> QED BY <2>2, <2>3, <3>3, <3>4, <4>1, <4>2
    <3>6. CASE Handles
      <4>1. /\ vring' = vring /\ ~IsRing(Head(window)) /\ 1 \in FrameReadys(window)
            /\ shown' = shown \/ ShowFrame
        BY <3>2, <3>6 DEF Handles, FrameAtHead, IsRing, FrameReadys
      <4>2. ~HasRing(window') => ~HasRing(window)
        BY <1>0, <3>1, <4>1, RingAfterTail
      <4>3. ASSUME ~HasRing(window') PROVE Behind(F)'
        <5>1. CASE shown' = shown
          BY <1>0, <2>4, <4>1, <4>2, <4>3, <5>1, BehindStep
        <5>2. CASE ShowFrame
          <6>1. ~RingAfter(window, 1)
            BY <1>0, <3>1, <4>3, RingAfterTail
          <6>2. F = Head(window).ring
            BY <2>4, <3>2, <4>1, <6>1
          <6> QED BY <5>2, <6>2, BehindShow
        <5> QED BY <4>1, <5>1, <5>2
      <4> QED BY <2>2, <2>3, <2>4, <3>3, <3>4, <4>1, <4>3
    <3> QED BY <2>7, <3>5, <3>6
  <2>8. CASE Offers \/ Exits
    BY <2>8 DEF Offers, Exits
  <2> QED BY <1>0, <2>5, <2>6, <2>7, <2>8, WindowChanges
<1> QED BY <1>0, <1>1, <1>2, SessionStep

LEMMA StepWindowBehind ==
  ASSUME FrameInv, Old, NewRingsUnread, WindowSegments, RunningSegment, WindowBehind, [Next]_vars
  PROVE  WindowBehind'
<1>0. /\ IInv /\ TypeOK /\ ring \in Nat /\ vring \in 0 .. ring
      /\ window \in Seq(WindowMessage(ring)) /\ toViewer \in Seq(ViewerMessage(ring))
      /\ RingsAscend(vring, toViewer, window)
  BY DEF FrameInv, IInv, TypeOK, Channels
<1> SUFFICES ASSUME NEW i \in FrameReadys(window'), NoRingBefore(window', i),
                    NEW G, G = window'[i].ring
             PROVE  Behind(G)'
  <2>1. \A i \in FrameReadys(window') : NoRingBefore(window', i) => \A G : G = window'[i].ring => Behind(G)'
    OBVIOUS
  <2> QED BY <2>1 DEF WindowBehind, NoRingBefore, FrameReadys, IsRing
<1>1. ASSUME NEW j \in FrameReadys(window), NoRingBefore(window, j), window[j].ring = G, UNCHANGED <<vring, shown>>
      PROVE  Behind(G)'
  <2>1. Behind(G)
    BY <1>1 DEF WindowBehind
  <2>2. G \in 0 .. ring /\ vring <= G
    <3>1. window[j].ring \in 1 .. ring /\ j \in DOMAIN window
      BY <1>0, AnnouncementTypes
    <3> QED BY <1>0, <1>1, <3>1 DEF RingsAscend
  <2> QED BY <1>0, <1>1, <2>1, <2>2, BehindStep
<1>2. CASE Keeps
  <2>1. NoRingBefore(window, i) /\ i \in FrameReadys(window) /\ window[i].ring = G
    BY <1>2 DEF Keeps
  <2> QED BY <1>1, <1>2, <2>1 DEF Keeps
<1>3. CASE Offers \/ Reads
  <2>1. PICK m \in WindowMessage(ring) :
          /\ window' = Append(window, m)
          /\ m.type # "FrameReady" \/ (Reads /\ m = Head(toViewer))
    <3>1. RingMessage(ring) \in WindowMessage(ring) /\ RingMessage(ring).type # "FrameReady"
      BY <1>0 DEF WindowMessage, RingMessage
    <3>2. Reads => Head(toViewer) \in WindowMessage(ring) /\ window' = Append(window, Head(toViewer))
      BY DEF Reads, WindowMessage
    <3> QED BY <1>3, <3>1, <3>2 DEF Offers
  <2>2. UNCHANGED <<vring, shown>>
    BY <1>3 DEF Offers, Reads
  <2> DEFINE n == Len(window) + 1
  <2>3. /\ DOMAIN window' = DOMAIN window \union {n} /\ window'[n] = m
        /\ \A k \in DOMAIN window : window'[k] = window[k] /\ k \in Nat /\ k < n
    BY <1>0, <2>1, AppendIndices
  <2> HIDE DEF n
  <2>4. \A k \in DOMAIN window : k < i => ~IsRing(window[k])
    BY <2>3 DEF NoRingBefore
  <2>5. CASE i = n
    <3>1. Reads /\ m = Head(toViewer)
      BY <2>1, <2>3, <2>5 DEF FrameReadys
    <3>2. PICK F \in 0 .. ring : Segment(F)
      BY <3>1 DEF RunningSegment, Reads
    <3>3. G = F
      BY <1>0, <2>3, <2>5, <3>1, <3>2, ReadIsOfSegment
    <3>4. ~HasRing(window)
      BY <2>3, <2>4, <2>5 DEF HasRing
    <3>5. Behind(G) /\ vring <= G
      BY <3>2, <3>3, <3>4 DEF Segment
    <3> QED BY <1>0, <2>2, <3>2, <3>3, <3>5, BehindStep
  <2>6. CASE i # n
    <3>1. i \in FrameReadys(window) /\ window[i].ring = G
      BY <2>3, <2>6 DEF FrameReadys
    <3>2. NoRingBefore(window, i)
      BY <2>4 DEF NoRingBefore
    <3> QED BY <1>1, <2>2, <3>1, <3>2
  <2> QED BY <2>5, <2>6
<1>4. CASE OpensRing
  BY <1>4 DEF OpensRing, Behind
<1>5. CASE Exits
  BY <1>5 DEF Exits, Behind
<1>6. CASE Handles
  <2>1. /\ window # <<>> /\ window' = Tail(window) /\ FrameAtHead /\ vring' = vring
        /\ shown' = shown \/ ShowFrame
    BY <1>6 DEF Handles, FrameAtHead
  <2>2. /\ 1 \in FrameReadys(window) /\ Head(window) = window[1] /\ ~IsRing(window[1])
        /\ \A k \in DOMAIN window' : k \in Nat /\ k >= 1 /\ k + 1 \in DOMAIN window /\ window'[k] = window[k + 1]
    BY <1>0, <2>1, TailIndices DEF FrameAtHead, IsRing, FrameReadys
  <2>3. i \in Nat /\ i + 1 \in FrameReadys(window) /\ window[i + 1].ring = G /\ 1 < i + 1
    BY <2>2 DEF FrameReadys
  <2>4. NoRingBefore(window, i + 1)
    <3> SUFFICES ASSUME NEW k \in DOMAIN window, k < i + 1, k # 1 PROVE ~IsRing(window[k])
      BY <2>2 DEF NoRingBefore
    <3>1. k - 1 \in DOMAIN window' /\ k - 1 < i /\ (k - 1) + 1 = k
      <4>1. k \in 1 .. Len(window) /\ Len(window) \in Nat /\ DOMAIN window' = 1 .. Len(window) - 1
        BY <1>0, <2>1, HeadTailProperties, LenProperties
      <4> QED BY <2>3, <4>1
    <3>2. window'[k - 1] = window[(k - 1) + 1]
      BY <2>2, <3>1
    <3> QED BY <3>1, <3>2 DEF NoRingBefore
  <2>5. CASE shown' = shown
    BY <1>1, <2>1, <2>3, <2>4, <2>5
  <2>6. CASE ShowFrame
    <3>1. Head(window).ring = G
      BY <2>2, <2>3, <2>4 DEF WindowSegments, NoRingBefore
    <3> QED BY <2>6, <3>1, BehindShow
  <2> QED BY <2>1, <2>5, <2>6
<1> QED BY <1>0, <1>2, <1>3, <1>4, <1>5, <1>6, WindowChanges

FeedInv ==
  /\ FrameInv /\ Old
  /\ NewRingsUnread /\ OfferUnread /\ OfferLast /\ AgreeLaid
  /\ WindowSegments /\ RunningSegment /\ WindowBehind

LEMMA InitFeedInv == Init => FeedInv
<1> SUFFICES ASSUME Init PROVE FeedInv
  OBVIOUS
<1>1. /\ ring = 0 /\ vring = 0 /\ sring = 0 /\ shown = 0 /\ window = <<>> /\ toViewer = <<>>
      /\ phase = "idle" /\ ringReady = FALSE /\ linkUp = FALSE
      /\ DOMAIN window = {} /\ FrameReadys(window) = {}
  BY DEF Init, FrameReadys
<1>2. FrameInv
  BY InitFrameInv
<1>3. Old
  BY <1>1 DEF Old, TexturesOld
<1>4. NewRingsUnread /\ OfferUnread /\ OfferLast
  BY <1>1 DEF NewRingsUnread, OfferUnread, OfferLast
<1>5. AgreeLaid
  <2>1. WindowAgrees(0, <<>>, 0, LaidRings)
    BY DEF WindowAgrees, OpenIsIn, FrameReadys
  <2> QED BY <1>1, <2>1 DEF AgreeLaid, RingsAgreeAt
<1>6. WindowSegments /\ RunningSegment /\ WindowBehind
  BY <1>1 DEF WindowSegments, RunningSegment, WindowBehind
<1> QED BY <1>2, <1>3, <1>4, <1>5, <1>6 DEF FeedInv

LEMMA StepFeedInv == FeedInv /\ [Next]_vars => FeedInv'
<1> SUFFICES ASSUME FeedInv, [Next]_vars PROVE FeedInv'
  OBVIOUS
<1>1. IInv /\ TypeOK /\ FrameInv'
  BY StepFrameInv DEF FeedInv, FrameInv, IInv
<1>2. Old'
  BY <1>1, TextureStep DEF FeedInv, TexturesKept
<1>3. NewRingsUnread' /\ OfferUnread' /\ OfferLast' /\ AgreeLaid'
  BY <1>1, StepNewRings, StepOfferUnread, StepOfferLast, StepAgreeLaid DEF FeedInv
<1>4. WindowSegments' /\ RunningSegment' /\ WindowBehind'
  BY <1>1, StepWindowSegments, StepRunningSegment, StepWindowBehind DEF FeedInv
<1> QED BY <1>1, <1>2, <1>3, <1>4 DEF FeedInv

\* The frame shown next is newer than the one shown.
LEMMA ShownAscends ==
  ASSUME FeedInv, ShowFrame
  PROVE  shown' \in shown + 1 .. latest
<1> DEFINE h == Head(window)
           p == h.slot
           G == h.ring
           f == tex[vring][p].frame
<1>0. /\ TypeOK /\ FrameAtHead /\ ring \in Nat /\ vring \in 1 .. ring /\ shown \in Nat /\ latest \in Nat
      /\ tex \in TexturesType(ring) /\ window \in Seq(WindowMessage(ring)) /\ window # <<>>
      /\ shown' = f /\ tex[vring][p].key = "held"
  BY SMTT(30), ConstantFacts DEF FeedInv, FrameInv, IInv, TypeOK, TexturesType, ShowFrame, FrameAtHead, KeyAtHead
<1>1. /\ 1 \in FrameReadys(window) /\ 1 \in DOMAIN window /\ h = window[1]
      /\ NoRingBefore(window, 1)
  <2>1. 1 \in DOMAIN window /\ h = window[1] /\ \A k \in DOMAIN window : ~(k < 1)
    BY <1>0, TailIndices, LenProperties
  <2> QED BY <1>0, <2>1 DEF FrameAtHead, FrameReadys, NoRingBefore
<1>2. G \in 1 .. ring /\ p \in Slots /\ h.frame \in Nat
  BY <1>0, FrameAtHeadType, ConstantFacts
<1>3. f \in Nat /\ f > 0 /\ f <= latest
  <2>1. tex[vring][p] \in Texture
    BY <1>0, <1>2 DEF TexturesType
  <2>2. f > 0 /\ f <= latest
    BY <1>0, <1>2 DEF FeedInv, Old, TexturesOld
  <2> QED BY <2>1, <2>2, ConstantFacts DEF Texture
<1>4. tex[G][p].frame = h.frame /\ tex[G][p].key \in {"key1", "held"}
  BY <1>1 DEF FeedInv, FrameInv, IInv, Channels, Readable, Intact, Acquired
<1>5. CASE shown = 0
  BY <1>0, <1>3, <1>5
<1>6. CASE G = vring
  <2>1. h.frame > shown
    BY <1>1, <1>6 DEF FeedInv, FrameInv, FramesInOrder, FramesNewer, NewerThan
  <2> QED BY <1>0, <1>3, <1>4, <1>6, <2>1
<1>7. CASE shown # 0 /\ G # vring
  <2>1. vring < G
    BY <1>0, <1>1, <1>2, <1>7 DEF FeedInv, FrameInv, IInv, Channels, RingsAscend
  <2>2. Laid(tex[G])
    BY <1>0, <1>2, <2>1 DEF FeedInv, NewRingsUnread, Unread
  <2>3. SlotsInOrder(tex[vring])
    <3>1. OpenIsIn(vring, window, 1, {G, 0} \union LaidRings)
      BY <1>1 DEF FeedInv, AgreeLaid, RingsAgreeAt, WindowAgrees
    <3>2. vring \in LaidRings
      BY <1>0, <1>1, <1>7, <3>1 DEF OpenIsIn
    <3> QED BY <3>2 DEF LaidRings
  <2>4. PICK s \in Slots :
          tex[vring][s].frame = shown /\ tex[G][s].key = "key1" /\ OlderThan(tex[G][s].frame, G, window)
    BY <1>0, <1>1, <1>7 DEF FeedInv, WindowBehind, Behind
  <2>5. tex[G][s].frame < h.frame /\ tex[G][s].frame \in Nat
    <3>1. tex[G][s] \in Texture
      BY <1>0, <1>2 DEF TexturesType
    <3> QED BY <1>1, <2>4, <3>1, ConstantFacts DEF OlderThan, Texture
  <2>6. s < p
    <3>1. s \in Nat /\ p \in Nat
      BY <1>2, ConstantFacts
    <3>2. s # p
      BY <1>2, <1>4, <2>5
    <3>3. ~(p < s)
      <4>1. p < s => tex[G][p].frame < tex[G][s].frame
        BY <1>2, <2>2, <2>4 DEF Laid
      <4> QED BY <1>2, <1>4, <2>5, <4>1
    <3> QED BY <3>1, <3>2, <3>3
  <2>7. shown < f
    BY <1>0, <1>2, <1>3, <1>7, <2>3, <2>4, <2>6 DEF SlotsInOrder
  <2> QED BY <1>0, <1>3, <2>7
<1> QED BY <1>5, <1>6, <1>7

LEMMA StepFeed == FeedInv /\ [Next]_vars => [Feed!Next]_Feed!vars
<1> SUFFICES ASSUME FeedInv, [Next]_vars PROVE [Feed!Next]_Feed!vars
  OBVIOUS
<1>1. ASSUME Compose \/ ComposeInNewRing PROVE Feed!Compose
  BY <1>1 DEF Compose, ComposeInNewRing, viewer, Feed!Compose
<1>2. ASSUME ShowFrame PROVE Feed!Display
  BY <1>2, ShownAscends DEF ShowFrame, Feed!Display
<1>3. ASSUME RingOpened \/ RingRefused \/ ViewerExits PROVE Feed!ViewerRestarts
  BY <1>3 DEF RingOpened, RingRefused, ViewerExits, pipeline, Feed!ViewerRestarts
<1>4. ASSUME UIStep \/ ServerStep \/ ClientRead PROVE UNCHANGED Feed!vars
  BY <1>4 DEF UIStep, ViewerReady, FrameReleased, ViewerDisconnected, ServerStep, OfferRing,
              HandshakeRead, ServerRead, SessionLost, ClientRead, pipeline, viewer, Feed!vars
<1>5. ASSUME AcquireFrame \/ AcquireTimesOut \/ CopyTimesOut \/ HandshakeAborted \/ LinkBreaks \/ UNCHANGED vars
      PROVE  UNCHANGED Feed!vars
  BY <1>5 DEF AcquireFrame, AcquireTimesOut, CopyTimesOut, SpendFrame, HandshakeAborted, LinkBreaks,
              vars, pipeline, viewer, Feed!vars
<1> QED BY <1>1, <1>2, <1>3, <1>4, <1>5
        DEF Next, WindowStep, Environment, Feed!Next

\* The ring, its channels and its sessions implement the frame feed: however
\* sessions, rings and timeouts interleave, the viewer shows composed frames,
\* each newer than the one before, until it starts over with none.
THEOREM FeedIsImplemented == Spec => FeedSpec
<1>1. Init => FeedInv
  BY InitFeedInv
<1>2. FeedInv /\ [Next]_vars => FeedInv'
  BY StepFeedInv
<1>3. Init => Feed!Init
  BY DEF Init, Feed!Init
<1>4. FeedInv /\ [Next]_vars => [Feed!Next]_Feed!vars
  BY StepFeed
<1> QED BY <1>1, <1>2, <1>3, <1>4, PTL DEF Spec, FeedSpec, Feed!Spec

-----------------------------------------------------------------------------
(***************************************************************************)
(* The slots.  A session begins with every slot available and every key 0, *)
(* because the disconnection of the one before it has been handled, and    *)
(* with nothing on the channels back: the acceptance of the offered ring   *)
(* is the last thing the viewer wrote.  From then on the viewer releases   *)
(* only what it has put on key 0.                                          *)
(***************************************************************************)
IsAccept(m) == m.type = "GenerationAccepted"
IsRelease(m) == m.type = "FrameReleased"
IsLoss(m) == m.type = "Disconnected"

\* What a step may do to the tasks: run the first, or post one.
TaskChanges ==
  \/ UNCHANGED <<tasks, phase>>
  \/ phase' = phase /\ tasks # <<>> /\ tasks' = Tail(tasks)
  \/ phase' = "idle" /\ tasks' = Append(tasks, Disconnected)
  \/ phase = "running" /\ phase' = "running" /\ \E m \in Task : tasks' = Append(tasks, m)
  \/ phase = "idle" /\ phase' = "offered" /\ tasks' = tasks
  \/ phase = "offered" /\ phase' = "running" /\ tasks' = Append(tasks, Ready)

LEMMA TaskStep ==
  ASSUME TypeOK, [Next]_vars
  PROVE  TaskChanges
<1>1. ASSUME Compose \/ ComposeInNewRing \/ ClientRead \/ LinkBreaks \/ UNCHANGED vars
      PROVE  UNCHANGED <<tasks, phase>>
  BY <1>1 DEF Compose, ComposeInNewRing, ClientRead, LinkBreaks, server, vars
<1>2. ASSUME WindowStep \/ RingRefused \/ CopyTimesOut \/ ViewerExits
      PROVE  UNCHANGED <<tasks, phase>>
  BY <1>2 DEF WindowStep, RingOpened, AcquireFrame, ShowFrame, AcquireTimesOut, RingRefused,
              CopyTimesOut, SpendFrame, ViewerExits, server
<1>3. ASSUME UIStep PROVE phase' = phase /\ tasks # <<>> /\ tasks' = Tail(tasks)
  BY <1>3 DEF UIStep, ViewerReady, FrameReleased, ViewerDisconnected
<1>4. ASSUME HandshakeAborted \/ SessionLost PROVE phase' = "idle" /\ tasks' = Append(tasks, Disconnected)
  BY <1>4 DEF HandshakeAborted, SessionLost, EndSession
<1>5. ASSUME OfferRing PROVE phase = "idle" /\ phase' = "offered" /\ tasks' = tasks
  BY <1>5 DEF OfferRing
<1>6. ASSUME HandshakeRead
      PROVE  \/ phase' = "idle" /\ tasks' = Append(tasks, Disconnected)
             \/ phase = "offered" /\ phase' = "running" /\ tasks' = Append(tasks, Ready)
  BY <1>6 DEF HandshakeRead, EndSession
<1>7. ASSUME ServerRead
      PROVE  \/ UNCHANGED <<tasks, phase>>
             \/ phase = "running" /\ phase' = "running" /\ \E m \in Task : tasks' = Append(tasks, m)
  <2>1. /\ phase = "running" /\ phase' = "running" /\ toServer # <<>>
        /\ tasks' = IF Head(toServer).type = "FrameReleased" THEN Append(tasks, Head(toServer)) ELSE tasks
    BY <1>7 DEF ServerRead
  <2>2. Head(toServer) \in ServerMessage(ring)
    BY <2>1, HeadTailProperties DEF TypeOK
  <2>3. Head(toServer).type = "FrameReleased" => Head(toServer) \in Task
    BY <2>2 DEF ServerMessage, Task, GenerationAccepted
  <2> QED BY <2>1, <2>3
<1> QED BY <1>1, <1>2, <1>3, <1>4, <1>5, <1>6, <1>7
        DEF TaskChanges, Next, ServerStep, Environment

\* A session leaves the task that ends it behind.
TasksEnd == phase # "running" /\ tasks # <<>> => IsLoss(tasks[Len(tasks)])

LEMMA LastOfTail ==
  ASSUME NEW S, NEW q \in Seq(S), q # <<>>, Tail(q) # <<>>
  PROVE  Tail(q)[Len(Tail(q))] = q[Len(q)]
<1>1. PICK n \in Nat : n = Len(q)
  BY LenProperties
<1>2. Tail(q) \in Seq(S) /\ Len(Tail(q)) = n - 1 /\ \A i \in 1 .. n - 1 : Tail(q)[i] = q[i + 1]
  BY <1>1, HeadTailProperties
<1>3. n - 1 \in 1 .. n - 1
  BY <1>1, <1>2, EmptySeq
<1> QED BY <1>1, <1>2, <1>3

LEMMA StepTasksEnd ==
  ASSUME TypeOK, TasksEnd, [Next]_vars
  PROVE  TasksEnd'
<1>0. TaskChanges /\ tasks \in Seq(Task)
  BY TaskStep DEF TypeOK
<1>1. CASE UNCHANGED <<tasks, phase>>
  BY <1>1 DEF TasksEnd
<1>2. CASE phase' = phase /\ tasks # <<>> /\ tasks' = Tail(tasks)
  <2>1. Tail(tasks) # <<>> => Tail(tasks)[Len(Tail(tasks))] = tasks[Len(tasks)]
    BY <1>0, <1>2, LastOfTail
  <2> QED BY <1>2, <2>1 DEF TasksEnd
<1>3. CASE phase' = "idle" /\ tasks' = Append(tasks, Disconnected)
  <2>1. Disconnected \in Task /\ IsLoss(Disconnected)
    BY DEF Task, IsLoss, Disconnected
  <2>2. Len(tasks') = Len(tasks) + 1 /\ tasks'[Len(tasks) + 1] = Disconnected
    BY <1>0, <1>3, <2>1, AppendProperties
  <2> QED BY <2>1, <2>2 DEF TasksEnd
<1>4. CASE phase' = "running"
  BY <1>4 DEF TasksEnd
<1>5. CASE phase = "idle" /\ phase' = "offered" /\ tasks' = tasks
  BY <1>5 DEF TasksEnd
<1> QED BY <1>0, <1>1, <1>2, <1>3, <1>4, <1>5 DEF TaskChanges

\* What the server thread, and the client thread, do when no session is up.
IdleIsQuiet == phase = "idle" => toServer = <<>> /\ ~linkUp /\ ~waiting

LEMMA StepIdleIsQuiet ==
  ASSUME IdleIsQuiet, [Next]_vars
  PROVE  IdleIsQuiet'
<1>1. ASSUME Compose \/ ComposeInNewRing \/ ClientRead \/ LinkBreaks \/ UIStep \/ ServerRead \/ UNCHANGED vars
      PROVE  IdleIsQuiet'
  BY <1>1 DEF Compose, ComposeInNewRing, ClientRead, LinkBreaks, UIStep, ViewerReady, FrameReleased,
              ViewerDisconnected, ServerRead, server, viewer, vars, IdleIsQuiet
<1>2. ASSUME WindowStep \/ RingRefused \/ CopyTimesOut \/ ViewerExits
      PROVE  IdleIsQuiet'
  BY <1>2 DEF WindowStep, RingOpened, AcquireFrame, ShowFrame, AcquireTimesOut, RingRefused,
              CopyTimesOut, SpendFrame, ViewerExits, server, viewer, IdleIsQuiet
<1>3. ASSUME HandshakeAborted \/ SessionLost \/ OfferRing \/ HandshakeRead PROVE IdleIsQuiet'
  BY <1>3 DEF HandshakeAborted, SessionLost, OfferRing, HandshakeRead, EndSession, IdleIsQuiet
<1> QED BY <1>1, <1>2, <1>3 DEF Next, ServerStep, Environment

\* Unless a ring is offered, the session's ring stays, and the definitions in
\* the window's queue after a step were there before it, in the same order.
LEMMA OfferedRingStays ==
  ASSUME TypeOK, [Next]_vars, ~Offers
  PROVE  sring' = sring
<1>1. ASSUME Compose \/ ComposeInNewRing \/ ClientRead \/ LinkBreaks \/ UIStep \/ ServerRead \/ UNCHANGED vars
      PROVE  sring' = sring
  BY <1>1 DEF Compose, ComposeInNewRing, ClientRead, LinkBreaks, UIStep, ViewerReady, FrameReleased,
              ViewerDisconnected, ServerRead, server, vars
<1>2. ASSUME WindowStep \/ RingRefused \/ CopyTimesOut \/ ViewerExits
      PROVE  sring' = sring
  BY <1>2 DEF WindowStep, RingOpened, AcquireFrame, ShowFrame, AcquireTimesOut, RingRefused,
              CopyTimesOut, SpendFrame, ViewerExits, server
<1>3. ASSUME HandshakeAborted \/ SessionLost \/ HandshakeRead PROVE sring' = sring
  BY <1>3 DEF HandshakeAborted, SessionLost, HandshakeRead
<1>4. ASSUME OfferRing PROVE FALSE
  BY <1>4 DEF OfferRing, Offers, pipeline
<1> QED BY <1>1, <1>2, <1>3, <1>4 DEF Next, ServerStep, Environment

LEMMA RingsOfQueue ==
  ASSUME TypeOK, [Next]_vars, ~Offers
  PROVE  \A i \in DOMAIN window' : IsRing(window'[i]) =>
           \E j \in DOMAIN window : /\ window'[i] = window[j]
                                    /\ RingAfter(window', i) => RingAfter(window, j)
<1>0. window \in Seq(WindowMessage(ring)) /\ ring \in Nat
  BY DEF TypeOK
<1>1. CASE Keeps
  BY <1>1 DEF Keeps
<1>2. CASE Reads
  <2> DEFINE m == Head(toViewer)
  <2>1. m \in WindowMessage(ring) /\ ~IsRing(m) /\ window' = Append(window, m)
    BY <1>2 DEF Reads, WindowMessage, Announcement, IsRing
  <2> HIDE DEF m
  <2>2. \A i \in DOMAIN window' : (i \in DOMAIN window /\ window'[i] = window[i]) \/ window'[i] = m
    BY <1>0, <2>1, AppendIndices
  <2>3. \A i \in DOMAIN window : RingAfter(window', i) => RingAfter(window, i)
    BY <2>1, <2>2 DEF RingAfter
  <2> QED BY <2>1, <2>2, <2>3
<1>3. CASE OpensRing \/ Handles
  <2>1. window # <<>> /\ window' = Tail(window)
    BY <1>3 DEF OpensRing, Handles, FrameAtHead
  <2>2. \A i \in DOMAIN window' : i \in Nat /\ i + 1 \in DOMAIN window /\ window'[i] = window[i + 1]
    BY <1>0, <2>1, TailIndices
  <2>3. ASSUME NEW i \in DOMAIN window', RingAfter(window', i) PROVE RingAfter(window, i + 1)
    <3>1. PICK k \in DOMAIN window' : i < k /\ IsRing(window'[k])
      BY <2>3 DEF RingAfter
    <3>2. i + 1 < k + 1 /\ k + 1 \in DOMAIN window /\ IsRing(window[k + 1])
      BY <2>2, <3>1
    <3> QED BY <3>2 DEF RingAfter
  <2> QED BY <2>2, <2>3
<1>4. CASE Exits
  BY <1>4 DEF Exits
<1> QED BY <1>1, <1>2, <1>3, <1>4, WindowChanges

\* The ring on offer, or the session's, is the last the window will open: a
\* ring made before is not the newest when a session ends, and the next one
\* offers a newer ring than all it has been sent.
OfferIsLast ==
  /\ phase = "idle" /\ ringReady =>
       \A j \in DOMAIN window : IsRing(window[j]) => window[j].ring < ring
  /\ phase # "idle" =>
       /\ sring > 0
       /\ \A j \in DOMAIN window :
            IsRing(window[j]) /\ window[j].ring >= sring => ~RingAfter(window, j)

LEMMA StepOfferIsLast ==
  ASSUME TypeOK, Old, OfferUnread, OfferIsLast, [Next]_vars
  PROVE  OfferIsLast'
<1>0. /\ PhaseChanges /\ ring \in Nat /\ window \in Seq(WindowMessage(ring))
      /\ \A j \in DOMAIN window : window[j].ring \in 0 .. ring
  <2>1. ring \in Nat /\ window \in Seq(WindowMessage(ring))
    BY DEF TypeOK
  <2>2. \A m \in WindowMessage(ring) : m.ring \in 0 .. ring
    BY <2>1 DEF WindowMessage, Announcement, RingMessage
  <2>3. \A j \in DOMAIN window : window[j] \in WindowMessage(ring)
    BY <2>1, ElementOfSeq, LenProperties
  <2> QED BY <2>1, <2>2, <2>3, PhaseStep
<1>1. CASE Offers
  <2> DEFINE m == RingMessage(ring)
  <2>1. /\ m \in WindowMessage(ring) /\ m.ring = ring /\ window' = Append(window, m)
        /\ phase = "idle" /\ ringReady /\ phase' = "offered" /\ sring' = ring /\ ring > 0
    BY <1>0, <1>1 DEF Offers, WindowMessage, RingMessage, OfferUnread
  <2> HIDE DEF m
  <2>2. /\ DOMAIN window' = 1 .. Len(window) + 1 /\ Len(window) \in Nat
        /\ \A i \in DOMAIN window' : (i \in DOMAIN window /\ window'[i] = window[i]) \/ i = Len(window) + 1
    BY <1>0, <2>1, AppendIndices
  <2>3. ASSUME NEW j \in DOMAIN window', IsRing(window'[j]), window'[j].ring >= sring'
        PROVE  ~RingAfter(window', j)
    <3>1. j = Len(window) + 1
      <4>1. j \in DOMAIN window => window[j].ring < ring /\ window[j].ring \in 0 .. ring
        BY <1>0, <2>1, <2>2, <2>3 DEF OfferIsLast
      <4>2. j \in DOMAIN window /\ window'[j] = window[j] => FALSE
        BY <1>0, <2>1, <2>3, <4>1
      <4> QED BY <2>2, <4>2
    <3> QED BY <2>2, <3>1 DEF RingAfter
  <2> QED BY <2>1, <2>3 DEF OfferIsLast
<1>2. CASE ~Offers
  <2>1. sring' = sring
    BY <1>2, OfferedRingStays
  <2>2. \A i \in DOMAIN window' : IsRing(window'[i]) =>
          \E j \in DOMAIN window : /\ window'[i] = window[j]
                                   /\ RingAfter(window', i) => RingAfter(window, j)
    BY <1>2, RingsOfQueue
  <2>3. ASSUME phase' # "idle"
        PROVE  /\ sring' > 0
               /\ \A j \in DOMAIN window' :
                    IsRing(window'[j]) /\ window'[j].ring >= sring' => ~RingAfter(window', j)
    <3>1. phase # "idle"
      BY <1>0, <1>2, <2>3 DEF PhaseChanges
    <3> QED BY <2>1, <2>2, <3>1 DEF OfferIsLast
  <2>4. ASSUME phase' = "idle", ringReady'
        PROVE  \A j \in DOMAIN window' : IsRing(window'[j]) => window'[j].ring < ring'
    <3>1. CASE UNCHANGED <<phase, ringReady>>
      <4>1. ring' \in {ring, ring + 1}
        BY TextureStep DEF TexturesKept
      <4>2. \A j \in DOMAIN window : IsRing(window[j]) => window[j].ring < ring
        BY <2>4, <3>1 DEF OfferIsLast
      <4> QED BY <1>0, <2>2, <4>1, <4>2
    <3>2. CASE ring' = ring + 1
      BY <1>0, <2>2, <3>2
    <3> QED BY <1>0, <2>4, <3>1, <3>2 DEF PhaseChanges
  <2> QED BY <2>3, <2>4 DEF OfferIsLast
<1> QED BY <1>1, <1>2

\* An acceptance of the ring on offer is the last thing written, by a viewer
\* that waits no more and has nothing further to open.
Opened == ~HasRing(window) /\ vring = sring
AcceptIsLast ==
  phase = "offered" =>
    \A i \in DOMAIN toServer :
      IsAccept(toServer[i]) =>
        /\ ~waiting
        /\ toServer[i].ring = sring => i = Len(toServer) /\ (linkUp => Opened)

\* The window thread's step with a session that is being offered.
LEMMA OfferedStep ==
  ASSUME [Next]_vars, phase' = "offered"
  PROVE  \/ Offers /\ toServer' = toServer
         \/ /\ phase = "offered" /\ sring' = sring
            /\ \/ /\ UNCHANGED <<toServer, window, vring>>
                  /\ waiting' => waiting
                  /\ linkUp' => linkUp
               \/ RingOpened
               \/ ShowFrame
               \/ /\ window # <<>> /\ window' = Tail(window)
                  /\ UNCHANGED <<toServer, vring, linkUp, waiting>>
               \/ /\ RingAtHead /\ toServer' = toServer /\ ~waiting'
                  /\ linkUp' => linkUp
               \/ toServer' = toServer /\ ~linkUp' /\ ~waiting'
<1>1. ASSUME Compose \/ ComposeInNewRing \/ UIStep \/ LinkBreaks \/ UNCHANGED vars
      PROVE  /\ phase = "offered" /\ sring' = sring
             /\ UNCHANGED <<toServer, window, vring>> /\ (waiting' => waiting) /\ (linkUp' => linkUp)
  <2>1. ASSUME Compose \/ ComposeInNewRing \/ UIStep \/ UNCHANGED vars
        PROVE  UNCHANGED <<phase, sring, toServer, window, vring, waiting, linkUp>>
    BY <2>1 DEF Compose, ComposeInNewRing, UIStep, ViewerReady, FrameReleased, ViewerDisconnected,
                server, viewer, vars
  <2>2. ASSUME LinkBreaks
        PROVE  UNCHANGED <<phase, sring, toServer, window, vring>> /\ waiting' = FALSE /\ linkUp' = FALSE
    BY <2>2 DEF LinkBreaks, server
  <2>3. Compose \/ ComposeInNewRing \/ UIStep \/ UNCHANGED vars \/ LinkBreaks
    BY <1>1
  <2>4. CASE Compose \/ ComposeInNewRing \/ UIStep \/ UNCHANGED vars
    <3>1. phase = "offered" /\ sring' = sring /\ UNCHANGED <<toServer, window, vring>>
      BY <2>1, <2>4
    <3>2. UNCHANGED <<waiting, linkUp>>
      BY <2>1, <2>4
    <3> QED BY <3>1, <3>2
  <2>5. CASE LinkBreaks
    BY <2>2, <2>5
  <2> QED BY <2>3, <2>4, <2>5
<1>2. ASSUME ClientRead \/ ServerRead \/ HandshakeAborted \/ SessionLost \/ HandshakeRead PROVE FALSE
  BY <1>2 DEF ClientRead, ServerRead, HandshakeAborted, SessionLost, HandshakeRead, EndSession, server
<1>3. ASSUME OfferRing PROVE Offers /\ toServer' = toServer
  BY <1>3 DEF OfferRing, Offers, pipeline
<1>4. ASSUME RingOpened \/ ShowFrame PROVE phase = "offered" /\ sring' = sring
  BY <1>4 DEF RingOpened, ShowFrame
<1>5. ASSUME AcquireFrame
      PROVE  /\ phase = "offered" /\ sring' = sring
             /\ UNCHANGED <<toServer, window, vring>> /\ (waiting' => waiting) /\ (linkUp' => linkUp)
  BY <1>5 DEF AcquireFrame, server, viewer
<1>6. ASSUME AcquireTimesOut \/ CopyTimesOut
      PROVE  /\ phase = "offered" /\ sring' = sring
             /\ window # <<>> /\ window' = Tail(window)
             /\ UNCHANGED <<toServer, vring, linkUp, waiting>>
  BY <1>6 DEF AcquireTimesOut, CopyTimesOut, SpendFrame, FrameAtHead, server
<1>7. ASSUME RingRefused
      PROVE  /\ phase = "offered" /\ sring' = sring
             /\ RingAtHead /\ toServer' = toServer /\ ~waiting' /\ (linkUp' => linkUp)
  BY <1>7 DEF RingRefused, server
<1>8. ASSUME ViewerExits
      PROVE  /\ phase = "offered" /\ sring' = sring
             /\ toServer' = toServer /\ ~linkUp' /\ ~waiting'
  BY <1>8 DEF ViewerExits, server
<1> QED BY <1>1, <1>2, <1>3, <1>4, <1>5, <1>6, <1>7, <1>8
        DEF Next, ServerStep, WindowStep, Environment

LEMMA HeadHasRing ==
  ASSUME TypeOK, RingAtHead
  PROVE  HasRing(window)
<1>1. window # <<>> /\ window \in Seq(WindowMessage(ring))
  BY DEF TypeOK, RingAtHead
<1>2. 1 \in DOMAIN window /\ Head(window) = window[1]
  BY <1>1, TailIndices
<1> QED BY <1>2 DEF RingAtHead, HasRing, IsRing

LEMMA StepAcceptIsLast ==
  ASSUME TypeOK, OfferLast, OfferIsLast, IdleIsQuiet, AcceptIsLast, [Next]_vars
  PROVE  AcceptIsLast'
<1> SUFFICES ASSUME phase' = "offered" PROVE AcceptIsLast'
  BY DEF AcceptIsLast
<1>0. /\ window \in Seq(WindowMessage(ring)) /\ ring \in Nat
      /\ toServer \in Seq(ServerMessage(ring)) /\ waiting \in BOOLEAN
      /\ sring \in Nat /\ vring \in Nat
  BY DEF TypeOK
<1>1. CASE Offers /\ toServer' = toServer
  <2>1. toServer' = <<>>
    BY <1>1 DEF Offers, IdleIsQuiet
  <2> QED BY <2>1 DEF AcceptIsLast
<1>2. CASE /\ phase = "offered" /\ sring' = sring
           /\ UNCHANGED <<toServer, window, vring>>
           /\ waiting' => waiting
           /\ linkUp' => linkUp
  BY <1>2 DEF AcceptIsLast, Opened
<1>3. CASE phase = "offered" /\ sring' = sring /\ RingOpened
  <2> DEFINE h == Head(window)
             m == GenerationAccepted(h.ring)
  <2>1. /\ RingAtHead /\ HasRing(window) /\ window # <<>> /\ window' = Tail(window)
        /\ vring' = h.ring /\ ~waiting' /\ linkUp' = linkUp
        /\ toServer' = IF waiting THEN Append(toServer, m) ELSE toServer
    BY <1>0, <1>3, HeadHasRing DEF RingOpened, RingAtHead
  <2>2. CASE ~waiting
    <3>1. ASSUME NEW i \in DOMAIN toServer, IsAccept(toServer[i]), toServer[i].ring = sring
          PROVE  i = Len(toServer) /\ ~linkUp
      BY <1>3, <2>1, <3>1 DEF AcceptIsLast, Opened
    <3> QED BY <1>3, <2>1, <2>2, <3>1 DEF AcceptIsLast
  <2>3. CASE waiting
    <3>1. h.ring \in 0 .. ring /\ m \in ServerMessage(ring) /\ m.ring = h.ring
      <4>1. h \in WindowMessage(ring)
        BY <1>0, <2>1, HeadTailProperties
      <4>2. h.ring \in 0 .. ring
        BY <1>0, <4>1 DEF WindowMessage, Announcement, RingMessage
      <4> QED BY <4>2 DEF ServerMessage, GenerationAccepted
    <3> HIDE DEF m
    <3>2. /\ Len(toServer') = Len(toServer) + 1
          /\ \A i \in DOMAIN toServer' :
               (i \in DOMAIN toServer /\ toServer'[i] = toServer[i])
                 \/ (i = Len(toServer) + 1 /\ toServer'[i] = m)
      BY <1>0, <2>1, <2>3, <3>1, AppendIndices, AppendProperties
    <3>3. \A i \in DOMAIN toServer : ~IsAccept(toServer[i])
      BY <1>3, <2>3 DEF AcceptIsLast
    <3>4. ASSUME h.ring = sring PROVE Opened'
      <4>1. ~RingAfter(window, 1)
        <5>1. 1 \in DOMAIN window /\ h = window[1]
          BY <1>0, <2>1, TailIndices
        <5>2. IsRing(window[1]) /\ window[1].ring >= sring
          BY <1>0, <2>1, <3>4, <5>1 DEF RingAtHead, IsRing
        <5> QED BY <1>3, <5>1, <5>2 DEF OfferIsLast
      <4>2. ~HasRing(Tail(window))
        <5>1. \A j \in DOMAIN Tail(window) :
                /\ j \in Nat /\ j >= 1 /\ j + 1 \in DOMAIN window
                /\ Tail(window)[j] = window[j + 1]
          BY <1>0, <2>1, TailIndices
        <5>2. \A j \in DOMAIN Tail(window) : 1 < j + 1
          BY <5>1
        <5> QED BY <4>1, <5>1, <5>2 DEF HasRing, RingAfter
      <4> QED BY <1>3, <2>1, <3>4, <4>2 DEF Opened
    <3> QED BY <2>1, <3>1, <3>2, <3>3, <3>4, <1>3 DEF AcceptIsLast
  <2> QED BY <2>2, <2>3
<1>4. CASE phase = "offered" /\ sring' = sring /\ ShowFrame
  <2> DEFINE m == Released(Head(window).slot, Head(window).frame)
  <2>1. /\ FrameAtHead /\ window # <<>> /\ window' = Tail(window) /\ vring' = vring
        /\ UNCHANGED <<linkUp, waiting>>
        /\ toServer' = IF linkUp THEN Append(toServer, m) ELSE toServer
    BY <1>4 DEF ShowFrame, FrameAtHead
  <2>2. CASE ~linkUp
    BY <1>4, <2>1, <2>2 DEF AcceptIsLast
  <2>3. CASE linkUp
    <3>1. HasRing(window)
      <4>1. 1 \in DOMAIN window /\ Head(window) = window[1]
        BY <1>0, <2>1, TailIndices
      <4>2. 1 \in FrameReadys(window)
        BY <2>1, <4>1 DEF FrameAtHead, FrameReadys
      <4>3. RingAfter(window, 1)
        BY <1>4, <4>2 DEF OfferLast
      <4> QED BY <4>3 DEF RingAfter, HasRing
    <3>2. m \in ServerMessage(ring) /\ ~IsAccept(m)
      <4>1. Head(window).slot \in Slots /\ Head(window).frame \in Frames
        BY <2>1, FrameAtHeadType
      <4> QED BY <4>1 DEF ServerMessage, Released, IsAccept
    <3> HIDE DEF m
    <3>3. \A i \in DOMAIN toServer' :
            (i \in DOMAIN toServer /\ toServer'[i] = toServer[i]) \/ toServer'[i] = m
      BY <1>0, <2>1, <2>3, <3>2, AppendIndices
    <3>4. \A i \in DOMAIN toServer : IsAccept(toServer[i]) => ~waiting /\ toServer[i].ring # sring
      BY <1>4, <2>3, <3>1 DEF AcceptIsLast, Opened
    <3> QED BY <1>4, <2>1, <3>2, <3>3, <3>4 DEF AcceptIsLast
  <2> QED BY <2>2, <2>3
<1>5. CASE /\ phase = "offered" /\ sring' = sring
           /\ window # <<>> /\ window' = Tail(window)
           /\ UNCHANGED <<toServer, vring, linkUp, waiting>>
  <2>1. HasRing(Tail(window)) => HasRing(window)
    BY <1>0, <1>5, RingAfterTail
  <2> QED BY <1>5, <2>1 DEF AcceptIsLast, Opened
<1>6. CASE /\ phase = "offered" /\ sring' = sring
           /\ RingAtHead /\ toServer' = toServer /\ ~waiting'
           /\ linkUp' => linkUp
  BY <1>6, HeadHasRing DEF AcceptIsLast, Opened
<1>7. CASE /\ phase = "offered" /\ sring' = sring
           /\ toServer' = toServer /\ ~linkUp' /\ ~waiting'
  BY <1>7 DEF AcceptIsLast
<1> QED BY <1>1, <1>2, <1>3, <1>4, <1>5, <1>6, <1>7, OfferedStep

\* In a session whose handshake went well the viewer has the session's ring
\* open, and none to open after it, for as long as its pipe holds.
SessionOpen == phase = "running" /\ sring \notin tainted /\ linkUp => Opened

\* The step a session begins with.
Begins ==
  /\ phase = "offered" /\ phase' = "running" /\ sring' = sring /\ linkUp' = linkUp
  /\ toServer # <<>> /\ toServer' = Tail(toServer) /\ IsAccept(Head(toServer))
  /\ tasks' = Append(tasks, Ready)
  /\ sring \notin tainted' => Head(toServer).ring = sring
  /\ UNCHANGED <<pipeline, toViewer, window, vring, shown>>

LEMMA SessionBegins ==
  ASSUME [Next]_vars, phase # "running", phase' = "running"
  PROVE  Begins
<1>1. ASSUME Compose \/ ComposeInNewRing \/ ClientRead \/ LinkBreaks \/ UIStep \/ ServerRead \/ UNCHANGED vars
      PROVE  FALSE
  BY <1>1 DEF Compose, ComposeInNewRing, ClientRead, LinkBreaks, UIStep, ViewerReady, FrameReleased,
              ViewerDisconnected, ServerRead, server, vars
<1>2. ASSUME WindowStep \/ RingRefused \/ CopyTimesOut \/ ViewerExits
      PROVE  FALSE
  BY <1>2 DEF WindowStep, RingOpened, AcquireFrame, ShowFrame, AcquireTimesOut, RingRefused,
              CopyTimesOut, SpendFrame, ViewerExits, server
<1>3. ASSUME HandshakeAborted \/ SessionLost \/ OfferRing PROVE FALSE
  BY <1>3 DEF HandshakeAborted, SessionLost, OfferRing, EndSession
<1>4. ASSUME HandshakeRead PROVE Begins
  <2>1. Head(toServer).type = "GenerationAccepted"
    BY <1>4 DEF HandshakeRead, EndSession
  <2> QED BY <1>4, <2>1 DEF HandshakeRead, Begins, IsAccept
<1> QED BY <1>1, <1>2, <1>3, <1>4 DEF Next, ServerStep, Environment

LEMMA TaintGrows ==
  ASSUME [Next]_vars
  PROVE  tainted \subseteq tainted'
<1>1. ASSUME Compose \/ ComposeInNewRing \/ ClientRead \/ LinkBreaks \/ UIStep \/ ServerRead \/ UNCHANGED vars
      PROVE  tainted \subseteq tainted'
  BY <1>1 DEF Compose, ComposeInNewRing, ClientRead, LinkBreaks, UIStep, ViewerReady, FrameReleased,
              ViewerDisconnected, ServerRead, Tainted, server, vars
<1>2. ASSUME WindowStep \/ RingRefused \/ CopyTimesOut \/ ViewerExits
      PROVE  tainted \subseteq tainted'
  BY <1>2 DEF WindowStep, RingOpened, AcquireFrame, ShowFrame, AcquireTimesOut, RingRefused,
              CopyTimesOut, SpendFrame, ViewerExits, server
<1>3. ASSUME HandshakeAborted \/ SessionLost \/ OfferRing \/ HandshakeRead
      PROVE  tainted \subseteq tainted'
  BY <1>3 DEF HandshakeAborted, SessionLost, OfferRing, HandshakeRead
<1> QED BY <1>1, <1>2, <1>3 DEF Next, ServerStep, Environment

\* What the viewer has accepted when a session begins.
LEMMA AcceptedAtBegin ==
  ASSUME TypeOK, AcceptIsLast, Begins, sring \notin tainted'
  PROVE  toServer' = <<>> /\ (linkUp => Opened)
<1>1. /\ toServer \in Seq(ServerMessage(ring)) /\ toServer # <<>>
      /\ 1 \in DOMAIN toServer /\ Head(toServer) = toServer[1]
  BY TailIndices DEF TypeOK, Begins
<1>2. Len(toServer) = 1 /\ (linkUp => Opened)
  BY <1>1 DEF AcceptIsLast, Begins
<1>3. Tail(toServer) \in Seq(ServerMessage(ring)) /\ Len(Tail(toServer)) = 0
  BY <1>1, <1>2, HeadTailProperties
<1> QED BY <1>2, <1>3, EmptySeq DEF Begins

LEMMA StepSessionOpen ==
  ASSUME TypeOK, AcceptIsLast, SessionOpen, [Next]_vars
  PROVE  SessionOpen'
<1> SUFFICES ASSUME phase' = "running", sring' \notin tainted', linkUp' PROVE Opened'
  BY DEF SessionOpen
<1>0. /\ window \in Seq(WindowMessage(ring)) /\ ring \in Nat
  BY DEF TypeOK
<1>1. CASE phase # "running"
  <2>1. Begins
    BY <1>1, SessionBegins
  <2>2. Opened
    BY <2>1, AcceptedAtBegin DEF Begins
  <2> QED BY <2>1, <2>2 DEF Begins, Opened
<1>2. CASE phase = "running"
  <2>1. linkUp
    BY <1>2, SessionStep
  <2>2. ~Offers
    BY <1>2 DEF Offers
  <2>3. sring' = sring /\ sring \notin tainted
    BY <2>2, OfferedRingStays, TaintGrows
  <2>4. Opened
    BY <1>2, <2>1, <2>3 DEF SessionOpen
  <2>5. CASE Keeps
    BY <2>3, <2>4, <2>5 DEF Keeps, Opened
  <2>6. CASE Reads
    <3> DEFINE m == Head(toViewer)
    <3>1. m \in WindowMessage(ring) /\ ~IsRing(m) /\ window' = Append(window, m) /\ vring' = vring
      BY <2>6 DEF Reads, WindowMessage, Announcement, IsRing
    <3> HIDE DEF m
    <3>2. ~HasRing(window')
      BY <1>0, <2>4, <3>1, RingAfterAppend DEF Opened
    <3> QED BY <2>3, <2>4, <3>1, <3>2 DEF Opened
  <2>7. CASE OpensRing
    <3>1. 1 \in DOMAIN window /\ Head(window) = window[1]
      BY <1>0, <2>7, TailIndices DEF OpensRing
    <3> QED BY <2>4, <2>7, <3>1 DEF OpensRing, Opened, HasRing
  <2>8. CASE Handles
    <3>1. window # <<>> /\ window' = Tail(window) /\ vring' = vring
      BY <2>8 DEF Handles, FrameAtHead
    <3>2. ~HasRing(window')
      BY <1>0, <2>4, <3>1, RingAfterTail DEF Opened
    <3> QED BY <2>3, <2>4, <3>1, <3>2 DEF Opened
  <2>9. CASE Exits
    BY <2>9 DEF Exits
  <2> QED BY <2>2, <2>5, <2>6, <2>7, <2>8, <2>9, WindowChanges
<1> QED BY <1>1, <1>2

\* While no session runs and no task is pending the newest ring is as it was
\* made; before there is one no slot is taken.
AllAvailable == \A s \in Slots : slot[s].state = "Available"
RingUntouched ==
  ~streaming /\ AllAvailable /\ (ring # 0 => \A s \in Slots : tex[ring][s].key = "key0")
RingIsFresh ==
  /\ ring = 0 => AllAvailable
  /\ phase # "running" /\ tasks = <<>> => RingUntouched

LEMMA PublishNothing ==
  ASSUME NEW on, NEW r, NEW frame, NEW pub, NEW slots, NEW rings, NEW out,
         ~on \/ r = 0,
         PublishLatest(on, r, frame, pub, slots, rings, out)
  PROVE  slot' = slots /\ tex' = rings /\ published' = pub /\ toViewer' = out
BY DEF PublishLatest

LEMMA FreshRingIsUntouched ==
  ASSUME TypeOK
  PROVE  /\ \A s \in Slots : FreshSlots[s].state = "Available"
         /\ \A s \in Slots : WithFreshRing[ring + 1][s].key = "key0"
<1>1. ring \in Nat /\ ring + 1 \in 1 .. ring + 1
  BY DEF TypeOK
<1> QED BY <1>1 DEF FreshSlots, WithFreshRing, FreshTextures

LEMMA SetKeyKeepsFree ==
  ASSUME TypeOK, FrameAtHead, vring # 0, KeyAtHead \in {"key1", "held"},
         \E k \in Keys : SetKeyAtHead(k)
  PROVE  \A s \in Slots : ring # 0 /\ tex[ring][s].key = "key0" => tex'[ring][s] = tex[ring][s]
<1>1. PICK k \in Keys : SetKeyAtHead(k)
  OBVIOUS
<1>2. \A r \in 1 .. ring, s \in Slots :
        tex'[r][s] = IF r = vring /\ s = Head(window).slot
                     THEN [key |-> k, frame |-> tex[r][s].frame]
                     ELSE tex[r][s]
  BY <1>1, SetKeyType
<1>3. ring # 0 => ring \in 1 .. ring
  BY DEF TypeOK
<1> QED BY <1>2, <1>3 DEF KeyAtHead

LEMMA StepRingIsFresh ==
  ASSUME TypeOK, TasksEnd, RingIsFresh, [Next]_vars
  PROVE  RingIsFresh'
<1>0. /\ ring \in Nat /\ tasks \in Seq(Task) /\ tex \in TexturesType(ring) /\ slot \in SlotsType
  BY DEF TypeOK, TexturesType, SlotsType
<1>1. CASE Compose
  <2>1. /\ ring' = ring /\ streaming' = streaming /\ phase' = phase /\ tasks' = tasks
        /\ PublishLatest(streaming, ring, latest + 1, published, slot, tex, toViewer)
    BY <1>1 DEF Compose, server
  <2>2. ~streaming \/ ring = 0 => slot' = slot /\ tex' = tex
    BY <2>1, PublishNothing
  <2> QED BY <2>1, <2>2 DEF RingIsFresh, RingUntouched, AllAvailable
<1>2. CASE ComposeInNewRing
  <2>1. /\ ring' = ring + 1 /\ streaming' = streaming /\ phase' = phase /\ tasks' = tasks
        /\ PublishLatest(streaming, ring + 1, latest + 1, 0, FreshSlots, WithFreshRing, AfterReset)
    BY <1>2 DEF ComposeInNewRing
  <2>2. ~streaming => slot' = FreshSlots /\ tex' = WithFreshRing
    BY <2>1, PublishNothing
  <2> QED BY <1>0, <2>1, <2>2, FreshRingIsUntouched DEF RingIsFresh, RingUntouched, AllAvailable
<1>3. CASE ViewerReady \/ FrameReleased
  <2>1. /\ ring' = ring /\ phase' = phase /\ tasks # <<>> /\ tasks' = Tail(tasks)
        /\ Head(tasks).type \in {"Ready", "FrameReleased"}
    BY <1>3 DEF ViewerReady, FrameReleased
  <2>2. phase # "running" => tasks' # <<>>
    <3>1. PICK n \in Nat : n = Len(tasks)
      BY <1>0, LenProperties
    <3>2. Head(tasks) = tasks[1] /\ Tail(tasks) \in Seq(Task) /\ Len(tasks') = n - 1
      BY <1>0, <2>1, <3>1, HeadTailProperties, TailIndices
    <3>3. tasks' = <<>> => Len(tasks') = 0
      BY EmptySeq
    <3>4. tasks' = <<>> => n = 1
      BY <3>2, <3>3
    <3>5. tasks' = <<>> => ~IsLoss(tasks[Len(tasks)])
      BY <2>1, <3>1, <3>2, <3>4 DEF IsLoss
    <3> QED BY <2>1, <3>5 DEF TasksEnd
  <2>3. ring = 0 => slot' = slot
    <3>1. CASE ViewerReady
      BY <3>1, PublishNothing DEF ViewerReady
    <3>2. CASE FrameReleased
      <4>1. ring = 0 => ~ReleaseMatches(Head(tasks))
        <5>1. Head(tasks) \in Task
          BY <1>0, <2>1, HeadTailProperties
        <5>2. Head(tasks).slot \in Slots
          BY <3>2, <5>1 DEF FrameReleased, Task, Ready, Disconnected
        <5> QED BY <5>2 DEF ReleaseMatches, RingIsFresh, AllAvailable
      <4> QED BY <3>2, <4>1 DEF FrameReleased
    <3> QED BY <1>3, <3>1, <3>2
  <2> QED BY <2>1, <2>2, <2>3 DEF RingIsFresh, AllAvailable
<1>4. CASE ViewerDisconnected
  <2>1. CASE ring = 0
    <3>1. streaming' = FALSE /\ ring' = ring /\ slot' = slot
      BY <1>4, <2>1 DEF ViewerDisconnected
    <3> QED BY <2>1, <3>1 DEF RingIsFresh, RingUntouched, AllAvailable
  <2>2. CASE ring # 0
    <3>1. streaming' = FALSE /\ ring' = ring + 1 /\ slot' = FreshSlots /\ tex' = WithFreshRing
      BY <1>4, <2>2 DEF ViewerDisconnected
    <3> QED BY <1>0, <3>1, FreshRingIsUntouched DEF RingIsFresh, RingUntouched, AllAvailable
  <2> QED BY <2>1, <2>2
<1>5. CASE HandshakeRead \/ HandshakeAborted \/ SessionLost
  <2>1. UNCHANGED pipeline /\ \E m \in Task : tasks' = Append(tasks, m)
    BY <1>5 DEF HandshakeRead, HandshakeAborted, SessionLost, EndSession, Task
  <2>2. tasks' # <<>>
    BY <1>0, <2>1, AppendProperties
  <2> QED BY <2>1, <2>2 DEF RingIsFresh, AllAvailable, pipeline
<1>6. CASE \/ ClientRead \/ LinkBreaks \/ OfferRing \/ ServerRead \/ RingOpened \/ RingRefused
           \/ AcquireTimesOut \/ CopyTimesOut \/ UNCHANGED vars
  <2>1. UNCHANGED pipeline /\ (phase' # "running" => phase # "running" /\ tasks' = tasks)
    BY <1>6 DEF ClientRead, LinkBreaks, OfferRing, ServerRead, RingOpened, RingRefused,
                AcquireTimesOut, CopyTimesOut, SpendFrame, pipeline, server, vars
  <2> QED BY <2>1 DEF RingIsFresh, RingUntouched, AllAvailable, pipeline
<1>7. CASE AcquireFrame \/ ShowFrame
  <2>1. /\ UNCHANGED <<streaming, ring, slot, phase, tasks>> /\ FrameAtHead /\ vring # 0
        /\ KeyAtHead \in {"key1", "held"} /\ \E k \in Keys : SetKeyAtHead(k)
    BY <1>7 DEF AcquireFrame, ShowFrame, server, Keys
  <2>2. \A s \in Slots : ring # 0 /\ tex[ring][s].key = "key0" => tex'[ring][s] = tex[ring][s]
    BY <2>1, SetKeyKeepsFree
  <2> QED BY <2>1, <2>2 DEF RingIsFresh, RingUntouched, AllAvailable
<1>8. CASE ViewerExits
  <2>1. UNCHANGED <<streaming, ring, slot, phase, tasks>>
    BY <1>8 DEF ViewerExits, server
  <2>2. \A s \in Slots : ring # 0 /\ tex[ring][s].key = "key0" => tex'[ring][s].key = "key0"
    BY <1>0, <1>8, AbandonType
  <2> QED BY <2>1, <2>2 DEF RingIsFresh, RingUntouched, AllAvailable
<1> QED BY <1>1, <1>2, <1>3, <1>4, <1>5, <1>6, <1>7, <1>8
        DEF Next, UIStep, ServerStep, WindowStep, Environment

-----------------------------------------------------------------------------
(***************************************************************************)
(* In a settled session an available slot is on key 0, and so is the slot  *)
(* of every release on its way that still matches it; none names a frame   *)
(* newer than the last published, so a slot published again matches none.  *)
(***************************************************************************)
AvailableFree(slots, t) == \A s \in Slots : slots[s].state = "Available" => t[s].key = "key0"
SafeRelease(slots, t, pub, m) ==
  /\ m.frame <= pub
  /\ slots[m.slot].state = "Published" /\ slots[m.slot].frame = m.frame => t[m.slot].key = "key0"
ReleasesSafe(slots, t, pub, q) ==
  \A i \in DOMAIN q : IsRelease(q[i]) => SafeRelease(slots, t, pub, q[i])
SlotsFree ==
  Settled => /\ AvailableFree(slot, tex[ring])
             /\ ReleasesSafe(slot, tex[ring], published, toServer)
             /\ ReleasesSafe(slot, tex[ring], published, tasks)

\* A session is settled because it was, or because it begins.
LEMMA SettledStep ==
  ASSUME TypeOK, Old, OfferIsLast, [Next]_vars, Settled', phase = "running"
  PROVE  Settled /\ ring' = ring /\ sring' = sring /\ ring # 0
<1>0. /\ sring \in 0 .. ring /\ ring \in Nat /\ ring' \in {ring, ring + 1} /\ TaskChanges
      /\ phase' = "running" /\ sring' = ring' /\ sring' \notin tainted'
      /\ \A i \in DOMAIN tasks' : tasks'[i].type # "Disconnected"
      /\ tasks \in Seq(Task)
  BY TextureStep, TaskStep DEF TypeOK, TexturesKept, Settled
<1>1. sring' = sring /\ sring > 0 /\ tainted \subseteq tainted'
  <2>1. ~Offers
    BY <1>0 DEF Offers
  <2> QED BY <2>1, OfferedRingStays, TaintGrows DEF OfferIsLast
<1>2. ring' = ring /\ ring # 0 /\ sring \notin tainted
  BY <1>0, <1>1
<1>3. tasks # <<>> /\ tasks' = Tail(tasks) => Head(tasks).type # "Disconnected"
  <2> SUFFICES ASSUME tasks # <<>>, tasks' = Tail(tasks), Head(tasks).type = "Disconnected"
               PROVE  FALSE
    OBVIOUS
  <2>1. tasks' # tasks
    <3>1. PICK n \in Nat : n = Len(tasks)
      BY <1>0, LenProperties
    <3>2. Len(tasks') = n - 1
      BY <1>0, <3>1, HeadTailProperties
    <3> QED BY <3>1, <3>2
  <2>2. ~ViewerDisconnected
    BY <1>2, <1>0 DEF ViewerDisconnected
  <2>3. ~(ViewerReady \/ FrameReleased)
    BY DEF ViewerReady, FrameReleased
  <2>4. ~(\/ Compose \/ ComposeInNewRing \/ ClientRead \/ LinkBreaks \/ UNCHANGED vars \/ WindowStep
          \/ RingRefused \/ CopyTimesOut \/ ViewerExits \/ OfferRing)
    BY <2>1 DEF Compose, ComposeInNewRing, ClientRead, LinkBreaks, server, vars, WindowStep, RingOpened,
                AcquireFrame, ShowFrame, AcquireTimesOut, RingRefused, CopyTimesOut, SpendFrame,
                ViewerExits, OfferRing
  <2>5. ~(HandshakeAborted \/ SessionLost \/ HandshakeRead)
    BY <1>0 DEF HandshakeAborted, SessionLost, HandshakeRead, EndSession
  <2>6. ~ServerRead
    <3>1. PICK n \in Nat : n = Len(tasks)
      BY <1>0, LenProperties
    <3>4. Len(tasks') = n - 1
      BY <1>0, <3>1, HeadTailProperties
    <3>2. ServerRead => tasks' = tasks \/ \E m \in Task : tasks' = Append(tasks, m)
      <4>1. ASSUME ServerRead, Head(toServer).type = "FrameReleased" PROVE Head(toServer) \in Task
        <5>1. Head(toServer) \in ServerMessage(ring)
          BY <4>1, HeadTailProperties DEF TypeOK, ServerRead
        <5> QED BY <4>1, <5>1 DEF ServerMessage, Task, GenerationAccepted
      <4> QED BY <4>1 DEF ServerRead
    <3>3. \A m \in Task : Len(Append(tasks, m)) = n + 1
      BY <1>0, <3>1, AppendProperties
    <3>5. ServerRead => Len(tasks') \in {n, n + 1}
      BY <3>1, <3>2, <3>3
    <3> QED BY <3>4, <3>5
  <2> QED BY <2>2, <2>3, <2>4, <2>5, <2>6 DEF Next, UIStep, ServerStep, Environment
<1>4. \A i \in DOMAIN tasks : tasks[i].type # "Disconnected"
  <2>1. CASE tasks' = tasks
    BY <1>0, <2>1
  <2>2. CASE tasks # <<>> /\ tasks' = Tail(tasks)
    <3>1. \A i \in DOMAIN tasks : i = 1 \/ (i - 1 \in DOMAIN tasks' /\ tasks[i] = tasks'[i - 1])
      <4>1. PICK n \in Nat : n = Len(tasks) /\ DOMAIN tasks = 1 .. n
        BY <1>0, LenProperties
      <4>2. Tail(tasks) \in Seq(Task) /\ Len(Tail(tasks)) = n - 1
            /\ \A i \in 1 .. n - 1 : Tail(tasks)[i] = tasks[i + 1]
        BY <1>0, <2>2, <4>1, HeadTailProperties
      <4>3. DOMAIN tasks' = 1 .. n - 1
        BY <2>2, <4>2, LenProperties
      <4> QED BY <2>2, <4>1, <4>2, <4>3
    <3>2. Head(tasks) = tasks[1]
      BY <1>0, <2>2, TailIndices
    <3> QED BY <1>0, <1>3, <2>2, <3>1, <3>2
  <2>3. ASSUME NEW m \in Task, tasks' = Append(tasks, m)
        PROVE  \A i \in DOMAIN tasks : tasks[i].type # "Disconnected"
    <3>1. \A i \in DOMAIN tasks : i \in DOMAIN tasks' /\ tasks'[i] = tasks[i]
      BY <1>0, <2>3, AppendIndices
    <3> QED BY <1>0, <3>1
  <2> QED BY <1>0, <2>1, <2>2, <2>3 DEF TaskChanges
<1> QED BY <1>0, <1>1, <1>2, <1>4 DEF Settled

LEMMA SettledAtBegin ==
  ASSUME TypeOK, TasksEnd, RingIsFresh, AcceptIsLast, OfferIsLast, [Next]_vars, Settled', phase # "running"
  PROVE  /\ Begins /\ tasks' = <<Ready>> /\ toServer' = <<>> /\ RingUntouched /\ ring # 0
         /\ linkUp => Opened
<1>1. Begins /\ sring' \notin tainted' /\ sring' = ring' /\ \A i \in DOMAIN tasks' : tasks'[i].type # "Disconnected"
  BY SessionBegins DEF Settled
<1>2. toServer' = <<>> /\ (linkUp => Opened)
  BY <1>1, AcceptedAtBegin DEF Begins
<1>3. tasks = <<>>
  <2> SUFFICES ASSUME tasks # <<>> PROVE FALSE
    OBVIOUS
  <2>1. tasks \in Seq(Task) /\ Ready \in Task /\ Len(tasks) \in DOMAIN tasks
    BY LenProperties, EmptySeq DEF TypeOK, Task
  <2>2. Len(tasks) \in DOMAIN tasks' /\ tasks'[Len(tasks)] = tasks[Len(tasks)]
    BY <1>1, <2>1, AppendIndices DEF Begins
  <2> QED BY <1>1, <2>2 DEF TasksEnd, IsLoss, Begins
<1>4. RingUntouched
  BY <1>3 DEF RingIsFresh
<1>5. tasks' = <<Ready>>
  BY <1>1, <1>3 DEF Begins
<1>6. ring # 0
  BY <1>1 DEF Begins, OfferIsLast, pipeline
<1> QED BY <1>1, <1>2, <1>4, <1>5, <1>6

\* What is in a queue that loses its head or gets a message.
LEMMA TailElements ==
  ASSUME NEW S, NEW q \in Seq(S), q # <<>>
  PROVE  /\ \A i \in DOMAIN Tail(q) : \E j \in DOMAIN q : Tail(q)[i] = q[j]
         /\ \E j \in DOMAIN q : Head(q) = q[j]
BY TailIndices

LEMMA AppendElements ==
  ASSUME NEW S, NEW q \in Seq(S), NEW m \in S
  PROVE  \A i \in DOMAIN Append(q, m) : (\E j \in DOMAIN q : Append(q, m)[i] = q[j]) \/ Append(q, m)[i] = m
<1>1. \A i \in DOMAIN Append(q, m) :
        (i \in DOMAIN q /\ Append(q, m)[i] = q[i]) \/ Append(q, m)[i] = m
  BY AppendIndices
<1> QED BY <1>1

\* A publication takes an available slot, or changes nothing.
Publishes(slots, t, pub, out, s, frame) ==
  /\ slots[s].state = "Available" /\ frame > pub
  /\ slot' = [slots EXCEPT ![s] = [state |-> "Published", frame |-> frame]]
  /\ published' = frame
  /\ \A u \in Slots : tex'[ring'][u] = IF u = s THEN [key |-> "key1", frame |-> frame] ELSE t[u]
  /\ toViewer' = IF phase = "running" THEN Append(out, FrameReady(ring', s, frame)) ELSE out

LEMMA PublishTakesSlot ==
  ASSUME NEW on, NEW frame, NEW pub, NEW slots, NEW rings \in TexturesType(ring'), NEW out,
         ring' \in Nat,
         PublishLatest(on, ring', frame, pub, slots, rings, out)
  PROVE  \/ slot' = slots /\ tex' = rings /\ published' = pub /\ toViewer' = out
         \/ \E s \in Slots : Publishes(slots, rings[ring'], pub, out, s, frame)
<1>1. CASE on /\ ring' # 0 /\ Unpublished(frame, pub) /\ Target(ring', slots, rings) # {}
  <2>1. PICK s \in Target(ring', slots, rings) :
          /\ slot' = [slots EXCEPT ![s] = [state |-> "Published", frame |-> frame]]
          /\ tex' = [rings EXCEPT ![ring'][s] = [key |-> "key1", frame |-> frame]]
          /\ published' = frame
          /\ toViewer' = IF phase = "running" THEN Queue(out, FrameReady(ring', s, frame)) ELSE out
    BY <1>1 DEF PublishLatest
  <2>2. s \in Slots /\ slots[s].state = "Available" /\ frame > pub
    BY <1>1 DEF Target, Acquirable, Unpublished
  <2>3. \A u \in Slots : tex'[ring'][u] = IF u = s THEN [key |-> "key1", frame |-> frame] ELSE rings[ring'][u]
    <3>1. ring' \in 1 .. ring'
      BY <1>1
    <3> QED BY <2>1, <2>2, <3>1 DEF TexturesType
  <2> QED BY <2>1, <2>2, <2>3 DEF Publishes, Queue
<1>2. CASE ~(on /\ ring' # 0 /\ Unpublished(frame, pub) /\ Target(ring', slots, rings) # {})
  BY <1>2 DEF PublishLatest
<1> QED BY <1>1, <1>2

\* It leaves the others as they were, and is newer than every release.
LEMMA PublicationIsSafe ==
  ASSUME NEW slots \in SlotsType, NEW t, NEW pub \in Nat, NEW out, NEW s \in Slots, NEW frame \in Nat,
         AvailableFree(slots, t), Publishes(slots, t, pub, out, s, frame)
  PROVE  /\ AvailableFree(slot', tex'[ring'])
         /\ \A m : m.slot \in Slots /\ m.frame \in Nat /\ SafeRelease(slots, t, pub, m)
                     => SafeRelease(slot', tex'[ring'], published', m)
<1>1. \A u \in Slots : slot'[u] = IF u = s THEN [state |-> "Published", frame |-> frame] ELSE slots[u]
  BY DEF Publishes, SlotsType
<1>2. \A u \in Slots : tex'[ring'][u] = IF u = s THEN [key |-> "key1", frame |-> frame] ELSE t[u]
  BY DEF Publishes
<1>3. published' = frame /\ frame > pub
  BY DEF Publishes
<1>4. AvailableFree(slot', tex'[ring'])
  BY <1>1, <1>2 DEF AvailableFree
<1>5. ASSUME NEW m, m.slot \in Slots, m.frame \in Nat, SafeRelease(slots, t, pub, m)
      PROVE  SafeRelease(slot', tex'[ring'], published', m)
  <2>1. m.frame <= pub /\ m.frame <= published' /\ m.frame # frame
    BY <1>3, <1>5 DEF SafeRelease
  <2>2. CASE m.slot = s
    <3>1. slot'[m.slot].frame # m.frame
      BY <1>1, <2>1, <2>2
    <3> QED BY <2>1, <3>1 DEF SafeRelease
  <2>3. CASE m.slot # s
    <3>1. slot'[m.slot] = slots[m.slot] /\ tex'[ring'][m.slot] = t[m.slot]
      BY <1>1, <1>2, <1>5, <2>3
    <3> QED BY <1>5, <2>1, <3>1 DEF SafeRelease
  <2> QED BY <2>2, <2>3
<1> QED BY <1>4, <1>5

\* Where the releases on their way come from.
Returning(m) == (\E j \in DOMAIN toServer : m = toServer[j]) \/ (\E j \in DOMAIN tasks : m = tasks[j])

LEMMA ReturningType ==
  ASSUME TypeOK
  PROVE  \A m : Returning(m) /\ IsRelease(m) => m.slot \in Slots /\ m.frame \in Nat
<1>0. \A f \in Frames : f \in Nat
  BY ConstantFacts
<1>1. \A j \in DOMAIN toServer : toServer[j] \in ServerMessage(ring)
  BY ElementOfSeq, LenProperties DEF TypeOK
<1>2. \A j \in DOMAIN tasks : tasks[j] \in Task
  BY ElementOfSeq, LenProperties DEF TypeOK
<1>3. \A m \in ServerMessage(ring) : IsRelease(m) => m.slot \in Slots /\ m.frame \in Nat
  BY <1>0 DEF ServerMessage, GenerationAccepted, IsRelease
<1>4. \A m \in Task : IsRelease(m) => m.slot \in Slots /\ m.frame \in Nat
  BY <1>0 DEF Task, Ready, Disconnected, IsRelease
<1> QED BY <1>1, <1>2, <1>3, <1>4 DEF Returning

LEMMA ReturningSafe ==
  ASSUME SlotsFree, Settled
  PROVE  /\ AvailableFree(slot, tex[ring])
         /\ \A m : Returning(m) /\ IsRelease(m) => SafeRelease(slot, tex[ring], published, m)
BY DEF SlotsFree, ReleasesSafe, Returning

\* A step that publishes nothing: no slot leaves key 0, and what enters the
\* channels back is safe.
LEMMA SlotsKept ==
  ASSUME TypeOK, SlotsFree, Settled, UNCHANGED <<ring, slot, published>>,
         \A s \in Slots : tex[ring][s].key = "key0" => tex'[ring][s].key = "key0",
         \A i \in DOMAIN toServer' : IsRelease(toServer'[i]) =>
            Returning(toServer'[i]) \/ SafeRelease(slot, tex'[ring], published, toServer'[i]),
         \A i \in DOMAIN tasks' : IsRelease(tasks'[i]) => Returning(tasks'[i])
  PROVE  SlotsFree'
<1>1. \A m : Returning(m) /\ IsRelease(m) => SafeRelease(slot, tex'[ring], published, m)
  <2> SUFFICES ASSUME NEW m, Returning(m), IsRelease(m) PROVE SafeRelease(slot, tex'[ring], published, m)
    OBVIOUS
  <2>1. m.slot \in Slots /\ SafeRelease(slot, tex[ring], published, m)
    BY ReturningType, ReturningSafe
  <2> QED BY <2>1 DEF SafeRelease
<1>2. AvailableFree(slot, tex'[ring])
  BY ReturningSafe DEF AvailableFree
<1> QED BY <1>1, <1>2 DEF SlotsFree, ReleasesSafe

\* A step that publishes from slots that are free.
LEMMA SlotsPublished ==
  ASSUME TypeOK, ring' = ring, ring # 0,
         NEW on, NEW frame \in Nat, NEW slots \in SlotsType,
         AvailableFree(slots, tex[ring]),
         \A m : Returning(m) /\ IsRelease(m) => SafeRelease(slots, tex[ring], published, m),
         PublishLatest(on, ring, frame, published, slots, tex, toViewer),
         \A i \in DOMAIN toServer' : IsRelease(toServer'[i]) => Returning(toServer'[i]),
         \A i \in DOMAIN tasks' : IsRelease(tasks'[i]) => Returning(tasks'[i])
  PROVE  SlotsFree'
<1>0. ring \in Nat /\ tex \in TexturesType(ring') /\ published \in Nat
  BY ConstantFacts DEF TypeOK, TexturesType
<1>1. \/ slot' = slots /\ tex' = tex /\ published' = published
      \/ \E s \in Slots : Publishes(slots, tex[ring], published, toViewer, s, frame)
  BY <1>0, PublishTakesSlot
<1>2. /\ AvailableFree(slot', tex'[ring'])
      /\ \A m : m.slot \in Slots /\ m.frame \in Nat /\ SafeRelease(slots, tex[ring], published, m)
                  => SafeRelease(slot', tex'[ring'], published', m)
  <2>1. CASE slot' = slots /\ tex' = tex /\ published' = published
    BY <2>1
  <2>2. ASSUME NEW s \in Slots, Publishes(slots, tex[ring], published, toViewer, s, frame)
        PROVE  /\ AvailableFree(slot', tex'[ring'])
               /\ \A m : m.slot \in Slots /\ m.frame \in Nat /\ SafeRelease(slots, tex[ring], published, m)
                           => SafeRelease(slot', tex'[ring'], published', m)
    BY <1>0, <2>2, PublicationIsSafe
  <2> QED BY <1>1, <2>1, <2>2
<1>3. \A m : Returning(m) /\ IsRelease(m) => SafeRelease(slot', tex'[ring'], published', m)
  BY <1>2, ReturningType
<1> QED BY <1>2, <1>3 DEF SlotsFree, ReleasesSafe

\* What the window thread does to the textures, and to the slots of a ring in
\* its session, leaves a slot on key 0 there.
LEMMA WindowKeepsFree ==
  ASSUME TypeOK, AcquireFrame \/ ShowFrame \/ ViewerExits, ring # 0
  PROVE  \A s \in Slots : tex[ring][s].key = "key0" => tex'[ring][s].key = "key0"
<1>1. CASE AcquireFrame \/ ShowFrame
  <2>1. /\ FrameAtHead /\ vring # 0 /\ KeyAtHead \in {"key1", "held"} /\ \E k \in Keys : SetKeyAtHead(k)
    BY <1>1 DEF AcquireFrame, ShowFrame, Keys
  <2> QED BY <2>1, SetKeyKeepsFree
<1>2. CASE ViewerExits
  <2>1. ring \in 1 .. ring
    BY DEF TypeOK
  <2> QED BY <1>2, <2>1, AbandonType
<1> QED BY <1>1, <1>2

\* In a settled session with its pipe intact the frame the viewer handles is
\* of the pipeline's ring, and in its texture.
LEMMA HeadOfSession ==
  ASSUME FrameInv, RingsAgree, SessionOpen, Settled, linkUp, ring # 0, FrameAtHead
  PROVE  /\ vring = ring /\ Head(window).ring = ring /\ Head(window).slot \in Slots
         /\ Head(window).frame <= published /\ KeyAtHead \in {"key1", "held"}
         /\ 1 \in DOMAIN window /\ window[1] = Head(window)
<1> DEFINE h == Head(window)
<1>1. TypeOK /\ h.slot \in Slots
  BY FrameAtHeadType DEF FrameInv, IInv
<1>2. vring = ring /\ ~HasRing(window)
  BY DEF SessionOpen, Settled, Opened
<1>3. 1 \in FrameReadys(window) /\ 1 \in DOMAIN window /\ window[1] = h
  BY <1>1, TailIndices DEF TypeOK, FrameAtHead, FrameReadys
<1>4. h.ring = ring
  <2>1. NoRingBefore(window, 1)
    BY <1>2 DEF NoRingBefore, HasRing
  <2>2. vring \in {h.ring, 0} \union tainted
    BY <1>3, <2>1 DEF RingsAgree, RingsAgreeAt, WindowAgrees, OpenIsIn
  <2> QED BY <1>1, <1>2, <2>2 DEF Settled
<1>5. h.frame <= published
  BY <1>3, <1>4 DEF FrameInv, FramesInOrder, FramesPublished
<1>6. KeyAtHead \in {"key1", "held"}
  BY <1>2, <1>3, <1>4 DEF FrameInv, IInv, Channels, Readable, Intact, Acquired, KeyAtHead
<1> QED BY <1>1, <1>2, <1>3, <1>4, <1>5, <1>6

\* The release that ShowFrame writes is of the slot it has put on key 0.
LEMMA ShownIsSafe ==
  ASSUME FrameInv, RingsAgree, SessionOpen, Settled, linkUp, ring # 0, ShowFrame
  PROVE  SafeRelease(slot, tex'[ring], published, Released(Head(window).slot, Head(window).frame))
<1> DEFINE h == Head(window)
<1>1. TypeOK /\ FrameAtHead /\ vring # 0 /\ SetKeyAtHead("key0")
  BY DEF ShowFrame, FrameInv, IInv
<1>2. vring = ring /\ h.slot \in Slots /\ h.frame <= published
  BY <1>1, HeadOfSession
<1>3. tex'[ring][h.slot].key = "key0"
  <2>1. ring \in 1 .. ring /\ "key0" \in Keys
    BY <1>1 DEF TypeOK, Keys
  <2>2. tex'[ring][h.slot] = [key |-> "key0", frame |-> tex[ring][h.slot].frame]
    BY <1>1, <1>2, <2>1, SetKeyType
  <2> QED BY <2>2
<1> QED BY <1>2, <1>3 DEF SafeRelease, Released

LEMMA StepSlotsFree ==
  ASSUME FrameInv, RingsAgree, Old, OfferIsLast, TasksEnd, AcceptIsLast, SessionOpen, RingIsFresh,
         SlotsFree, [Next]_vars
  PROVE  SlotsFree'
<1> SUFFICES ASSUME Settled' PROVE SlotsFree'
  BY DEF SlotsFree
<1>0. /\ TypeOK /\ phase' = "running"
      /\ toServer \in Seq(ServerMessage(ring)) /\ tasks \in Seq(Task)
  BY DEF FrameInv, IInv, TypeOK, Settled
<1>1. CASE phase # "running"
  <2>1. Begins /\ tasks' = <<Ready>> /\ toServer' = <<>> /\ RingUntouched /\ ring # 0
    BY <1>0, <1>1, SettledAtBegin
  <2>2. ring' = ring /\ tex' = tex /\ slot' = slot
    BY <2>1 DEF Begins, pipeline
  <2>3. \A i \in DOMAIN tasks' : ~IsRelease(tasks'[i])
    BY <2>1 DEF IsRelease, Ready
  <2>4. DOMAIN toServer' = {}
    BY <2>1
  <2> QED BY <2>1, <2>2, <2>3, <2>4 DEF SlotsFree, AvailableFree, ReleasesSafe, RingUntouched
<1>2. CASE phase = "running"
  <2>1. Settled /\ ring' = ring /\ sring' = sring /\ ring # 0
    BY <1>0, <1>2, SettledStep
  <2>2. /\ AvailableFree(slot, tex[ring])
        /\ \A m : Returning(m) /\ IsRelease(m) => SafeRelease(slot, tex[ring], published, m)
    BY <2>1, ReturningSafe
  <2>3. /\ slot \in SlotsType /\ latest \in Nat /\ latest + 1 \in Nat
        /\ toServer # <<>> => Returning(Head(toServer))
        /\ tasks # <<>> => Returning(Head(tasks))
    BY <1>0, TailElements, ConstantFacts DEF TypeOK, SlotsType, Returning
  <2>4. /\ toServer' = toServer => \A i \in DOMAIN toServer' : Returning(toServer'[i])
        /\ tasks' = tasks => \A i \in DOMAIN tasks' : Returning(tasks'[i])
        /\ toServer # <<>> /\ toServer' = Tail(toServer) => \A i \in DOMAIN toServer' : Returning(toServer'[i])
        /\ tasks # <<>> /\ tasks' = Tail(tasks) => \A i \in DOMAIN tasks' : Returning(tasks'[i])
    <3>1. ASSUME toServer # <<>>, toServer' = Tail(toServer)
          PROVE  \A i \in DOMAIN toServer' : Returning(toServer'[i])
      <4>1. \A i \in DOMAIN Tail(toServer) : \E j \in DOMAIN toServer : Tail(toServer)[i] = toServer[j]
        BY <1>0, <3>1, TailElements
      <4> QED BY <3>1, <4>1 DEF Returning
    <3>2. ASSUME tasks # <<>>, tasks' = Tail(tasks)
          PROVE  \A i \in DOMAIN tasks' : Returning(tasks'[i])
      <4>1. \A i \in DOMAIN Tail(tasks) : \E j \in DOMAIN tasks : Tail(tasks)[i] = tasks[j]
        BY <1>0, <3>2, TailElements
      <4> QED BY <3>2, <4>1 DEF Returning
    <3>3. ASSUME toServer' = toServer PROVE \A i \in DOMAIN toServer' : Returning(toServer'[i])
      BY <3>3 DEF Returning
    <3>4. ASSUME tasks' = tasks PROVE \A i \in DOMAIN tasks' : Returning(tasks'[i])
      BY <3>4 DEF Returning
    <3> QED BY <3>1, <3>2, <3>3, <3>4
  <2>5. CASE Compose
    <3>1. /\ PublishLatest(streaming, ring, latest + 1, published, slot, tex, toViewer)
          /\ toServer' = toServer /\ tasks' = tasks
      BY <2>5 DEF Compose, server
    <3> QED BY <1>0, <2>1, <2>2, <2>3, <2>4, <3>1, SlotsPublished
  <2>6. CASE ViewerReady
    <3>1. /\ PublishLatest(TRUE, ring, latest, published, slot, tex, toViewer)
          /\ toServer' = toServer /\ tasks # <<>> /\ tasks' = Tail(tasks)
      BY <2>6 DEF ViewerReady
    <3> QED BY <1>0, <2>1, <2>2, <2>3, <2>4, <3>1, SlotsPublished
  <2>7. CASE FrameReleased
    <3> DEFINE m == Head(tasks)
    <3>1. toServer' = toServer /\ tasks # <<>> /\ tasks' = Tail(tasks) /\ IsRelease(m)
      BY <2>7 DEF FrameReleased, IsRelease
    <3>2. Returning(m) /\ m.slot \in Slots /\ SafeRelease(slot, tex[ring], published, m)
      BY <1>0, <2>2, <2>3, <3>1, ReturningType
    <3>3. CASE ReleaseMatches(m)
      <4> DEFINE slots == FreedSlots(m)
      <4>1. PublishLatest(streaming, ring, latest, published, slots, tex, toViewer)
        BY <2>7, <3>3 DEF FrameReleased
      <4>2. /\ slots \in SlotsType
            /\ \A u \in Slots : u # m.slot => slots[u] = slot[u]
            /\ slots[m.slot].state = "Available"
        BY <2>3, <3>2 DEF FreedSlots, SlotsType, SlotStates
      <4>3. tex[ring][m.slot].key = "key0"
        BY <3>2, <3>3 DEF SafeRelease, ReleaseMatches
      <4> HIDE DEF slots
      <4>4. AvailableFree(slots, tex[ring])
        BY <2>2, <4>2, <4>3 DEF AvailableFree
      <4>5. \A n : Returning(n) /\ IsRelease(n) => SafeRelease(slots, tex[ring], published, n)
        <5> SUFFICES ASSUME NEW n, Returning(n), IsRelease(n)
                     PROVE  SafeRelease(slots, tex[ring], published, n)
          OBVIOUS
        <5>1. n.slot \in Slots /\ SafeRelease(slot, tex[ring], published, n)
          BY <1>0, <2>2, ReturningType
        <5>2. CASE n.slot = m.slot
          BY <4>3, <5>1, <5>2 DEF SafeRelease
        <5>3. CASE n.slot # m.slot
          BY <4>2, <5>1, <5>3 DEF SafeRelease
        <5> QED BY <5>2, <5>3
      <4> HIDE DEF m
      <4> QED BY <1>0, <2>1, <2>3, <2>4, <3>1, <4>1, <4>2, <4>4, <4>5, SlotsPublished
    <3>4. CASE ~ReleaseMatches(m)
      <4>1. UNCHANGED <<slot, tex, published>>
        BY <2>7, <3>4 DEF FrameReleased
      <4> QED BY <1>0, <2>1, <2>4, <3>1, <4>1, SlotsKept
    <3> QED BY <3>3, <3>4
  <2>8. CASE ComposeInNewRing \/ ViewerDisconnected
    <3>1. ring \in Nat
      BY <1>0 DEF TypeOK
    <3>2. ring' = ring + 1
      BY <2>1, <2>8 DEF ComposeInNewRing, ViewerDisconnected
    <3> QED BY <2>1, <3>1, <3>2
  <2>9. CASE OfferRing \/ HandshakeRead \/ SessionLost \/ HandshakeAborted
    BY <1>0, <1>2, <2>9 DEF OfferRing, HandshakeRead, SessionLost, HandshakeAborted, EndSession
  <2>10. CASE ServerRead
    <3>1. /\ UNCHANGED <<slot, published, tex>> /\ toServer # <<>> /\ toServer' = Tail(toServer)
          /\ tasks' = IF Head(toServer).type = "FrameReleased" THEN Append(tasks, Head(toServer)) ELSE tasks
      BY <2>10 DEF ServerRead, pipeline
    <3>2. \A i \in DOMAIN tasks' : IsRelease(tasks'[i]) => Returning(tasks'[i])
      <4>1. CASE Head(toServer).type = "FrameReleased"
        <5>1. Head(toServer) \in Task
          <6>1. Head(toServer) \in ServerMessage(ring)
            BY <1>0, <3>1, HeadTailProperties
          <6> QED BY <4>1, <6>1 DEF ServerMessage, Task, GenerationAccepted
        <5>2. tasks' = Append(tasks, Head(toServer))
          BY <3>1, <4>1
        <5> HIDE DEF IsRelease
        <5>3. \A i \in DOMAIN tasks' : (\E j \in DOMAIN tasks : tasks'[i] = tasks[j]) \/ tasks'[i] = Head(toServer)
          BY <1>0, <5>1, <5>2, AppendElements
        <5> QED BY <2>3, <3>1, <5>3 DEF Returning
      <4>2. CASE Head(toServer).type # "FrameReleased"
        BY <2>4, <3>1, <4>2
      <4> QED BY <4>1, <4>2
    <3> QED BY <1>0, <2>1, <2>4, <3>1, <3>2, SlotsKept
  <2>11. CASE ClientRead \/ LinkBreaks \/ RingRefused \/ AcquireTimesOut \/ CopyTimesOut \/ UNCHANGED vars
    <3>1. UNCHANGED <<slot, published, tex, toServer, tasks>>
      BY <2>11 DEF ClientRead, LinkBreaks, RingRefused, AcquireTimesOut, CopyTimesOut, SpendFrame,
                   pipeline, server, vars
    <3> QED BY <1>0, <2>1, <2>4, <3>1, SlotsKept
  <2>12. CASE AcquireFrame \/ ViewerExits
    <3>1. UNCHANGED <<slot, published, toServer, tasks>>
      BY <2>12 DEF AcquireFrame, ViewerExits, server
    <3>2. \A s \in Slots : tex[ring][s].key = "key0" => tex'[ring][s].key = "key0"
      BY <1>0, <2>1, <2>12, WindowKeepsFree
    <3> QED BY <1>0, <2>1, <2>4, <3>1, <3>2, SlotsKept
  <2>13. CASE ShowFrame
    <3> DEFINE m == Released(Head(window).slot, Head(window).frame)
    <3>1. UNCHANGED <<slot, published, tasks>> /\ toServer' = IF linkUp THEN Append(toServer, m) ELSE toServer
      BY <2>13 DEF ShowFrame
    <3>2. \A s \in Slots : tex[ring][s].key = "key0" => tex'[ring][s].key = "key0"
      BY <1>0, <2>1, <2>13, WindowKeepsFree
    <3>3. \A i \in DOMAIN toServer' : IsRelease(toServer'[i]) =>
             Returning(toServer'[i]) \/ SafeRelease(slot, tex'[ring], published, toServer'[i])
      <4>1. CASE linkUp
        <5>1. m \in ServerMessage(ring)
          <6>1. Head(window).slot \in Slots /\ Head(window).frame \in Frames
            BY <1>0, <2>13, FrameAtHeadType DEF ShowFrame
          <6> QED BY <6>1 DEF ServerMessage, Released
        <5>2. SafeRelease(slot, tex'[ring], published, m)
          BY <2>1, <2>13, <4>1, ShownIsSafe
        <5>3. toServer' = Append(toServer, m)
          BY <3>1, <4>1
        <5> HIDE DEF m
        <5>4. \A i \in DOMAIN toServer' : (\E j \in DOMAIN toServer : toServer'[i] = toServer[j]) \/ toServer'[i] = m
          BY <1>0, <5>1, <5>3, AppendElements
        <5> QED BY <5>2, <5>4 DEF Returning
      <4>2. CASE ~linkUp
        BY <2>4, <3>1, <4>2
      <4> QED BY <4>1, <4>2
    <3> QED BY <1>0, <2>1, <2>4, <3>1, <3>2, <3>3, SlotsKept
  <2>14. CASE RingOpened
    <3> DEFINE m == GenerationAccepted(Head(window).ring)
    <3>1. /\ UNCHANGED <<slot, published, tex, tasks>>
          /\ toServer' = IF waiting THEN Append(toServer, m) ELSE toServer
      BY <2>14 DEF RingOpened, pipeline
    <3>2. \A i \in DOMAIN toServer' : IsRelease(toServer'[i]) => Returning(toServer'[i])
      <4>1. CASE waiting
        <5>1. m \in ServerMessage(ring) /\ ~IsRelease(m)
          <6>1. Head(window).ring \in 0 .. ring
            <7>1. ring \in Nat /\ Head(window) \in WindowMessage(ring)
              BY <1>0, <2>14, HeadTailProperties DEF TypeOK, RingOpened, RingAtHead
            <7> QED BY <7>1 DEF WindowMessage, Announcement, RingMessage
          <6> QED BY <6>1 DEF ServerMessage, GenerationAccepted, IsRelease
        <5>2. toServer' = Append(toServer, m)
          BY <3>1, <4>1
        <5> HIDE DEF m
        <5>3. \A i \in DOMAIN toServer' : (\E j \in DOMAIN toServer : toServer'[i] = toServer[j]) \/ toServer'[i] = m
          BY <1>0, <5>1, <5>2, AppendElements
        <5> QED BY <5>1, <5>3 DEF Returning
      <4>2. CASE ~waiting
        BY <2>4, <3>1, <4>2
      <4> QED BY <4>1, <4>2
    <3> QED BY <1>0, <2>1, <2>4, <3>1, <3>2, SlotsKept
  <2> QED BY <2>5, <2>6, <2>7, <2>8, <2>9, <2>10, <2>11, <2>12, <2>13, <2>14
          DEF Next, UIStep, ServerStep, WindowStep, Environment
<1> QED BY <1>1, <1>2

-----------------------------------------------------------------------------
(***************************************************************************)
(* The carriers.  A message that goes from one queue to the next takes its *)
(* slot along: the counts of the four queues always add up to one for a    *)
(* slot that is out.  The carrier names the frame the slot was published   *)
(* with, so the release it becomes frees the slot.                         *)
(***************************************************************************)
Carries(m, s) == m.type \in {"FrameReady", "FrameReleased"} /\ m.slot = s
Load(m, s) == IF Carries(m, s) THEN 1 ELSE 0
Count(q, s) == Cardinality(Carriers(q, s))

LEMMA CountType ==
  ASSUME NEW S, NEW q \in Seq(S), NEW s
  PROVE  /\ IsFiniteSet(Carriers(q, s)) /\ Count(q, s) \in Nat
         /\ Count(q, s) = 0 <=> Carriers(q, s) = {}
<1>1. Carriers(q, s) \in SUBSET (1 .. Len(q)) /\ Len(q) \in Nat
  BY LenProperties DEF Carriers
<1>2. IsFiniteSet(1 .. Len(q))
  BY <1>1, FS_Interval
<1>3. IsFiniteSet(Carriers(q, s))
  BY <1>1, <1>2, FS_Subset
<1> QED BY <1>3, FS_CardinalityType, FS_EmptySet DEF Count

LEMMA CountEmpty == \A s : Count(<<>>, s) = 0
<1> SUFFICES ASSUME NEW s PROVE Count(<<>>, s) = 0
  OBVIOUS
<1>1. Carriers(<<>>, s) = {}
  BY DEF Carriers
<1> QED BY <1>1, FS_EmptySet DEF Count

LEMMA CountAppend ==
  ASSUME NEW S, NEW q \in Seq(S), NEW m \in S, NEW s
  PROVE  Count(Append(q, m), s) = Count(q, s) + Load(m, s)
<1>1. /\ DOMAIN Append(q, m) = 1 .. Len(q) + 1 /\ DOMAIN q = 1 .. Len(q) /\ Len(q) \in Nat
      /\ \A i \in DOMAIN q : Append(q, m)[i] = q[i]
      /\ Append(q, m)[Len(q) + 1] = m
  BY AppendIndices
<1>2. Carriers(Append(q, m), s) = IF Carries(m, s) THEN Carriers(q, s) \cup {Len(q) + 1} ELSE Carriers(q, s)
  <2>1. DOMAIN Append(q, m) = DOMAIN q \cup {Len(q) + 1}
    BY <1>1
  <2> QED BY <1>1, <2>1 DEF Carriers, Carries
<1>3. Len(q) + 1 \notin Carriers(q, s)
  BY <1>1 DEF Carriers
<1>4. IsFiniteSet(Carriers(q, s)) /\ Count(q, s) \in Nat
  BY CountType
<1>5. CASE Carries(m, s)
  BY <1>2, <1>3, <1>4, <1>5, FS_AddElement DEF Count, Load
<1>6. CASE ~Carries(m, s)
  BY <1>2, <1>4, <1>6 DEF Count, Load
<1> QED BY <1>5, <1>6

LEMMA CountTail ==
  ASSUME NEW S, NEW q \in Seq(S), q # <<>>, NEW s
  PROVE  Count(q, s) = Count(Tail(q), s) + Load(Head(q), s)
<1> DEFINE A == Carriers(Tail(q), s)
           B == Carriers(q, s) \ {1}
           f == [i \in A |-> i + 1]
<1>1. /\ Tail(q) \in Seq(S) /\ 1 \in DOMAIN q /\ Head(q) = q[1]
      /\ \A i \in DOMAIN Tail(q) : i \in Nat /\ i >= 1 /\ i + 1 \in DOMAIN q /\ Tail(q)[i] = q[i + 1]
  BY TailIndices, HeadTailProperties
<1>2. \A j \in DOMAIN q : j # 1 => j - 1 \in DOMAIN Tail(q) /\ j - 1 \in Nat /\ (j - 1) + 1 = j
  <2>1. PICK n \in Nat : n = Len(q) /\ DOMAIN q = 1 .. n
    BY LenProperties
  <2>2. Len(Tail(q)) = n - 1 /\ DOMAIN Tail(q) = 1 .. n - 1
    BY <1>1, <2>1, HeadTailProperties, LenProperties
  <2> QED BY <2>1, <2>2
<1>3. f \in Bijection(A, B)
  <2>1. \A i \in A : i \in Nat /\ i >= 1 /\ i + 1 \in B
    BY <1>1 DEF Carriers
  <2>2. \A j \in B : j - 1 \in A /\ (j - 1) + 1 = j
    <3> SUFFICES ASSUME NEW j \in B PROVE j - 1 \in A /\ (j - 1) + 1 = j
      OBVIOUS
    <3>1. j \in DOMAIN q /\ j # 1 /\ q[j].type \in {"FrameReady", "FrameReleased"} /\ q[j].slot = s
      BY DEF Carriers
    <3>2. j - 1 \in DOMAIN Tail(q) /\ (j - 1) + 1 = j /\ Tail(q)[j - 1] = q[j]
      BY <1>1, <1>2, <3>1
    <3> QED BY <3>1, <3>2 DEF Carriers
  <2> HIDE DEF A, B
  <2>3. f \in [A -> B] /\ \A i, j \in A : f[i] = f[j] => i = j
    BY <2>1
  <2>4. \A j \in B : \E i \in A : f[i] = j
    BY <2>2
  <2> HIDE DEF f
  <2> QED BY <2>3, <2>4, Fun_IsBij
<1>4. IsFiniteSet(A) /\ Count(Tail(q), s) = Cardinality(A) /\ Cardinality(A) \in Nat
  BY <1>1, CountType DEF Count
<1>5. Cardinality(B) = Cardinality(A)
  BY <1>3, <1>4, FS_Bijection DEF ExistsBijection
<1>6. IsFiniteSet(Carriers(q, s)) /\ Count(q, s) \in Nat
  BY CountType
<1>7. Cardinality(B) = IF 1 \in Carriers(q, s) THEN Count(q, s) - 1 ELSE Count(q, s)
  BY <1>6, FS_RemoveElement DEF Count
<1>8. 1 \in Carriers(q, s) <=> Carries(Head(q), s)
  BY <1>1 DEF Carriers, Carries
<1> HIDE DEF A, B
<1> QED BY <1>4, <1>5, <1>6, <1>7, <1>8 DEF Load

\* A carrier's frame is the one its slot was published with.
Carried(q, slots) ==
  \A i \in DOMAIN q : \A s \in Slots : Carries(q[i], s) => q[i].frame = slots[s].frame

\* What the channels say of a slot: nothing of an available one.
Account(sl, key, n) ==
  IF sl.state = "Available" THEN n = 0 ELSE n = 1 \/ (key = "held" /\ n = 0)
Total(a, b, c, d, s) == Count(a, s) + Count(b, s) + Count(c, s) + Count(d, s)
Books(slots, t, a, b, c, d) ==
  /\ \A s \in Slots : Account(slots[s], t[s].key, Total(a, b, c, d, s))
  /\ Carried(a, slots) /\ Carried(b, slots) /\ Carried(c, slots) /\ Carried(d, slots)
SlotsCarried == Settled /\ linkUp => Books(slot, tex[ring], toViewer, window, toServer, tasks)

LEMMA CarriedImplies ==
  ASSUME TypeOK, SlotsCarried
  PROVE  EverySlotHasOneCarrier
<1>1. \A s \in Slots : slot[s].state \in {"Available", "Published"}
  BY DEF TypeOK, SlotStates
<1>2. \A s \in Slots : CarrierCount(s) = Total(toViewer, window, toServer, tasks, s)
  BY DEF CarrierCount, Total, Count
<1> QED BY <1>1, <1>2 DEF SlotsCarried, Books, Account, EverySlotHasOneCarrier, LeftBehind

\* A message of a queue carries its slot, so the slot is not available and
\* the message is its only carrier.
LEMMA CountHead ==
  ASSUME NEW S, NEW q \in Seq(S), NEW i \in DOMAIN q, NEW s, Carries(q[i], s)
  PROVE  Count(q, s) > 0
<1>1. i \in Carriers(q, s)
  BY DEF Carriers, Carries
<1> QED BY <1>1, CountType

\* A message that moves on, or turns into the release of its slot.
SameLoad(m, h) == m.frame = h.frame /\ \A s \in Slots : Carries(m, s) <=> Carries(h, s)

LEMMA TailCarried ==
  ASSUME NEW S, NEW q \in Seq(S), q # <<>>, NEW slots, Carried(q, slots)
  PROVE  /\ Carried(Tail(q), slots)
         /\ \A s \in Slots : Carries(Head(q), s) => Head(q).frame = slots[s].frame
BY TailElements DEF Carried

LEMMA AppendCarried ==
  ASSUME NEW S, NEW q \in Seq(S), NEW m \in S, NEW slots, Carried(q, slots),
         \A s \in Slots : Carries(m, s) => m.frame = slots[s].frame
  PROVE  Carried(Append(q, m), slots)
BY AppendElements DEF Carried

LEMMA Moves ==
  ASSUME NEW S, NEW q \in Seq(S), q # <<>>, NEW T, NEW r \in Seq(T), NEW m \in T,
         SameLoad(m, Head(q)), NEW slots, Carried(q, slots), Carried(r, slots)
  PROVE  /\ Carried(Tail(q), slots) /\ Carried(Append(r, m), slots)
         /\ \A s \in Slots : Count(Tail(q), s) + Count(Append(r, m), s) = Count(q, s) + Count(r, s)
<1>1. /\ Carried(Tail(q), slots)
      /\ \A s \in Slots : Carries(m, s) => m.frame = slots[s].frame
  BY TailCarried DEF SameLoad
<1>2. Carried(Append(r, m), slots)
  BY <1>1, AppendCarried
<1>3. ASSUME NEW s \in Slots
      PROVE  Count(Tail(q), s) + Count(Append(r, m), s) = Count(q, s) + Count(r, s)
  <2>1. Count(q, s) = Count(Tail(q), s) + Load(Head(q), s)
    BY CountTail
  <2>2. Count(Append(r, m), s) = Count(r, s) + Load(m, s)
    BY CountAppend
  <2>3. Load(m, s) = Load(Head(q), s) /\ Load(m, s) \in Nat
    BY DEF SameLoad, Load
  <2>4. Count(Tail(q), s) \in Nat /\ Count(r, s) \in Nat
    <3>1. Tail(q) \in Seq(S)
      BY HeadTailProperties
    <3> QED BY <3>1, CountType
  <2> QED BY <2>1, <2>2, <2>3, <2>4
<1> QED BY <1>1, <1>2, <1>3

\* The channels' types, as the counts need them.
LEMMA CountsAreNat ==
  ASSUME TypeOK
  PROVE  \A s : /\ Count(toViewer, s) \in Nat /\ Count(window, s) \in Nat
                /\ Count(toServer, s) \in Nat /\ Count(tasks, s) \in Nat
<1>1. /\ toViewer \in Seq(ViewerMessage(ring)) /\ window \in Seq(WindowMessage(ring))
      /\ toServer \in Seq(ServerMessage(ring)) /\ tasks \in Seq(Task)
  BY DEF TypeOK
<1> QED BY <1>1, CountType

\* No queue names a slot that is available.
LEMMA UncountedIsAbsent ==
  ASSUME NEW S, NEW q \in Seq(S), NEW s, Count(q, s) = 0
  PROVE  \A i \in DOMAIN q : ~Carries(q[i], s)
<1>1. Carriers(q, s) = {}
  BY CountType
<1> QED BY <1>1 DEF Carriers, Carries

\* A publication puts the slot it takes on its way to the viewer.
LEMMA PublicationBooks ==
  ASSUME NEW A, NEW a \in Seq(A), NEW B, NEW b \in Seq(B), NEW C, NEW c \in Seq(C), NEW D, NEW d \in Seq(D),
         NEW slots \in SlotsType, NEW t, NEW pub, NEW u \in Slots, NEW frame, phase = "running",
         FrameReady(ring', u, frame) \in A,
         Books(slots, t, a, b, c, d), Publishes(slots, t, pub, a, u, frame)
  PROVE  Books(slot', tex'[ring'], toViewer', b, c, d)
<1> DEFINE m == FrameReady(ring', u, frame)
<1>1. /\ slots[u].state = "Available" /\ toViewer' = Append(a, m)
      /\ \A s \in Slots : slot'[s] = IF s = u THEN [state |-> "Published", frame |-> frame] ELSE slots[s]
      /\ \A s \in Slots : tex'[ring'][s] = IF s = u THEN [key |-> "key1", frame |-> frame] ELSE t[s]
  BY DEF Publishes, SlotsType
<1>2. /\ m \in A /\ m.frame = frame
      /\ \A s \in Slots : Load(m, s) = (IF s = u THEN 1 ELSE 0) /\ (Carries(m, s) => s = u)
  BY DEF FrameReady, Load, Carries
<1> HIDE DEF m
<1>3. \A s \in Slots : /\ Count(a, s) \in Nat /\ Count(b, s) \in Nat
                       /\ Count(c, s) \in Nat /\ Count(d, s) \in Nat
  BY CountType
<1>4. Count(a, u) = 0 /\ Count(b, u) = 0 /\ Count(c, u) = 0 /\ Count(d, u) = 0
  BY <1>1, <1>3 DEF Books, Account, Total
<1>5. Carried(a, slot') /\ Carried(b, slot') /\ Carried(c, slot') /\ Carried(d, slot')
  <2>1. \A s \in Slots : s # u => slot'[s] = slots[s]
    BY <1>1
  <2>2. Carried(a, slots) /\ Carried(b, slots) /\ Carried(c, slots) /\ Carried(d, slots)
    BY DEF Books
  <2>3. /\ \A i \in DOMAIN a : ~Carries(a[i], u)
        /\ \A i \in DOMAIN b : ~Carries(b[i], u)
        /\ \A i \in DOMAIN c : ~Carries(c[i], u)
        /\ \A i \in DOMAIN d : ~Carries(d[i], u)
    BY <1>4, UncountedIsAbsent
  <2>8. ASSUME NEW q, Carried(q, slots), \A i \in DOMAIN q : ~Carries(q[i], u)
        PROVE  Carried(q, slot')
    <3> SUFFICES ASSUME NEW i \in DOMAIN q, NEW s \in Slots, Carries(q[i], s)
                 PROVE  q[i].frame = slot'[s].frame
      BY DEF Carried
    <3>1. q[i].frame = slots[s].frame
      BY <2>8 DEF Carried
    <3>2. s # u
      BY <2>8
    <3>3. slot'[s] = slots[s]
      BY <2>1, <3>2
    <3> QED BY <3>1, <3>3
  <2>4. Carried(a, slot')
    BY <2>2, <2>3, <2>8
  <2>5. Carried(b, slot')
    BY <2>2, <2>3, <2>8
  <2>6. Carried(c, slot')
    BY <2>2, <2>3, <2>8
  <2>7. Carried(d, slot')
    BY <2>2, <2>3, <2>8
  <2> QED BY <2>4, <2>5, <2>6, <2>7
<1>6. Carried(toViewer', slot')
  <2>1. \A s \in Slots : Carries(m, s) => m.frame = slot'[s].frame
    BY <1>1, <1>2
  <2> QED BY <1>1, <1>2, <1>5, <2>1, AppendCarried
<1>7. ASSUME NEW s \in Slots
      PROVE  Account(slot'[s], tex'[ring'][s].key, Total(toViewer', b, c, d, s))
  <2>1. Count(toViewer', s) = Count(a, s) + Load(m, s)
    BY <1>1, <1>2, CountAppend
  <2>2. CASE s = u
    <3>1. Total(toViewer', b, c, d, s) = 1
      BY <1>2, <1>4, <2>1, <2>2 DEF Total
    <3> QED BY <1>1, <2>2, <3>1 DEF Account
  <2>3. CASE s # u
    <3>1. Total(toViewer', b, c, d, s) = Total(a, b, c, d, s)
      BY <1>2, <1>3, <2>1, <2>3 DEF Total
    <3> QED BY <1>1, <2>3, <3>1 DEF Books
  <2> QED BY <2>2, <2>3
<1> QED BY <1>5, <1>6, <1>7 DEF Books

LEMMA PublishBooks ==
  ASSUME TypeOK, ring' = ring, ring # 0, phase = "running",
         NEW on, NEW frame \in Frames, NEW slots \in SlotsType,
         NEW d \in Seq(Task),
         Books(slots, tex[ring], toViewer, window, toServer, d),
         PublishLatest(on, ring, frame, published, slots, tex, toViewer)
  PROVE  Books(slot', tex'[ring'], toViewer', window, toServer, d)
<1>0. ring \in Nat /\ tex \in TexturesType(ring')
  BY DEF TypeOK, TexturesType
<1>1. \/ slot' = slots /\ tex' = tex /\ published' = published /\ toViewer' = toViewer
      \/ \E s \in Slots : Publishes(slots, tex[ring], published, toViewer, s, frame)
  BY <1>0, PublishTakesSlot
<1>2. ASSUME NEW s \in Slots, Publishes(slots, tex[ring], published, toViewer, s, frame)
      PROVE  Books(slot', tex'[ring'], toViewer', window, toServer, d)
  <2>1. FrameReady(ring', s, frame) \in ViewerMessage(ring)
    BY <1>0 DEF FrameReady, ViewerMessage, Announcement
  <2>2. /\ toViewer \in Seq(ViewerMessage(ring)) /\ window \in Seq(WindowMessage(ring))
        /\ toServer \in Seq(ServerMessage(ring))
    BY DEF TypeOK
  <2> QED BY <1>2, <2>1, <2>2, PublicationBooks
<1> QED BY <1>1, <1>2

\* A session begins with no carrier, for every slot is available.
LEMMA BooksAtBegin ==
  ASSUME FeedInv, TasksEnd, RingIsFresh, AcceptIsLast, OfferIsLast, [Next]_vars,
         Settled', linkUp', phase # "running"
  PROVE  Books(slot, tex[ring], toViewer, window, toServer', tasks') /\ UNCHANGED <<pipeline, toViewer, window>>
<1>0. TypeOK /\ OfferLast /\ toViewer = <<>> /\ window \in Seq(WindowMessage(ring))
  BY DEF FeedInv, FrameInv, IInv, TypeOK
<1>1. /\ Begins /\ tasks' = <<Ready>> /\ toServer' = <<>>
      /\ AllAvailable
      /\ linkUp => Opened
  BY <1>0, SettledAtBegin DEF RingUntouched
<1>a. phase = "offered" /\ UNCHANGED <<pipeline, toViewer, window>>
  BY <1>1 DEF Begins
<1>b. linkUp
  <2>1. linkUp' = linkUp
    BY <1>1 DEF Begins
  <2> QED BY <2>1
<1>2. ~HasRing(window)
  BY <1>1, <1>b DEF Opened
<1>3. FrameReadys(window) = {}
  BY <1>0, <1>a, <1>2 DEF OfferLast, RingAfter, HasRing
<1>4. \A i \in DOMAIN window, s \in Slots : ~Carries(window[i], s)
  <2>1. \A i \in DOMAIN window : window[i].type \in {"FrameReady", "Ring"}
    <3>1. \A i \in DOMAIN window : window[i] \in WindowMessage(ring)
      BY <1>0, ElementOfSeq, LenProperties
    <3> QED BY <3>1 DEF WindowMessage, Announcement, RingMessage
  <2> QED BY <1>3, <2>1 DEF FrameReadys, Carries
<1>5. \A s \in Slots : Count(window, s) = 0
  <2> SUFFICES ASSUME NEW s \in Slots PROVE Count(window, s) = 0
    OBVIOUS
  <2>1. Carriers(window, s) = {}
    BY <1>4 DEF Carriers, Carries
  <2> QED BY <1>0, <2>1, CountType
<1>6. \A s \in Slots : Count(<<Ready>>, s) = 0
  <2> SUFFICES ASSUME NEW s \in Slots PROVE Count(<<Ready>>, s) = 0
    OBVIOUS
  <2>1. Carriers(<<Ready>>, s) = {}
    BY DEF Carriers, Ready
  <2> QED BY <2>1, FS_EmptySet DEF Count
<1>7. \A s \in Slots : Total(toViewer, window, toServer', tasks', s) = 0
  BY <1>0, <1>1, <1>5, <1>6, CountEmpty DEF Total
<1>8. \A s \in Slots : Account(slot[s], tex[ring][s].key, Total(toViewer, window, toServer', tasks', s))
  BY <1>1, <1>7 DEF Account, AllAvailable
<1>9. Carried(toViewer, slot) /\ Carried(window, slot) /\ Carried(toServer', slot) /\ Carried(tasks', slot)
  <2>1. Carried(<<>>, slot)
    BY DEF Carried
  <2>2. Carried(<<Ready>>, slot)
    BY DEF Carried, Carries, Ready
  <2>3. Carried(window, slot)
    BY <1>4 DEF Carried
  <2> QED BY <1>0, <1>1, <2>1, <2>2, <2>3
<1> QED BY <1>a, <1>8, <1>9 DEF Books

\* A message that carries no slot leaves the books as they are.
LEMMA DropsNothing ==
  ASSUME NEW S, NEW q \in Seq(S), q # <<>>, \A s \in Slots : ~Carries(Head(q), s),
         NEW slots, Carried(q, slots)
  PROVE  Carried(Tail(q), slots) /\ \A s \in Slots : Count(Tail(q), s) = Count(q, s)
<1>1. Carried(Tail(q), slots)
  BY TailCarried
<1>2. ASSUME NEW s \in Slots PROVE Count(Tail(q), s) = Count(q, s)
  <2>1. Count(q, s) = Count(Tail(q), s) + Load(Head(q), s)
    BY CountTail
  <2>2. Load(Head(q), s) = 0
    BY DEF Load
  <2>3. Count(Tail(q), s) \in Nat
    <3>1. Tail(q) \in Seq(S)
      BY HeadTailProperties
    <3> QED BY <3>1, CountType
  <2> QED BY <2>1, <2>2, <2>3
<1> QED BY <1>1, <1>2

\* What a step in a settled session with its pipe intact does to the books.
LEMMA UIBooks ==
  ASSUME TypeOK, Settled, ring # 0, ring' = ring,
         Books(slot, tex[ring], toViewer, window, toServer, tasks),
         Compose \/ ViewerReady \/ FrameReleased
  PROVE  Books(slot', tex'[ring'], toViewer', window', toServer', tasks')
<1>0. /\ phase = "running" /\ slot \in SlotsType /\ tasks \in Seq(Task)
      /\ window' = window /\ toServer' = toServer
      /\ latest \in Frames
  BY DEF TypeOK, SlotsType, Settled, Compose, ViewerReady, FrameReleased, server, viewer
<1>1. CASE Compose
  <2>1. /\ PublishLatest(streaming, ring, latest + 1, published, slot, tex, toViewer)
        /\ latest < MaxFrame /\ tasks' = tasks
    BY <1>1 DEF Compose, server
  <2>2. latest + 1 \in Frames
    BY <1>0, <2>1, FrameRingAssumption DEF Frames
  <2>3. Books(slot', tex'[ring'], toViewer', window, toServer, tasks)
    BY <1>0, <2>1, <2>2, PublishBooks
  <2> QED BY <1>0, <2>1, <2>3
<1>2. CASE ViewerReady
  <2>1. /\ PublishLatest(TRUE, ring, latest, published, slot, tex, toViewer)
        /\ tasks # <<>> /\ tasks' = Tail(tasks) /\ Head(tasks).type = "Ready"
    BY <1>2 DEF ViewerReady
  <2>2. Carried(Tail(tasks), slot) /\ \A s \in Slots : Count(Tail(tasks), s) = Count(tasks, s)
    <3>1. \A s \in Slots : ~Carries(Head(tasks), s)
      BY <2>1 DEF Carries
    <3> QED BY <1>0, <2>1, <3>1, DropsNothing DEF Books
  <2>3. Tail(tasks) \in Seq(Task)
    BY <1>0, <2>1, HeadTailProperties
  <2>4. Books(slot, tex[ring], toViewer, window, toServer, Tail(tasks))
    BY <2>2 DEF Books, Total
  <2>5. Books(slot', tex'[ring'], toViewer', window, toServer, Tail(tasks))
    BY <1>0, <2>1, <2>3, <2>4, PublishBooks
  <2> QED BY <1>0, <2>1, <2>5
<1>3. CASE FrameReleased
  <2> DEFINE m == Head(tasks)
             u == m.slot
             slots == FreedSlots(m)
  <2>1. tasks # <<>> /\ tasks' = Tail(tasks) /\ m.type = "FrameReleased"
    BY <1>3 DEF FrameReleased
  <2>2. u \in Slots /\ Tail(tasks) \in Seq(Task) /\ 1 \in DOMAIN tasks /\ m = tasks[1]
    <3>1. m \in Task /\ Tail(tasks) \in Seq(Task) /\ 1 \in DOMAIN tasks /\ m = tasks[1]
      BY <1>0, <2>1, HeadTailProperties, TailIndices
    <3> QED BY <2>1, <3>1 DEF Task, Ready, Disconnected
  <2>3. \A s \in Slots : Carries(m, s) <=> s = u
    BY <2>1 DEF Carries
  <2>4. slot[u].state = "Published" /\ slot[u].frame = m.frame
    <3>1. Count(tasks, u) > 0
      BY <1>0, <2>2, <2>3, CountHead
    <3>2. Total(toViewer, window, toServer, tasks, u) # 0
      BY <3>1, <1>0, CountsAreNat DEF Total
    <3>3. slot[u].state = "Published"
      BY <1>0, <2>2, <3>2 DEF Books, Account, SlotsType, SlotStates
    <3>4. slot[u].frame = m.frame
      BY <2>2, <2>3 DEF Books, Carried
    <3> QED BY <3>3, <3>4
  <2>5. /\ PublishLatest(streaming, ring, latest, published, slots, tex, toViewer)
    BY <1>3, <2>4 DEF FrameReleased, ReleaseMatches
  <2>6. /\ slots \in SlotsType /\ slots[u].state = "Available"
        /\ \A s \in Slots : slots[s].frame = slot[s].frame /\ (s # u => slots[s] = slot[s])
    BY <1>0, <2>2 DEF FreedSlots, SlotsType, SlotStates
  <2>7. \A s \in Slots : Count(tasks, s) = Count(Tail(tasks), s) + (IF s = u THEN 1 ELSE 0)
    <3>1. \A s \in Slots : Load(m, s) = IF s = u THEN 1 ELSE 0
      BY <2>3 DEF Load
    <3> QED BY <1>0, <2>1, <3>1, CountTail
  <2> HIDE DEF slots
  <2>8. /\ Carried(toViewer, slots) /\ Carried(window, slots)
        /\ Carried(toServer, slots) /\ Carried(Tail(tasks), slots)
    <3>1. Carried(Tail(tasks), slot)
      BY <1>0, <2>1, TailCarried DEF Books
    <3> QED BY <2>6, <3>1 DEF Books, Carried
  <2> HIDE DEF u, m
  <2>9. \A s \in Slots : /\ Count(toViewer, s) \in Nat /\ Count(window, s) \in Nat
                         /\ Count(toServer, s) \in Nat /\ Count(Tail(tasks), s) \in Nat
    BY <2>2, CountsAreNat, CountType
  <2>10. ASSUME NEW s \in Slots
         PROVE  Account(slots[s], tex[ring][s].key, Total(toViewer, window, toServer, Tail(tasks), s))
    <3>1. Account(slot[s], tex[ring][s].key, Total(toViewer, window, toServer, tasks, s))
      BY DEF Books
    <3>2. Total(toViewer, window, toServer, tasks, s)
            = Total(toViewer, window, toServer, Tail(tasks), s) + (IF s = u THEN 1 ELSE 0)
      BY <2>7, <2>9 DEF Total
    <3>3. Total(toViewer, window, toServer, Tail(tasks), s) \in Nat
      BY <2>9 DEF Total
    <3>4. CASE s = u
      BY <2>4, <2>6, <3>1, <3>2, <3>3, <3>4 DEF Account
    <3>5. CASE s # u
      BY <2>6, <3>1, <3>2, <3>3, <3>5 DEF Account
    <3> QED BY <3>4, <3>5
  <2>11. Books(slots, tex[ring], toViewer, window, toServer, Tail(tasks))
    BY <2>8, <2>10 DEF Books
  <2>12. Books(slot', tex'[ring'], toViewer', window, toServer, Tail(tasks))
    BY <1>0, <2>2, <2>5, <2>6, <2>11, PublishBooks
  <2> QED BY <1>0, <2>1, <2>12
<1> QED BY <1>1, <1>2, <1>3

LEMMA ReadBooks ==
  ASSUME TypeOK, ring' = ring, linkUp',
         Books(slot, tex[ring], toViewer, window, toServer, tasks),
         ClientRead \/ ServerRead
  PROVE  Books(slot', tex'[ring'], toViewer', window', toServer', tasks')
<1>0. /\ toViewer \in Seq(ViewerMessage(ring)) /\ window \in Seq(WindowMessage(ring))
      /\ toServer \in Seq(ServerMessage(ring)) /\ tasks \in Seq(Task)
      /\ slot' = slot /\ tex' = tex
  BY DEF TypeOK, ClientRead, ServerRead, pipeline
<1>a. \A s \in Slots : /\ Count(toViewer, s) \in Nat /\ Count(window, s) \in Nat
                       /\ Count(toServer, s) \in Nat /\ Count(tasks, s) \in Nat
  BY CountsAreNat
<1>1. CASE ClientRead
  <2> DEFINE m == Head(toViewer)
  <2>1. toViewer # <<>> /\ UNCHANGED <<toServer, tasks>>
    BY <1>1 DEF ClientRead, server
  <2>2. m.type # "StreamReset" /\ toViewer' = Tail(toViewer) /\ window' = Append(window, m)
    BY <1>1 DEF ClientRead
  <2>3. m \in WindowMessage(ring)
    <3>1. m \in ViewerMessage(ring)
      BY <1>0, <2>1, HeadTailProperties
    <3> QED BY <2>2, <3>1 DEF ViewerMessage, WindowMessage, StreamReset
  <2>4. SameLoad(m, Head(toViewer))
    BY DEF SameLoad
  <2>5. /\ Carried(Tail(toViewer), slot) /\ Carried(Append(window, m), slot)
        /\ \A s \in Slots : Count(Tail(toViewer), s) + Count(Append(window, m), s)
                              = Count(toViewer, s) + Count(window, s)
    <3> HIDE DEF m
    <3>1. Carried(toViewer, slot) /\ Carried(window, slot)
      BY DEF Books
    <3> QED BY <1>0, <2>1, <2>3, <2>4, <3>1, Moves
  <2>6. \A s \in Slots : Total(toViewer', window', toServer', tasks', s) = Total(toViewer, window, toServer, tasks, s)
    BY <2>1, <2>2, <2>5 DEF Total
  <2> QED BY <1>0, <2>1, <2>2, <2>5, <2>6 DEF Books
<1>2. CASE ServerRead
  <2> DEFINE m == Head(toServer)
  <2>1. toServer # <<>> /\ toServer' = Tail(toServer) /\ UNCHANGED <<toViewer, window>>
    BY <1>2 DEF ServerRead, viewer
  <2>2. Carried(toServer, slot) /\ Carried(tasks, slot)
    BY DEF Books
  <2>3. CASE m.type = "FrameReleased"
    <3>1. tasks' = Append(tasks, m)
      BY <1>2, <2>3 DEF ServerRead
    <3>2. m \in Task
      <4>1. m \in ServerMessage(ring)
        BY <1>0, <2>1, HeadTailProperties
      <4> QED BY <2>3, <4>1 DEF ServerMessage, Task, GenerationAccepted
    <3>3. SameLoad(m, Head(toServer))
      BY DEF SameLoad
    <3>4. /\ Carried(Tail(toServer), slot) /\ Carried(Append(tasks, m), slot)
          /\ \A s \in Slots : Count(Tail(toServer), s) + Count(Append(tasks, m), s)
                                = Count(toServer, s) + Count(tasks, s)
      <4> HIDE DEF m
      <4> QED BY <1>0, <2>1, <2>2, <3>2, <3>3, Moves
    <3>5. \A s \in Slots : Total(toViewer', window', toServer', tasks', s) = Total(toViewer, window, toServer, tasks, s)
      <4>1. Tail(toServer) \in Seq(ServerMessage(ring)) /\ Append(tasks, m) \in Seq(Task)
        BY <1>0, <2>1, <3>2, HeadTailProperties, AppendProperties
      <4>2. \A s \in Slots : Count(Tail(toServer), s) \in Nat /\ Count(Append(tasks, m), s) \in Nat
        BY <4>1, CountType
      <4> HIDE DEF m
      <4>3. ASSUME NEW s \in Slots
            PROVE  /\ Count(toServer', s) + Count(tasks', s) = Count(toServer, s) + Count(tasks, s)
                   /\ Count(toServer', s) \in Nat /\ Count(tasks', s) \in Nat
                   /\ Count(toViewer', s) = Count(toViewer, s) /\ Count(window', s) = Count(window, s)
        BY <2>1, <3>1, <3>4, <4>2
      <4> QED BY <1>a, <4>3 DEF Total
    <3> QED BY <1>0, <2>1, <3>1, <3>4, <3>5 DEF Books
  <2>4. CASE m.type # "FrameReleased"
    <3>1. tasks' = tasks
      BY <1>2, <2>4 DEF ServerRead
    <3>2. \A s \in Slots : ~Carries(m, s)
      <4>1. m \in ServerMessage(ring)
        BY <1>0, <2>1, HeadTailProperties
      <4> QED BY <2>4, <4>1 DEF ServerMessage, GenerationAccepted, Carries
    <3>3. Carried(Tail(toServer), slot) /\ \A s \in Slots : Count(Tail(toServer), s) = Count(toServer, s)
      BY <1>0, <2>1, <2>2, <3>2, DropsNothing
    <3> QED BY <1>0, <2>1, <3>1, <3>3 DEF Books, Total
  <2> QED BY <2>3, <2>4
<1> QED BY <1>1, <1>2

LEMMA WindowBooks ==
  ASSUME FrameInv, RingsAgree, SessionOpen, Settled, linkUp, ring # 0, ring' = ring,
         Books(slot, tex[ring], toViewer, window, toServer, tasks),
         AcquireFrame \/ ShowFrame \/ CopyTimesOut
  PROVE  Books(slot', tex'[ring'], toViewer', window', toServer', tasks')
<1> DEFINE h == Head(window)
           u == h.slot
<1>0. /\ TypeOK /\ FrameAtHead /\ window # <<>> /\ vring # 0
      /\ window \in Seq(WindowMessage(ring)) /\ toServer \in Seq(ServerMessage(ring))
      /\ UNCHANGED <<slot, toViewer, tasks>> /\ ring \in 1 .. ring
  <2>1. /\ FrameAtHead /\ vring # 0 /\ UNCHANGED <<slot, toViewer, tasks>>
    BY DEF AcquireFrame, ShowFrame, CopyTimesOut, SpendFrame, pipeline, server
  <2>2. TypeOK /\ window # <<>>
    BY <2>1 DEF FrameInv, IInv, FrameAtHead
  <2>3. /\ window \in Seq(WindowMessage(ring)) /\ toServer \in Seq(ServerMessage(ring))
        /\ ring \in 1 .. ring
    BY <2>2 DEF TypeOK
  <2> QED BY <2>1, <2>2, <2>3
<1>1. vring = ring /\ u \in Slots /\ h.frame \in Frames /\ 1 \in DOMAIN window /\ window[1] = h
  BY <1>0, HeadOfSession, FrameAtHeadType
<1>2. \A s \in Slots : Carries(h, s) <=> s = u
  BY <1>0 DEF Carries, FrameAtHead
<1>3. \A s \in Slots : /\ Count(toViewer, s) \in Nat /\ Count(window, s) \in Nat
                       /\ Count(toServer, s) \in Nat /\ Count(tasks, s) \in Nat
  BY <1>0, CountsAreNat
<1>4. Carried(toViewer, slot) /\ Carried(window, slot) /\ Carried(toServer, slot) /\ Carried(tasks, slot)
  BY DEF Books
<1>5. /\ Total(toViewer, window, toServer, tasks, u) = 1
      /\ slot[u].state # "Available"
  <2>1. Count(window, u) > 0
    BY <1>0, <1>1, <1>2, CountHead
  <2>2. Total(toViewer, window, toServer, tasks, u) # 0
    BY <1>1, <1>3, <2>1 DEF Total
  <2> QED BY <1>1, <2>2 DEF Books, Account
<1> HIDE DEF h, u
<1>6. CASE AcquireFrame \/ ShowFrame
  <2>1. PICK k \in Keys : SetKeyAtHead(k)
    BY <1>6 DEF AcquireFrame, ShowFrame, Keys
  <2>2. \A s \in Slots : s # u => tex'[ring'][s] = tex[ring][s]
    BY <1>0, <1>1, <2>1, SetKeyType DEF h, u
  <2>3. \A s \in Slots : Account(slot'[s], tex'[ring'][s].key, Total(toViewer, window, toServer, tasks, s))
    <3> SUFFICES ASSUME NEW s \in Slots
                 PROVE  Account(slot[s], tex'[ring'][s].key, Total(toViewer, window, toServer, tasks, s))
      BY <1>0
    <3>1. CASE s = u
      BY <1>5, <3>1 DEF Account
    <3>2. CASE s # u
      BY <2>2, <3>2 DEF Books
    <3> QED BY <3>1, <3>2
  <2>4. CASE AcquireFrame
    <3>1. UNCHANGED <<window, toServer>>
      BY <2>4 DEF AcquireFrame, server, viewer
    <3> QED BY <1>0, <1>4, <2>3, <3>1 DEF Books
  <2>5. CASE ShowFrame
    <3> DEFINE m == Released(u, h.frame)
    <3>1. window' = Tail(window) /\ toServer' = Append(toServer, m)
      BY <2>5 DEF ShowFrame, h, u
    <3>2. m \in ServerMessage(ring)
      BY <1>1 DEF Released, ServerMessage
    <3>3. SameLoad(m, Head(window))
      <4>1. m.frame = h.frame /\ \A s \in Slots : Carries(m, s) <=> s = u
        BY <1>1 DEF Released, Carries
      <4> QED BY <1>2, <4>1 DEF SameLoad, h
    <3> HIDE DEF m
    <3>4. /\ Carried(Tail(window), slot) /\ Carried(Append(toServer, m), slot)
          /\ \A s \in Slots : Count(Tail(window), s) + Count(Append(toServer, m), s)
                                = Count(window, s) + Count(toServer, s)
      BY <1>0, <1>4, <3>2, <3>3, Moves
    <3>5. \A s \in Slots : Total(toViewer', window', toServer', tasks', s) = Total(toViewer, window, toServer, tasks, s)
      <4>1. Tail(window) \in Seq(WindowMessage(ring)) /\ Append(toServer, m) \in Seq(ServerMessage(ring))
        BY <1>0, <3>2, HeadTailProperties, AppendProperties
      <4>2. \A s \in Slots : Count(Tail(window), s) \in Nat /\ Count(Append(toServer, m), s) \in Nat
        BY <4>1, CountType
      <4>3. ASSUME NEW s \in Slots
            PROVE  /\ Count(window', s) + Count(toServer', s) = Count(window, s) + Count(toServer, s)
                   /\ Count(window', s) \in Nat /\ Count(toServer', s) \in Nat
                   /\ Count(toViewer', s) = Count(toViewer, s) /\ Count(tasks', s) = Count(tasks, s)
        BY <1>0, <3>1, <3>4, <4>2
      <4> SUFFICES ASSUME NEW s \in Slots
                   PROVE  Total(toViewer', window', toServer', tasks', s) = Total(toViewer, window, toServer, tasks, s)
        OBVIOUS
      <4> DEFINE n == Count(toViewer, s)
                 p == Count(window, s)
                 q == Count(toServer, s)
                 x == Count(window', s)
                 y == Count(toServer', s)
                 z == Count(tasks, s)
      <4>4. n \in Nat /\ p \in Nat /\ q \in Nat /\ z \in Nat
        BY <1>3
      <4>5. x \in Nat /\ y \in Nat /\ x + y = p + q
        BY <4>3
      <4>6. Count(toViewer', s) = n /\ Count(tasks', s) = z
        BY <4>3
      <4>7. /\ Total(toViewer, window, toServer, tasks, s) = n + p + q + z
            /\ Total(toViewer', window', toServer', tasks', s) = n + x + y + z
        BY <4>6 DEF Total
      <4> HIDE DEF n, p, q, x, y, z
      <4> QED BY <4>4, <4>5, <4>7
    <3> QED BY <1>0, <1>4, <2>3, <3>1, <3>4, <3>5 DEF Books
  <2> QED BY <1>6, <2>4, <2>5
<1>7. CASE CopyTimesOut
  <2>1. window' = Tail(window) /\ UNCHANGED <<tex, toServer>> /\ KeyAtHead = "held"
    BY <1>7 DEF CopyTimesOut, SpendFrame, pipeline, server
  <2>2. tex[ring][u].key = "held"
    BY <1>1, <2>1 DEF KeyAtHead, h, u
  <2>3. Carried(Tail(window), slot)
    BY <1>0, <1>4, TailCarried
  <2>4. \A s \in Slots : /\ Count(window, s) = Count(Tail(window), s) + (IF s = u THEN 1 ELSE 0)
                         /\ Count(Tail(window), s) \in Nat
    <3>1. \A s \in Slots : Load(h, s) = IF s = u THEN 1 ELSE 0
      BY <1>2 DEF Load
    <3>2. Tail(window) \in Seq(WindowMessage(ring))
      BY <1>0, HeadTailProperties
    <3> QED BY <1>0, <3>1, <3>2, CountTail, CountType DEF h
  <2>5. ASSUME NEW s \in Slots
        PROVE  Account(slot[s], tex[ring][s].key, Total(toViewer, Tail(window), toServer, tasks, s))
    <3>1. Total(toViewer, window, toServer, tasks, s)
            = Total(toViewer, Tail(window), toServer, tasks, s) + (IF s = u THEN 1 ELSE 0)
          /\ Total(toViewer, Tail(window), toServer, tasks, s) \in Nat
      BY <1>3, <2>4 DEF Total
    <3>2. CASE s = u
      <4>1. Total(toViewer, Tail(window), toServer, tasks, s) = 0
        BY <1>5, <3>1, <3>2
      <4> QED BY <1>5, <2>2, <3>2, <4>1 DEF Account
    <3>3. CASE s # u
      BY <3>1, <3>3 DEF Books
    <3> QED BY <3>2, <3>3
  <2> QED BY <1>0, <1>4, <2>1, <2>3, <2>5 DEF Books
<1> QED BY <1>6, <1>7
LEMMA StepSlotsCarried ==
  ASSUME FeedInv, RingsAgree, OfferIsLast, TasksEnd, AcceptIsLast, SessionOpen, RingIsFresh,
         SlotsCarried, [Next]_vars
  PROVE  SlotsCarried'
<1> SUFFICES ASSUME Settled', linkUp'
             PROVE  Books(slot', tex'[ring'], toViewer', window', toServer', tasks')
  BY DEF SlotsCarried
<1>0. TypeOK /\ FrameInv /\ Old /\ phase' = "running"
  BY DEF FeedInv, FrameInv, IInv, Settled
<1>1. CASE phase # "running"
  <2>1. /\ Books(slot, tex[ring], toViewer, window, toServer', tasks')
        /\ UNCHANGED <<pipeline, toViewer, window>>
    BY <1>1, BooksAtBegin
  <2> QED BY <2>1 DEF pipeline
<1>2. CASE phase = "running"
  <2>1. Settled /\ linkUp /\ ring' = ring /\ sring' = sring /\ ring # 0
    <3>1. Settled /\ ring' = ring /\ sring' = sring /\ ring # 0
      BY <1>0, <1>2, SettledStep
    <3>2. linkUp
      BY <1>0, <1>2, SessionStep
    <3> QED BY <3>1, <3>2
  <2>2. Books(slot, tex[ring], toViewer, window, toServer, tasks)
    BY <2>1 DEF SlotsCarried
  <2>3. ~HasRing(window) /\ vring # 0
    BY <2>1 DEF SessionOpen, Settled, Opened
  <2>4. CASE Compose \/ ViewerReady \/ FrameReleased
    BY <1>0, <2>1, <2>2, <2>4, UIBooks
  <2>5. CASE ClientRead \/ ServerRead
    BY <1>0, <2>1, <2>2, <2>5, ReadBooks
  <2>6. CASE AcquireFrame \/ ShowFrame \/ CopyTimesOut
    BY <1>0, <2>1, <2>2, <2>6, WindowBooks
  <2>7. CASE UNCHANGED vars
    BY <2>2, <2>7 DEF vars, pipeline, server, viewer
\* The rest a settled session with its pipe intact does not do.
  <2>8. ~(ComposeInNewRing \/ ViewerDisconnected)
    <3>1. ring \in Nat
      BY <1>0 DEF TypeOK
    <3>2. ComposeInNewRing \/ ViewerDisconnected => ring' = ring + 1
      BY <2>1 DEF ComposeInNewRing, ViewerDisconnected
    <3> QED BY <2>1, <3>1, <3>2
  <2>9. ~(OfferRing \/ HandshakeRead \/ SessionLost \/ HandshakeAborted)
    BY <1>0, <1>2 DEF OfferRing, HandshakeRead, SessionLost, HandshakeAborted, EndSession
  <2>10. ~(LinkBreaks \/ ViewerExits)
    BY DEF LinkBreaks, ViewerExits
  <2>11. ~(RingOpened \/ RingRefused)
    <3>1. RingAtHead => HasRing(window)
      BY <1>0, HeadHasRing DEF TypeOK
    <3> QED BY <2>3, <3>1 DEF RingOpened, RingRefused
  <2>12. ~AcquireTimesOut
    <3>1. FrameAtHead => KeyAtHead \in {"key1", "held"}
      BY <1>0, <2>1, HeadOfSession
    <3> QED BY <2>3, <3>1 DEF AcquireTimesOut
  <2> QED BY <2>4, <2>5, <2>6, <2>7, <2>8, <2>9, <2>10, <2>11, <2>12
          DEF Next, UIStep, ServerStep, WindowStep, Environment
<1> QED BY <1>1, <1>2

SlotInv ==
  /\ FeedInv /\ RingsAgree
  /\ TasksEnd /\ IdleIsQuiet /\ OfferIsLast /\ AcceptIsLast
  /\ SessionOpen /\ RingIsFresh /\ SlotsFree /\ SlotsCarried

LEMMA SlotInvImplies == SlotInv => AvailableSlotIsFree /\ EverySlotHasOneCarrier
<1> SUFFICES ASSUME SlotInv PROVE AvailableSlotIsFree /\ EverySlotHasOneCarrier
  OBVIOUS
<1>1. AvailableSlotIsFree
  BY DEF SlotInv, SlotsFree, AvailableFree, AvailableSlotIsFree
<1>2. EverySlotHasOneCarrier
  BY CarriedImplies DEF SlotInv, FeedInv, FrameInv, IInv
<1> QED BY <1>1, <1>2

LEMMA InitSlotInv == Init => SlotInv
<1> SUFFICES ASSUME Init PROVE SlotInv
  OBVIOUS
<1>1. /\ ring = 0 /\ sring = 0 /\ streaming = FALSE /\ slot = FreshSlots
      /\ phase = "idle" /\ ringReady = FALSE /\ linkUp = FALSE /\ waiting = FALSE
      /\ toServer = <<>> /\ tasks = <<>>
  BY DEF Init
<1>2. FeedInv /\ RingsAgree
  BY InitFeedInv, InitOpenInv DEF OpenInv
<1>3. TasksEnd /\ IdleIsQuiet /\ OfferIsLast /\ AcceptIsLast
  BY <1>1 DEF TasksEnd, IdleIsQuiet, OfferIsLast, AcceptIsLast
<1>4. RingIsFresh
  BY <1>1 DEF RingIsFresh, RingUntouched, AllAvailable, FreshSlots
<1>5. SessionOpen /\ SlotsFree /\ SlotsCarried
  BY <1>1 DEF SessionOpen, SlotsFree, SlotsCarried, Settled
<1> QED BY <1>2, <1>3, <1>4, <1>5 DEF SlotInv

LEMMA StepSlotInv == SlotInv /\ [Next]_vars => SlotInv'
<1> SUFFICES ASSUME SlotInv, [Next]_vars PROVE SlotInv'
  OBVIOUS
<1>1. /\ FeedInv /\ FrameInv /\ IInv /\ TypeOK /\ OpenInv /\ Old /\ OfferUnread /\ OfferLast
      /\ RingsAgree /\ TasksEnd /\ IdleIsQuiet /\ OfferIsLast /\ AcceptIsLast
      /\ SessionOpen /\ RingIsFresh /\ SlotsFree /\ SlotsCarried
  BY DEF SlotInv, FeedInv, FrameInv, IInv, OpenInv
<1>2. FeedInv' /\ RingsAgree'
  BY <1>1, StepFeedInv, StepOpenInv DEF OpenInv
<1>3. TasksEnd' /\ IdleIsQuiet' /\ OfferIsLast' /\ AcceptIsLast'
  BY <1>1, StepTasksEnd, StepIdleIsQuiet, StepOfferIsLast, StepAcceptIsLast
<1>4. SessionOpen' /\ RingIsFresh' /\ SlotsFree' /\ SlotsCarried'
  BY <1>1, StepSessionOpen, StepRingIsFresh, StepSlotsFree, StepSlotsCarried
<1> QED BY <1>2, <1>3, <1>4 DEF SlotInv

\* In a settled session - it streams the pipeline's own ring, its handshake
\* was about that ring and the disconnection of the one before it has been
\* handled - the producer never finds the viewer's key on a slot it holds to
\* be available, so PublishLatest's AcquireSync(0, 0) never times out: a slot
\* comes back to it only after the viewer's ReleaseSync(0).
THEOREM ProducerOwnsAvailableSlots == Spec => []AvailableSlotIsFree
<1>1. Init => SlotInv
  BY InitSlotInv
<1>2. SlotInv /\ [Next]_vars => SlotInv'
  BY StepSlotInv
<1>3. SlotInv => AvailableSlotIsFree
  BY SlotInvImplies
<1> QED BY <1>1, <1>2, <1>3, PTL DEF Spec

\* In a settled session with its pipe intact exactly one message or task
\* stands for each published slot between PublishLatest and
\* ReleaseOutputSlot, none for an available one: no slot leaks and none is
\* released twice, unless the viewer's copy timed out, which keeps the mutex
\* and releases nothing.
THEOREM SlotsAreAccountedFor == Spec => []EverySlotHasOneCarrier
<1>1. Init => SlotInv
  BY InitSlotInv
<1>2. SlotInv /\ [Next]_vars => SlotInv'
  BY StepSlotInv
<1>3. SlotInv => EverySlotHasOneCarrier
  BY SlotInvImplies
<1> QED BY <1>1, <1>2, <1>3, PTL DEF Spec
=============================================================================
