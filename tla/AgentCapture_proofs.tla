-------------------------- MODULE AgentCapture_proofs --------------------------
(***************************************************************************)
(* What holds of the routing agent for any devices, groups, keys, chord,   *)
(* queue and batch: its types, that the route follows the routed groups,   *)
(* and that a shutdown returns control whatever was under way.             *)
(***************************************************************************)
EXTENDS AgentCapture, SequenceTheorems, WellFoundedInduction, TLAPS

-----------------------------------------------------------------------------
(***************************************************************************)
(* Types.                                                                  *)
(***************************************************************************)

EventCallsOf == [call : {"Event"}, kind : {"Down", "Up", "Move"}, group : Groups, control : Controls]
AllCalls == [call : {"Claim", "Release", "Overload", "Stop"}] \union EventCallsOf

\* TypeOK with what its clauses about lengths take for granted.
TypeInv ==
  /\ TypeOK
  /\ queue \in Seq(EventCallsOf) /\ batch \in Seq(EventCallsOf)
  /\ down \in [Devices -> SUBSET Controls]

\* Push keeps the queue within its limit.
LEMMA PushedProperties ==
  ASSUME NEW q \in Seq(EventCallsOf), Len(q) <= MaxEvents,
         NEW e \in EventCallsOf, NEW old \in BOOLEAN
  PROVE  Pushed(q, e, old) \in Seq(EventCallsOf) /\ Len(Pushed(q, e, old)) <= MaxEvents
<1>1. MaxEvents \in Nat \ {0} /\ Len(q) \in Nat
  BY EventQueueAssumption, LenProperties
<1>2. CASE Pushed(q, e, old) = q
  BY <1>2
<1>3. CASE Pushed(q, e, old) = <<>>
  <2>1. Len(<<>>) = 0 /\ <<>> \in Seq(EventCallsOf)
    OBVIOUS
  <2> QED BY <1>1, <1>3, <2>1
<1>4. CASE ~Merges(q, e) /\ ~Overloads(q, e, old)
  <2>1. Pushed(q, e, old) = Append(q, e)
    BY <1>4 DEF Pushed
  <2>2. Len(q) < MaxEvents
    BY <1>1, <1>4 DEF Overloads
  <2>3. Append(q, e) \in Seq(EventCallsOf) /\ Len(Append(q, e)) = Len(q) + 1
    BY AppendProperties
  <2> QED BY <1>1, <2>1, <2>2, <2>3
<1> QED BY <1>2, <1>3, <1>4 DEF Pushed

\* Take splits the queue.
LEMMA TakenProperties ==
  ASSUME NEW q \in Seq(EventCallsOf), NEW n \in 0 .. Len(q)
  PROVE  /\ SubSeq(q, 1, n) \in Seq(EventCallsOf) /\ Len(SubSeq(q, 1, n)) = n
         /\ SubSeq(q, n + 1, Len(q)) \in Seq(EventCallsOf)
         /\ Len(SubSeq(q, n + 1, Len(q))) = Len(q) - n
<1>1. Len(q) \in Nat /\ \A j \in 1 .. Len(q) : q[j] \in EventCallsOf
  BY LenProperties, ElementOfSeq
<1>2. \A j \in 1 .. n : q[j] \in EventCallsOf
  BY <1>1
<1>3. \A j \in n + 1 .. Len(q) : q[j] \in EventCallsOf
  BY <1>1
<1>4. /\ SubSeq(q, 1, n) \in Seq(EventCallsOf)
      /\ Len(SubSeq(q, 1, n)) = IF 1 <= n THEN n - 1 + 1 ELSE 0
  BY <1>1, <1>2, SubSeqProperties
<1>5. /\ SubSeq(q, n + 1, Len(q)) \in Seq(EventCallsOf)
      /\ Len(SubSeq(q, n + 1, Len(q)))
           = IF n + 1 <= Len(q) THEN Len(q) - (n + 1) + 1 ELSE 0
  <2>1. n + 1 \in Int /\ Len(q) \in Int
    BY <1>1
  <2> QED BY <1>1, <1>3, <2>1, SubSeqProperties
<1> QED BY <1>1, <1>4, <1>5

\* The callbacks of an input: what it claims, transmits and stops, none of
\* which is a release.
InputCalls == [call : {"Claim", "Stop"}] \union EventCallsOf

LEMMA CallsOfParts ==
  ASSUME NEW a \in Seq(InputCalls), NEW b \in Seq(InputCalls), NEW c \in Seq(InputCalls)
  PROVE  a \o b \o c \in Seq(InputCalls)
BY ConcatProperties

LEMMA ClaimCallType ==
  ASSUME NEW binds \in BOOLEAN
  PROVE  ClaimCall(binds) \in Seq(InputCalls)
<1>1. Call("Claim") \in InputCalls
  BY DEF Call, InputCalls
<1> QED BY <1>1 DEF ClaimCall

LEMMA TransitionType ==
  ASSUME NEW d \in Devices, NEW c \in Controls, NEW isDown \in BOOLEAN
  PROVE  Transition(d, c, isDown) \in Seq(InputCalls)
<1>1. Event(IF isDown THEN "Down" ELSE "Up", Group[d], c) \in InputCalls
  BY DEF Event, InputCalls, EventCallsOf, Groups
<1> QED BY <1>1 DEF Transition

LEMMA KeyCallsType ==
  ASSUME NEW d \in Devices, NEW k \in Keys, NEW isDown \in BOOLEAN, KeyInput(d, k, isDown)
  PROVE  calls' \in Seq(InputCalls)
<1> DEFINE binds == Binds(d, "keyboard", isDown /\ k = F8)
           isRouted == Group[d] \in RoutedAfter(d, binds)
           transmits == IF isRouted THEN Transition(d, k, isDown) ELSE <<>>
           stops == IF StopsAt(keyboards[Group[d]], k, isDown, isRouted)
                    THEN <<Call("Stop")>> ELSE <<>>
<1>1. ClaimCall(binds) \in Seq(InputCalls)
  BY ClaimCallType DEF Binds
<1>2. transmits \in Seq(InputCalls)
  <2>1. k \in Controls
    BY DEF Controls
  <2> QED BY <2>1, TransitionType
<1>3. stops \in Seq(InputCalls)
  <2>1. Call("Stop") \in InputCalls
    BY DEF Call, InputCalls
  <2> QED BY <2>1
<1>4. calls' = ClaimCall(binds) \o transmits \o stops
  BY DEF KeyInput
<1> HIDE DEF transmits, stops, binds
<1> QED BY <1>1, <1>2, <1>3, <1>4, CallsOfParts

LEMMA MouseCallsType ==
  ASSUME NEW d \in Devices, NEW moved \in BOOLEAN, NEW c \in Buttons, NEW isDown \in BOOLEAN,
         MouseInput(d, moved, c, isDown)
  PROVE  calls' \in Seq(InputCalls)
<1> DEFINE binds == Binds(d, "mouse", isDown /\ c = Middle)
           isRouted == Group[d] \in RoutedAfter(d, binds)
           moves == IF moved THEN <<Event("Move", Group[d], c)>> ELSE <<>>
           transmits == IF isRouted THEN moves \o Transition(d, c, isDown) ELSE <<>>
<1>0. c \in Controls
  BY DEF Controls
<1>1. ClaimCall(binds) \in Seq(InputCalls)
  BY ClaimCallType DEF Binds
<1>2. moves \in Seq(InputCalls)
  <2>1. Event("Move", Group[d], c) \in InputCalls
    BY <1>0 DEF Event, InputCalls, EventCallsOf, Groups
  <2> QED BY <2>1
<1>3. transmits \in Seq(InputCalls)
  <2> HIDE DEF moves
  <2>1. moves \o Transition(d, c, isDown) \in Seq(InputCalls)
    BY <1>0, <1>2, TransitionType, ConcatProperties
  <2> QED BY <2>1
<1>4. calls' = ClaimCall(binds) \o transmits
  BY DEF MouseInput
<1> HIDE DEF transmits, binds
<1> QED BY <1>1, <1>3, <1>4, ConcatProperties

\* What is left of the callbacks when one returns.
LEMMA RestOfCalls ==
  ASSUME calls \in Seq(AllCalls), calls # <<>>
  PROVE  /\ Head(calls) \in AllCalls /\ Tail(calls) \in Seq(AllCalls)
         /\ \A i \in DOMAIN Tail(calls) : i + 1 \in DOMAIN calls /\ Tail(calls)[i] = calls[i + 1]
<1>1. /\ Tail(calls) \in Seq(AllCalls) /\ Len(Tail(calls)) = Len(calls) - 1
      /\ \A i \in 1 .. Len(Tail(calls)) : Tail(calls)[i] = calls[i + 1]
  BY HeadTailProperties
<1>2. Head(calls) \in AllCalls
  BY HeadTailProperties
<1>3. DOMAIN Tail(calls) = 1 .. Len(Tail(calls)) /\ DOMAIN calls = 1 .. Len(calls) /\ Len(calls) \in Nat
  BY <1>1, LenProperties
<1> QED BY <1>1, <1>2, <1>3

LEMMA InputCallsAreCalls == InputCalls \subseteq AllCalls
BY DEF InputCalls, AllCalls

LEMMA SubSequences ==
  ASSUME NEW S, NEW T, S \subseteq T, NEW s \in Seq(S)
  PROVE  s \in Seq(T)
<1>1. \A i \in 1 .. Len(s) : s[i] \in T
  BY ElementOfSeq, LenProperties
<1> QED BY <1>1, IsASeq

USE DEF Steps

LEMMA InitHasTypes == Init => TypeInv
<1> SUFFICES ASSUME Init PROVE TypeInv
  OBVIOUS
<1>1. MaxEvents \in Nat \ {0} /\ MaxBatch \in Nat \ {0}
  BY EventQueueAssumption, AgentCaptureAssumption
<1>2. <<>> \in Seq(EventCallsOf) /\ <<>> \in Seq(AllCalls) /\ Len(<<>>) = 0
  OBVIOUS
<1>3. Len(queue) <= MaxEvents /\ Len(batch) <= MaxBatch
  BY <1>1, <1>2 DEF Init
<1>4. keyboards \in [Groups -> [held : SUBSET Keys, latched : BOOLEAN]]
  BY DEF Init, NoKeyboard
<1>5. known \subseteq Devices /\ down \in [Devices -> SUBSET Controls]
      /\ \A d \in Devices : down[d] \subseteq ControlsOf(d)
  BY DEF Init
<1>6. routed \subseteq Groups /\ pending \in {"none", "keyboard", "mouse"}
      /\ capturing \in BOOLEAN /\ main \in Steps /\ emergency \in BOOLEAN
      /\ sending \in BOOLEAN /\ claimed \in BOOLEAN /\ pressed \subseteq Controls
  BY DEF Init
<1>7. calls \in Seq(AllCalls) /\ queue \in Seq(EventCallsOf) /\ batch \in Seq(EventCallsOf)
  BY <1>2 DEF Init
<1> QED BY <1>3, <1>4, <1>5, <1>6, <1>7 DEF TypeInv, TypeOK, AllCalls, EventCallsOf

\* The parts of TypeInv, by who changes them.
DeviceTypes ==
  /\ known \subseteq Devices /\ routed \subseteq Groups
  /\ pending \in {"none", "keyboard", "mouse"}
  /\ keyboards \in [Groups -> [held : SUBSET Keys, latched : BOOLEAN]]
  /\ down \in [Devices -> SUBSET Controls]
  /\ \A d \in Devices : down[d] \subseteq ControlsOf(d)
QueueTypes ==
  /\ queue \in Seq(EventCallsOf) /\ Len(queue) <= MaxEvents
  /\ batch \in Seq(EventCallsOf) /\ Len(batch) <= MaxBatch
FlagTypes ==
  /\ capturing \in BOOLEAN /\ main \in Steps /\ emergency \in BOOLEAN
  /\ sending \in BOOLEAN /\ claimed \in BOOLEAN /\ pressed \subseteq Controls

LEMMA TypeParts ==
  TypeInv <=> DeviceTypes /\ QueueTypes /\ FlagTypes /\ calls \in Seq(AllCalls)
BY DEF TypeInv, TypeOK, DeviceTypes, QueueTypes, FlagTypes, AllCalls, EventCallsOf

LEMMA TypePartsNext ==
  TypeInv' <=> DeviceTypes' /\ QueueTypes' /\ FlagTypes' /\ calls' \in Seq(AllCalls)
BY DEF TypeInv, TypeOK, DeviceTypes, QueueTypes, FlagTypes, AllCalls, EventCallsOf

LEMMA BindingTypes ==
  ASSUME DeviceTypes, NEW d \in Devices, NEW binds \in BOOLEAN
  PROVE  RoutedAfter(d, binds) \subseteq Groups /\ PendingAfter(binds) \in {"none", "keyboard", "mouse"}
BY DEF DeviceTypes, RoutedAfter, PendingAfter, Groups

LEMMA MovesKeepsTypes ==
  ASSUME DeviceTypes, NEW d \in Devices, NEW c \in ControlsOf(d), NEW isDown \in BOOLEAN,
         Moves(d, c, isDown)
  PROVE  down' \in [Devices -> SUBSET Controls] /\ \A e \in Devices : down'[e] \subseteq ControlsOf(e)
<1>1. \A e \in Devices : ControlsOf(e) \subseteq Controls
  BY DEF ControlsOf, Controls
<1>2. \A e \in Devices : down[e] \subseteq ControlsOf(e)
  BY DEF DeviceTypes
<1>3. DOMAIN down = Devices
  BY DEF DeviceTypes
<1>4. down' = [e \in Devices |-> IF e = d THEN (IF isDown THEN down[d] \union {c} ELSE down[d] \ {c}) ELSE down[e]]
  BY <1>3 DEF Moves
<1>5. \A e \in Devices : down'[e] \subseteq ControlsOf(e)
  BY <1>2, <1>4
<1> QED BY <1>1, <1>4, <1>5

LEMMA InputKeepsTypes ==
  ASSUME TypeInv, Input
  PROVE  TypeInv'
<1>0. DeviceTypes /\ QueueTypes /\ FlagTypes
  BY TypeParts
<1>1. PICK d \in Devices, isDown \in BOOLEAN :
        \/ d \in Keyboards /\ \E k \in Keys : KeyInput(d, k, isDown)
        \/ d \notin Keyboards /\ \E c \in Buttons, moved \in BOOLEAN : MouseInput(d, moved, c, isDown)
  BY DEF Input
<1>2. CASE d \in Keyboards /\ \E k \in Keys : KeyInput(d, k, isDown)
  <2>1. PICK k \in Keys : KeyInput(d, k, isDown)
    BY <1>2
  <2> DEFINE binds == Binds(d, "keyboard", isDown /\ k = F8)
             isRouted == Group[d] \in RoutedAfter(d, binds)
  <2>2. calls' \in Seq(AllCalls)
    BY <2>1, KeyCallsType, InputCallsAreCalls, SubSequences
  <2>3. QueueTypes' /\ FlagTypes'
    BY <1>0, <2>1 DEF KeyInput, Handles, QueueTypes, FlagTypes, link
  <2>4. known' \subseteq Devices
    BY <1>0, <2>1 DEF KeyInput, DeviceTypes
  <2>5. binds \in BOOLEAN
    BY DEF Binds
  <2>6. routed' \subseteq Groups /\ pending' \in {"none", "keyboard", "mouse"}
    BY <1>0, <2>1, <2>5, BindingTypes DEF KeyInput
  <2>7. keyboards' \in [Groups -> [held : SUBSET Keys, latched : BOOLEAN]]
    <3>1. Group[d] \in Groups
      BY DEF Groups
    <3>2. keyboards[Group[d]] \in [held : SUBSET Keys, latched : BOOLEAN]
      BY <1>0, <3>1 DEF DeviceTypes
    <3>3. OnKey(keyboards[Group[d]], k, isDown, isRouted) \in [held : SUBSET Keys, latched : BOOLEAN]
      <4>1. HeldAfter(keyboards[Group[d]], k, isDown) \in SUBSET Keys
        BY <3>2 DEF HeldAfter
      <4>2. IsChordHeld(HeldAfter(keyboards[Group[d]], k, isDown)) \in BOOLEAN
        BY DEF IsChordHeld
      <4> QED BY <4>1, <4>2 DEF OnKey, NoKeyboard
    <3>4. keyboards' = [keyboards EXCEPT ![Group[d]] = OnKey(keyboards[Group[d]], k, isDown, isRouted)]
      BY <2>1 DEF KeyInput
    <3> HIDE DEF isRouted
    <3> QED BY <1>0, <3>3, <3>4 DEF DeviceTypes
  <2>8. down' \in [Devices -> SUBSET Controls] /\ \A e \in Devices : down'[e] \subseteq ControlsOf(e)
    <3>1. k \in ControlsOf(d) /\ Moves(d, k, isDown)
      BY <1>2, <2>1 DEF KeyInput, ControlsOf
    <3> QED BY <1>0, <3>1, MovesKeepsTypes
  <2>9. DeviceTypes'
    BY <2>4, <2>6, <2>7, <2>8 DEF DeviceTypes
  <2> QED BY <2>2, <2>3, <2>9, TypePartsNext
<1>3. CASE d \notin Keyboards /\ \E c \in Buttons, moved \in BOOLEAN : MouseInput(d, moved, c, isDown)
  <2>1. PICK c \in Buttons, moved \in BOOLEAN : MouseInput(d, moved, c, isDown)
    BY <1>3
  <2> DEFINE binds == Binds(d, "mouse", isDown /\ c = Middle)
  <2>2. calls' \in Seq(AllCalls)
    BY <2>1, MouseCallsType, InputCallsAreCalls, SubSequences
  <2>3. QueueTypes' /\ FlagTypes'
    BY <1>0, <2>1 DEF MouseInput, Handles, QueueTypes, FlagTypes, link
  <2>4. known' \subseteq Devices /\ keyboards' = keyboards
    BY <1>0, <2>1 DEF MouseInput, DeviceTypes
  <2>5. binds \in BOOLEAN
    BY DEF Binds
  <2>6. routed' \subseteq Groups /\ pending' \in {"none", "keyboard", "mouse"}
    BY <1>0, <2>1, <2>5, BindingTypes DEF MouseInput
  <2>7. down' \in [Devices -> SUBSET Controls] /\ \A e \in Devices : down'[e] \subseteq ControlsOf(e)
    <3>1. c \in ControlsOf(d) /\ Moves(d, c, isDown)
      BY <1>3, <2>1 DEF MouseInput, ControlsOf
    <3> QED BY <1>0, <3>1, MovesKeepsTypes
  <2>8. DeviceTypes'
    BY <1>0, <2>4, <2>6, <2>7 DEF DeviceTypes
  <2> QED BY <2>2, <2>3, <2>8, TypePartsNext
<1> QED BY <1>1, <1>2, <1>3

LEMMA DeviceChangeKeepsTypes ==
  ASSUME TypeInv, DeviceChange
  PROVE  TypeInv'
<1>0. DeviceTypes /\ QueueTypes /\ FlagTypes /\ calls \in Seq(AllCalls)
  BY TypeParts
<1>1. PICK d \in Devices : DeviceArrives(d) \/ DeviceRemoved(d)
  BY DEF DeviceChange
<1>2. CASE DeviceArrives(d)
  <2>1. QueueTypes' /\ FlagTypes' /\ calls' = calls
    BY <1>0, <1>2 DEF DeviceArrives, Handles, QueueTypes, FlagTypes, link
  <2>2. DeviceTypes'
    BY <1>0, <1>2 DEF DeviceArrives, DeviceTypes
  <2> QED BY <1>0, <2>1, <2>2, TypePartsNext
<1>3. CASE DeviceRemoved(d)
  <2>1. QueueTypes' /\ FlagTypes'
    BY <1>0, <1>3 DEF DeviceRemoved, QueueTypes, FlagTypes, link
  <2>2. calls' \in Seq(AllCalls)
    <3>1. Call("Release") \in AllCalls
      BY DEF Call, AllCalls
    <3> QED BY <1>3, <3>1 DEF DeviceRemoved, RemovalCalls
  <2>3. known' \subseteq Devices /\ routed' \subseteq Groups /\ pending' = pending
    BY <1>0, <1>3 DEF DeviceRemoved, DeviceTypes, Unrouted
  <2>4. keyboards' \in [Groups -> [held : SUBSET Keys, latched : BOOLEAN]]
    <3>1. NoKeyboard \in [held : SUBSET Keys, latched : BOOLEAN]
      BY DEF NoKeyboard
    <3> QED BY <1>0, <1>3, <3>1 DEF DeviceRemoved, ChordAfterRemoval, DeviceTypes
  <2>5. down' \in [Devices -> SUBSET Controls] /\ \A e \in Devices : down'[e] \subseteq ControlsOf(e)
    BY <1>0, <1>3 DEF DeviceRemoved, DeviceTypes
  <2>6. DeviceTypes'
    BY <1>0, <2>3, <2>4, <2>5 DEF DeviceTypes
  <2> QED BY <2>1, <2>2, <2>6, TypePartsNext
<1> QED BY <1>1, <1>2, <1>3

LEMMA CallbackKeepsTypes ==
  ASSUME TypeInv, Callback
  PROVE  TypeInv'
<1>0. DeviceTypes /\ QueueTypes /\ FlagTypes /\ calls \in Seq(AllCalls)
  BY TypeParts
<1>1. calls # <<>>
  BY DEF Callback, CallClaim, CallRelease, CallEvent, CallOverload, CallStop, Calls
<1>2. Head(calls) \in AllCalls /\ Tail(calls) \in Seq(AllCalls)
  BY <1>0, <1>1, RestOfCalls
<1>3. DeviceTypes'
  BY <1>0 DEF Callback, CallClaim, CallRelease, CallEvent, CallOverload, CallStop, capture, DeviceTypes
<1>4. CASE CallEvent
  <2>1. Head(calls) \in EventCallsOf
    BY <1>2, <1>4 DEF CallEvent, Calls, AllCalls, EventCallsOf
  <2>2. PICK old \in BOOLEAN :
          /\ queue' = Pushed(queue, Head(calls), old)
          /\ IF Overloads(queue, Head(calls), old)
             THEN calls' = <<Call("Overload")>> \o Tail(calls)
             ELSE Returns
    BY <1>4 DEF CallEvent
  <2>3. queue' \in Seq(EventCallsOf) /\ Len(queue') <= MaxEvents
    BY <1>0, <2>1, <2>2, PushedProperties DEF QueueTypes
  <2>4. batch' = batch /\ FlagTypes'
    BY <1>0, <1>4 DEF CallEvent, FlagTypes, link
  <2>5. calls' \in Seq(AllCalls)
    <3>1. Call("Overload") \in AllCalls
      BY DEF Call, AllCalls
    <3>2. <<Call("Overload")>> \in Seq(AllCalls)
      BY <3>1
    <3>3. <<Call("Overload")>> \o Tail(calls) \in Seq(AllCalls)
      BY <1>2, <3>2, ConcatProperties
    <3> QED BY <1>2, <2>2, <3>3 DEF Returns
  <2>6. QueueTypes'
    BY <1>0, <2>3, <2>4 DEF QueueTypes
  <2> QED BY <1>3, <2>4, <2>5, <2>6, TypePartsNext
<1>5. CASE CallClaim \/ CallRelease \/ CallOverload \/ CallStop
  <2>1. calls' \in Seq(AllCalls)
    BY <1>2, <1>5 DEF CallClaim, CallRelease, CallOverload, CallStop, Returns
  <2>2. QueueTypes'
    BY <1>0, <1>5 DEF CallClaim, CallRelease, CallOverload, CallStop, QueueTypes
  <2>3. FlagTypes'
    BY <1>0, <1>5 DEF CallClaim, CallRelease, CallOverload, CallStop, ClaimRoute, ReleaseAll, FlagTypes, link
  <2> QED BY <1>3, <2>1, <2>2, <2>3, TypePartsNext
<1> QED BY <1>4, <1>5 DEF Callback

LEMMA SenderKeepsTypes ==
  ASSUME TypeInv, Sender
  PROVE  TypeInv'
<1>0. DeviceTypes /\ QueueTypes /\ FlagTypes /\ calls \in Seq(AllCalls)
  BY TypeParts
<1>1. MaxEvents \in Nat \ {0} /\ MaxBatch \in Nat \ {0}
  BY EventQueueAssumption, AgentCaptureAssumption
<1>2. DeviceTypes' /\ calls' = calls
  BY <1>0 DEF Sender, Take, Send, capture, DeviceTypes
<1>3. CASE Take
  <2>1. Len(queue) \in Nat
    BY <1>0, LenProperties DEF QueueTypes
  <2>2. Taken \in 0 .. Len(queue) /\ Taken <= MaxBatch
    BY <1>1, <2>1 DEF Taken
  <2> DEFINE n == Taken
  <2>3. n \in 0 .. Len(queue) /\ n <= MaxBatch
    BY <2>2
  <2>4. batch' = SubSeq(queue, 1, n) /\ queue' = SubSeq(queue, n + 1, Len(queue))
    BY <1>3 DEF Take
  <2> HIDE DEF n
  <2>5. /\ batch' \in Seq(EventCallsOf) /\ Len(batch') = n
        /\ queue' \in Seq(EventCallsOf) /\ Len(queue') = Len(queue) - n
    BY <1>0, <2>3, <2>4, TakenProperties DEF QueueTypes
  <2>6. QueueTypes'
    BY <1>0, <1>1, <2>1, <2>3, <2>5 DEF QueueTypes
  <2>7. FlagTypes'
    BY <1>0, <1>3 DEF Take, FlagTypes, link
  <2> QED BY <1>0, <1>2, <2>6, <2>7, TypePartsNext
<1>4. CASE Send
  <2>1. Len(<<>>) = 0 /\ <<>> \in Seq(EventCallsOf)
    OBVIOUS
  <2>2. QueueTypes'
    BY <1>0, <1>1, <1>4, <2>1 DEF Send, QueueTypes
  <2>3. pressed' \subseteq Controls
    BY <1>0, <1>4 DEF Send, Applied, FlagTypes
  <2>4. FlagTypes'
    BY <1>0, <1>4, <2>3 DEF Send, FlagTypes
  <2> QED BY <1>0, <1>2, <2>2, <2>4, TypePartsNext
<1> QED BY <1>3, <1>4 DEF Sender

LEMMA MainKeepsTypes ==
  ASSUME TypeInv, Console \/ UnrouteAll \/ Notify \/ Shutdown
  PROVE  TypeInv'
<1>0. DeviceTypes /\ QueueTypes /\ FlagTypes /\ calls \in Seq(AllCalls)
  BY TypeParts
<1>1. MaxEvents \in Nat \ {0} /\ Len(<<>>) = 0 /\ <<>> \in Seq(EventCallsOf)
  BY EventQueueAssumption
<1>2. CASE \E kind \in {"none", "keyboard", "mouse"} : Arm(kind)
  <2>1. DeviceTypes'
    BY <1>0, <1>2 DEF Arm, DeviceTypes
  <2>2. QueueTypes' /\ FlagTypes' /\ calls' = calls
    BY <1>0, <1>2 DEF Arm, QueueTypes, FlagTypes, link
  <2> QED BY <1>0, <2>1, <2>2, TypePartsNext
<1>3. CASE UnrouteAll
  <2>1. DeviceTypes'
    <3>1. keyboards' \in [Groups -> [held : SUBSET Keys, latched : BOOLEAN]]
      BY <1>3 DEF UnrouteAll, NoKeyboard
    <3> QED BY <1>0, <1>3, <3>1 DEF UnrouteAll, DeviceTypes
  <2>2. QueueTypes' /\ FlagTypes' /\ calls' = calls
    BY <1>0, <1>3 DEF UnrouteAll, QueueTypes, FlagTypes, link
  <2> QED BY <1>0, <2>1, <2>2, TypePartsNext
<1>4. CASE Revoke \/ SenderEnds
  <2>1. DeviceTypes' /\ FlagTypes' /\ calls' = calls
    BY <1>0, <1>4 DEF Revoke, SenderEnds, DeviceTypes, FlagTypes, capture, link
  <2>2. queue' = <<>> /\ batch' = batch
    BY <1>4 DEF Revoke, SenderEnds
  <2>3. QueueTypes'
    BY <1>0, <1>1, <2>2 DEF QueueTypes
  <2> QED BY <1>0, <2>1, <2>3, TypePartsNext
<1>5. CASE Notify \/ FinalRelease
  <2>1. DeviceTypes' /\ QueueTypes' /\ calls' = calls
    BY <1>0, <1>5 DEF Notify, FinalRelease, DeviceTypes, QueueTypes, capture
  <2>2. FlagTypes'
    BY <1>0, <1>5 DEF Notify, FinalRelease, ReleaseAll, FlagTypes
  <2> QED BY <1>0, <2>1, <2>2, TypePartsNext
<1>6. CASE StopCapture \/ CaptureEnds
  <2>1. DeviceTypes' /\ QueueTypes' /\ calls' = calls
    BY <1>0, <1>6 DEF StopCapture, CaptureEnds, DeviceTypes, QueueTypes, capture
  <2>2. FlagTypes'
    BY <1>0, <1>6 DEF StopCapture, CaptureEnds, FlagTypes, link
  <2> QED BY <1>0, <2>1, <2>2, TypePartsNext
<1> QED BY <1>2, <1>3, <1>4, <1>5, <1>6 DEF Console, Shutdown

LEMMA StutterKeepsTypes ==
  ASSUME TypeInv, UNCHANGED vars
  PROVE  TypeInv'
<1>0. DeviceTypes /\ QueueTypes /\ FlagTypes /\ calls \in Seq(AllCalls)
  BY TypeParts
<1>1. DeviceTypes' /\ QueueTypes' /\ FlagTypes' /\ calls' = calls
  BY <1>0 DEF vars, capture, link, DeviceTypes, QueueTypes, FlagTypes
<1> QED BY <1>0, <1>1, TypePartsNext

LEMMA TypesHold == Spec => []TypeInv
<1>1. TypeInv /\ [Next]_vars => TypeInv'
  BY InputKeepsTypes, DeviceChangeKeepsTypes, CallbackKeepsTypes, SenderKeepsTypes,
     MainKeepsTypes, StutterKeepsTypes DEF Next
<1> QED BY InitHasTypes, <1>1, PTL DEF Spec

\* The agent's variables keep their types: neither queue nor batch exceeds
\* its limit, and only the callbacks the code makes are ever due.
THEOREM TypeCorrect == Spec => []TypeOK
<1>1. TypeInv => TypeOK
  BY DEF TypeInv
<1> QED BY <1>1, TypesHold, PTL

-----------------------------------------------------------------------------
(***************************************************************************)
(* Shutdown.  The capture thread is joined first, then the sender: from    *)
(* then on nobody fills what has been emptied, or claims what is released. *)
(***************************************************************************)

ShutdownInv ==
  /\ main \in {"joining", "releasing", "over"} => ~capturing /\ calls = <<>>
  /\ main \in {"releasing", "over"} => ~sending /\ batch = <<>> /\ queue = <<>>
  /\ main = "over" => ~claimed /\ pressed = {}

LEMMA ShutdownStep ==
  ASSUME ShutdownInv, [Next]_vars
  PROVE  ShutdownInv'
<1>1. CASE Input \/ DeviceChange
  <2>1. Input => capturing /\ main' = main
    <3>1. \A d, k, isDown : KeyInput(d, k, isDown) => Handles
      BY DEF KeyInput
    <3>2. \A d, moved, c, isDown : MouseInput(d, moved, c, isDown) => Handles
      BY DEF MouseInput
    <3> QED BY <3>1, <3>2 DEF Input, Handles, Idle
  <2>2. DeviceChange => capturing /\ main' = main
    BY DEF DeviceChange, DeviceArrives, DeviceRemoved, Handles, Idle
  <2>3. main' \notin {"joining", "releasing", "over"}
    BY <1>1, <2>1, <2>2 DEF ShutdownInv
  <2> QED BY <2>3 DEF ShutdownInv
<1>2. CASE Callback
  <2>1. calls # <<>> /\ main' = main
    BY <1>2 DEF Callback, CallClaim, CallRelease, CallEvent, CallOverload, CallStop, Calls
  <2>2. main' \notin {"joining", "releasing", "over"}
    BY <2>1 DEF ShutdownInv
  <2> QED BY <2>2 DEF ShutdownInv
<1>3. CASE Sender
  <2>1. main' = main /\ calls' = calls /\ capturing' = capturing /\ (sending \/ batch # <<>>)
    BY <1>3 DEF Sender, Take, Send, capture
  <2>2. main' \notin {"releasing", "over"}
    BY <2>1 DEF ShutdownInv
  <2> QED BY <2>1, <2>2 DEF ShutdownInv
<1>4. CASE Console \/ UnrouteAll \/ Notify \/ StopCapture
  <2>1. main' \notin {"joining", "releasing", "over"}
    BY <1>4 DEF Console, Arm, AtLoop, Revoke, UnrouteAll, Notify, StopCapture
  <2> QED BY <2>1 DEF ShutdownInv
<1>5. CASE CaptureEnds
  BY <1>5 DEF CaptureEnds, ShutdownInv
<1>6. CASE SenderEnds
  BY <1>6 DEF SenderEnds, ShutdownInv
<1>7. CASE FinalRelease
  BY <1>7 DEF FinalRelease, ReleaseAll, ShutdownInv
<1>8. CASE UNCHANGED vars
  BY <1>8 DEF vars, link, ShutdownInv
<1> QED BY <1>1, <1>2, <1>3, <1>4, <1>5, <1>6, <1>7, <1>8 DEF Next, Shutdown

\* However the agent was stopped, and whatever its threads were doing, it
\* ends with its route released and nothing pressed or on its way.
THEOREM ShutdownAlwaysReturnsControl == Spec => []ShutdownReturnsControl
<1>1. Init => ShutdownInv
  BY DEF Init, ShutdownInv
<1>2. ShutdownInv => ShutdownReturnsControl
  BY DEF ShutdownInv, ShutdownReturnsControl
<1> QED BY <1>1, <1>2, ShutdownStep, PTL DEF Spec

-----------------------------------------------------------------------------
(***************************************************************************)
(* The route.  Between the change of the groups and the call that follows  *)
(* it, route and groups disagree: the invariant names who will put it      *)
(* right, the callback due or the console loop on its way to notify.       *)
(***************************************************************************)

CallsWithoutRelease == [call : {"Claim", "Overload", "Stop"}] \union EventCallsOf

RouteInv ==
  /\ claimed => routed # {} \/ overtaken \/ main = "notifying" \/ Calls("Release")
  /\ routed # {} /\ main = "loop" => claimed \/ overflowed \/ Calls("Claim")
  /\ main = "notifying" => routed = {} /\ pending = "none"
  /\ routed # {} => calls \in Seq(CallsWithoutRelease)

LEMMA InputKeepsRoute ==
  ASSUME TypeInv, RouteInv, Input
  PROVE  RouteInv'
<1>1. PICK d \in Devices, isDown \in BOOLEAN :
        \/ d \in Keyboards /\ \E k \in Keys : KeyInput(d, k, isDown)
        \/ d \notin Keyboards /\ \E c \in Buttons, moved \in BOOLEAN : MouseInput(d, moved, c, isDown)
  BY DEF Input
<1>2. calls' \in Seq(InputCalls)
  BY <1>1, KeyCallsType, MouseCallsType
<1>3. InputCalls \subseteq CallsWithoutRelease
  BY DEF InputCalls, CallsWithoutRelease
<1>4. calls' \in Seq(CallsWithoutRelease)
  BY <1>2, <1>3, SubSequences
<1>5. calls = <<>> /\ UNCHANGED <<main, claimed, overtaken, overflowed>>
  <2>1. Handles
    BY <1>1 DEF KeyInput, MouseInput
  <2> QED BY <2>1 DEF Handles, Idle, link, history
<1>6. PICK binds \in BOOLEAN :
        /\ binds => pending # "none"
        /\ routed' = RoutedAfter(d, binds) /\ pending' = PendingAfter(binds)
        /\ \E rest \in Seq(InputCalls) : calls' = ClaimCall(binds) \o rest
  <2>1. CASE d \in Keyboards /\ \E k \in Keys : KeyInput(d, k, isDown)
    <3>1. PICK k \in Keys : KeyInput(d, k, isDown)
      BY <2>1
    <3> DEFINE b == Binds(d, "keyboard", isDown /\ k = F8)
               isRouted == Group[d] \in RoutedAfter(d, b)
               transmits == IF isRouted THEN Transition(d, k, isDown) ELSE <<>>
               stops == IF StopsAt(keyboards[Group[d]], k, isDown, isRouted)
                        THEN <<Call("Stop")>> ELSE <<>>
    <3>2. b \in BOOLEAN /\ (b => pending # "none")
      BY DEF Binds
    <3>3. routed' = RoutedAfter(d, b) /\ pending' = PendingAfter(b)
          /\ calls' = ClaimCall(b) \o transmits \o stops
      BY <3>1 DEF KeyInput
    <3>4. transmits \in Seq(InputCalls)
      <4>1. k \in Controls
        BY DEF Controls
      <4> QED BY <4>1, TransitionType
    <3>5. stops \in Seq(InputCalls)
      <4>1. Call("Stop") \in InputCalls
        BY DEF Call, InputCalls
      <4> QED BY <4>1
    <3>6. ClaimCall(b) \in Seq(InputCalls)
      BY <3>2, ClaimCallType
    <3> HIDE DEF transmits, stops, b
    <3>7. transmits \o stops \in Seq(InputCalls)
          /\ ClaimCall(b) \o transmits \o stops = ClaimCall(b) \o (transmits \o stops)
      BY SMTT(30), <3>4, <3>5, <3>6, ConcatProperties, ConcatAssociative
    <3> QED BY <3>2, <3>3, <3>7
  <2>2. CASE d \notin Keyboards /\ \E c \in Buttons, moved \in BOOLEAN : MouseInput(d, moved, c, isDown)
    <3>1. PICK c \in Buttons, moved \in BOOLEAN : MouseInput(d, moved, c, isDown)
      BY <2>2
    <3> DEFINE b == Binds(d, "mouse", isDown /\ c = Middle)
               isRouted == Group[d] \in RoutedAfter(d, b)
               moves == IF moved THEN <<Event("Move", Group[d], c)>> ELSE <<>>
               transmits == IF isRouted THEN moves \o Transition(d, c, isDown) ELSE <<>>
    <3>2. b \in BOOLEAN /\ (b => pending # "none")
      BY DEF Binds
    <3>3. routed' = RoutedAfter(d, b) /\ pending' = PendingAfter(b)
          /\ calls' = ClaimCall(b) \o transmits
      BY <3>1 DEF MouseInput
    <3>4. transmits \in Seq(InputCalls)
      <4>1. c \in Controls
        BY DEF Controls
      <4>2. Event("Move", Group[d], c) \in InputCalls
        BY <4>1 DEF Event, InputCalls, EventCallsOf, Groups
      <4>3. moves \in Seq(InputCalls)
        BY <4>2
      <4> HIDE DEF moves
      <4>4. moves \o Transition(d, c, isDown) \in Seq(InputCalls)
        BY <4>1, <4>3, TransitionType, ConcatProperties
      <4> QED BY <4>4
    <3> HIDE DEF transmits, b
    <3> QED BY <3>2, <3>3, <3>4
  <2> QED BY <1>1, <2>1, <2>2
<1>7. CASE binds /\ routed = {}
  <2>1. PICK rest \in Seq(InputCalls) : calls' = <<Call("Claim")>> \o rest
    BY <1>6, <1>7 DEF ClaimCall
  <2>2. calls' # <<>> /\ Head(calls') = Call("Claim")
    <3>1. Call("Claim") \in InputCalls
      BY DEF Call, InputCalls
    <3> QED BY <2>1, <3>1
  <2>3. Calls("Claim")'
    BY <2>2 DEF Calls, Call
  <2>4. routed' # {}
    BY <1>6, <1>7 DEF RoutedAfter
  <2>5. main # "notifying"
    BY <1>6, <1>7 DEF RouteInv
  <2> QED BY <1>4, <1>5, <2>3, <2>4, <2>5 DEF RouteInv
<1>8. CASE ~binds \/ routed # {}
  <2>1. routed # {} <=> routed' # {}
    BY <1>6, <1>8 DEF RoutedAfter
  <2>2. ~Calls("Release") /\ ~Calls("Claim")
    BY <1>5 DEF Calls
  <2>3. pending = "none" => pending' = "none"
    BY <1>6 DEF PendingAfter
  <2> QED BY <1>4, <1>5, <2>1, <2>2, <2>3 DEF RouteInv
<1> QED BY <1>7, <1>8

LEMMA DeviceChangeKeepsRoute ==
  ASSUME RouteInv, DeviceChange
  PROVE  RouteInv'
<1>1. PICK d \in Devices : DeviceArrives(d) \/ DeviceRemoved(d)
  BY DEF DeviceChange
<1>2. CASE DeviceArrives(d)
  BY <1>2 DEF DeviceArrives, Handles, link, history, RouteInv, Calls
<1>3. CASE DeviceRemoved(d)
  <2>1. calls = <<>> /\ UNCHANGED <<main, claimed, overtaken, overflowed, pending>>
    BY <1>3 DEF DeviceRemoved, Idle, link
  <2>2. routed' \subseteq routed /\ calls' = IF routed # {} /\ routed' = {} THEN <<Call("Release")>> ELSE <<>>
    BY <1>3 DEF DeviceRemoved, Unrouted, RemovalCalls
  <2>3. routed # {} /\ routed' = {} => Calls("Release")'
    BY <2>2 DEF Calls, Call
  <2>4. ~Calls("Release") /\ ~Calls("Claim")
    BY <2>1 DEF Calls
  <2>5. routed' # {} => calls' \in Seq(CallsWithoutRelease)
    BY <2>2
  <2> QED BY <2>1, <2>2, <2>3, <2>4, <2>5 DEF RouteInv
<1> QED BY <1>1, <1>2, <1>3

LEMMA CallbackKeepsRoute ==
  ASSUME TypeInv, RouteInv, Callback
  PROVE  RouteInv'
<1>0. UNCHANGED <<routed, pending, main>> /\ calls \in Seq(AllCalls) /\ calls # <<>>
  BY TypeParts DEF Callback, CallClaim, CallRelease, CallEvent, CallOverload, CallStop, capture, Calls
<1>1. routed # {} => Tail(calls) \in Seq(CallsWithoutRelease)
  <2>1. \A s \in Seq(CallsWithoutRelease) : s # <<>> => Tail(s) \in Seq(CallsWithoutRelease)
    OBVIOUS
  <2> QED BY <1>0, <2>1 DEF RouteInv
<1>2. routed # {} => calls' \in Seq(CallsWithoutRelease)
  <2>1. Call("Overload") \in CallsWithoutRelease
    BY DEF Call, CallsWithoutRelease
  <2>2. <<Call("Overload")>> \in Seq(CallsWithoutRelease)
    BY <2>1
  <2>3. calls' = Tail(calls) \/ calls' = <<Call("Overload")>> \o Tail(calls)
    BY DEF Callback, CallClaim, CallRelease, CallEvent, CallOverload, CallStop, Returns
  <2> QED BY <1>1, <2>2, <2>3, ConcatProperties
<1>3. CASE CallClaim
  BY <1>0, <1>2, <1>3 DEF CallClaim, ClaimRoute, RouteInv
<1>4. CASE CallRelease
  <2>1. routed = {}
    <3>1. Head(calls).call = "Release"
      BY <1>4 DEF CallRelease, Calls
    <3>2. ASSUME calls \in Seq(CallsWithoutRelease) PROVE FALSE
      <4>1. Head(calls) \in CallsWithoutRelease
        BY <1>0, <3>2
      <4> QED BY <3>1, <4>1 DEF CallsWithoutRelease, EventCallsOf
    <3> QED BY <3>2 DEF RouteInv
  <2> QED BY <1>0, <2>1, <1>4 DEF CallRelease, ReleaseAll, RouteInv
<1>5. CASE CallOverload
  BY <1>0, <1>2, <1>5 DEF CallOverload, ReleaseAll, RouteInv
<1>6. CASE CallEvent \/ CallStop
  <2>1. ~Calls("Release") /\ ~Calls("Claim")
    BY <1>6 DEF CallEvent, CallStop, Calls
  <2>2. UNCHANGED <<claimed, overtaken, overflowed>>
    BY <1>6 DEF CallEvent, CallStop, link, history
  <2> QED BY <1>0, <1>2, <2>1, <2>2 DEF RouteInv
<1> QED BY <1>3, <1>4, <1>5, <1>6 DEF Callback

LEMMA OthersKeepRoute ==
  ASSUME RouteInv, Sender \/ Console \/ UnrouteAll \/ Notify \/ Shutdown \/ UNCHANGED vars
  PROVE  RouteInv'
<1>1. CASE Sender \/ Revoke \/ StopCapture \/ SenderEnds \/ UNCHANGED vars
  <2>1. UNCHANGED <<routed, pending, calls, claimed, overtaken, overflowed>>
    BY <1>1 DEF Sender, Take, Send, Revoke, StopCapture, SenderEnds, vars, capture, link, history
  <2>2. main' = main \/ (main # "notifying" /\ main' \notin {"loop", "notifying"})
    BY <1>1 DEF Sender, Take, Send, Revoke, AtLoop, StopCapture, SenderEnds, vars
  <2> QED BY <2>1, <2>2 DEF RouteInv, Calls
<1>2. CASE CaptureEnds
  BY <1>2 DEF CaptureEnds, capture, link, history, RouteInv, Calls
<1>3. CASE \E kind \in {"none", "keyboard", "mouse"} : Arm(kind)
  BY <1>3 DEF Arm, AtLoop, link, history, RouteInv, Calls
<1>4. CASE UnrouteAll
  <2>1. routed' = {} /\ pending' = "none" /\ UNCHANGED <<calls, claimed, overtaken, overflowed>>
    BY <1>4 DEF UnrouteAll, link, history
  <2>2. main # "notifying" /\ (routed # {} => main' = "notifying")
    BY <1>4 DEF UnrouteAll
  <2> QED BY <2>1, <2>2 DEF RouteInv, Calls
<1>5. CASE Notify \/ FinalRelease
  <2>1. ~claimed' /\ UNCHANGED <<routed, calls>>
    BY <1>5 DEF Notify, FinalRelease, ReleaseAll, capture
  <2>2. (main = "notifying" /\ main' = "loop") \/ main' = "over"
    BY <1>5 DEF Notify, FinalRelease
  <2> QED BY <2>1, <2>2 DEF RouteInv
<1> QED BY <1>1, <1>2, <1>3, <1>4, <1>5 DEF Console, Shutdown

\* When nothing is under way, the client holds the route while a group is
\* routed and only then, but for the two exceptions the property names: for
\* any devices and groups, and whichever way callbacks and console interleave.
THEOREM RouteAlwaysFollowsGroups == Spec => []RouteFollowsGroups
<1>1. Init => RouteInv
  BY DEF Init, RouteInv
<1>2. TypeInv /\ RouteInv /\ [Next]_vars => RouteInv'
  BY InputKeepsRoute, DeviceChangeKeepsRoute, CallbackKeepsRoute, OthersKeepRoute DEF Next
<1>3. RouteInv => RouteFollowsGroups
  BY DEF RouteInv, RouteFollowsGroups, Quiet, Calls
<1> QED BY <1>1, <1>2, <1>3, TypesHold, PTL DEF Spec

-----------------------------------------------------------------------------
(***************************************************************************)
(* The emergency chord.  What the chord has in its books for a group is    *)
(* held on the group's devices, but for what is stuck.                     *)
(***************************************************************************)

ChordInv ==
  /\ stuck \in [Groups -> SUBSET Keys]
  /\ \A g \in Groups : keyboards[g].held \subseteq HeldOn(g) \union stuck[g]

CallsWithoutStop == [call : {"Claim", "Release"}] \union EventCallsOf

LEMMA NoStopIn ==
  ASSUME NEW s \in Seq(CallsWithoutStop)
  PROVE  \A i \in DOMAIN s : s[i].call # "Stop"
<1>1. \A i \in DOMAIN s : s[i] \in CallsWithoutStop
  OBVIOUS
<1>2. \A x \in CallsWithoutStop : x.call # "Stop"
  BY DEF CallsWithoutStop, EventCallsOf
<1> QED BY <1>1, <1>2

\* Claims and transitions stop nothing.
LEMMA CallsThatDoNotStop ==
  ASSUME NEW d \in Devices, NEW c \in Controls, NEW isDown \in BOOLEAN, NEW binds \in BOOLEAN
  PROVE  /\ ClaimCall(binds) \in Seq(CallsWithoutStop)
         /\ Transition(d, c, isDown) \in Seq(CallsWithoutStop)
         /\ <<Event("Move", Group[d], c)>> \in Seq(CallsWithoutStop)
         /\ <<Call("Release")>> \in Seq(CallsWithoutStop)
         /\ <<>> \in Seq(CallsWithoutStop)
<1>1. Call("Claim") \in CallsWithoutStop /\ Call("Release") \in CallsWithoutStop
  BY DEF Call, CallsWithoutStop
<1>2. /\ Event("Move", Group[d], c) \in CallsWithoutStop
      /\ Event(IF isDown THEN "Down" ELSE "Up", Group[d], c) \in CallsWithoutStop
  BY DEF Event, CallsWithoutStop, EventCallsOf, Groups
<1>3. <<>> \in Seq(CallsWithoutStop)
  OBVIOUS
<1>4. ClaimCall(binds) \in Seq(CallsWithoutStop)
  BY <1>1, <1>3 DEF ClaimCall
<1>5. Transition(d, c, isDown) \in Seq(CallsWithoutStop)
  BY <1>2 DEF Transition
<1>6. <<Event("Move", Group[d], c)>> \in Seq(CallsWithoutStop)
  BY <1>2
<1>7. <<Call("Release")>> \in Seq(CallsWithoutStop)
  BY <1>1
<1> QED BY <1>3, <1>4, <1>5, <1>6, <1>7

\* Of the two inputs only a key calls the stop, and only when StopsAt says so.
LEMMA StopNeedsChord ==
  ASSUME NEW d \in Devices, NEW k \in Keys, NEW isDown \in BOOLEAN, KeyInput(d, k, isDown),
         \E i \in DOMAIN calls' : calls'[i].call = "Stop"
  PROVE  Group[d] \in routed' /\ StopsAt(keyboards[Group[d]], k, isDown, TRUE)
<1> DEFINE binds == Binds(d, "keyboard", isDown /\ k = F8)
           isRouted == Group[d] \in RoutedAfter(d, binds)
           transmits == IF isRouted THEN Transition(d, k, isDown) ELSE <<>>
           stops == IF StopsAt(keyboards[Group[d]], k, isDown, isRouted)
                    THEN <<Call("Stop")>> ELSE <<>>
<1>1. calls' = ClaimCall(binds) \o transmits \o stops /\ routed' = RoutedAfter(d, binds)
  BY DEF KeyInput
<1>2. binds \in BOOLEAN /\ isRouted \in BOOLEAN /\ k \in Controls
  BY DEF Binds, Controls
<1>3. ClaimCall(binds) \in Seq(CallsWithoutStop) /\ <<>> \in Seq(CallsWithoutStop)
      /\ transmits \in Seq(CallsWithoutStop)
  <2> HIDE DEF binds, isRouted
  <2> QED BY <1>2, CallsThatDoNotStop
<1>4. StopsAt(keyboards[Group[d]], k, isDown, isRouted)
  <2>1. SUFFICES ASSUME ~StopsAt(keyboards[Group[d]], k, isDown, isRouted) PROVE FALSE
    OBVIOUS
  <2>2. stops = <<>>
    BY <2>1
  <2> HIDE DEF binds, transmits, stops
  <2>3. calls' \in Seq(CallsWithoutStop)
    BY <1>1, <1>3, <2>2, ConcatProperties
  <2> QED BY <2>3, NoStopIn
<1>5. isRouted
  BY <1>4 DEF StopsAt
<1> QED BY <1>1, <1>4, <1>5 DEF StopsAt

\* The books after a key are what the group's devices hold after it.
LEMMA KeyKeepsBooks ==
  ASSUME TypeInv, ChordInv, NEW d \in Keyboards, NEW k \in Keys, NEW isDown \in BOOLEAN,
         KeyInput(d, k, isDown)
  PROVE  /\ Group[d] \in routed' =>
              HeldAfter(keyboards[Group[d]], k, isDown) \subseteq HeldOn(Group[d])' \union stuck'[Group[d]]
         /\ \A g \in Groups \ {Group[d]} : HeldOn(g) \subseteq HeldOn(g)' /\ stuck'[g] = stuck[g]
         /\ stuck' \in [Groups -> SUBSET Keys]
<1>0. d \in Devices /\ Group[d] \in Groups
  BY AgentCaptureAssumption DEF Groups
<1>1. /\ down \in [Devices -> SUBSET Controls] /\ known \subseteq Devices
      /\ stuck \in [Groups -> SUBSET Keys]
  BY DEF TypeInv, TypeOK, ChordInv
<1> DEFINE isRouted == Group[d] \in routed'
<1>2. /\ known' = known \union {d}
      /\ down' = [down EXCEPT ![d] = IF isDown THEN @ \union {k} ELSE @ \ {k}]
      /\ stuck' = [stuck EXCEPT ![Group[d]] = IF isRouted THEN @ \ {k} ELSE {}]
  BY DEF KeyInput, Moves
<1>3. \A e \in known : e # d => down'[e] = down[e]
  BY <1>1, <1>2
<1>4. \A x \in down[d] : x # k => x \in down'[d]
  BY <1>0, <1>1, <1>2
<1>5. isDown => k \in down'[d]
  BY <1>0, <1>1, <1>2
<1>6. \A g \in Groups : g # Group[d] => stuck'[g] = stuck[g]
  BY <1>0, <1>1, <1>2
<1>7. isRouted => stuck'[Group[d]] = stuck[Group[d]] \ {k}
  BY <1>0, <1>1, <1>2
<1>8. stuck' \in [Groups -> SUBSET Keys]
  BY <1>0, <1>1, <1>2
<1>9. ASSUME NEW g \in Groups, NEW x \in HeldOn(g), x # k \/ g # Group[d]
      PROVE  x \in HeldOn(g)'
  <2>1. PICK e \in known : Group[e] = g /\ x \in down[e] /\ x \in Keys
    BY DEF HeldOn
  <2>2. x \in down'[e]
    BY <1>3, <1>4, <1>9, <2>1
  <2>3. e \in known'
    BY <1>2
  <2> QED BY <2>1, <2>2, <2>3 DEF HeldOn
<1>10. ASSUME isRouted, NEW x \in HeldAfter(keyboards[Group[d]], k, isDown)
       PROVE  x \in HeldOn(Group[d])' \union stuck'[Group[d]]
  <2>1. CASE x = k
    <3>1. isDown
      BY <1>10, <2>1 DEF HeldAfter
    <3>2. x \in down'[d] /\ d \in known' /\ x \in Keys
      BY <1>2, <1>5, <2>1, <3>1
    <3> QED BY <3>2 DEF HeldOn
  <2>2. CASE x # k
    <3>1. x \in HeldOn(Group[d]) \union stuck[Group[d]]
      <4>1. x \in keyboards[Group[d]].held
        BY <1>10, <2>2 DEF HeldAfter
      <4> QED BY <1>0, <4>1 DEF ChordInv
    <3> QED BY <1>0, <1>7, <1>9, <1>10, <2>2, <3>1
  <2> QED BY <2>1, <2>2
<1> QED BY <1>6, <1>8, <1>9, <1>10

LEMMA InputKeepsChord ==
  ASSUME TypeInv, ChordInv, Input
  PROVE  ChordInv'
<1>1. PICK d \in Devices, isDown \in BOOLEAN :
        \/ d \in Keyboards /\ \E k \in Keys : KeyInput(d, k, isDown)
        \/ d \notin Keyboards /\ \E c \in Buttons, moved \in BOOLEAN : MouseInput(d, moved, c, isDown)
  BY DEF Input
<1>2. CASE d \in Keyboards /\ \E k \in Keys : KeyInput(d, k, isDown)
  <2>1. PICK k \in Keys : KeyInput(d, k, isDown)
    BY <1>2
  <2>2. keyboards' = [keyboards EXCEPT ![Group[d]] =
                        OnKey(keyboards[Group[d]], k, isDown, Group[d] \in routed')]
    BY <2>1 DEF KeyInput
  <2>3. DOMAIN keyboards = Groups /\ Group[d] \in Groups
    BY DEF TypeInv, TypeOK, Groups
  <2>4. keyboards'[Group[d]].held \subseteq HeldOn(Group[d])' \union stuck'[Group[d]]
    <3>1. keyboards'[Group[d]] = OnKey(keyboards[Group[d]], k, isDown, Group[d] \in routed')
      BY <2>2, <2>3
    <3>2. CASE Group[d] \in routed'
      <4>1. keyboards'[Group[d]].held = HeldAfter(keyboards[Group[d]], k, isDown)
        BY <3>1, <3>2 DEF OnKey
      <4> QED BY <1>2, <2>1, <3>2, <4>1, KeyKeepsBooks
    <3>3. CASE Group[d] \notin routed'
      <4>1. keyboards'[Group[d]].held = {}
        BY <3>1, <3>3 DEF OnKey, NoKeyboard
      <4> QED BY <4>1
    <3> QED BY <3>2, <3>3
  <2>5. ASSUME NEW g \in Groups, g # Group[d]
        PROVE  keyboards'[g].held \subseteq HeldOn(g)' \union stuck'[g]
    <3>1. keyboards'[g] = keyboards[g]
      BY <2>2, <2>3, <2>5
    <3>2. HeldOn(g) \subseteq HeldOn(g)' /\ stuck'[g] = stuck[g]
      BY <1>2, <2>1, <2>5, KeyKeepsBooks
    <3> QED BY <3>1, <3>2 DEF ChordInv
  <2>6. stuck' \in [Groups -> SUBSET Keys]
    BY <1>2, <2>1, KeyKeepsBooks
  <2> QED BY <2>4, <2>5, <2>6 DEF ChordInv
<1>3. CASE d \notin Keyboards /\ \E c \in Buttons, moved \in BOOLEAN : MouseInput(d, moved, c, isDown)
  <2>1. PICK c \in Buttons, moved \in BOOLEAN : MouseInput(d, moved, c, isDown)
    BY <1>3
  <2>2. /\ UNCHANGED <<keyboards, stuck>> /\ known' = known \union {d}
        /\ down' = [down EXCEPT ![d] = IF isDown THEN @ \union {c} ELSE @ \ {c}]
    BY <2>1 DEF MouseInput, Moves
  <2>3. down \in [Devices -> SUBSET Controls] /\ known \subseteq Devices /\ c \notin Keys
    BY AgentCaptureAssumption DEF TypeInv, TypeOK
  <2>4. \A e \in known, x \in Keys : x \in down[e] => x \in down'[e]
    BY <2>2, <2>3
  <2>5. \A g \in Groups : HeldOn(g) \subseteq HeldOn(g)'
    BY <2>2, <2>4 DEF HeldOn
  <2> QED BY <2>2, <2>5 DEF ChordInv
<1> QED BY <1>1, <1>2, <1>3

LEMMA DeviceChangeKeepsChord ==
  ASSUME TypeInv, ChordInv, DeviceChange
  PROVE  ChordInv'
<1>1. PICK d \in Devices : DeviceArrives(d) \/ DeviceRemoved(d)
  BY DEF DeviceChange
<1>2. CASE DeviceArrives(d)
  <2>1. UNCHANGED <<keyboards, stuck, down>> /\ known' = known \union {d}
    BY <1>2 DEF DeviceArrives
  <2>2. \A g \in Groups : HeldOn(g) \subseteq HeldOn(g)'
    BY <2>1 DEF HeldOn
  <2> QED BY <2>1, <2>2 DEF ChordInv
<1>3. CASE DeviceRemoved(d)
  <2>0. /\ DOMAIN keyboards = Groups /\ Group[d] \in Groups
        /\ stuck \in [Groups -> SUBSET Keys] /\ down \in [Devices -> SUBSET Controls]
        /\ known \subseteq Devices
        /\ \A g \in Groups : keyboards[g].held \subseteq Keys
    BY DEF TypeInv, TypeOK, Groups, ChordInv
  <2>1. /\ known' = known \ {d} /\ down' = [down EXCEPT ![d] = {}]
        /\ keyboards' = ChordAfterRemoval(d)
        /\ stuck' = [stuck EXCEPT ![Group[d]] =
             IF GroupGone(d) THEN {} ELSE @ \union (down[d] \intersect keyboards[Group[d]].held)]
    BY <1>3 DEF DeviceRemoved
  <2>2. \A e \in known' : e \in known /\ e # d /\ down'[e] = down[e]
    BY <2>0, <2>1
  <2>3. stuck' \in [Groups -> SUBSET Keys]
    BY <2>0, <2>1
  <2>4. ASSUME NEW g \in Groups, g # Group[d]
        PROVE  keyboards'[g].held \subseteq HeldOn(g)' \union stuck'[g]
    <3>1. keyboards'[g] = keyboards[g] /\ stuck'[g] = stuck[g]
      BY <2>0, <2>1, <2>4 DEF ChordAfterRemoval
    <3>2. ASSUME NEW x \in HeldOn(g) PROVE x \in HeldOn(g)'
      <4>1. PICK e \in known : Group[e] = g /\ x \in down[e] /\ x \in Keys
        BY DEF HeldOn
      <4>2. e \in known' /\ x \in down'[e]
        BY <2>1, <2>2, <2>4, <4>1
      <4> QED BY <4>1, <4>2 DEF HeldOn
    <3> QED BY <3>1, <3>2 DEF ChordInv
  <2>5. keyboards'[Group[d]].held \subseteq HeldOn(Group[d])' \union stuck'[Group[d]]
    <3>1. CASE GroupGone(d)
      <4>1. keyboards'[Group[d]].held = {}
        BY <2>0, <2>1, <3>1 DEF ChordAfterRemoval, NoKeyboard
      <4> QED BY <4>1
    <3>2. CASE ~GroupGone(d)
      <4>1. /\ keyboards'[Group[d]] = keyboards[Group[d]]
            /\ stuck'[Group[d]] =
                 stuck[Group[d]] \union (down[d] \intersect keyboards[Group[d]].held)
        BY <2>0, <2>1, <3>2 DEF ChordAfterRemoval
      <4>2. ASSUME NEW x \in keyboards[Group[d]].held, x \notin stuck'[Group[d]]
            PROVE  x \in HeldOn(Group[d])'
        <5>1. x \in HeldOn(Group[d]) /\ x \notin down[d]
          BY <2>0, <4>1, <4>2 DEF ChordInv
        <5>2. PICK e \in known : Group[e] = Group[d] /\ x \in down[e] /\ x \in Keys
          BY <5>1 DEF HeldOn
        <5>3. e \in known' /\ x \in down'[e]
          BY <2>1, <2>2, <5>1, <5>2
        <5> QED BY <5>2, <5>3 DEF HeldOn
      <4> QED BY <4>1, <4>2
    <3> QED BY <3>1, <3>2
  <2> QED BY <2>3, <2>4, <2>5 DEF ChordInv
<1> QED BY <1>1, <1>2, <1>3

LEMMA OthersKeepChord ==
  ASSUME ChordInv,
         Callback \/ Sender \/ Console \/ UnrouteAll \/ Notify \/ Shutdown \/ UNCHANGED vars
  PROVE  ChordInv'
<1>1. CASE UnrouteAll
  BY <1>1 DEF UnrouteAll, NoKeyboard, ChordInv, HeldOn
<1>2. CASE ~UnrouteAll
  <2>1. UNCHANGED <<keyboards, stuck, down, known>>
    BY <1>2 DEF Callback, CallClaim, CallRelease, CallEvent, CallOverload, CallStop,
         Sender, Take, Send, Console, Arm, Revoke, Notify,
         Shutdown, StopCapture, CaptureEnds, SenderEnds, FinalRelease, capture, vars
  <2>2. \A g \in Groups : HeldOn(g)' = HeldOn(g)
    BY <2>1 DEF HeldOn
  <2> QED BY <2>1, <2>2 DEF ChordInv
<1> QED BY <1>1, <1>2

\* A step that calls the stop.
LEMMA StopStep ==
  ASSUME TypeInv, ChordInv, Next, calls = <<>>, \E i \in DOMAIN calls' : calls'[i].call = "Stop"
  PROVE  \E g \in routed' : IsChordHeld(HeldOn(g)' \union stuck'[g])
<1>1. calls' # calls
  OBVIOUS
<1>2. Input \/ DeviceChange
  BY <1>1 DEF Next, Callback, CallClaim, CallRelease, CallEvent, CallOverload, CallStop, Calls,
       Sender, Take, Send, Console, Arm, Revoke, UnrouteAll, Notify,
       Shutdown, StopCapture, CaptureEnds, SenderEnds, FinalRelease
<1>3. ASSUME NEW d \in Devices, DeviceArrives(d) \/ DeviceRemoved(d) PROVE FALSE
  <2>1. <<Call("Release")>> \in Seq(CallsWithoutStop) /\ <<>> \in Seq(CallsWithoutStop)
    <3>1. Call("Release") \in CallsWithoutStop
      BY DEF Call, CallsWithoutStop
    <3> QED BY <3>1
  <2>2. calls' \in Seq(CallsWithoutStop)
    BY <1>3, <2>1 DEF DeviceArrives, DeviceRemoved, RemovalCalls
  <2> QED BY <2>2, NoStopIn
<1>4. ASSUME NEW d \in Devices, NEW c \in Buttons, NEW moved \in BOOLEAN, NEW isDown \in BOOLEAN,
             MouseInput(d, moved, c, isDown)
      PROVE  FALSE
  <2> DEFINE binds == Binds(d, "mouse", isDown /\ c = Middle)
             isRouted == Group[d] \in RoutedAfter(d, binds)
             moves == IF moved THEN <<Event("Move", Group[d], c)>> ELSE <<>>
             transmits == IF isRouted THEN moves \o Transition(d, c, isDown) ELSE <<>>
  <2>1. calls' = ClaimCall(binds) \o transmits
    BY <1>4 DEF MouseInput
  <2>2. binds \in BOOLEAN /\ c \in Controls
    BY DEF Binds, Controls
  <2> HIDE DEF binds
  <2>3. /\ ClaimCall(binds) \in Seq(CallsWithoutStop)
        /\ Transition(d, c, isDown) \in Seq(CallsWithoutStop)
        /\ moves \in Seq(CallsWithoutStop) /\ <<>> \in Seq(CallsWithoutStop)
    BY <2>2, CallsThatDoNotStop
  <2> HIDE DEF moves, isRouted
  <2>4. transmits \in Seq(CallsWithoutStop)
    BY <2>3, ConcatProperties
  <2> HIDE DEF transmits
  <2>5. calls' \in Seq(CallsWithoutStop)
    BY <2>1, <2>3, <2>4, ConcatProperties
  <2> QED BY <2>5, NoStopIn
<1>5. PICK d \in Keyboards, k \in Keys, isDown \in BOOLEAN : KeyInput(d, k, isDown)
  BY <1>2, <1>3, <1>4 DEF Input, DeviceChange
<1>6. d \in Devices
  BY AgentCaptureAssumption
<1>7. Group[d] \in routed' /\ StopsAt(keyboards[Group[d]], k, isDown, TRUE)
  BY <1>5, <1>6, StopNeedsChord
<1>8. HeldAfter(keyboards[Group[d]], k, isDown) \subseteq HeldOn(Group[d])' \union stuck'[Group[d]]
  BY <1>5, <1>7, KeyKeepsBooks
<1>9. IsChordHeld(HeldOn(Group[d])' \union stuck'[Group[d]])
  BY <1>7, <1>8 DEF StopsAt, IsChordHeld
<1> QED BY <1>7, <1>9

\* The emergency stop is called for only while the whole chord is held on one
\* routed group, but for what a keyboard left in the chord that was unplugged
\* from a group that remained: for any chord and any groups of devices.
THEOREM StopIsAlwaysDeliberate == Spec => StopIsDeliberate
<1>1. Init => ChordInv
  BY DEF Init, ChordInv, NoKeyboard, HeldOn
<1>2. TypeInv /\ ChordInv /\ [Next]_vars => ChordInv'
  BY InputKeepsChord, DeviceChangeKeepsChord, OthersKeepChord DEF Next
<1>3. TypeInv /\ ChordInv /\ [Next]_vars =>
        [calls = <<>> /\ (\E i \in DOMAIN calls' : calls'[i].call = "Stop") =>
           \E g \in routed' : IsChordHeld(HeldOn(g)' \union stuck'[g])]_vars
  BY StopStep
<1> QED BY <1>1, <1>2, <1>3, TypesHold, PTL DEF Spec, StopIsDeliberate

-----------------------------------------------------------------------------
(***************************************************************************)
(* What the page sees pressed.  Whether a control will be pressed when     *)
(* everything under way has arrived is its last transition's doing.        *)
(***************************************************************************)

IsDownOf(e, c) == IsPress(e) /\ e.control = c
IsUpOf(e, c) == e.call = "Event" /\ e.kind = "Up" /\ e.control = c

NoUp(s, c) == \A i \in 1 .. Len(s) : ~IsUpOf(s[i], c)
EndsDown(s, c) ==
  \E i \in 1 .. Len(s) : IsDownOf(s[i], c) /\ \A j \in i + 1 .. Len(s) : ~IsUpOf(s[j], c)
\* The control is pressed after s if it was before, as p says.
After(p, s, c) == EndsDown(s, c) \/ (p /\ NoUp(s, c))

LEMMA AfterNothing ==
  ASSUME NEW p \in BOOLEAN, NEW c
  PROVE  After(p, <<>>, c) = p
<1>1. NoUp(<<>>, c) /\ ~EndsDown(<<>>, c)
  BY DEF NoUp, EndsDown
<1> QED BY <1>1 DEF After

LEMMA AfterType ==
  ASSUME NEW p \in BOOLEAN, NEW s, NEW c
  PROVE  After(p, s, c) \in BOOLEAN
BY DEF After

\* A control that is pressed after s was pressed before or is pressed in s.
LEMMA AfterPresses ==
  ASSUME NEW p \in BOOLEAN, NEW s \in Seq(AllCalls), NEW c, After(p, s, c)
  PROVE  p \/ c \in Presses(s)
<1>1. CASE EndsDown(s, c)
  <2>1. PICK i \in 1 .. Len(s) : IsDownOf(s[i], c)
    BY <1>1 DEF EndsDown
  <2>2. i \in DOMAIN s
    OBVIOUS
  <2> QED BY <2>1, <2>2 DEF IsDownOf, Presses
<1>2. CASE p
  BY <1>2
<1> QED BY <1>1, <1>2 DEF After

LEMMA AfterIsMonotone ==
  ASSUME NEW p \in BOOLEAN, NEW q \in BOOLEAN, p => q, NEW s, NEW c
  PROVE  After(p, s, c) => After(q, s, c)
BY DEF After

LEMMA AfterAppend ==
  ASSUME NEW p \in BOOLEAN, NEW s \in Seq(AllCalls), NEW e \in AllCalls, NEW c
  PROVE  After(p, Append(s, e), c) = IF IsDownOf(e, c) THEN TRUE
                                     ELSE IF IsUpOf(e, c) THEN FALSE ELSE After(p, s, c)
<1> DEFINE a == Append(s, e)
<1>0. /\ Len(a) = Len(s) + 1 /\ Len(s) \in Nat /\ a[Len(s) + 1] = e
      /\ \A i \in 1 .. Len(s) : a[i] = s[i]
  OBVIOUS
<1>1. NoUp(a, c) <=> NoUp(s, c) /\ ~IsUpOf(e, c)
  <2> HIDE DEF a
  <2> QED BY <1>0 DEF NoUp
<1>2. EndsDown(a, c) <=> IsDownOf(e, c) \/ (EndsDown(s, c) /\ ~IsUpOf(e, c))
  <2> HIDE DEF a
  <2>1. ASSUME IsDownOf(e, c) PROVE EndsDown(a, c)
    <3>1. Len(s) + 1 \in 1 .. Len(a) /\ IsDownOf(a[Len(s) + 1], c)
      BY <1>0, <2>1
    <3>2. \A j \in Len(s) + 1 + 1 .. Len(a) : FALSE
      BY <1>0
    <3> QED BY <3>1, <3>2 DEF EndsDown
  <2>2. ASSUME EndsDown(s, c), ~IsUpOf(e, c) PROVE EndsDown(a, c)
    <3>1. PICK i \in 1 .. Len(s) : IsDownOf(s[i], c) /\ \A j \in i + 1 .. Len(s) : ~IsUpOf(s[j], c)
      BY <2>2 DEF EndsDown
    <3>2. i \in 1 .. Len(a) /\ IsDownOf(a[i], c)
      BY <1>0, <3>1
    <3>3. \A j \in i + 1 .. Len(a) : ~IsUpOf(a[j], c)
      BY <1>0, <2>2, <3>1
    <3> QED BY <3>2, <3>3 DEF EndsDown
  <2>3. ASSUME EndsDown(a, c), ~IsDownOf(e, c) PROVE EndsDown(s, c) /\ ~IsUpOf(e, c)
    <3>1. PICK i \in 1 .. Len(a) : IsDownOf(a[i], c) /\ \A j \in i + 1 .. Len(a) : ~IsUpOf(a[j], c)
      BY <2>3 DEF EndsDown
    <3>2. i \in 1 .. Len(s) /\ IsDownOf(s[i], c)
      BY <1>0, <2>3, <3>1
    <3>3. \A j \in i + 1 .. Len(s) : ~IsUpOf(s[j], c)
      BY <1>0, <3>1
    <3>4. ~IsUpOf(e, c)
      BY <1>0, <3>1, <3>2
    <3> QED BY <3>2, <3>3, <3>4 DEF EndsDown
  <2> QED BY <2>1, <2>2, <2>3
<1>3. IsDownOf(e, c) => ~IsUpOf(e, c)
  BY DEF IsDownOf, IsUpOf, IsPress
<1>4. After(p, a, c) <=> (IsDownOf(e, c) \/ (~IsUpOf(e, c) /\ After(p, s, c)))
  <2> HIDE DEF a
  <2> QED BY <1>1, <1>2, <1>3 DEF After
<1> HIDE DEF a
<1>5. After(p, a, c) \in BOOLEAN /\ After(p, s, c) \in BOOLEAN
  BY AfterType
<1>6. After(p, a, c) = IF IsDownOf(e, c) THEN TRUE
                       ELSE IF IsUpOf(e, c) THEN FALSE ELSE After(p, s, c)
  BY <1>3, <1>4, <1>5
<1> QED BY <1>6 DEF a

LEMMA AfterConcat ==
  ASSUME NEW p \in BOOLEAN, NEW s \in Seq(AllCalls), NEW t \in Seq(AllCalls), NEW c
  PROVE  After(p, s \o t, c) = After(After(p, s, c), t, c)
<1> DEFINE u == s \o t
<1>0. /\ Len(u) = Len(s) + Len(t) /\ Len(s) \in Nat /\ Len(t) \in Nat
      /\ \A i \in 1 .. Len(s) : u[i] = s[i]
      /\ \A i \in 1 .. Len(t) : u[Len(s) + i] = t[i]
  BY ConcatProperties, LenProperties
<1>a. \A i \in Len(s) + 1 .. Len(u) : i - Len(s) \in 1 .. Len(t) /\ u[i] = t[i - Len(s)]
  <2>1. ASSUME NEW i \in Len(s) + 1 .. Len(u)
        PROVE  i - Len(s) \in 1 .. Len(t) /\ u[i] = t[i - Len(s)]
    <3>1. i - Len(s) \in 1 .. Len(t) /\ Len(s) + (i - Len(s)) = i
      BY <1>0
    <3> QED BY <1>0, <3>1
  <2> QED BY <2>1
<1> HIDE DEF u
<1>1. NoUp(u, c) <=> NoUp(s, c) /\ NoUp(t, c)
  <2>1. NoUp(u, c) => NoUp(s, c)
    BY <1>0 DEF NoUp
  <2>2. ASSUME NoUp(u, c) PROVE NoUp(t, c)
    <3>1. ASSUME NEW i \in 1 .. Len(t) PROVE ~IsUpOf(t[i], c)
      <4>1. Len(s) + i \in 1 .. Len(u)
        BY <1>0
      <4> QED BY <1>0, <2>2, <4>1 DEF NoUp
    <3> QED BY <3>1 DEF NoUp
  <2>3. ASSUME NoUp(s, c), NoUp(t, c), NEW i \in 1 .. Len(u) PROVE ~IsUpOf(u[i], c)
    <3>1. i \in 1 .. Len(s) \/ i \in Len(s) + 1 .. Len(u)
      BY <1>0
    <3> QED BY <1>0, <1>a, <2>3, <3>1 DEF NoUp
  <2> QED BY <2>1, <2>2, <2>3 DEF NoUp
<1>2. EndsDown(u, c) <=> EndsDown(t, c) \/ (EndsDown(s, c) /\ NoUp(t, c))
  <2>1. ASSUME EndsDown(t, c) PROVE EndsDown(u, c)
    <3>1. PICK i \in 1 .. Len(t) : IsDownOf(t[i], c) /\ \A j \in i + 1 .. Len(t) : ~IsUpOf(t[j], c)
      BY <2>1 DEF EndsDown
    <3>2. Len(s) + i \in 1 .. Len(u) /\ IsDownOf(u[Len(s) + i], c)
      BY <1>0, <3>1
    <3>3. ASSUME NEW j \in Len(s) + i + 1 .. Len(u) PROVE ~IsUpOf(u[j], c)
      <4>1. j \in Len(s) + 1 .. Len(u) /\ j - Len(s) \in i + 1 .. Len(t)
        BY <1>0
      <4> QED BY <1>a, <3>1, <4>1
    <3> QED BY <3>2, <3>3 DEF EndsDown
  <2>2. ASSUME EndsDown(s, c), NoUp(t, c) PROVE EndsDown(u, c)
    <3>1. PICK i \in 1 .. Len(s) : IsDownOf(s[i], c) /\ \A j \in i + 1 .. Len(s) : ~IsUpOf(s[j], c)
      BY <2>2 DEF EndsDown
    <3>2. i \in 1 .. Len(u) /\ IsDownOf(u[i], c)
      BY <1>0, <3>1
    <3>3. ASSUME NEW j \in i + 1 .. Len(u) PROVE ~IsUpOf(u[j], c)
      <4>1. j \in i + 1 .. Len(s) \/ j \in Len(s) + 1 .. Len(u)
        BY <1>0
      <4> QED BY <1>0, <1>a, <2>2, <3>1, <4>1 DEF NoUp
    <3> QED BY <3>2, <3>3 DEF EndsDown
  <2>3. ASSUME EndsDown(u, c) PROVE EndsDown(t, c) \/ (EndsDown(s, c) /\ NoUp(t, c))
    <3>1. PICK i \in 1 .. Len(u) : IsDownOf(u[i], c) /\ \A j \in i + 1 .. Len(u) : ~IsUpOf(u[j], c)
      BY <2>3 DEF EndsDown
    <3>2. CASE i \in 1 .. Len(s)
      <4>1. IsDownOf(s[i], c) /\ \A j \in i + 1 .. Len(s) : ~IsUpOf(s[j], c)
        BY <1>0, <3>1, <3>2
      <4>2. ASSUME NEW j \in 1 .. Len(t) PROVE ~IsUpOf(t[j], c)
        <5>1. Len(s) + j \in i + 1 .. Len(u)
          BY <1>0, <3>2
        <5> QED BY <1>0, <3>1, <5>1
      <4> QED BY <3>2, <4>1, <4>2 DEF EndsDown, NoUp
    <3>3. CASE i \notin 1 .. Len(s)
      <4>1. i \in Len(s) + 1 .. Len(u)
        BY <1>0, <3>3
      <4>2. i - Len(s) \in 1 .. Len(t) /\ IsDownOf(t[i - Len(s)], c)
        BY <1>a, <3>1, <4>1
      <4>3. ASSUME NEW j \in i - Len(s) + 1 .. Len(t) PROVE ~IsUpOf(t[j], c)
        <5>1. Len(s) + j \in i + 1 .. Len(u) /\ j \in 1 .. Len(t)
          BY <1>0, <4>1
        <5> QED BY <1>0, <3>1, <5>1
      <4> QED BY <4>2, <4>3 DEF EndsDown
    <3> QED BY <3>2, <3>3
  <2> QED BY <2>1, <2>2, <2>3
<1>3. After(p, u, c) <=> After(After(p, s, c), t, c)
  BY <1>1, <1>2 DEF After
<1>4. After(p, u, c) \in BOOLEAN /\ After(After(p, s, c), t, c) \in BOOLEAN
  BY AfterType
<1>5. After(p, u, c) = After(After(p, s, c), t, c)
  BY <1>3, <1>4
<1> QED BY <1>5 DEF u

LEMMA AfterOne ==
  ASSUME NEW p \in BOOLEAN, NEW e \in AllCalls, NEW c
  PROVE  After(p, <<e>>, c) = IF IsDownOf(e, c) THEN TRUE ELSE IF IsUpOf(e, c) THEN FALSE ELSE p
<1>1. <<>> \in Seq(AllCalls)
  OBVIOUS
<1>2. Append(<<>>, e) = <<e>>
  OBVIOUS
<1>3. After(p, <<>>, c) = p
  BY AfterNothing
<1>4. After(p, Append(<<>>, e), c) = IF IsDownOf(e, c) THEN TRUE
                                     ELSE IF IsUpOf(e, c) THEN FALSE ELSE After(p, <<>>, c)
  BY <1>1, AfterAppend
<1> QED BY <1>2, <1>3, <1>4

\* A callback that is no transition of the control leaves it as it is.
LEMMA AfterOther ==
  ASSUME NEW p \in BOOLEAN, NEW e \in AllCalls, NEW c, ~IsDownOf(e, c), ~IsUpOf(e, c)
  PROVE  After(p, <<e>>, c) = p
BY AfterOne

\* What an input transmits: the state of the control it moves.
LEMMA AfterTransition ==
  ASSUME NEW p \in BOOLEAN, NEW d \in Devices, NEW k \in Controls, NEW isDown \in BOOLEAN, NEW c
  PROVE  After(p, Transition(d, k, isDown), c) = IF c = k THEN isDown ELSE p
<1> DEFINE e == Event(IF isDown THEN "Down" ELSE "Up", Group[d], k)
<1>1. e \in AllCalls
  BY DEF Event, AllCalls, EventCallsOf, Groups
<1>2. Transition(d, k, isDown) = <<e>>
  BY DEF Transition
<1>3. (IsDownOf(e, c) <=> isDown /\ c = k) /\ (IsUpOf(e, c) <=> ~isDown /\ c = k)
  BY DEF Event, IsDownOf, IsUpOf, IsPress
<1> HIDE DEF e
<1>4. After(p, <<e>>, c) = IF IsDownOf(e, c) THEN TRUE ELSE IF IsUpOf(e, c) THEN FALSE ELSE p
  BY <1>1, AfterOne
<1> QED BY <1>2, <1>3, <1>4

LEMMA AfterClaimCall ==
  ASSUME NEW p \in BOOLEAN, NEW binds \in BOOLEAN, NEW c
  PROVE  After(p, ClaimCall(binds), c) = p
<1>1. Call("Claim") \in AllCalls /\ ~IsDownOf(Call("Claim"), c) /\ ~IsUpOf(Call("Claim"), c)
  BY DEF Call, AllCalls, IsDownOf, IsUpOf, IsPress
<1> QED BY <1>1, AfterOther, AfterNothing DEF ClaimCall

LEMMA AfterKeyInput ==
  ASSUME NEW d \in Devices, NEW k \in Keys, NEW isDown \in BOOLEAN, KeyInput(d, k, isDown),
         NEW p \in BOOLEAN, NEW c
  PROVE  After(p, calls', c) = IF Group[d] \in routed' /\ c = k THEN isDown ELSE p
<1> DEFINE binds == Binds(d, "keyboard", isDown /\ k = F8)
           isRouted == Group[d] \in RoutedAfter(d, binds)
           claims == ClaimCall(binds)
           transmits == IF isRouted THEN Transition(d, k, isDown) ELSE <<>>
           stops == IF StopsAt(keyboards[Group[d]], k, isDown, isRouted)
                    THEN <<Call("Stop")>> ELSE <<>>
<1>1. calls' = claims \o transmits \o stops /\ routed' = RoutedAfter(d, binds)
  BY DEF KeyInput
<1>2. k \in Controls /\ binds \in BOOLEAN
  BY DEF Controls, Binds
<1>3. Call("Stop") \in AllCalls /\ ~IsDownOf(Call("Stop"), c) /\ ~IsUpOf(Call("Stop"), c)
  BY DEF Call, AllCalls, IsDownOf, IsUpOf, IsPress
<1>4. <<>> \in Seq(AllCalls)
  OBVIOUS
<1>5. stops \in Seq(AllCalls) /\ \A q \in BOOLEAN : After(q, stops, c) = q
  <2>1. <<Call("Stop")>> \in Seq(AllCalls)
    BY <1>3
  <2> QED BY <1>3, <1>4, <2>1, AfterOther, AfterNothing
<1>6. claims \in Seq(AllCalls) /\ After(p, claims, c) = p
  BY <1>2, ClaimCallType, InputCallsAreCalls, SubSequences, AfterClaimCall
<1>7. /\ transmits \in Seq(AllCalls)
      /\ After(p, transmits, c) = IF isRouted /\ c = k THEN isDown ELSE p
  <2>1. Transition(d, k, isDown) \in Seq(AllCalls)
    BY <1>2, TransitionType, InputCallsAreCalls, SubSequences
  <2>2. After(p, Transition(d, k, isDown), c) = IF c = k THEN isDown ELSE p
    BY <1>2, AfterTransition
  <2>3. After(p, <<>>, c) = p
    BY AfterNothing
  <2> HIDE DEF isRouted
  <2> QED BY <1>4, <2>1, <2>2, <2>3
<1> HIDE DEF claims, transmits, stops
<1> DEFINE front == claims \o transmits
<1>8. front \in Seq(AllCalls) /\ stops \in Seq(AllCalls)
  BY <1>5, <1>6, <1>7, ConcatProperties
<1>9. After(p, front, c) = After(p, transmits, c)
  BY <1>6, <1>7, AfterConcat
<1>10. After(p, front, c) \in BOOLEAN /\ calls' = front \o stops
  BY <1>1, AfterType
<1> HIDE DEF front
<1>11. After(p, front \o stops, c) = After(After(p, front, c), stops, c)
  BY <1>8, AfterConcat
<1>12. After(p, calls', c) = After(p, transmits, c)
  BY <1>1, <1>5, <1>9, <1>10, <1>11
<1> QED BY <1>1, <1>7, <1>12

LEMMA AfterMouseInput ==
  ASSUME NEW d \in Devices, NEW moved \in BOOLEAN, NEW k \in Buttons, NEW isDown \in BOOLEAN,
         MouseInput(d, moved, k, isDown), NEW p \in BOOLEAN, NEW c
  PROVE  After(p, calls', c) = IF Group[d] \in routed' /\ c = k THEN isDown ELSE p
<1> DEFINE binds == Binds(d, "mouse", isDown /\ k = Middle)
           isRouted == Group[d] \in RoutedAfter(d, binds)
           claims == ClaimCall(binds)
           motion == Event("Move", Group[d], k)
           moves == IF moved THEN <<motion>> ELSE <<>>
           transmits == IF isRouted THEN moves \o Transition(d, k, isDown) ELSE <<>>
<1>1. calls' = claims \o transmits /\ routed' = RoutedAfter(d, binds)
  BY DEF MouseInput
<1>2. k \in Controls /\ binds \in BOOLEAN
  BY DEF Controls, Binds
<1>3. motion \in AllCalls /\ ~IsDownOf(motion, c) /\ ~IsUpOf(motion, c)
  BY <1>2 DEF Event, AllCalls, EventCallsOf, Groups, IsDownOf, IsUpOf, IsPress
<1>4. <<>> \in Seq(AllCalls)
  OBVIOUS
<1>5. moves \in Seq(AllCalls) /\ After(p, moves, c) = p
  <2> HIDE DEF motion
  <2>1. <<motion>> \in Seq(AllCalls)
    BY <1>3
  <2> QED BY <1>3, <1>4, <2>1, AfterOther, AfterNothing
<1>6. claims \in Seq(AllCalls) /\ After(p, claims, c) = p
  BY <1>2, ClaimCallType, InputCallsAreCalls, SubSequences, AfterClaimCall
<1>7. /\ transmits \in Seq(AllCalls)
      /\ After(p, transmits, c) = IF isRouted /\ c = k THEN isDown ELSE p
  <2>1. Transition(d, k, isDown) \in Seq(AllCalls)
    BY <1>2, TransitionType, InputCallsAreCalls, SubSequences
  <2>2. After(p, Transition(d, k, isDown), c) = IF c = k THEN isDown ELSE p
    BY <1>2, AfterTransition
  <2>3. After(p, <<>>, c) = p
    BY AfterNothing
  <2> HIDE DEF moves, isRouted
  <2>4. /\ moves \o Transition(d, k, isDown) \in Seq(AllCalls)
        /\ After(p, moves \o Transition(d, k, isDown), c) = After(p, Transition(d, k, isDown), c)
    BY <1>5, <2>1, ConcatProperties, AfterConcat
  <2> QED BY <1>4, <2>2, <2>3, <2>4
<1> HIDE DEF claims, transmits
<1>8. After(p, claims \o transmits, c) = After(p, transmits, c)
  BY <1>6, <1>7, AfterConcat
<1> QED BY <1>1, <1>7, <1>8

LEMMA LastExists ==
  ASSUME NEW n \in Nat, NEW T \in SUBSET (1 .. n), T # {}
  PROVE  \E i \in T : \A j \in T : j <= i
<1> DEFINE Less == OpToRel(<, Nat)
           U == {n - i : i \in T}
<1>1. \A x, y \in Nat : <<y, x>> \in Less <=> y < x
  BY DEF OpToRel
<1>2. U \subseteq Nat /\ U # {}
  <2>1. PICK t : t \in T
    OBVIOUS
  <2>2. n - t \in U /\ \A i \in T : n - i \in Nat
    BY <2>1
  <2> QED BY <2>2
<1>3. PICK u \in U : \A w \in U : <<w, u>> \notin Less
  <2>1. IsWellFoundedOn(Less, Nat)
    BY NatLessThanWellFounded
  <2> HIDE DEF Less, U
  <2> QED BY <1>2, <2>1, WFMin
<1> HIDE DEF Less
<1>4. PICK i \in T : u = n - i
  OBVIOUS
<1>5. ASSUME NEW j \in T PROVE j <= i
  <2>1. n - j \in U /\ n - j \in Nat /\ u \in Nat
    BY <1>2
  <2>2. ~(n - j < u)
    BY <1>1, <1>3, <2>1
  <2> QED BY <1>4, <2>2
<1> QED BY <1>5

\* The receiver's state after a batch is what its last transitions say.
LEMMA AppliedIsAfter ==
  ASSUME NEW events \in Seq(EventCallsOf), NEW held \in SUBSET Controls,
         NEW c \in Applied(held, events)
  PROVE  After(c \in held, events, c)
<1> DEFINE is == {i \in DOMAIN events : events[i].control = c /\ events[i].kind \in {"Down", "Up"}}
<1>0. /\ Len(events) \in Nat /\ DOMAIN events = 1 .. Len(events)
      /\ \A i \in 1 .. Len(events) : events[i].call = "Event"
  <2>1. \A i \in 1 .. Len(events) : events[i] \in EventCallsOf
    BY ElementOfSeq, LenProperties
  <2>2. \A x \in EventCallsOf : x.call = "Event"
    BY DEF EventCallsOf
  <2> QED BY <2>1, <2>2, LenProperties
<1>1. CASE is = {}
  <2>1. c \in held
    BY <1>1 DEF Applied, LastOf
  <2>2. \A i \in 1 .. Len(events) : ~IsUpOf(events[i], c)
    BY <1>0, <1>1 DEF IsUpOf
  <2> QED BY <2>1, <2>2 DEF After, NoUp
<1>2. CASE is # {}
  <2> DEFINE last == CHOOSE i \in is : \A j \in is : j <= i
  <2>1. \E i \in is : \A j \in is : j <= i
    <3>1. is \in SUBSET (1 .. Len(events))
      BY <1>0
    <3> HIDE DEF is
    <3> QED BY <1>0, <1>2, <3>1, LastExists
  <2>2. last \in is /\ \A j \in is : j <= last
    BY <2>1
  <2>3. LastOf(events, c) = events[last].kind
    BY <1>2 DEF LastOf
  <2> HIDE DEF last
  <2>4. events[last].kind = "Down"
    BY <2>2, <2>3 DEF Applied
  <2>5. last \in 1 .. Len(events) /\ IsDownOf(events[last], c)
    BY <1>0, <2>2, <2>4 DEF IsDownOf, IsPress
  <2>6. ASSUME NEW j \in last + 1 .. Len(events) PROVE ~IsUpOf(events[j], c)
    <3>1. j \in DOMAIN events /\ ~(j <= last)
      BY <1>0, <2>5
    <3> QED BY <2>2, <3>1 DEF IsUpOf
  <2> QED BY <2>5, <2>6 DEF After, EndsDown
<1> QED BY <1>1, <1>2


-----------------------------------------------------------------------------
(***************************************************************************)
(* No key left pressed.  The page is compared with the devices after all   *)
(* that is under way: what the sender has taken, then the queue, then the  *)
(* callbacks due.  A release that is due, or a revocation, will empty the  *)
(* page and leave every press under way without its release.               *)
(***************************************************************************)

Final(p, b, q, cs, c) == After(After(After(p, b, c), q, c), cs, c)
UnderWay == Presses(batch) \union Presses(queue) \union Presses(calls)
ReleaseDue == \E i \in DOMAIN calls : calls[i].call \in {"Release", "Overload"}

PressInv ==
  /\ ~claimed => pressed = {}
  /\ routed = {} /\ ~ReleaseDue /\ main # "notifying" => pressed \union UnderWay \subseteq leaked
  /\ main = "loop" /\ ~ReleaseDue =>
       \A c \in Controls :
         Final(c \in pressed, batch, queue, calls, c) => c \in HeldOnRouted \union leaked

LEMMA SequencesOfCalls ==
  TypeInv => batch \in Seq(AllCalls) /\ queue \in Seq(AllCalls) /\ calls \in Seq(AllCalls)
<1>1. EventCallsOf \subseteq AllCalls
  BY DEF AllCalls
<1> QED BY <1>1, TypeParts, SubSequences DEF QueueTypes

LEMMA FinalIsPressed ==
  ASSUME NEW p \in BOOLEAN, NEW b \in Seq(AllCalls), NEW q \in Seq(AllCalls),
         NEW cs \in Seq(AllCalls), NEW c, Final(p, b, q, cs, c)
  PROVE  p \/ c \in Presses(b) \union Presses(q) \union Presses(cs)
<1>1. After(p, b, c) \in BOOLEAN /\ After(After(p, b, c), q, c) \in BOOLEAN
  BY AfterType
<1>2. After(After(p, b, c), q, c) \/ c \in Presses(cs)
  BY <1>1, AfterPresses DEF Final
<1>3. After(After(p, b, c), q, c) => After(p, b, c) \/ c \in Presses(q)
  BY <1>1, AfterPresses
<1>4. After(p, b, c) => p \/ c \in Presses(b)
  BY AfterPresses
<1> QED BY <1>2, <1>3, <1>4

LEMMA FinalIsMonotone ==
  ASSUME NEW p \in BOOLEAN, NEW r \in BOOLEAN, p => r, NEW b, NEW q, NEW cs, NEW c
  PROVE  Final(p, b, q, cs, c) => Final(r, b, q, cs, c)
BY DEF Final, After

LEMMA SequencesOfCallsNext ==
  TypeInv' => batch' \in Seq(AllCalls) /\ queue' \in Seq(AllCalls) /\ calls' \in Seq(AllCalls)
<1>1. EventCallsOf \subseteq AllCalls
  BY DEF AllCalls
<1> QED BY <1>1, TypePartsNext, SubSequences DEF QueueTypes

\* Once every press under way counts as leaked, nothing else matters.
LEMMA LeakedIsEnough ==
  ASSUME TypeInv', ~claimed' => pressed' = {}, pressed' \union UnderWay' \subseteq leaked'
  PROVE  PressInv'
<1>1. ASSUME NEW c \in Controls, Final(c \in pressed', batch', queue', calls', c)
      PROVE  c \in leaked'
  <2>1. batch' \in Seq(AllCalls) /\ queue' \in Seq(AllCalls) /\ calls' \in Seq(AllCalls)
    BY SequencesOfCallsNext
  <2> DEFINE b == c \in pressed'
  <2>2. b \in BOOLEAN /\ Final(b, batch', queue', calls', c)
    BY <1>1
  <2> HIDE DEF b
  <2>3. b \/ c \in Presses(batch') \union Presses(queue') \union Presses(calls')
    BY <2>1, <2>2, FinalIsPressed
  <2>4. c \in pressed' \/ c \in Presses(batch') \union Presses(queue') \union Presses(calls')
    BY <2>3 DEF b
  <2> QED BY <2>4 DEF UnderWay
<1> QED BY <1>1 DEF PressInv

\* A release: what is on its way now may arrive without its own.
LEMMA ReleaseLeaks ==
  ASSUME TypeInv', NEW overload, ReleaseAll(overload), queue' = queue, batch' = batch,
         Presses(calls') \subseteq Presses(calls)
  PROVE  PressInv'
<1>1. /\ pressed' = {}
      /\ leaked' = Presses(queue) \union Presses(batch) \union Presses(calls)
  BY DEF ReleaseAll
<1>2. pressed' \union UnderWay' \subseteq leaked'
  BY <1>1 DEF UnderWay
<1> QED BY <1>1, <1>2, LeakedIsEnough

\* The callbacks due, without the first.
LEMMA RestOfPresses ==
  ASSUME calls \in Seq(AllCalls), calls # <<>>
  PROVE  /\ calls = <<Head(calls)>> \o Tail(calls)
         /\ Presses(Tail(calls)) \subseteq Presses(calls)
         /\ IsPress(Head(calls)) => Head(calls).control \in Presses(calls)
         /\ Head(calls).call \notin {"Release", "Overload"} =>
              (ReleaseDue <=> \E i \in DOMAIN Tail(calls) : Tail(calls)[i].call \in {"Release", "Overload"})
<1>1. \A i \in DOMAIN Tail(calls) : i + 1 \in DOMAIN calls /\ Tail(calls)[i] = calls[i + 1]
  BY RestOfCalls
<1>2. calls = <<Head(calls)>> \o Tail(calls)
  OBVIOUS
<1>3. 1 \in DOMAIN calls /\ Head(calls) = calls[1]
  OBVIOUS
<1>4. \A i \in DOMAIN calls : i # 1 => i - 1 \in DOMAIN Tail(calls) /\ calls[i] = Tail(calls)[i - 1]
  OBVIOUS
<1>5. Presses(Tail(calls)) \subseteq Presses(calls)
  BY <1>1 DEF Presses
<1>6. IsPress(Head(calls)) => Head(calls).control \in Presses(calls)
  BY <1>3 DEF Presses
<1>7. Head(calls).call \notin {"Release", "Overload"} =>
        (ReleaseDue <=> \E i \in DOMAIN Tail(calls) : Tail(calls)[i].call \in {"Release", "Overload"})
  BY <1>1, <1>3, <1>4 DEF ReleaseDue
<1> QED BY <1>2, <1>5, <1>6, <1>7

\* What the two inputs have in common.
Moved(d, c, isDown) ==
  /\ calls = <<>> /\ UNCHANGED <<main, queue, batch, claimed, pressed, leaked>>
  /\ known' = known \union {d}
  /\ routed \subseteq routed' /\ routed' \subseteq routed \union {Group[d]}
  /\ down' = [down EXCEPT ![d] = IF isDown THEN @ \union {c} ELSE @ \ {c}]
  /\ \A p \in BOOLEAN, x \in Controls :
       After(p, calls', x) = IF Group[d] \in routed' /\ x = c THEN isDown ELSE p
  /\ routed' = {} => calls' = <<>>

LEMMA KeyMoves ==
  ASSUME NEW d \in Devices, NEW k \in Keys, NEW isDown \in BOOLEAN, KeyInput(d, k, isDown)
  PROVE  Moved(d, k, isDown)
<1>1. calls = <<>> /\ UNCHANGED <<main, queue, batch, claimed, pressed, leaked>>
  BY DEF KeyInput, Handles, Idle, link, history
<1>2. /\ known' = known \union {d}
      /\ down' = [down EXCEPT ![d] = IF isDown THEN @ \union {k} ELSE @ \ {k}]
      /\ routed \subseteq routed' /\ routed' \subseteq routed \union {Group[d]}
  BY DEF KeyInput, Moves, RoutedAfter
<1>3. \A p \in BOOLEAN, x \in Controls :
        After(p, calls', x) = IF Group[d] \in routed' /\ x = k THEN isDown ELSE p
  BY AfterKeyInput
<1>4. routed' = {} => calls' = <<>>
  BY DEF KeyInput, RoutedAfter, ClaimCall, StopsAt
<1> QED BY <1>1, <1>2, <1>3, <1>4 DEF Moved

LEMMA MouseMoves ==
  ASSUME NEW d \in Devices, NEW moved \in BOOLEAN, NEW c \in Buttons, NEW isDown \in BOOLEAN,
         MouseInput(d, moved, c, isDown)
  PROVE  Moved(d, c, isDown)
<1>1. calls = <<>> /\ UNCHANGED <<main, queue, batch, claimed, pressed, leaked>>
  BY DEF MouseInput, Handles, Idle, link, history
<1>2. /\ known' = known \union {d}
      /\ down' = [down EXCEPT ![d] = IF isDown THEN @ \union {c} ELSE @ \ {c}]
      /\ routed \subseteq routed' /\ routed' \subseteq routed \union {Group[d]}
  BY DEF MouseInput, Moves, RoutedAfter
<1>3. \A p \in BOOLEAN, x \in Controls :
        After(p, calls', x) = IF Group[d] \in routed' /\ x = c THEN isDown ELSE p
  BY AfterMouseInput
<1>4. routed' = {} => calls' = <<>>
  BY DEF MouseInput, RoutedAfter, ClaimCall
<1> QED BY <1>1, <1>2, <1>3, <1>4 DEF Moved

LEMMA InputKeepsPresses ==
  ASSUME TypeInv, PressInv, Input
  PROVE  PressInv'
<1>1. PICK d \in Devices, c \in Controls, isDown \in BOOLEAN : Moved(d, c, isDown)
  BY KeyMoves, MouseMoves DEF Input, Controls
<1>2. /\ calls = <<>> /\ UNCHANGED <<main, queue, batch, claimed, pressed, leaked>>
      /\ known' = known \union {d}
      /\ routed \subseteq routed' /\ routed' \subseteq routed \union {Group[d]}
      /\ down' = [down EXCEPT ![d] = IF isDown THEN @ \union {c} ELSE @ \ {c}]
      /\ routed' = {} => calls' = <<>>
  BY <1>1 DEF Moved
<1>3. \A p \in BOOLEAN, x \in Controls :
        After(p, calls', x) = IF Group[d] \in routed' /\ x = c THEN isDown ELSE p
  BY <1>1 DEF Moved
<1>4. ~ReleaseDue
  BY <1>2 DEF ReleaseDue
<1>5. ASSUME routed' = {}, main # "notifying"
      PROVE  pressed' \union UnderWay' \subseteq leaked'
  <2>1. routed = {} /\ calls' = calls
    BY <1>2, <1>5
  <2>2. UnderWay' = UnderWay
    BY <1>2, <2>1 DEF UnderWay
  <2> QED BY <1>2, <1>4, <1>5, <2>1, <2>2 DEF PressInv
<1>6. ASSUME main = "loop", NEW x \in Controls,
             Final(x \in pressed', batch', queue', calls', x)
      PROVE  x \in HeldOnRouted' \union leaked'
  <2> DEFINE p == After(After(x \in pressed, batch, x), queue, x)
  <2>1. p \in BOOLEAN
    BY DEF After
  <2>2. After(p, calls', x)
    BY <1>2, <1>6 DEF Final
  <2>3. Final(x \in pressed, batch, queue, calls, x) <=> p
    <3>1. After(p, <<>>, x) = p
      BY <2>1, AfterNothing
    <3> QED BY <1>2, <3>1 DEF Final
  <2> HIDE DEF p
  <2>4. IF Group[d] \in routed' /\ x = c THEN isDown ELSE p
    BY <1>3, <2>1, <2>2
  <2>5. /\ down \in [Devices -> SUBSET Controls] /\ known \subseteq Devices
    BY DEF TypeInv, TypeOK
  <2>6. CASE Group[d] \in routed' /\ x = c
    <3>1. x \in down'[d] /\ d \in known'
      BY <1>2, <2>4, <2>5, <2>6
    <3> QED BY <2>6, <3>1 DEF HeldOnRouted
  <2>7. CASE ~(Group[d] \in routed' /\ x = c)
    <3>1. x \in HeldOnRouted \union leaked
      BY <1>4, <1>6, <2>3, <2>4, <2>7 DEF PressInv
    <3>2. ASSUME x \in HeldOnRouted PROVE x \in HeldOnRouted'
      <4>1. PICK e \in known : Group[e] \in routed /\ x \in down[e]
        BY <3>2 DEF HeldOnRouted
      <4>2. Group[e] \in routed' /\ e \in known'
        BY <1>2, <4>1
      <4>3. x \in down'[e]
        BY <1>2, <2>5, <2>7, <4>1, <4>2
      <4> QED BY <4>2, <4>3 DEF HeldOnRouted
    <3> QED BY <1>2, <3>1, <3>2
  <2> QED BY <2>6, <2>7
<1>7. ~claimed' => pressed' = {}
  BY <1>2 DEF PressInv
<1> QED BY <1>2, <1>5, <1>6, <1>7 DEF PressInv

LEMMA DeviceChangeKeepsPresses ==
  ASSUME TypeInv, PressInv, DeviceChange
  PROVE  PressInv'
<1>0. down \in [Devices -> SUBSET Controls] /\ known \subseteq Devices
  BY DEF TypeInv, TypeOK
<1>1. PICK d \in Devices : DeviceArrives(d) \/ DeviceRemoved(d)
  BY DEF DeviceChange
<1>2. CASE DeviceArrives(d)
  <2>1. /\ UNCHANGED <<routed, main, queue, batch, calls, claimed, pressed, leaked, down>>
        /\ known' = known \union {d}
    BY <1>2 DEF DeviceArrives, Handles, link, history
  <2>2. HeldOnRouted \subseteq HeldOnRouted'
    BY <2>1 DEF HeldOnRouted
  <2>3. UnderWay' = UnderWay /\ ReleaseDue' = ReleaseDue
    BY <2>1 DEF UnderWay, ReleaseDue
  <2> QED BY <2>1, <2>2, <2>3 DEF PressInv
<1>3. CASE DeviceRemoved(d)
  <2>1. /\ calls = <<>> /\ UNCHANGED <<main, queue, batch, claimed, pressed>>
        /\ known' = known \ {d} /\ routed' = Unrouted(d)
        /\ calls' = RemovalCalls(d)
        /\ down' = [down EXCEPT ![d] = {}]
        /\ leaked' = leaked \union (IF Group[d] \in routed THEN down[d] ELSE {})
    BY <1>3 DEF DeviceRemoved, Idle, link
  <2>2. ~ReleaseDue /\ (~claimed' => pressed' = {})
    BY <2>1 DEF ReleaseDue, PressInv
  <2>3. CASE routed # {} /\ routed' = {}
    <3>1. calls' = <<Call("Release")>>
      BY <2>1, <2>3 DEF RemovalCalls
    <3>2. 1 \in DOMAIN calls' /\ calls'[1].call = "Release"
      BY <3>1 DEF Call
    <3>3. ReleaseDue'
      BY <3>2 DEF ReleaseDue
    <3> QED BY <2>2, <3>3 DEF PressInv
  <2>4. CASE routed = {} \/ routed' # {}
    <3>1. calls' = calls
      BY <2>1, <2>4 DEF RemovalCalls
    <3>2. UnderWay' = UnderWay
      BY <2>1, <3>1 DEF UnderWay
    <3>3. routed' = {} => routed = {}
      BY <2>4
    <3>4. leaked \subseteq leaked'
      BY <2>1
    <3>5. ASSUME NEW x \in HeldOnRouted PROVE x \in HeldOnRouted' \union leaked'
      <4>1. PICK e \in known : Group[e] \in routed /\ x \in down[e]
        BY DEF HeldOnRouted
      <4>2. CASE e = d
        BY <2>1, <4>1, <4>2
      <4>3. CASE e # d
        <5>1. e \in known' /\ x \in down'[e]
          BY <1>0, <2>1, <4>1, <4>3
        <5>2. Group[e] \in routed'
          BY <2>1, <4>1, <4>3 DEF Unrouted, GroupGone
        <5> QED BY <5>1, <5>2 DEF HeldOnRouted
      <4> QED BY <4>2, <4>3
    <3> QED BY <2>1, <2>2, <3>1, <3>2, <3>3, <3>4, <3>5 DEF PressInv
  <2> QED BY <2>3, <2>4
<1> QED BY <1>1, <1>2, <1>3


\* What the events of a callback become in the queue, or need not become.
LEMMA MovedOn ==
  ASSUME TypeInv, calls # <<>>, NEW q,
         \/ q = queue /\ \A c : ~IsDownOf(Head(calls), c) /\ ~IsUpOf(Head(calls), c)
         \/ q = Append(queue, Head(calls)),
         NEW p \in BOOLEAN, NEW c
  PROVE  Final(p, batch, q, Tail(calls), c) = Final(p, batch, queue, calls, c)
<1> DEFINE e == Head(calls)
           b == After(p, batch, c)
<1>1. batch \in Seq(AllCalls) /\ queue \in Seq(AllCalls) /\ calls \in Seq(AllCalls)
  BY SequencesOfCalls
<1>2. e \in AllCalls /\ Tail(calls) \in Seq(AllCalls) /\ calls = <<e>> \o Tail(calls)
  BY <1>1, RestOfCalls, RestOfPresses
<1>3. <<e>> \in Seq(AllCalls)
  BY <1>2
<1>4. b \in BOOLEAN /\ After(b, queue, c) \in BOOLEAN
  BY AfterType
<1> HIDE DEF e, b
<1>5. After(After(b, queue, c), calls, c) = After(After(After(b, queue, c), <<e>>, c), Tail(calls), c)
  <2> DEFINE r == After(b, queue, c)
  <2>1. r \in BOOLEAN
    BY <1>4
  <2> HIDE DEF r
  <2>2. After(r, <<e>> \o Tail(calls), c) = After(After(r, <<e>>, c), Tail(calls), c)
    BY ZenonT(30), <1>2, <1>3, <2>1, AfterConcat
  <2> QED BY <1>2, <2>2 DEF r
<1>6. After(b, q, c) = After(After(b, queue, c), <<e>>, c)
  <2> DEFINE r == After(b, queue, c)
  <2>0. r \in BOOLEAN
    BY <1>4
  <2>1. After(r, <<e>>, c) = IF IsDownOf(e, c) THEN TRUE ELSE IF IsUpOf(e, c) THEN FALSE ELSE r
    <3> HIDE DEF r
    <3> QED BY <1>2, <2>0, AfterOne
  <2>2. CASE q = queue /\ \A x : ~IsDownOf(e, x) /\ ~IsUpOf(e, x)
    BY <2>1, <2>2
  <2>3. CASE q = Append(queue, e)
    <3>0. b \in BOOLEAN /\ queue \in Seq(AllCalls) /\ e \in AllCalls
      BY <1>1, <1>2, <1>4
    <3>1. After(b, Append(queue, e), c)
            = IF IsDownOf(e, c) THEN TRUE ELSE IF IsUpOf(e, c) THEN FALSE ELSE After(b, queue, c)
      BY <3>0, AfterAppend
    <3> QED BY <2>1, <2>3, <3>1
  <2> QED BY <2>2, <2>3 DEF e
<1> QED BY <1>5, <1>6 DEF Final, b

\* The presses under way are fewer when a callback has moved on.
LEMMA MovedOnPresses ==
  ASSUME TypeInv, calls # <<>>, NEW q, q = queue \/ q = Append(queue, Head(calls))
  PROVE  Presses(q) \union Presses(Tail(calls)) \subseteq Presses(queue) \union Presses(calls)
<1>1. calls \in Seq(AllCalls) /\ queue \in Seq(AllCalls)
  BY SequencesOfCalls
<1>2. Presses(Tail(calls)) \subseteq Presses(calls)
      /\ (IsPress(Head(calls)) => Head(calls).control \in Presses(calls))
  BY <1>1, RestOfPresses
<1>3. CASE q = Append(queue, Head(calls))
  <2> DEFINE e == Head(calls)
  <2>1. ASSUME NEW i \in DOMAIN q PROVE (i \in DOMAIN queue /\ q[i] = queue[i]) \/ q[i] = e
    <3> HIDE DEF e
    <3> QED BY <1>1, <1>3, <2>1 DEF e
  <2>2. Presses(q) \subseteq Presses(queue) \union Presses(calls)
    BY <1>2, <2>1 DEF Presses
  <2> QED BY <1>2, <2>2
<1> QED BY <1>2, <1>3

\* A callback that returns without having touched the page.
LEMMA ReturnKeepsPresses ==
  ASSUME TypeInv, PressInv, calls # <<>>, calls' = Tail(calls),
         UNCHANGED <<routed, main, known, down, pressed, leaked, batch>>, claimed => claimed',
         Head(calls).call \notin {"Release", "Overload"},
         \/ queue' = queue /\ \A c : ~IsDownOf(Head(calls), c) /\ ~IsUpOf(Head(calls), c)
         \/ queue' = Append(queue, Head(calls))
  PROVE  PressInv'
<1>1. calls \in Seq(AllCalls)
  BY SequencesOfCalls
<1>2. ReleaseDue' <=> ReleaseDue
  BY <1>1, RestOfPresses DEF ReleaseDue
<1>3. UnderWay' \subseteq UnderWay
  BY MovedOnPresses DEF UnderWay
<1>4. HeldOnRouted' = HeldOnRouted
  BY DEF HeldOnRouted
<1>5. ASSUME NEW c \in Controls, Final(c \in pressed', batch', queue', calls', c)
      PROVE  Final(c \in pressed, batch, queue, calls, c)
  <2> DEFINE p == c \in pressed
  <2>1. p \in BOOLEAN /\ Final(p, batch, queue', Tail(calls), c)
    BY <1>5
  <2> HIDE DEF p
  <2>2. Final(p, batch, queue', Tail(calls), c) = Final(p, batch, queue, calls, c)
    BY <2>1, MovedOn
  <2> QED BY <2>1, <2>2 DEF p
<1>6. ~claimed' => pressed' = {}
  BY DEF PressInv
<1>7. routed' = {} /\ ~ReleaseDue' /\ main' # "notifying" => pressed' \union UnderWay' \subseteq leaked'
  BY <1>2, <1>3 DEF PressInv
<1>8. main' = "loop" /\ ~ReleaseDue' =>
        \A c \in Controls :
          Final(c \in pressed', batch', queue', calls', c) => c \in HeldOnRouted' \union leaked'
  BY <1>2, <1>4, <1>5 DEF PressInv
<1> QED BY <1>6, <1>7, <1>8 DEF PressInv

LEMMA CallbackKeepsPresses ==
  ASSUME TypeInv, PressInv, TypeInv', Callback
  PROVE  PressInv'
<1>1. calls # <<>> /\ calls \in Seq(AllCalls)
      /\ UNCHANGED <<routed, main, known, down, batch>>
  BY SequencesOfCalls
     DEF Callback, CallClaim, CallRelease, CallEvent, CallOverload, CallStop, Calls, capture
<1>2. Presses(Tail(calls)) \subseteq Presses(calls)
  BY <1>1, RestOfPresses
<1>3. CASE CallClaim \/ CallStop
  <2>1. \A c : ~IsDownOf(Head(calls), c) /\ ~IsUpOf(Head(calls), c)
    BY <1>3 DEF CallClaim, CallStop, Calls, IsDownOf, IsUpOf, IsPress
  <2>2. Head(calls).call \notin {"Release", "Overload"} /\ calls' = Tail(calls) /\ queue' = queue
    BY <1>3 DEF CallClaim, CallStop, Calls, Returns
  <2>3. UNCHANGED <<pressed, leaked>> /\ (claimed => claimed')
    BY <1>3 DEF CallClaim, CallStop, ClaimRoute, link, history
  <2> QED BY <1>1, <2>1, <2>2, <2>3, ReturnKeepsPresses
<1>4. CASE CallRelease \/ CallOverload
  BY <1>1, <1>2, <1>4, ReleaseLeaks DEF CallRelease, CallOverload, Returns
<1>5. CASE CallEvent
  <2>1. PICK old \in BOOLEAN :
          /\ queue' = Pushed(queue, Head(calls), old)
          /\ IF Overloads(queue, Head(calls), old)
             THEN calls' = <<Call("Overload")>> \o Tail(calls)
             ELSE Returns
    BY <1>5 DEF CallEvent
  <2>2. UNCHANGED <<claimed, pressed, leaked>> /\ Head(calls).call = "Event"
    BY <1>5 DEF CallEvent, Calls, link, history
  <2>3. CASE Overloads(queue, Head(calls), old)
    <3>1. calls' = <<Call("Overload")>> \o Tail(calls)
      BY <2>1, <2>3
    <3>2. Tail(calls) \in Seq(AllCalls)
      BY <1>1
    <3>3. 1 \in DOMAIN calls' /\ calls'[1] = Call("Overload")
      BY <3>1, <3>2
    <3>4. ReleaseDue'
      BY <3>3 DEF ReleaseDue, Call
    <3> QED BY <2>2, <3>4 DEF PressInv
  <2>4. CASE ~Overloads(queue, Head(calls), old) /\ Merges(queue, Head(calls))
    <3>1. queue' = queue /\ calls' = Tail(calls)
      BY <2>1, <2>4 DEF Pushed, Returns
    <3>2. Head(calls).kind \in {"Move", "Wheel"}
      BY <2>4 DEF Merges, CanCoalesce, Motion
    <3>3. \A c : ~IsDownOf(Head(calls), c) /\ ~IsUpOf(Head(calls), c)
      BY <3>2 DEF IsDownOf, IsUpOf, IsPress
    <3> QED BY <1>1, <2>2, <3>1, <3>3, ReturnKeepsPresses
  <2>5. CASE ~Overloads(queue, Head(calls), old) /\ ~Merges(queue, Head(calls))
    <3>1. queue' = Append(queue, Head(calls)) /\ calls' = Tail(calls)
      BY <2>1, <2>5 DEF Pushed, Returns
    <3> QED BY <1>1, <2>2, <3>1, ReturnKeepsPresses
  <2> QED BY <2>3, <2>4, <2>5
<1> QED BY <1>3, <1>4, <1>5 DEF Callback

LEMMA TakeKeepsPresses ==
  ASSUME TypeInv, PressInv, Take
  PROVE  PressInv'
<1>1. /\ batch = <<>>
      /\ UNCHANGED <<routed, main, known, down, calls, claimed, pressed, leaked>>
  BY DEF Take, capture, link, history
<1>2. MaxBatch \in Nat \ {0}
  BY AgentCaptureAssumption
<1>3. queue \in Seq(EventCallsOf) /\ queue \in Seq(AllCalls) /\ Len(queue) \in Nat
  BY SequencesOfCalls, LenProperties DEF TypeInv
<1> DEFINE n == Taken
<1>4. n \in 0 .. Len(queue)
  BY <1>2, <1>3 DEF Taken
<1>5. batch' = SubSeq(queue, 1, n) /\ queue' = SubSeq(queue, n + 1, Len(queue))
  BY DEF Take
<1> HIDE DEF n
<1>6. batch' \in Seq(EventCallsOf) /\ Len(batch') = n
      /\ queue' \in Seq(EventCallsOf) /\ Len(queue') = Len(queue) - n
  BY <1>3, <1>4, <1>5, TakenProperties
<1>7. /\ \A i \in 1 .. n : batch'[i] = queue[i]
      /\ \A i \in 1 .. Len(queue) - n : queue'[i] = queue[n + i]
  BY <1>3, <1>4, <1>5
<1>8. queue = batch' \o queue'
  <2>1. batch' \o queue' \in Seq(EventCallsOf) /\ Len(batch' \o queue') = Len(queue)
    BY <1>3, <1>4, <1>6, ConcatProperties
  <2>2. \A i \in 1 .. Len(queue) : (batch' \o queue')[i] = queue[i]
    <3>1. ASSUME NEW i \in 1 .. Len(queue)
          PROVE  (batch' \o queue')[i] = queue[i]
      <4>1. (batch' \o queue')[i] = IF i <= n THEN batch'[i] ELSE queue'[i - n]
        BY <1>3, <1>4, <1>6, ConcatProperties
      <4>2. i <= n => batch'[i] = queue[i]
        BY <1>7
      <4>3. ~(i <= n) => i - n \in 1 .. Len(queue) - n /\ n + (i - n) = i
        BY <1>3, <1>4
      <4> QED BY <1>7, <4>1, <4>2, <4>3
    <3> QED BY <3>1
  <2> QED BY <1>3, <2>1, <2>2, SeqEqual
<1>9. batch' \in Seq(AllCalls) /\ queue' \in Seq(AllCalls)
  BY <1>6, SubSequences DEF AllCalls
<1>10. ReleaseDue' = ReleaseDue /\ HeldOnRouted' = HeldOnRouted
  BY <1>1 DEF ReleaseDue, HeldOnRouted
<1>11. UnderWay' \subseteq UnderWay
  <2>1. Presses(batch') \subseteq Presses(queue)
    <3>1. \A i \in DOMAIN batch' : i \in DOMAIN queue /\ batch'[i] = queue[i]
      BY <1>3, <1>4, <1>6, <1>7
    <3> QED BY <3>1 DEF Presses
  <2>2. Presses(queue') \subseteq Presses(queue)
    <3>1. \A i \in DOMAIN queue' : n + i \in DOMAIN queue /\ queue'[i] = queue[n + i]
      BY <1>3, <1>4, <1>6, <1>7
    <3> QED BY <3>1 DEF Presses
  <2> QED BY <1>1, <2>1, <2>2 DEF UnderWay
<1>12. ASSUME NEW c \in Controls, Final(c \in pressed', batch', queue', calls', c)
       PROVE  Final(c \in pressed, batch, queue, calls, c)
  <2> DEFINE p == c \in pressed
  <2>1. p \in BOOLEAN /\ Final(p, batch', queue', calls, c)
    BY <1>1, <1>12
  <2> HIDE DEF p
  <2>2. After(p, batch' \o queue', c) = After(After(p, batch', c), queue', c)
    BY <1>9, <2>1, AfterConcat
  <2>3. After(p, batch, c) = p
    BY <1>1, <2>1, AfterNothing
  <2>4. Final(p, batch, queue, calls, c)
    BY <1>8, <2>1, <2>2, <2>3 DEF Final
  <2> QED BY <2>4 DEF p
<1> QED BY <1>1, <1>10, <1>11, <1>12 DEF PressInv

LEMMA SendKeepsPresses ==
  ASSUME TypeInv, PressInv, Send
  PROVE  PressInv'
<1>1. /\ batch' = <<>> /\ pressed' = IF claimed THEN Applied(pressed, batch) ELSE pressed
      /\ UNCHANGED <<routed, main, known, down, calls, queue, claimed, leaked>>
  BY DEF Send, capture, history
<1>2. batch \in Seq(EventCallsOf) /\ batch \in Seq(AllCalls) /\ pressed \in SUBSET Controls
  BY SequencesOfCalls DEF TypeInv, TypeOK
<1>3. ReleaseDue' = ReleaseDue /\ HeldOnRouted' = HeldOnRouted
  BY <1>1 DEF ReleaseDue, HeldOnRouted
<1>4. ~claimed' => pressed' = {}
  BY <1>1 DEF PressInv
<1>5. ASSUME NEW c \in pressed' PROVE After(c \in pressed, batch, c)
  <2>1. claimed
    BY <1>1, <1>4, <1>5
  <2> QED BY <1>1, <1>2, <1>5, <2>1, AppliedIsAfter
<1>6. pressed' \subseteq pressed \union Presses(batch)
  <2>1. ASSUME NEW c \in pressed' PROVE c \in pressed \union Presses(batch)
    <3> DEFINE p == c \in pressed
    <3>1. p \in BOOLEAN /\ After(p, batch, c)
      BY <1>5
    <3> HIDE DEF p
    <3>2. p \/ c \in Presses(batch)
      BY <1>2, <3>1, AfterPresses
    <3> QED BY <3>2 DEF p
  <2> QED BY <2>1
<1>7. pressed' \union UnderWay' \subseteq pressed \union UnderWay
  <2>1. Presses(<<>>) = {}
    BY DEF Presses
  <2> QED BY <1>1, <1>6, <2>1 DEF UnderWay
<1>8. ASSUME NEW c \in Controls, Final(c \in pressed', batch', queue', calls', c)
      PROVE  Final(c \in pressed, batch, queue, calls, c)
  <2> DEFINE p == c \in pressed'
             r == After(c \in pressed, batch, c)
  <2>1. p \in BOOLEAN /\ r \in BOOLEAN /\ (p => r)
    BY <1>5 DEF After
  <2>2. Final(p, <<>>, queue, calls, c)
    BY <1>1, <1>8
  <2>3. Final(r, <<>>, queue, calls, c) => Final(c \in pressed, batch, queue, calls, c)
    <3>1. After(r, <<>>, c) = r
      <4> HIDE DEF r
      <4> QED BY <2>1, AfterNothing
    <3> QED BY <3>1 DEF Final
  <2> HIDE DEF p, r
  <2> QED BY <2>1, <2>2, <2>3, FinalIsMonotone
<1> QED BY <1>1, <1>3, <1>4, <1>7, <1>8 DEF PressInv

LEMMA MainKeepsPresses ==
  ASSUME TypeInv, PressInv, TypeInv', Console \/ UnrouteAll \/ Notify \/ Shutdown \/ UNCHANGED vars
  PROVE  PressInv'
<1>1. CASE UNCHANGED vars \/ \E kind \in {"none", "keyboard", "mouse"} : Arm(kind)
  <2>1. UNCHANGED <<routed, main, known, down, calls, queue, batch, claimed, pressed, leaked>>
    BY <1>1 DEF Arm, vars, capture, link, history
  <2>2. UnderWay' = UnderWay /\ ReleaseDue' = ReleaseDue /\ HeldOnRouted' = HeldOnRouted
    BY <2>1 DEF UnderWay, ReleaseDue, HeldOnRouted
  <2> QED BY <2>1, <2>2 DEF PressInv
<1>2. CASE Revoke \/ SenderEnds
  <2>1. /\ UNCHANGED <<routed, calls, batch, claimed, pressed, leaked>> /\ queue' = <<>>
        /\ main # "notifying" /\ main' \notin {"loop", "notifying"}
    BY <1>2 DEF Revoke, AtLoop, SenderEnds, capture, link, history
  <2>2. Presses(<<>>) = {}
    BY DEF Presses
  <2>3. UnderWay' \subseteq UnderWay /\ ReleaseDue' = ReleaseDue
    BY <2>1, <2>2 DEF UnderWay, ReleaseDue
  <2> QED BY <2>1, <2>3 DEF PressInv
<1>3. CASE StopCapture \/ CaptureEnds
  <2>1. /\ UNCHANGED <<routed, calls, batch, queue, claimed, pressed, leaked>>
        /\ main # "notifying" /\ main' \notin {"loop", "notifying"}
    BY <1>3 DEF StopCapture, CaptureEnds, capture, link, history
  <2>2. UnderWay' = UnderWay /\ ReleaseDue' = ReleaseDue
    BY <2>1 DEF UnderWay, ReleaseDue
  <2> QED BY <2>1, <2>2 DEF PressInv
<1>4. CASE UnrouteAll
  <2>1. /\ UNCHANGED <<calls, batch, queue, claimed, pressed, leaked>>
        /\ main = "revoking" /\ main' = IF routed # {} THEN "notifying" ELSE "loop"
    BY <1>4 DEF UnrouteAll, link, history
  <2>2. UnderWay' = UnderWay /\ ReleaseDue' = ReleaseDue
    BY <2>1 DEF UnderWay, ReleaseDue
  <2>3. CASE routed # {} \/ ReleaseDue
    BY <2>1, <2>2, <2>3 DEF PressInv
  <2>4. CASE routed = {} /\ ~ReleaseDue
    BY <2>1, <2>2, <2>4, LeakedIsEnough DEF PressInv
  <2> QED BY <2>3, <2>4
<1>5. CASE Notify \/ FinalRelease
  BY <1>5, ReleaseLeaks DEF Notify, FinalRelease
<1> QED BY <1>1, <1>2, <1>3, <1>4, <1>5 DEF Console, Shutdown

\* When nothing is under way, what the page sees pressed through the route is
\* held down on a device of a routed group, but for the two exceptions the
\* property names: for any devices, groups, controls, batch and queue, and
\* however overloads, revocations and bindings fall.
THEOREM NoKeyIsLeftPressed == Spec => []NoKeyLeftPressed
<1>1. Init => PressInv
  <2> SUFFICES ASSUME Init PROVE PressInv
    OBVIOUS
  <2>1. /\ pressed = {} /\ batch = <<>> /\ queue = <<>> /\ calls = <<>>
    BY DEF Init
  <2>2. UnderWay = {}
    BY <2>1 DEF UnderWay, Presses
  <2>3. \A c \in Controls : ~Final(c \in pressed, batch, queue, calls, c)
    <3>1. \A c : ~Final(FALSE, <<>>, <<>>, <<>>, c)
      BY AfterNothing DEF Final
    <3>2. \A c : (c \in pressed) = FALSE
      BY <2>1
    <3>3. ASSUME NEW c PROVE ~Final(c \in pressed, batch, queue, calls, c)
      <4> DEFINE p == c \in pressed
      <4>1. p = FALSE
        BY <3>2
      <4> HIDE DEF p
      <4>2. ~Final(p, batch, queue, calls, c)
        BY <2>1, <3>1, <4>1
      <4> QED BY <4>2 DEF p
    <3> QED BY <3>3
  <2> QED BY <2>1, <2>2, <2>3 DEF PressInv
<1>2. TypeInv /\ PressInv /\ TypeInv' /\ [Next]_vars => PressInv'
  BY InputKeepsPresses, DeviceChangeKeepsPresses, CallbackKeepsPresses, TakeKeepsPresses,
     SendKeepsPresses, MainKeepsPresses DEF Next, Sender
<1>3. TypeInv /\ PressInv /\ ShutdownInv => NoKeyLeftPressed
  <2> SUFFICES ASSUME TypeInv, PressInv, ShutdownInv, Quiet PROVE pressed \subseteq HeldOnRouted \union leaked
    BY DEF NoKeyLeftPressed
  <2>1. CASE main = "over"
    BY <2>1 DEF ShutdownInv
  <2>2. CASE main # "over"
    <3>1. calls = <<>> /\ queue = <<>> /\ batch = <<>> /\ main = "loop"
      BY <2>2 DEF Quiet
    <3>2. ~ReleaseDue
      BY <3>1 DEF ReleaseDue
    <3>3. \A c \in Controls : Final(TRUE, <<>>, <<>>, <<>>, c)
      BY AfterNothing DEF Final
    <3>4. ASSUME NEW c \in pressed PROVE c \in HeldOnRouted \union leaked
      <4>1. c \in Controls /\ (c \in pressed) = TRUE
        BY <3>4 DEF TypeInv, TypeOK
      <4>2. Final(c \in pressed, batch, queue, calls, c)
        BY <3>1, <3>3, <4>1
      <4> QED BY <3>1, <3>2, <4>1, <4>2 DEF PressInv
    <3> QED BY <3>4
  <2> QED BY <2>1, <2>2
<1>4. Init => ShutdownInv
  BY DEF Init, ShutdownInv
<1> QED BY <1>1, <1>2, <1>3, <1>4, TypesHold, ShutdownStep, PTL DEF Spec

=============================================================================
