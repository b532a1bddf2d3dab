-------------------------- MODULE LayoutControl_proofs --------------------------
(***************************************************************************)
(* What holds of the layout's way to the window for any number of changes, *)
(* broken connections and queued writes: types, that a session is only     *)
(* forgotten after it was closed, and that the window never goes back.     *)
(***************************************************************************)
EXTENDS LayoutControl, SequenceTheorems, TLAPS

\* Everything but the layouts and messages.
PlainTypes ==
  /\ revision \in Nat /\ flushScheduled \in BOOLEAN
  /\ socket \in {"none", "waiting", "joined", "open"} /\ breaks \in 0 .. MaxBreaks
  /\ joined \in BOOLEAN
  /\ session \in {"none", "handshake", "open"} /\ closed \in BOOLEAN
  /\ writes \in 0 .. MaxWrites
  /\ aborted \in Nat /\ resets \in Nat
DataTypes ==
  /\ layout \in Layouts /\ displayed \in Layouts
  /\ inbox \in Seq(Snapshot) /\ late \in Seq(Snapshot)
  /\ window \in Seq(Layouts) /\ lastRevision \in Nat

LEMMA TypeHalves ==
  /\ TypeOK <=> PlainTypes /\ DataTypes
  /\ TypeOK' <=> PlainTypes' /\ DataTypes'
BY DEF TypeOK, PlainTypes, DataTypes

-----------------------------------------------------------------------------
(***************************************************************************)
(* Lemmas about sequences.                                                 *)
(***************************************************************************)

LEMMA PrefixOfSeq ==
  ASSUME NEW S, NEW s \in Seq(S), NEW n \in 0 .. Len(s)
  PROVE  /\ SubSeq(s, 1, n) \in Seq(S)
         /\ Len(SubSeq(s, 1, n)) = n
         /\ \A i \in 1 .. n : SubSeq(s, 1, n)[i] = s[i]
<1>1. Len(s) \in Nat /\ n \in Int /\ 1 \in Int /\ \A i \in 1 .. n : s[i] \in S
  BY LenProperties, ElementOfSeq
<1>2. /\ SubSeq(s, 1, n) \in Seq(S)
      /\ Len(SubSeq(s, 1, n)) = IF 1 <= n THEN n - 1 + 1 ELSE 0
      /\ \A i \in 1 .. n - 1 + 1 : SubSeq(s, 1, n)[i] = s[1 + i - 1]
  BY <1>1, SubSeqProperties
<1>3. Len(SubSeq(s, 1, n)) = n
  BY <1>1, <1>2
<1>4. \A i \in 1 .. n : SubSeq(s, 1, n)[i] = s[i]
  BY <1>1, <1>2
<1> QED BY <1>2, <1>3, <1>4

LEMMA TailOfSeq ==
  ASSUME NEW S, NEW s \in Seq(S), s # <<>>
  PROVE  /\ Tail(s) \in Seq(S) /\ Head(s) \in S /\ Head(s) = s[1]
         /\ Len(s) \in Nat \ {0} /\ Len(Tail(s)) = Len(s) - 1
         /\ \A i \in 1 .. Len(Tail(s)) : Tail(s)[i] = s[i + 1]
<1>1. Len(s) \in Nat \ {0}
  BY EmptySeq
<1>2. /\ Tail(s) \in Seq(S) /\ Head(s) \in S
      /\ Len(Tail(s)) = Len(s) - 1
      /\ \A i \in 1 .. Len(Tail(s)) : Tail(s)[i] = s[i + 1]
  BY <1>1, HeadTailProperties
<1>3. Head(s) = s[1]
  BY <1>1
<1> QED BY <1>1, <1>2, <1>3

LEMMA AppendToSeq ==
  ASSUME NEW S, NEW s \in Seq(S), NEW e \in S
  PROVE  /\ Append(s, e) \in Seq(S) /\ Len(s) \in Nat
         /\ Len(Append(s, e)) = Len(s) + 1
         /\ Append(s, e)[Len(s) + 1] = e
         /\ \A i \in 1 .. Len(s) : Append(s, e)[i] = s[i]
OBVIOUS

-----------------------------------------------------------------------------
(***************************************************************************)
(* The inductive invariant.                                                *)
(***************************************************************************)

\* The layout posted to the window last.
Posted == IF window = <<>> THEN displayed ELSE window[Len(window)]

\* Messages in the order of the changes, between two layouts.
Between(low, s, high) ==
  /\ \A i \in 1 .. Len(s) : low <= s[i].layout /\ s[i].layout <= high
  /\ \A i, j \in 1 .. Len(s) : i <= j => s[i].layout <= s[j].layout

WindowInOrder ==
  /\ \A i \in 1 .. Len(window) : displayed <= window[i]
  /\ \A i, j \in 1 .. Len(window) : i <= j => window[i] <= window[j]
  /\ Posted <= layout

\* A message whose read was done when its session closed is the only one
\* under way, until that session is forgotten.
LateIsAlone ==
  late # <<>> => Len(late) = 1 /\ inbox = <<>> /\ ~joined /\ session # "none"

InOrder ==
  /\ WindowInOrder
  /\ Between(Posted, inbox, layout)
  /\ Between(Posted, late, layout)
  /\ LateIsAlone

ClosedIsReset == resets = IF session # "none" /\ closed THEN 1 ELSE 0

IInv == TypeOK /\ ClosedIsReset /\ InOrder

-----------------------------------------------------------------------------
(***************************************************************************)
(* Types.                                                                  *)
(***************************************************************************)

LEMMA SnapshotTypes ==
  /\ \A m \in Snapshot : /\ m.revision \in Nat \ {0} /\ m.layout \in Layouts
                         /\ m.revision \in Nat /\ m.layout \in Int
  /\ \A r \in Nat, l \in Layouts : [revision |-> r + 1, layout |-> l] \in Snapshot
  /\ Layouts \subseteq Nat /\ Layouts \subseteq Int
<1> USE LayoutControlAssumption
<1>1. Layouts \subseteq Nat /\ Layouts \subseteq Int
  BY DEF Layouts
<1>2. \A m \in Snapshot : m.revision \in Nat \ {0} /\ m.layout \in Layouts
  BY DEF Snapshot
<1>3. \A r \in Nat, l \in Layouts : [revision |-> r + 1, layout |-> l] \in Snapshot
  <2>1. \A r \in Nat : r + 1 \in Nat \ {0}
    OBVIOUS
  <2> QED BY <2>1 DEF Snapshot
<1> QED BY <1>1, <1>2, <1>3

LEMMA PartedTypes ==
  ASSUME DataTypes, Parted
  PROVE  joined' = FALSE /\ inbox' \in Seq(Snapshot)
<1>1. PICK n \in 0 .. Len(inbox) : inbox' = SubSeq(inbox, 1, n)
  BY DEF Parted
<1>2. inbox \in Seq(Snapshot)
  BY DEF DataTypes
<1>3. SubSeq(inbox, 1, n) \in Seq(Snapshot)
  BY <1>2, PrefixOfSeq
<1> QED BY <1>1, <1>3 DEF Parted

LEMMA DeliverTypes ==
  ASSUME DataTypes, NEW m \in Snapshot, Deliver(m)
  PROVE  lastRevision' \in Nat /\ window' \in Seq(Layouts)
<1>1. m.revision \in Nat /\ m.layout \in Layouts
  BY SnapshotTypes
<1>2. window \in Seq(Layouts) /\ lastRevision \in Nat
  BY DEF DataTypes
<1>3. Append(window, m.layout) \in Seq(Layouts)
  BY <1>1, <1>2, AppendToSeq
<1> QED BY <1>1, <1>2, <1>3 DEF Deliver

LEMMA CloseTypes ==
  ASSUME PlainTypes, NEW n \in Nat, NEW unread \in Seq(Snapshot),
         Close(n, unread)
  PROVE  /\ closed' \in BOOLEAN /\ session' = session
         /\ resets' = resets + 1 /\ resets' \in Nat /\ aborted' \in Nat
         /\ late' = unread /\ late' \in Seq(Snapshot)
         /\ joined' = FALSE
         /\ inbox' = <<>> /\ inbox' \in Seq(Snapshot)
<1>1. resets + 1 \in Nat /\ aborted + n \in Nat
  BY DEF PlainTypes
<1>2. <<>> \in Seq(Snapshot)
  OBVIOUS
<1> QED BY <1>1, <1>2 DEF Close

LEMMA InitTypes == Init => TypeOK
<1> SUFFICES ASSUME Init PROVE TypeOK
  OBVIOUS
<1> USE LayoutControlAssumption
<1>1. DataTypes
  <2>1. 0 \in Layouts
    BY DEF Layouts
  <2> QED BY <2>1 DEF Init, DataTypes
<1>2. PlainTypes
  <2>1. 0 \in 0 .. MaxBreaks /\ 0 \in 0 .. MaxWrites
    OBVIOUS
  <2> QED BY <2>1 DEF Init, PlainTypes
<1> QED BY <1>1, <1>2, TypeHalves

LEMMA PageTypes ==
  ASSUME TypeOK, PageStep \/ Disturbance
  PROVE  TypeOK'
<1> USE LayoutControlAssumption DEF vars, pageVars, connectionVars, sessionVars,
                                    handlerVars, windowVars
<1>1. PlainTypes /\ DataTypes
  BY TypeHalves
<1>2. CASE Flush
  <2>1. revision + 1 \in Nat /\ [revision |-> revision + 1, layout |-> layout] \in Snapshot
    BY <1>1, SnapshotTypes DEF PlainTypes, DataTypes
  <2>2. inbox' \in Seq(Snapshot)
    BY <1>1, <1>2, <2>1, AppendToSeq DEF Flush, DataTypes
  <2>3. DataTypes'
    BY <1>1, <1>2, <2>2 DEF Flush, DataTypes
  <2>4. PlainTypes'
    BY <1>1, <1>2, <2>1 DEF Flush, PlainTypes
  <2> QED BY <2>3, <2>4, TypeHalves
<1>3. CASE SocketOpens \/ SocketCloses \/ Reconnect
  <2>1. DataTypes'
    BY <1>1, <1>3 DEF SocketOpens, SocketCloses, Reconnect, DataTypes
  <2>2. PlainTypes'
    BY <1>1, <1>3 DEF SocketOpens, SocketCloses, Reconnect, PlainTypes
  <2> QED BY <2>1, <2>2, TypeHalves
<1>4. CASE ChangeLayout \/ Reload
  <2>1. layout' \in Layouts
    BY <1>1, <1>4 DEF ChangeLayout, Reload, DataTypes, Layouts
  <2>2. inbox' \in Seq(Snapshot) /\ joined' \in BOOLEAN
    BY <1>1, <1>4, PartedTypes DEF ChangeLayout, Reload, DataTypes, PlainTypes
  <2>3. DataTypes'
    BY <1>1, <1>4, <2>1, <2>2 DEF ChangeLayout, Reload, DataTypes
  <2>4. PlainTypes'
    <3>1. CASE ChangeLayout
      BY <1>1, <2>2, <3>1 DEF ChangeLayout, PlainTypes
    <3>2. CASE Reload
      BY <1>1, <2>2, <3>2 DEF Reload, PlainTypes
    <3> QED BY <1>4, <3>1, <3>2
  <2> QED BY <2>3, <2>4, TypeHalves
<1>5. CASE ConnectionBreaks
  <2>1. breaks' \in 0 .. MaxBreaks
    BY <1>1, <1>5 DEF ConnectionBreaks, PlainTypes
  <2>2. inbox' \in Seq(Snapshot) /\ joined' = FALSE
    BY <1>1, <1>5, PartedTypes DEF ConnectionBreaks
  <2>3. DataTypes'
    BY <1>1, <1>5, <2>2 DEF ConnectionBreaks, DataTypes
  <2>4. PlainTypes'
    BY <1>1, <1>5, <2>1, <2>2 DEF ConnectionBreaks, PlainTypes
  <2> QED BY <2>3, <2>4, TypeHalves
<1> QED BY <1>2, <1>3, <1>4, <1>5 DEF PageStep, Disturbance

LEMMA ServerTypes ==
  ASSUME TypeOK, Accept \/ Handshake \/ Receive \/ Write
  PROVE  TypeOK'
<1> USE LayoutControlAssumption DEF vars, pageVars, connectionVars, sessionVars,
                                    handlerVars, windowVars
<1>1. PlainTypes /\ DataTypes
  BY TypeHalves
<1>2. <<>> \in Seq(Snapshot)
  OBVIOUS
<1>3. 0 \in 0 .. MaxWrites /\ 1 \in 0 .. MaxWrites
  OBVIOUS
<1>4. CASE Accept
  <2>1. DataTypes'
    <3>1. CASE AcceptRefused
      BY <1>1, <3>1 DEF AcceptRefused, DataTypes
    <3>2. CASE AcceptNew
      BY <1>1, <1>2, <3>2 DEF AcceptNew, DataTypes
    <3> QED BY <1>4, <3>1, <3>2 DEF Accept
  <2>2. PlainTypes'
    BY <1>1, <1>3, <1>4 DEF Accept, AcceptRefused, AcceptNew, PlainTypes
  <2> QED BY <2>1, <2>2, TypeHalves
<1>5. CASE HandshakeDone \/ WriteDone
  <2>1. writes' \in 0 .. MaxWrites
    BY <1>1, <1>3, <1>5 DEF HandshakeDone, WriteDone, PlainTypes
  <2>2. DataTypes'
    BY <1>1, <1>5 DEF HandshakeDone, WriteDone, DataTypes
  <2>3. PlainTypes'
    BY <1>1, <1>5, <2>1 DEF HandshakeDone, WriteDone, PlainTypes
  <2> QED BY <2>2, <2>3, TypeHalves
<1>6. CASE HandshakeFails \/ ReadFails \/ WriteFails
  <2>1. \E n \in Nat, unread \in Seq(Snapshot) : Close(n, unread)
    <3>1. CASE HandshakeFails
      BY <1>2, <3>1 DEF HandshakeFails
    <3>2. CASE ReadFails
      <4>1. (IF writes > 0 THEN 1 ELSE 0) \in Nat
        OBVIOUS
      <4> QED BY <1>2, <3>2, <4>1 DEF ReadFails
    <3>3. CASE WriteFails
      <4>1. PICK n \in {0, 1} : n <= Len(inbox) /\ Close(1, SubSeq(inbox, 1, n))
        BY <3>3 DEF WriteFails
      <4>2. inbox \in Seq(Snapshot) /\ Len(inbox) \in Nat
        BY <1>1, LenProperties DEF DataTypes
      <4>3. n \in 0 .. Len(inbox)
        BY <4>1, <4>2
      <4>4. SubSeq(inbox, 1, n) \in Seq(Snapshot)
        BY <4>2, <4>3, PrefixOfSeq
      <4> QED BY <4>1, <4>4
    <3> QED BY <1>6, <3>1, <3>2, <3>3
  <2>2. /\ closed' \in BOOLEAN /\ session' = session
        /\ resets' \in Nat /\ aborted' \in Nat /\ late' \in Seq(Snapshot)
        /\ joined' = FALSE /\ inbox' \in Seq(Snapshot)
    BY <1>1, <2>1, CloseTypes
  <2>3. UNCHANGED <<pageVars, lastRevision, writes, windowVars>>
    BY <1>6 DEF HandshakeFails, ReadFails, WriteFails
  <2>4. DataTypes'
    BY <1>1, <2>2, <2>3 DEF DataTypes
  <2>5. PlainTypes'
    BY <1>1, <2>2, <2>3 DEF PlainTypes
  <2> QED BY <2>4, <2>5, TypeHalves
<1>7. CASE Read
  <2>1. inbox \in Seq(Snapshot) /\ Head(inbox) \in Snapshot /\ Tail(inbox) \in Seq(Snapshot)
    BY <1>1, <1>7, TailOfSeq DEF Read, DataTypes
  <2>2. lastRevision' \in Nat /\ window' \in Seq(Layouts)
    BY <1>1, <1>7, <2>1, DeliverTypes DEF Read
  <2>3. UNCHANGED <<pageVars, displayed>>
    BY <1>7 DEF Read
  <2>4. CASE QueueFull
    <3>1. Close(2, <<>>) /\ UNCHANGED writes
      BY <1>7, <2>4 DEF Read
    <3>2. /\ closed' \in BOOLEAN /\ session' = session
          /\ resets' \in Nat /\ aborted' \in Nat /\ late' \in Seq(Snapshot)
          /\ joined' = FALSE /\ inbox' \in Seq(Snapshot)
      BY <1>1, <1>2, <3>1, CloseTypes
    <3>3. DataTypes'
      BY <1>1, <2>2, <2>3, <3>2 DEF DataTypes
    <3>4. PlainTypes'
      BY <1>1, <2>3, <3>1, <3>2 DEF PlainTypes
    <3> QED BY <3>3, <3>4, TypeHalves
  <2>5. CASE ~QueueFull
    <3>1. /\ writes' = writes + 1 /\ inbox' = Tail(inbox)
          /\ UNCHANGED <<joined, session, closed, handlerVars>>
      BY <1>7, <2>5 DEF Read
    <3>2. writes' \in 0 .. MaxWrites
      BY <1>1, <2>5, <3>1 DEF PlainTypes, QueueFull
    <3>3. DataTypes'
      BY <1>1, <2>1, <2>2, <2>3, <3>1 DEF DataTypes
    <3>4. PlainTypes'
      BY <1>1, <2>3, <3>1, <3>2 DEF PlainTypes
    <3> QED BY <3>3, <3>4, TypeHalves
  <2> QED BY <2>4, <2>5
<1> QED BY <1>4, <1>5, <1>6, <1>7 DEF Accept, Handshake, Receive, Write

LEMMA ClosingTypes ==
  ASSUME TypeOK, Closing \/ ApplyLayout \/ UNCHANGED vars
  PROVE  TypeOK'
<1> USE LayoutControlAssumption DEF vars, pageVars, connectionVars, sessionVars,
                                    handlerVars, windowVars
<1>1. PlainTypes /\ DataTypes
  BY TypeHalves
<1>2. CASE LateRead
  <2>1. Head(late) \in Snapshot
    BY <1>1, <1>2, TailOfSeq DEF LateRead, DataTypes
  <2>2. lastRevision' \in Nat /\ window' \in Seq(Layouts)
    BY <1>1, <1>2, <2>1, DeliverTypes DEF LateRead
  <2>3. DataTypes'
    BY <1>1, <1>2, <2>2 DEF LateRead, DataTypes
  <2>4. PlainTypes'
    BY <1>1, <1>2 DEF LateRead, PlainTypes
  <2> QED BY <2>3, <2>4, TypeHalves
<1>3. CASE HandlerAborted \/ ForgetSession
  <2>1. aborted' \in Nat /\ resets' \in Nat
    BY <1>1, <1>3 DEF HandlerAborted, CloseAgain, ForgetSession, PlainTypes
  <2>2. DataTypes'
    BY <1>1, <1>3 DEF HandlerAborted, ForgetSession, DataTypes
  <2>3. PlainTypes'
    BY <1>1, <1>3, <2>1 DEF HandlerAborted, ForgetSession, PlainTypes
  <2> QED BY <2>2, <2>3, TypeHalves
<1>4. CASE ApplyLayout
  <2>1. Head(window) \in Layouts /\ Tail(window) \in Seq(Layouts)
    BY <1>1, <1>4, TailOfSeq DEF ApplyLayout, DataTypes
  <2>2. DataTypes'
    BY <1>1, <1>4, <2>1 DEF ApplyLayout, DataTypes
  <2>3. PlainTypes'
    BY <1>1, <1>4 DEF ApplyLayout, PlainTypes
  <2> QED BY <2>2, <2>3, TypeHalves
<1>5. CASE UNCHANGED vars
  <2>1. DataTypes'
    BY <1>1, <1>5 DEF DataTypes
  <2>2. PlainTypes'
    BY <1>1, <1>5 DEF PlainTypes
  <2> QED BY <2>1, <2>2, TypeHalves
<1> QED BY <1>2, <1>3, <1>4, <1>5 DEF Closing

LEMMA TypeStep == TypeOK /\ [Next]_vars => TypeOK'
BY PageTypes, ServerTypes, ClosingTypes DEF Next

\* TypeOK of LayoutControl: every variable keeps to its type.
THEOREM TypeCorrect == Spec => []TypeOK
BY InitTypes, TypeStep, PTL DEF Spec

-----------------------------------------------------------------------------
(***************************************************************************)
(* A task that resets session_ finds the session that posted it.           *)
(***************************************************************************)

\* Only a session that serves is closed, and it has posted no task before.
LEMMA ClosedStep ==
  ASSUME TypeOK, LateIsAlone, ClosedIsReset, [Next]_vars
  PROVE  ClosedIsReset'
<1> USE DEF pageVars, connectionVars, sessionVars, handlerVars, windowVars
<1>1. CASE UNCHANGED <<session, closed, resets>>
  BY <1>1 DEF ClosedIsReset
<1>2. ASSUME NEW n, NEW unread, Close(n, unread),
             session # "none", ~closed, resets \in Nat
      PROVE  ClosedIsReset'
  <2>1. resets = 0
    BY <1>2 DEF ClosedIsReset
  <2>2. resets' = 1 /\ closed' /\ session' = session
    BY <1>2, <2>1 DEF Close
  <2> QED BY <1>2, <2>2 DEF ClosedIsReset
<1>3. resets \in Nat
  BY DEF TypeOK
<1>4. CASE HandshakeFails \/ ReadFails \/ WriteFails \/ (Read /\ QueueFull)
  <2>1. session # "none" /\ ~closed
    BY <1>4 DEF HandshakeFails, ReadFails, WriteFails, Read, Serving
  <2>2. \E n, unread : Close(n, unread)
    BY <1>4 DEF HandshakeFails, ReadFails, WriteFails, Read
  <2> QED BY <1>2, <1>3, <2>1, <2>2
<1>5. CASE AcceptNew
  <2>1. session = "none" /\ ~closed' /\ resets' = resets
    BY <1>5 DEF AcceptNew
  <2> QED BY <2>1 DEF ClosedIsReset
<1>6. CASE HandshakeDone
  <2>1. session # "none" /\ session' # "none" /\ closed' = closed /\ resets' = resets
    BY <1>6 DEF HandshakeDone, Serving
  <2> QED BY <2>1 DEF ClosedIsReset
<1>7. CASE ForgetSession
  <2>1. resets = 1
    BY <1>3, <1>7 DEF ForgetSession, ClosedIsReset
  <2>2. resets' = 0 /\ session' = "none"
    BY <1>7, <2>1 DEF ForgetSession
  <2> QED BY <2>2 DEF ClosedIsReset
<1>8. CASE PageStep \/ Disturbance
  BY <1>1, <1>8 DEF PageStep, Flush, SocketOpens, SocketCloses, Reconnect,
                    Disturbance, ChangeLayout, Reload, ConnectionBreaks
<1>9. CASE AcceptRefused \/ (Read /\ ~QueueFull) \/ WriteDone
  BY <1>1, <1>9 DEF AcceptRefused, Read, WriteDone
<1>10. CASE LateRead \/ HandlerAborted
  BY <1>1, <1>10 DEF LateRead, HandlerAborted, CloseAgain
<1>11. CASE ApplyLayout
  BY <1>1, <1>11 DEF ApplyLayout
<1>12. CASE UNCHANGED vars
  BY <1>1, <1>12 DEF vars
<1>13. CASE Accept \/ Handshake \/ Write
  BY <1>4, <1>5, <1>6, <1>9, <1>13 DEF Accept, Handshake, Write
<1>14. CASE Receive \/ Closing
  BY <1>4, <1>7, <1>9, <1>10, <1>14 DEF Receive, Closing
<1> QED BY <1>8, <1>11, <1>12, <1>13, <1>14 DEF Next

-----------------------------------------------------------------------------
(***************************************************************************)
(* The window never goes back: what is under way is in the order of the    *)
(* changes, over reloads, broken connections and late reads.               *)
(***************************************************************************)

LEMMA SnapshotsHaveLayouts ==
  ASSUME NEW s \in Seq(Snapshot)
  PROVE  Len(s) \in Nat /\ \A i \in 1 .. Len(s) : s[i].layout \in Int
BY LenProperties, ElementOfSeq, SnapshotTypes

\* Messages that are lost or read leave the others in order.
LEMMA BetweenPrefix ==
  ASSUME NEW s \in Seq(Snapshot), NEW n \in 0 .. Len(s),
         NEW low \in Int, NEW high \in Int, Between(low, s, high)
  PROVE  Between(low, SubSeq(s, 1, n), high)
<1>1. /\ Len(SubSeq(s, 1, n)) = n
      /\ \A i \in 1 .. n : SubSeq(s, 1, n)[i] = s[i]
  BY PrefixOfSeq
<1>2. Len(s) \in Nat
  BY LenProperties
<1> DEFINE t == SubSeq(s, 1, n)
<1> HIDE DEF t
<1>3. Len(t) = n /\ \A i \in 1 .. n : i \in 1 .. Len(s) /\ t[i] = s[i]
  BY <1>1, <1>2 DEF t
<1>4. Between(low, t, high)
  BY <1>3 DEF Between
<1> QED BY <1>4 DEF t

LEMMA BetweenTail ==
  ASSUME NEW s \in Seq(Snapshot), s # <<>>,
         NEW low \in Int, NEW high \in Int, Between(low, s, high)
  PROVE  /\ low <= Head(s).layout /\ Head(s).layout <= high
         /\ Between(Head(s).layout, Tail(s), high)
         /\ Between(low, Tail(s), high)
<1>1. /\ Head(s) = s[1] /\ Len(s) \in Nat \ {0}
      /\ Len(Tail(s)) = Len(s) - 1
      /\ \A i \in 1 .. Len(Tail(s)) : Tail(s)[i] = s[i + 1]
  BY TailOfSeq
<1> DEFINE t == Tail(s)
<1> HIDE DEF t
<1>2. /\ Len(t) = Len(s) - 1
      /\ \A i \in 1 .. Len(t) : i + 1 \in 1 .. Len(s) /\ t[i] = s[i + 1]
  BY <1>1 DEF t
<1>3. 1 \in 1 .. Len(s)
  BY <1>1
<1>4. \A i \in 1 .. Len(t) :
        low <= t[i].layout /\ s[1].layout <= t[i].layout /\ t[i].layout <= high
  <2> SUFFICES ASSUME NEW i \in 1 .. Len(t)
               PROVE  /\ low <= t[i].layout /\ s[1].layout <= t[i].layout
                      /\ t[i].layout <= high
    OBVIOUS
  <2>1. i + 1 \in 1 .. Len(s) /\ t[i] = s[i + 1] /\ 1 <= i + 1
    BY <1>2
  <2> QED BY <1>3, <2>1 DEF Between
<1>5. \A i, j \in 1 .. Len(t) : i <= j => t[i].layout <= t[j].layout
  <2> SUFFICES ASSUME NEW i \in 1 .. Len(t), NEW j \in 1 .. Len(t), i <= j
               PROVE  t[i].layout <= t[j].layout
    OBVIOUS
  <2>1. /\ i + 1 \in 1 .. Len(s) /\ t[i] = s[i + 1]
        /\ j + 1 \in 1 .. Len(s) /\ t[j] = s[j + 1] /\ i + 1 <= j + 1
    BY <1>2
  <2> QED BY <2>1 DEF Between
<1>6. Between(s[1].layout, t, high) /\ Between(low, t, high)
  BY <1>4, <1>5 DEF Between
<1>7. low <= s[1].layout /\ s[1].layout <= high
  BY <1>3 DEF Between
<1> QED BY <1>1, <1>6, <1>7 DEF t

LEMMA BetweenAppend ==
  ASSUME NEW s \in Seq(Snapshot), NEW m \in Snapshot, NEW low \in Int,
         low <= m.layout, Between(low, s, m.layout)
  PROVE  Between(low, Append(s, m), m.layout)
<1>1. /\ Len(s) \in Nat
      /\ Len(Append(s, m)) = Len(s) + 1 /\ Append(s, m)[Len(s) + 1] = m
      /\ \A i \in 1 .. Len(s) : Append(s, m)[i] = s[i]
  BY AppendToSeq
<1>2. m.layout \in Int
  BY SnapshotTypes
<1> DEFINE t == Append(s, m)
<1> HIDE DEF t
<1>3. \A i \in 1 .. Len(t) : \/ i \in 1 .. Len(s) /\ t[i] = s[i]
                             \/ i = Len(s) + 1 /\ t[i] = m
  BY <1>1 DEF t
<1>4. \A i \in 1 .. Len(t) : low <= t[i].layout /\ t[i].layout <= m.layout
  BY <1>2, <1>3 DEF Between
<1>5. \A i, j \in 1 .. Len(t) : i <= j => t[i].layout <= t[j].layout
  <2> SUFFICES ASSUME NEW i \in 1 .. Len(t), NEW j \in 1 .. Len(t), i <= j
               PROVE  t[i].layout <= t[j].layout
    OBVIOUS
  <2>1. CASE j = Len(s) + 1 /\ t[j] = m
    BY <1>4, <2>1
  <2>2. CASE j \in 1 .. Len(s) /\ t[j] = s[j]
    <3>1. i \in 1 .. Len(s) /\ t[i] = s[i]
      BY <1>1, <1>3, <2>2
    <3> QED BY <2>2, <3>1 DEF Between
  <2> QED BY <1>3, <2>1, <2>2
<1>6. Between(low, t, m.layout)
  BY <1>4, <1>5 DEF Between
<1> QED BY <1>6 DEF t

\* A later change widens the interval.
LEMMA BetweenWiden ==
  ASSUME NEW s \in Seq(Snapshot), NEW low \in Int, NEW high \in Int,
         NEW high2 \in Int, high <= high2, Between(low, s, high)
  PROVE  Between(low, s, high2)
BY SnapshotsHaveLayouts DEF Between

LEMMA EmptyIsBetween == \A low, high : Between(low, <<>>, high)
BY DEF Between

LEMMA PostedType ==
  ASSUME DataTypes
  PROVE  Posted \in Int /\ layout \in Int /\ displayed \in Int
<1>1. layout \in Int /\ displayed \in Int
  BY SnapshotTypes DEF DataTypes
<1>2. CASE window = <<>>
  BY <1>1, <1>2 DEF Posted
<1>3. CASE window # <<>>
  <2>1. Len(window) \in 1 .. Len(window)
    BY <1>3, TailOfSeq DEF DataTypes
  <2>2. window[Len(window)] \in Int
    BY <2>1, ElementOfSeq, SnapshotTypes DEF DataTypes
  <2> QED BY <1>1, <1>3, <2>2 DEF Posted
<1> QED BY <1>2, <1>3

\* Posting a layout no older than the last one posted.
LEMMA DeliverInOrder ==
  ASSUME DataTypes, WindowInOrder, NEW m \in Snapshot, Deliver(m),
         Posted <= m.layout, m.layout <= layout,
         layout' = layout, displayed' = displayed
  PROVE  WindowInOrder' /\ Posted' <= m.layout /\ Posted' \in {Posted, m.layout}
<1>1. /\ Posted \in Int /\ layout \in Int /\ displayed \in Int
      /\ m.layout \in Int /\ m.layout \in Layouts
  BY PostedType, SnapshotTypes
<1>2. CASE window' = window
  <2>1. Posted' = Posted
    BY <1>2 DEF Posted
  <2> QED BY <1>2, <2>1 DEF WindowInOrder
<1>3. CASE window' = Append(window, m.layout)
  <2>1. /\ Len(window) \in Nat /\ \A i \in 1 .. Len(window) : window[i] \in Int
        /\ Len(window') = Len(window) + 1 /\ window'[Len(window) + 1] = m.layout
        /\ \A i \in 1 .. Len(window) : window'[i] = window[i]
    <3>1. window \in Seq(Layouts) /\ \A l \in Layouts : l \in Int
      BY SnapshotTypes DEF DataTypes
    <3>2. Len(window) \in Nat /\ \A i \in 1 .. Len(window) : window[i] \in Int
      BY <3>1, ElementOfSeq, LenProperties
    <3>3. /\ Len(window') = Len(window) + 1
          /\ window'[Len(window) + 1] = m.layout
          /\ \A i \in 1 .. Len(window) : window'[i] = window[i]
      BY <1>1, <1>3, <3>1, AppendToSeq
    <3> QED BY <3>2, <3>3
  <2>2. window' # <<>>
    BY <2>1
  <2>3. Posted' = m.layout
    BY <2>1, <2>2 DEF Posted
  <2>4. /\ displayed <= m.layout
        /\ \A i \in 1 .. Len(window) : window[i] <= m.layout
    <3>1. CASE window = <<>>
      <4>1. Posted = displayed /\ Len(window) = 0
        BY <3>1 DEF Posted
      <4> QED BY <2>1, <4>1
    <3>2. CASE window # <<>>
      <4>1. Len(window) \in 1 .. Len(window) /\ Posted = window[Len(window)]
        BY <3>2, TailOfSeq DEF Posted, DataTypes
      <4>2. displayed <= Posted /\ \A i \in 1 .. Len(window) : window[i] <= Posted
        BY <2>1, <4>1 DEF WindowInOrder
      <4> QED BY <1>1, <2>1, <4>2
    <3> QED BY <3>1, <3>2
  <2>5. \A i \in 1 .. Len(window') : \/ i \in 1 .. Len(window) /\ window'[i] = window[i]
                                     \/ i = Len(window) + 1 /\ window'[i] = m.layout
    BY <2>1
  <2>6. \A i \in 1 .. Len(window') : displayed <= window'[i]
    BY <2>4, <2>5 DEF WindowInOrder
  <2>7. \A i, j \in 1 .. Len(window') : i <= j => window'[i] <= window'[j]
    <3> SUFFICES ASSUME NEW i \in 1 .. Len(window'), NEW j \in 1 .. Len(window'),
                        i <= j
                 PROVE  window'[i] <= window'[j]
      OBVIOUS
    <3>1. CASE j = Len(window) + 1 /\ window'[j] = m.layout
      BY <1>1, <2>4, <2>5, <3>1
    <3>2. CASE j \in 1 .. Len(window) /\ window'[j] = window[j]
      <4>1. i \in 1 .. Len(window) /\ window'[i] = window[i]
        BY <2>1, <2>5, <3>2
      <4> QED BY <3>2, <4>1 DEF WindowInOrder
    <3> QED BY <2>5, <3>1, <3>2
  <2>8. WindowInOrder'
    BY <2>3, <2>6, <2>7 DEF WindowInOrder
  <2> QED BY <1>1, <2>3, <2>8
<1> QED BY <1>2, <1>3 DEF Deliver

LEMMA InOrderInit == Init => InOrder
<1> SUFFICES ASSUME Init PROVE InOrder
  OBVIOUS
<1>1. /\ window = <<>> /\ inbox = <<>> /\ late = <<>> /\ displayed = 0 /\ layout = 0
  BY DEF Init
<1>2. Posted = 0 /\ Len(window) = 0
  BY <1>1 DEF Posted
<1>3. WindowInOrder
  BY <1>1, <1>2 DEF WindowInOrder
<1>4. Between(Posted, inbox, layout) /\ Between(Posted, late, layout)
  BY <1>1, EmptyIsBetween
<1> QED BY <1>1, <1>3, <1>4 DEF InOrder, LateIsAlone

\* The page only adds newer layouts, and connections lose the newest.
LEMMA PageInOrder ==
  ASSUME TypeOK, InOrder, PageStep \/ Disturbance
  PROVE  InOrder'
<1> USE DEF connectionVars, sessionVars, handlerVars, windowVars
<1>1. DataTypes /\ Posted \in Int /\ layout \in Int /\ inbox \in Seq(Snapshot)
      /\ late \in Seq(Snapshot)
  BY TypeHalves, PostedType DEF DataTypes
<1>2. UNCHANGED <<window, displayed, late, session>>
  BY DEF PageStep, Flush, SocketOpens, SocketCloses, Reconnect,
         Disturbance, ChangeLayout, Reload, ConnectionBreaks
<1>3. layout' \in Int /\ layout <= layout'
  BY <1>1 DEF PageStep, Flush, SocketOpens, SocketCloses, Reconnect,
              Disturbance, ChangeLayout, Reload, ConnectionBreaks
<1>4. Posted' = Posted
  BY <1>2 DEF Posted
<1>5. WindowInOrder'
  BY <1>1, <1>2, <1>3, <1>4 DEF InOrder, WindowInOrder
<1>6. Between(Posted', late', layout')
  <2>1. Between(Posted, late, layout')
    BY <1>1, <1>3, BetweenWiden DEF InOrder
  <2> QED BY <1>2, <1>4, <2>1
<1>7. CASE inbox' = inbox /\ joined' = joined
  <2>1. Between(Posted, inbox, layout')
    BY <1>1, <1>3, BetweenWiden DEF InOrder
  <2>2. LateIsAlone'
    BY <1>2, <1>7 DEF InOrder, LateIsAlone
  <2> QED BY <1>4, <1>5, <1>6, <1>7, <2>1, <2>2 DEF InOrder
<1>8. CASE Flush /\ socket = "open" /\ joined
  <2> DEFINE m == [revision |-> revision + 1, layout |-> layout]
  <2>1. m \in Snapshot /\ m.layout = layout
    BY <1>1, SnapshotTypes DEF TypeOK
  <2>2. inbox' = Append(inbox, m) /\ joined' = joined /\ layout' = layout
    BY <1>8 DEF Flush
  <2> HIDE DEF m
  <2>3. Between(Posted, Append(inbox, m), layout)
    BY <1>1, <2>1, BetweenAppend DEF InOrder, WindowInOrder
  <2>4. LateIsAlone'
    BY <1>2, <1>8 DEF InOrder, LateIsAlone
  <2> QED BY <1>4, <1>5, <1>6, <2>2, <2>3, <2>4 DEF InOrder
<1>9. CASE Parted
  <2>1. PICK n \in 0 .. Len(inbox) : inbox' = SubSeq(inbox, 1, n)
    BY <1>9 DEF Parted
  <2>2. Between(Posted, SubSeq(inbox, 1, n), layout)
    BY <1>1, BetweenPrefix DEF InOrder
  <2>3. SubSeq(inbox, 1, n) \in Seq(Snapshot)
    BY <1>1, PrefixOfSeq
  <2>4. Between(Posted, SubSeq(inbox, 1, n), layout')
    BY <1>1, <1>3, <2>2, <2>3, BetweenWiden
  <2>5. inbox = <<>> => inbox' = <<>>
    <3> SUFFICES ASSUME inbox = <<>> PROVE inbox' = <<>>
      OBVIOUS
    <3>1. n = 0
      OBVIOUS
    <3>2. Len(SubSeq(inbox, 1, n)) = 0
      BY <1>1, <3>1, PrefixOfSeq
    <3> QED BY <2>1, <2>3, <3>2, EmptySeq
  <2>6. LateIsAlone'
    BY <1>2, <1>9, <2>5 DEF InOrder, LateIsAlone, Parted
  <2> QED BY <1>4, <1>5, <1>6, <2>1, <2>4, <2>6 DEF InOrder
<1> QED BY <1>7, <1>8, <1>9
        DEF PageStep, Flush, SocketOpens, SocketCloses, Reconnect,
            Disturbance, ChangeLayout, Reload, ConnectionBreaks

\* Only the read that had been done outlives the session's close.
LEMMA ServerInOrder ==
  ASSUME TypeOK, InOrder, Accept \/ Handshake \/ Receive \/ Write
  PROVE  InOrder'
<1> USE DEF pageVars, connectionVars, sessionVars, handlerVars, windowVars
<1>1. DataTypes /\ Posted \in Int /\ layout \in Int /\ inbox \in Seq(Snapshot)
  BY TypeHalves, PostedType DEF DataTypes
<1>2. CASE UNCHANGED <<window, displayed, layout>>
           /\ inbox' \in {inbox, <<>>} /\ late' \in {late, <<>>}
           /\ (late' # <<>> => inbox' = <<>> /\ ~joined' /\ session' # "none")
  <2>1. Posted' = Posted
    BY <1>2 DEF Posted
  <2>2. WindowInOrder'
    BY <1>2, <2>1 DEF InOrder, WindowInOrder
  <2>3. Between(Posted', inbox', layout') /\ Between(Posted', late', layout')
    BY <1>2, <2>1, EmptyIsBetween DEF InOrder
  <2>4. LateIsAlone'
    BY <1>2 DEF InOrder, LateIsAlone
  <2> QED BY <2>2, <2>3, <2>4 DEF InOrder
<1>3. CASE AcceptRefused \/ HandshakeDone \/ WriteDone
  <2>1. UNCHANGED <<window, displayed, layout, inbox, late, joined>>
    BY <1>3 DEF AcceptRefused, HandshakeDone, WriteDone
  <2>2. session' = session \/ session' # "none"
    BY <1>3 DEF AcceptRefused, HandshakeDone, WriteDone
  <2> QED BY <1>2, <2>1, <2>2 DEF InOrder, LateIsAlone
<1>4. CASE AcceptNew
  <2>1. late = <<>>
    BY <1>4 DEF AcceptNew, InOrder, LateIsAlone
  <2>2. /\ UNCHANGED <<window, displayed, layout, late>> /\ inbox' = <<>>
    BY <1>4 DEF AcceptNew
  <2> QED BY <1>2, <2>1, <2>2
<1>5. CASE HandshakeFails \/ ReadFails
  <2>1. /\ UNCHANGED <<window, displayed, layout>>
        /\ inbox' = <<>> /\ late' = <<>>
    BY <1>5 DEF HandshakeFails, ReadFails, Close
  <2> QED BY <1>2, <2>1
<1>6. CASE WriteFails
  <2>1. PICK n \in {0, 1} : n <= Len(inbox) /\ Close(1, SubSeq(inbox, 1, n))
    BY <1>6 DEF WriteFails
  <2>2. n \in 0 .. Len(inbox)
    BY <1>1, <2>1, LenProperties
  <2>3. /\ UNCHANGED <<window, displayed, layout>> /\ inbox' = <<>> /\ ~joined'
        /\ late' = SubSeq(inbox, 1, n) /\ session' # "none"
    BY <1>6, <2>1 DEF WriteFails, Close, Serving
  <2>4. Between(Posted, SubSeq(inbox, 1, n), layout)
    BY <1>1, <2>2, BetweenPrefix DEF InOrder
  <2>5. Posted' = Posted
    BY <2>3 DEF Posted
  <2>6. WindowInOrder'
    BY <2>3, <2>5 DEF InOrder, WindowInOrder
  <2>7. /\ SubSeq(inbox, 1, n) \in Seq(Snapshot)
        /\ Len(SubSeq(inbox, 1, n)) = n
    BY <1>1, <2>2, PrefixOfSeq
  <2>8. late' # <<>> => Len(late') = 1
    <3>1. CASE n = 1
      BY <2>3, <2>7, <3>1
    <3>2. CASE n = 0
      <4>1. SubSeq(inbox, 1, n) = <<>>
        BY <2>7, <3>2, EmptySeq
      <4> QED BY <2>3, <4>1
    <3> QED BY <3>1, <3>2
  <2>9. LateIsAlone'
    BY <2>3, <2>8 DEF LateIsAlone
  <2>10. Between(Posted', inbox', layout')
    BY <2>3, EmptyIsBetween
  <2>11. Between(Posted', late', layout')
    BY <2>3, <2>4, <2>5
  <2> QED BY <2>6, <2>9, <2>10, <2>11 DEF InOrder
<1>7. CASE Read
  <2>1. inbox # <<>> /\ Deliver(Head(inbox)) /\ late = <<>>
        /\ layout' = layout /\ displayed' = displayed
    BY <1>7 DEF Read, InOrder, LateIsAlone
  <2> DEFINE m == Head(inbox)
  <2>2. m \in Snapshot /\ m.layout \in Int /\ Tail(inbox) \in Seq(Snapshot)
    BY <1>1, <2>1, TailOfSeq, SnapshotTypes
  <2>3. /\ Posted <= m.layout /\ m.layout <= layout
        /\ Between(m.layout, Tail(inbox), layout)
        /\ Between(Posted, Tail(inbox), layout)
    BY <1>1, <2>1, BetweenTail DEF InOrder
  <2> HIDE DEF m
  <2>4. WindowInOrder' /\ Posted' \in {Posted, m.layout}
    BY <1>1, <2>1, <2>2, <2>3, DeliverInOrder DEF InOrder, m
  <2>5. Between(Posted', Tail(inbox), layout)
    BY <2>3, <2>4
  <2>6. inbox' \in {<<>>, Tail(inbox)} /\ late' = <<>>
    BY <1>7, <2>1 DEF Read, Close
  <2>7. Between(Posted', inbox', layout')
    BY <2>1, <2>5, <2>6, EmptyIsBetween
  <2>8. Between(Posted', late', layout') /\ LateIsAlone'
    BY <2>6, EmptyIsBetween DEF LateIsAlone
  <2> QED BY <2>4, <2>7, <2>8 DEF InOrder
<1> QED BY <1>3, <1>4, <1>5, <1>6, <1>7 DEF Accept, Handshake, Receive, Write

LEMMA ClosingInOrder ==
  ASSUME TypeOK, InOrder, Closing \/ UNCHANGED vars
  PROVE  InOrder'
<1> USE DEF vars, pageVars, connectionVars, sessionVars, handlerVars, windowVars
<1>1. DataTypes /\ Posted \in Int /\ layout \in Int /\ late \in Seq(Snapshot)
  BY TypeHalves, PostedType DEF DataTypes
<1>2. CASE HandlerAborted \/ ForgetSession \/ UNCHANGED vars
  <2>1. UNCHANGED <<window, displayed, layout, inbox, late, joined>>
    BY <1>2 DEF HandlerAborted, ForgetSession
  <2>2. session' = session \/ late = <<>>
    BY <1>2 DEF HandlerAborted, ForgetSession
  <2>3. Posted' = Posted
    BY <2>1 DEF Posted
  <2>4. WindowInOrder'
    BY <2>1, <2>3 DEF InOrder, WindowInOrder
  <2>5. LateIsAlone'
    BY <2>1, <2>2 DEF InOrder, LateIsAlone
  <2> QED BY <2>1, <2>3, <2>4, <2>5 DEF InOrder
<1>3. CASE LateRead
  <2>1. late # <<>> /\ Deliver(Head(late)) /\ late' = <<>> /\ inbox' = inbox
        /\ inbox = <<>> /\ layout' = layout /\ displayed' = displayed
    BY <1>3 DEF LateRead, InOrder, LateIsAlone
  <2> DEFINE m == Head(late)
  <2>2. m \in Snapshot /\ m.layout \in Int
    BY <1>1, <2>1, TailOfSeq, SnapshotTypes
  <2>3. Posted <= m.layout /\ m.layout <= layout
    BY <1>1, <2>1, BetweenTail DEF InOrder
  <2> HIDE DEF m
  <2>4. WindowInOrder'
    BY <1>1, <2>1, <2>2, <2>3, DeliverInOrder DEF InOrder, m
  <2>5. Between(Posted', inbox', layout') /\ Between(Posted', late', layout')
    BY <2>1, EmptyIsBetween
  <2> QED BY <2>1, <2>4, <2>5 DEF InOrder, LateIsAlone
<1> QED BY <1>2, <1>3 DEF Closing

LEMMA ApplyInOrder ==
  ASSUME TypeOK, InOrder, ApplyLayout
  PROVE  InOrder' /\ displayed <= displayed'
<1> USE DEF pageVars, connectionVars, sessionVars, handlerVars, windowVars
<1>1. DataTypes /\ window # <<>> /\ window \in Seq(Layouts)
  BY TypeHalves DEF DataTypes, ApplyLayout
<1>2. /\ displayed' = window[1] /\ window' = Tail(window)
      /\ Len(window) \in Nat \ {0} /\ Len(window') = Len(window) - 1
      /\ \A i \in 1 .. Len(window') : window'[i] = window[i + 1]
      /\ window' \in Seq(Layouts)
  BY <1>1, TailOfSeq DEF ApplyLayout
<1>3. \A i \in 1 .. Len(window') : i + 1 \in 1 .. Len(window) /\ 1 <= i + 1
  BY <1>2
<1>4. 1 \in 1 .. Len(window)
  BY <1>2
<1>5. Posted' = Posted
  <2>1. Posted = window[Len(window)]
    BY <1>1 DEF Posted
  <2>2. CASE Len(window) = 1
    <3>1. window' = <<>>
      BY <1>2, <2>2, EmptySeq
    <3> QED BY <1>2, <2>1, <2>2, <3>1 DEF Posted
  <2>3. CASE Len(window) > 1
    <3>1. Len(window') \in 1 .. Len(window')
      BY <1>2, <2>3
    <3>2. window' # <<>>
      <4>1. Len(<<>>) = 0
        OBVIOUS
      <4> QED BY <3>1, <4>1
    <3>3. window'[Len(window')] = window[Len(window)]
      BY <1>2, <3>1
    <3> QED BY <2>1, <3>2, <3>3 DEF Posted
  <2> QED BY <1>2, <2>2, <2>3
<1>6. UNCHANGED <<layout, inbox, late, joined, session>>
  BY DEF ApplyLayout
<1>7. WindowInOrder'
  <2>1. \A i \in 1 .. Len(window') : displayed' <= window'[i]
    BY <1>2, <1>3, <1>4 DEF InOrder, WindowInOrder
  <2>2. \A i, j \in 1 .. Len(window') : i <= j => window'[i] <= window'[j]
    <3> SUFFICES ASSUME NEW i \in 1 .. Len(window'), NEW j \in 1 .. Len(window'),
                        i <= j
                 PROVE  window'[i] <= window'[j]
      OBVIOUS
    <3>1. /\ i + 1 \in 1 .. Len(window) /\ j + 1 \in 1 .. Len(window)
          /\ i + 1 <= j + 1
      BY <1>3
    <3> QED BY <1>2, <3>1 DEF InOrder, WindowInOrder
  <2> QED BY <1>5, <1>6, <2>1, <2>2 DEF InOrder, WindowInOrder
<1>8. displayed <= displayed'
  BY <1>2, <1>4 DEF InOrder, WindowInOrder
<1> QED BY <1>5, <1>6, <1>7, <1>8 DEF InOrder, LateIsAlone

-----------------------------------------------------------------------------
(***************************************************************************)
(* The theorems.                                                           *)
(***************************************************************************)

LEMMA IInvInit == Init => IInv
<1>1. Init => ClosedIsReset
  BY DEF Init, ClosedIsReset
<1> QED BY <1>1, InitTypes, InOrderInit DEF IInv

LEMMA IInvStep == IInv /\ [Next]_vars => IInv'
<1> SUFFICES ASSUME IInv, [Next]_vars PROVE IInv'
  OBVIOUS
<1>1. TypeOK'
  BY TypeStep DEF IInv
<1>2. ClosedIsReset'
  BY ClosedStep DEF IInv, InOrder
<1>3. InOrder'
  BY PageInOrder, ServerInOrder, ClosingInOrder, ApplyInOrder DEF IInv, Next
<1> QED BY <1>1, <1>2, <1>3 DEF IInv

\* ResetFindsItsSession: a handler of a closed session, however late, never
\* makes the server forget the client that came after it.
THEOREM ResetIsOfItsSession == Spec => []ResetFindsItsSession
<1>1. IInv => ResetFindsItsSession
  BY DEF IInv, ClosedIsReset, ResetFindsItsSession
<1> QED BY <1>1, IInvInit, IInvStep, PTL DEF Spec

\* NeverBackwards: the layout shown is never replaced by an earlier one.
THEOREM WindowNeverGoesBack == Spec => NeverBackwards
<1>1. IInv /\ [Next]_vars => [displayed' >= displayed]_displayed
  <2> SUFFICES ASSUME IInv, [Next]_vars, displayed' # displayed
               PROVE  displayed' >= displayed
    OBVIOUS
  <2>1. ApplyLayout
    BY DEF Next, PageStep, Flush, SocketOpens, SocketCloses, Reconnect,
           Disturbance, ChangeLayout, Reload, ConnectionBreaks,
           Accept, AcceptRefused, AcceptNew, Handshake, HandshakeDone,
           HandshakeFails, Receive, Read, ReadFails, Write, WriteDone,
           WriteFails, Closing, LateRead, HandlerAborted, ForgetSession,
           vars, windowVars
  <2>2. displayed \in Int /\ displayed' \in Int
    <3>1. TypeOK'
      BY TypeStep DEF IInv
    <3> QED BY <3>1, SnapshotTypes DEF IInv, TypeOK
  <2>3. displayed <= displayed'
    BY <2>1, ApplyInOrder DEF IInv
  <2> QED BY <2>2, <2>3
<1> QED BY <1>1, IInvInit, IInvStep, PTL DEF Spec, NeverBackwards
=============================================================================
