--------------------------- MODULE ViewerInput_proofs ---------------------------
(***************************************************************************)
(* What holds of the viewer's window for any controls and any bound on the *)
(* messages under way: types, that a control the user let go does not stay *)
(* pressed in the page, and that window and page agree once nothing is     *)
(* under way.                                                              *)
(*                                                                         *)
(* Both properties speak of drained queues.  The inductive invariant says  *)
(* what the messages under way will make true: for each thing window and   *)
(* page have to agree on, either they do already or the last message about *)
(* it, of those still queued, settles it.  It has a part for the controls, *)
(* one for the focus, one for the address and one for the visibility.      *)
(***************************************************************************)
EXTENDS ViewerInput, SequenceTheorems, WellFoundedInduction, TLAPS

Foci == {"window", "toolbar", "away"}

Has(q, type) == \E i \in DOMAIN q : q[i].type = type

\* Control c ends up released once the messages of q are handled.
LetGo(c, p, q) ==
  /\ c \in p => \E i \in DOMAIN q : q[i] = Lift(c)
  /\ \A i \in DOMAIN q : q[i] = Press(c) => \E j \in DOMAIN q : i < j /\ q[j] = Lift(c)

\* What the messages of these kinds are about is b now, if none is in q, and
\* otherwise the last of them makes it b.
IsLast(kinds, q, i) ==
  q[i].type \in kinds /\ \A j \in DOMAIN q : i < j => q[j].type \notin kinds
Ends(kinds, b, now, q) ==
  /\ (\A i \in DOMAIN q : q[i].type \notin kinds) => now = b
  /\ \A i \in DOMAIN q : IsLast(kinds, q, i) => q[i] \in {Focus(b), Visibility(b)}
FocusKinds == {"Focus", "Gone"}
VisibilityKinds == {"Visibility"}

LiftsComing == \A c \in Controls : c \in held \union missed \/ LetGo(c, pressed, toPage)
FocusComing == told => link /\ Ends(FocusKinds, focus = "window", pageFocused, toPage)
AddressComing ==
  link => \/ editing \/ barCurrent \/ unanswered
          \/ Has(toWindow, "Navigation") \/ Has(toPage, "Ready") \/ Has(toPage, "Navigate")
VisibilityComing ==
  link => Has(toPage, "Ready") \/ Ends(VisibilityKinds, wanted, visible, toWindow)

IInv ==
  /\ TypeOK
  /\ LiftsComing
  /\ FocusComing
  /\ AddressComing
  /\ VisibilityComing

LEMMA IInvImplies == IInv => OnlyHeldIsPressed /\ WindowAgreesWithPage
<1> SUFFICES ASSUME IInv, Drained PROVE pressed \subseteq held \union missed
                                    /\ (link => /\ told => pageFocused = (focus = "window")
                                                /\ editing \/ barCurrent \/ unanswered
                                                /\ visible = wanted)
  BY DEF OnlyHeldIsPressed, WindowAgreesWithPage
<1>1. DOMAIN toPage = {} /\ DOMAIN toWindow = {}
  BY DEF Drained
<1>2. pressed \subseteq held \union missed
  BY <1>1 DEF IInv, TypeOK, LiftsComing, LetGo
<1>3. told => pageFocused = (focus = "window")
  BY <1>1 DEF IInv, FocusComing, Ends
<1>4. link => editing \/ barCurrent \/ unanswered
  BY <1>1 DEF IInv, AddressComing, Has
<1>5. link => visible = wanted
  BY <1>1 DEF IInv, VisibilityComing, Has, Ends
<1> QED BY <1>2, <1>3, <1>4, <1>5

-----------------------------------------------------------------------------
(***************************************************************************)
(* Lemmas about messages and queues.                                       *)
(***************************************************************************)

LEMMA MessagesHaveType ==
  /\ \A c \in Controls : Press(c) \in ToPage /\ Lift(c) \in ToPage
  /\ \A b \in BOOLEAN : Focus(b) \in ToPage /\ Visibility(b) \in ToWindow
  /\ Msg("Ready") \in ToPage /\ Msg("Gone") \in ToPage
  /\ Msg("Navigate") \in ToPage /\ Msg("Command") \in ToPage
  /\ Msg("Connected") \in ToWindow /\ Msg("Disconnected") \in ToWindow
  /\ Msg("Navigation") \in ToWindow
BY DEF ToPage, ToWindow

LEMMA MessageFields ==
  /\ \A c : /\ Press(c).type = "Press" /\ Press(c).control = c
            /\ Lift(c).type = "Lift" /\ Lift(c).control = c
  /\ \A b : Focus(b).type = "Focus" /\ Visibility(b).type = "Visibility"
  /\ \A b : Focus(b).on = b /\ Visibility(b).on = b
  /\ \A t : Msg(t).type = t
BY DEF Press, Lift, Focus, Visibility, Msg

LEMMA MessageShapes ==
  /\ \A m \in ToPage : /\ m.type = "Press" => m.control \in Controls /\ m = Press(m.control)
                       /\ m.type = "Lift" => m.control \in Controls /\ m = Lift(m.control)
                       /\ m.type = "Focus" => m.on \in BOOLEAN /\ m = Focus(m.on)
  /\ \A m \in ToWindow : m.type = "Visibility" => m.on \in BOOLEAN /\ m = Visibility(m.on)
<1>1. ASSUME NEW m \in ToPage
      PROVE  /\ m.type = "Press" => m.control \in Controls /\ m = Press(m.control)
             /\ m.type = "Lift" => m.control \in Controls /\ m = Lift(m.control)
             /\ m.type = "Focus" => m.on \in BOOLEAN /\ m = Focus(m.on)
  <2>1. CASE m \in {Msg("Ready"), Msg("Gone"), Msg("Navigate"), Msg("Command")}
    BY <2>1, MessageFields
  <2>2. CASE \E c \in Controls : m = Press(c)
    BY <2>2, MessageFields
  <2>3. CASE \E c \in Controls : m = Lift(c)
    BY <2>3, MessageFields
  <2>4. CASE \E b \in BOOLEAN : m = Focus(b)
    BY <2>4, MessageFields
  <2> QED BY <2>1, <2>2, <2>3, <2>4 DEF ToPage
<1>2. ASSUME NEW m \in ToWindow, m.type = "Visibility"
      PROVE  m.on \in BOOLEAN /\ m = Visibility(m.on)
  <2>1. PICK b \in BOOLEAN : m = Visibility(b)
    BY <1>2, MessageFields DEF ToWindow
  <2> QED BY <2>1, MessageFields
<1> QED BY <1>1, <1>2

LEMMA Concat ==
  ASSUME NEW S, NEW q \in Seq(S), NEW ms \in Seq(S)
  PROVE  /\ q \o ms \in Seq(S) /\ Len(q) \in Nat
         /\ DOMAIN q = 1 .. Len(q) /\ DOMAIN ms \subseteq Nat \ {0}
         /\ \A i \in DOMAIN q : i \in DOMAIN (q \o ms) /\ (q \o ms)[i] = q[i]
         /\ \A j \in DOMAIN ms : Len(q) + j \in DOMAIN (q \o ms) /\ (q \o ms)[Len(q) + j] = ms[j]
         /\ \A i \in DOMAIN (q \o ms) :
              i \in DOMAIN q \/ \E j \in DOMAIN ms : i = Len(q) + j
<1> DEFINE r == q \o ms
           a == Len(q)
           b == Len(ms)
<1>1. a \in Nat /\ b \in Nat /\ DOMAIN q = 1 .. a /\ DOMAIN ms = 1 .. b
  BY LenProperties
<1>2. /\ r \in Seq(S) /\ DOMAIN r = 1 .. a + b
      /\ \A i \in 1 .. a + b : r[i] = IF i <= a THEN q[i] ELSE ms[i - a]
  BY ConcatProperties, LenProperties
<1> HIDE DEF r, a, b
<1>3. \A i \in DOMAIN q : i \in DOMAIN r /\ r[i] = q[i]
  BY <1>1, <1>2
<1>4. ASSUME NEW j \in DOMAIN ms PROVE a + j \in DOMAIN r /\ r[a + j] = ms[j]
  <2>1. a + j \in 1 .. a + b /\ ~(a + j <= a) /\ (a + j) - a = j
    BY <1>1
  <2> QED BY <1>2, <2>1
<1>5. ASSUME NEW i \in DOMAIN r, i \notin DOMAIN q PROVE \E j \in DOMAIN ms : i = a + j
  <2>1. i - a \in DOMAIN ms /\ i = a + (i - a)
    BY <1>1, <1>2, <1>5
  <2> QED BY <2>1
<1> QED BY <1>1, <1>2, <1>3, <1>4, <1>5 DEF r, a

LEMMA Rest ==
  ASSUME NEW S, NEW q \in Seq(S), q # <<>>
  PROVE  /\ Head(q) \in S /\ Tail(q) \in Seq(S) /\ 1 \in DOMAIN q /\ Head(q) = q[1]
         /\ DOMAIN q \subseteq Nat
         /\ \A i \in DOMAIN Tail(q) : i \in Nat /\ 1 < i + 1 /\ i + 1 \in DOMAIN q
         /\ \A i \in DOMAIN Tail(q) : Tail(q)[i] = q[i + 1]
         /\ \A k \in DOMAIN q : k # 1 => k - 1 \in DOMAIN Tail(q) /\ q[k] = Tail(q)[k - 1]
<1>1. /\ Head(q) \in S /\ Tail(q) \in Seq(S) /\ Len(Tail(q)) = Len(q) - 1 /\ Head(q) = q[1]
      /\ \A i \in 1 .. Len(Tail(q)) : Tail(q)[i] = q[i + 1]
  BY HeadTailProperties
<1>2. /\ Len(q) \in Nat /\ Len(q) # 0 /\ DOMAIN q = 1 .. Len(q)
      /\ DOMAIN Tail(q) = 1 .. Len(Tail(q))
  BY <1>1, LenProperties, EmptySeq
<1>3. \A k \in DOMAIN q : k # 1 => k - 1 \in DOMAIN Tail(q) /\ (k - 1) + 1 = k
  BY <1>1, <1>2
<1>4. \A k \in DOMAIN q : k # 1 => q[k] = Tail(q)[k - 1]
  BY <1>1, <1>2, <1>3
<1> QED BY <1>1, <1>2, <1>3, <1>4

\* More messages.
LEMMA LetGoConcat ==
  ASSUME NEW S, NEW q \in Seq(S), NEW ms \in Seq(S), NEW c, NEW p, LetGo(c, p, q),
         \A i \in DOMAIN ms : ms[i] # Press(c)
  PROVE  LetGo(c, p, q \o ms)
<1> DEFINE r == q \o ms
           a == Len(q)
<1>1. /\ a \in Nat /\ DOMAIN q = 1 .. a
      /\ \A i \in DOMAIN q : i \in DOMAIN r /\ r[i] = q[i]
      /\ \A j \in DOMAIN ms : r[a + j] = ms[j]
      /\ \A i \in DOMAIN r : i \in DOMAIN q \/ \E j \in DOMAIN ms : i = a + j
  BY Concat
<1> HIDE DEF r, a
<1>2. c \in p => \E i \in DOMAIN r : r[i] = Lift(c)
  BY <1>1 DEF LetGo
<1>3. ASSUME NEW i \in DOMAIN r, r[i] = Press(c) PROVE \E j \in DOMAIN r : i < j /\ r[j] = Lift(c)
  <2>1. i \in DOMAIN q /\ q[i] = Press(c)
    BY <1>1, <1>3
  <2> QED BY <1>1, <2>1 DEF LetGo
<1> QED BY <1>2, <1>3 DEF LetGo, r

LEMMA LetGoLifted ==
  ASSUME NEW q \in Seq(ToPage), NEW c \in Controls, NEW p
  PROVE  LetGo(c, p, q \o <<Lift(c)>>)
<1> DEFINE ms == <<Lift(c)>>
           r == q \o ms
           a == Len(q)
<1>1. ms \in Seq(ToPage) /\ DOMAIN ms = {1} /\ ms[1] = Lift(c)
  BY MessagesHaveType
<1> HIDE DEF ms
<1>2. /\ a \in Nat /\ DOMAIN q = 1 .. a
      /\ a + 1 \in DOMAIN r /\ r[a + 1] = Lift(c)
      /\ \A i \in DOMAIN r : i \in DOMAIN q \/ i = a + 1
  BY <1>1, Concat
<1> HIDE DEF r, a
<1>3. Lift(c) # Press(c)
  BY MessageFields
<1>4. LetGo(c, p, r)
  BY <1>2, <1>3 DEF LetGo
<1> QED BY <1>4 DEF r, ms

LEMMA EndsConcat ==
  ASSUME NEW S, NEW q \in Seq(S), NEW ms \in Seq(S), NEW kinds, NEW b, NEW now,
         Ends(kinds, b, now, q), \A i \in DOMAIN ms : ms[i].type \notin kinds
  PROVE  Ends(kinds, b, now, q \o ms)
<1> DEFINE r == q \o ms
           a == Len(q)
<1>1. /\ \A i \in DOMAIN q : i \in DOMAIN r /\ r[i] = q[i]
      /\ \A j \in DOMAIN ms : r[a + j] = ms[j]
      /\ \A i \in DOMAIN r : i \in DOMAIN q \/ \E j \in DOMAIN ms : i = a + j
  BY Concat
<1> HIDE DEF r, a
<1>2. \A i \in DOMAIN r : r[i].type \in kinds => i \in DOMAIN q /\ r[i] = q[i]
  BY <1>1
<1>3. Ends(kinds, b, now, r)
  BY <1>1, <1>2 DEF Ends, IsLast
<1> QED BY <1>3 DEF r

LEMMA EndsSaid ==
  ASSUME NEW S, NEW q \in Seq(S), NEW ms \in Seq(S), NEW kinds, NEW b, NEW now,
         NEW k \in DOMAIN ms, ms[k] \in {Focus(b), Visibility(b)}, ms[k].type \in kinds,
         \A j \in DOMAIN ms : j # k => ms[j].type \notin kinds
  PROVE  Ends(kinds, b, now, q \o ms)
<1> DEFINE r == q \o ms
           a == Len(q)
           n == a + k
<1>1. /\ a \in Nat /\ DOMAIN q = 1 .. a /\ DOMAIN ms \subseteq Nat \ {0}
      /\ \A j \in DOMAIN ms : a + j \in DOMAIN r /\ r[a + j] = ms[j]
      /\ \A i \in DOMAIN r : i \in DOMAIN q \/ \E j \in DOMAIN ms : i = a + j
  BY Concat
<1>2. n \in DOMAIN r /\ r[n] = ms[k] /\ \A i \in DOMAIN q : i < n
  BY <1>1
<1>3. \A i \in DOMAIN r : r[i].type \in kinds => i \in DOMAIN q \/ i = n
  BY <1>1
<1> HIDE DEF r, a, n
<1>4. Ends(kinds, b, now, r)
  BY <1>2, <1>3 DEF Ends, IsLast
<1> QED BY <1>4 DEF r

LEMMA HasConcat ==
  ASSUME NEW S, NEW q \in Seq(S), NEW ms \in Seq(S), NEW type, Has(q, type) \/ Has(ms, type)
  PROVE  Has(q \o ms, type)
<1>1. /\ \A i \in DOMAIN q : i \in DOMAIN (q \o ms) /\ (q \o ms)[i] = q[i]
      /\ \A j \in DOMAIN ms : Len(q) + j \in DOMAIN (q \o ms) /\ (q \o ms)[Len(q) + j] = ms[j]
  BY Concat
<1> QED BY <1>1 DEF Has

\* One message less.
LEMMA LetGoTail ==
  ASSUME NEW S, NEW q \in Seq(S), q # <<>>, NEW c, NEW p, LetGo(c, p, q),
         NEW p2, c \in p2 => c \in p \/ Head(q) = Press(c),
         Head(q) = Lift(c) => c \notin p2
  PROVE  LetGo(c, p2, Tail(q))
<1> DEFINE r == Tail(q)
           h == Head(q)
<1>1. /\ 1 \in DOMAIN q /\ h = q[1] /\ DOMAIN q \subseteq Nat
      /\ \A i \in DOMAIN r : i \in Nat /\ 1 < i + 1 /\ i + 1 \in DOMAIN q /\ r[i] = q[i + 1]
      /\ \A k \in DOMAIN q : k # 1 => k - 1 \in DOMAIN r /\ q[k] = r[k - 1]
  BY Rest
<1>2. (c \in p2 => c \in p \/ h = Press(c)) /\ (h = Lift(c) => c \notin p2)
  OBVIOUS
<1> HIDE DEF r, h
<1>3. ASSUME c \in p2 PROVE \E i \in DOMAIN r : r[i] = Lift(c)
  <2>1. PICK k \in DOMAIN q : q[k] = Lift(c) /\ k # 1
    <3>1. CASE h = Press(c)
      <4>1. Press(c) # Lift(c)
        BY MessageFields
      <4> QED BY <1>1, <3>1, <4>1 DEF LetGo
    <3>2. CASE c \in p
      BY <1>1, <1>2, <1>3, <3>2 DEF LetGo
    <3> QED BY <1>2, <1>3, <3>1, <3>2
  <2> QED BY <1>1, <2>1
<1>4. ASSUME NEW i \in DOMAIN r, r[i] = Press(c)
      PROVE  \E j \in DOMAIN r : i < j /\ r[j] = Lift(c)
  <2>1. PICK k \in DOMAIN q : i + 1 < k /\ q[k] = Lift(c)
    BY <1>1, <1>4 DEF LetGo
  <2>2. k # 1 /\ k \in Nat /\ i \in Nat
    BY <1>1, <2>1
  <2>3. k - 1 \in DOMAIN r /\ r[k - 1] = Lift(c) /\ i < k - 1
    BY <1>1, <2>1, <2>2
  <2> QED BY <2>3
<1> QED BY <1>3, <1>4 DEF LetGo, r

LEMMA EndsTail ==
  ASSUME NEW S, NEW q \in Seq(S), q # <<>>, NEW kinds, NEW b, NEW now, Ends(kinds, b, now, q),
         NEW then, Head(q).type \notin kinds => then = now,
         Head(q).type \in kinds /\ Head(q) \in {Focus(b), Visibility(b)} => then = b
  PROVE  Ends(kinds, b, then, Tail(q))
<1> DEFINE r == Tail(q)
           h == Head(q)
<1>1. /\ 1 \in DOMAIN q /\ h = q[1] /\ DOMAIN q \subseteq Nat
      /\ \A i \in DOMAIN r : i \in Nat /\ 1 < i + 1 /\ i + 1 \in DOMAIN q /\ r[i] = q[i + 1]
      /\ \A k \in DOMAIN q : k # 1 => k - 1 \in DOMAIN r /\ q[k] = r[k - 1]
  BY Rest
<1>2. /\ h.type \notin kinds => then = now
      /\ h.type \in kinds /\ h \in {Focus(b), Visibility(b)} => then = b
  OBVIOUS
<1> HIDE DEF r, h
<1>3. ASSUME \A i \in DOMAIN r : r[i].type \notin kinds PROVE then = b
  <2>1. \A k \in DOMAIN q : k # 1 => q[k].type \notin kinds
    BY <1>1, <1>3
  <2>2. CASE h.type \in kinds
    <3>1. IsLast(kinds, q, 1)
      BY <1>1, <2>1, <2>2 DEF IsLast
    <3> QED BY <1>1, <1>2, <2>2, <3>1 DEF Ends
  <2>3. CASE h.type \notin kinds
    <3>1. now = b
      BY <1>1, <2>1, <2>3 DEF Ends
    <3> QED BY <1>2, <2>3, <3>1
  <2> QED BY <2>2, <2>3
<1>4. ASSUME NEW i \in DOMAIN r, IsLast(kinds, r, i) PROVE r[i] \in {Focus(b), Visibility(b)}
  <2>1. i \in Nat /\ i + 1 \in DOMAIN q /\ r[i] = q[i + 1] /\ q[i + 1].type \in kinds
    BY <1>1, <1>4 DEF IsLast
  <2>2. ASSUME NEW k \in DOMAIN q, i + 1 < k PROVE q[k].type \notin kinds
    <3>1. k \in Nat /\ k # 1 /\ i < k - 1
      BY <1>1, <2>1, <2>2
    <3>2. k - 1 \in DOMAIN r /\ q[k] = r[k - 1]
      BY <1>1, <3>1
    <3> QED BY <1>4, <3>1, <3>2 DEF IsLast
  <2>3. IsLast(kinds, q, i + 1)
    BY <2>1, <2>2 DEF IsLast
  <2> QED BY <2>1, <2>3 DEF Ends
<1> QED BY <1>3, <1>4 DEF Ends, r

LEMMA HasTail ==
  ASSUME NEW S, NEW q \in Seq(S), q # <<>>, NEW type, Head(q).type # type, Has(q, type)
  PROVE  Has(Tail(q), type)
<1>1. /\ Head(q) = q[1]
      /\ \A k \in DOMAIN q : k # 1 => k - 1 \in DOMAIN Tail(q) /\ q[k] = Tail(q)[k - 1]
  BY Rest
<1> QED BY <1>1 DEF Has

\* What is left of a queue when the pipe breaks: a front part.
LEMMA MostExists ==
  ASSUME NEW n \in Nat, NEW T \in SUBSET (0 .. n), T # {}
  PROVE  \E i \in T : \A j \in T : i >= j
<1> DEFINE Less == OpToRel(<, Nat)
           U == {n - i : i \in T}
<1>1. \A x, y \in Nat : <<y, x>> \in Less <=> y < x
  BY DEF OpToRel
<1>2. U \subseteq Nat /\ U # {}
  <2>1. PICK t : t \in T
    OBVIOUS
  <2>2. n - t \in U /\ \A i \in T : n - i \in Nat
    BY <2>1
  <2> QED BY <2>2
<1>3. PICK u \in U : \A w \in U : <<w, u>> \notin Less
  <2>1. IsWellFoundedOn(Less, Nat)
    BY NatLessThanWellFounded
  <2> HIDE DEF Less, U
  <2> QED BY <1>2, <2>1, WFMin
<1> HIDE DEF Less
<1>4. PICK i \in T : u = n - i
  OBVIOUS
<1>5. ASSUME NEW j \in T PROVE i >= j
  <2>1. n - j \in U /\ n - j \in Nat /\ u \in Nat
    BY <1>2
  <2>2. ~(n - j < u)
    BY <1>1, <1>3, <2>1
  <2> QED BY <1>4, <2>2
<1> QED BY <1>5

LEMMA SurvivingIsFront ==
  ASSUME NEW S, NEW q \in Seq(S), NEW opening, NEW kept \in Surviving(q, opening)
  PROVE  /\ kept \in Seq(S) /\ Len(kept) \in Nat /\ DOMAIN kept = 1 .. Len(kept)
         /\ \A i \in DOMAIN kept : i \in DOMAIN q /\ kept[i] = q[i]
         /\ \A i \in DOMAIN q : i \in 1 .. Len(q) /\ (i \in DOMAIN kept \/ i \in Len(kept) + 1 .. Len(q))
<1> DEFINE T == {0} \union {i \in DOMAIN q : q[i] = opening}
           top == Max(T)
<1>1. Len(q) \in Nat /\ DOMAIN q = 1 .. Len(q)
  BY LenProperties
<1>2. T \in SUBSET (0 .. Len(q)) /\ T # {}
  BY <1>1
<1>3. PICK n \in top .. Len(q) : kept = SubSeq(q, 1, n)
  BY DEF Surviving
<1>4. top \in T /\ 0 \in T
  <2>1. \E i \in T : \A j \in T : i >= j
    BY <1>1, <1>2, MostExists
  <2> HIDE DEF T
  <2>2. top \in T
    BY <2>1 DEF Max
  <2> QED BY <2>2 DEF T
<1>5. n \in 0 .. Len(q)
  <2> HIDE DEF T, top
  <2> QED BY <1>1, <1>2, <1>3, <1>4
<1>6. /\ kept \in Seq(S) /\ Len(kept) = n
      /\ \A i \in 1 .. n : kept[i] = q[i]
  <2>1. \A i \in 1 .. n : q[i] \in S
    BY <1>1, <1>5, ElementOfSeq
  <2>2. kept = [i \in 1 .. n |-> q[i]]
    BY <1>1, <1>3, <1>5
  <2> QED BY <1>5, <2>1, <2>2
<1>7. DOMAIN kept = 1 .. Len(kept)
  BY <1>6, LenProperties
<1> QED BY <1>1, <1>5, <1>6, <1>7

-----------------------------------------------------------------------------
(***************************************************************************)
(* Types.                                                                  *)
(***************************************************************************)

LEMMA NewsType ==
  ASSUME NEW to
  PROVE  FocusNews(to) \in Seq(ToPage)
<1>1. <<>> \in Seq(ToPage)
  OBVIOUS
<1>2. <<Focus(to = "window")>> \in Seq(ToPage)
  <2>1. (to = "window") \in BOOLEAN
    OBVIOUS
  <2>2. Focus(to = "window") \in ToPage
    BY <2>1, Zenon, MessagesHaveType
  <2> QED BY <2>2
<1> QED BY <1>1, <1>2, Zenon DEF FocusNews

LEMMA SentType ==
  ASSUME TypeOK, NEW ms \in Seq(ToPage)
  PROVE  Sent(ms) \in Seq(ToPage) /\ Forwarded(ms) \in Seq(ToPage)
<1>1. toPage \o ms \in Seq(ToPage) /\ toPage \in Seq(ToPage)
  BY Concat DEF TypeOK
<1> QED BY <1>1 DEF Sent, Forwarded

LEMMA PostedType ==
  ASSUME TypeOK, NEW ms \in Seq(ToWindow)
  PROVE  Posted(ms) \in Seq(ToWindow)
<1>1. toWindow \o ms \in Seq(ToWindow) /\ toWindow \in Seq(ToWindow)
  BY Concat DEF TypeOK
<1> QED BY <1>1 DEF Posted

LEMMA ControlTypes ==
  /\ Keys \subseteq Controls /\ Buttons \subseteq Controls /\ Compositions \subseteq Controls
  /\ \A c \in Controls : <<Press(c)>> \in Seq(ToPage) /\ <<Lift(c)>> \in Seq(ToPage)
  /\ <<Msg("Navigate")>> \in Seq(ToPage) /\ <<Msg("Command")>> \in Seq(ToPage)
  /\ <<Msg("Ready")>> \in Seq(ToPage) /\ <<Msg("Gone")>> \in Seq(ToPage) /\ <<>> \in Seq(ToPage)
  /\ <<Msg("Navigation")>> \in Seq(ToWindow) /\ <<Msg("Connected")>> \in Seq(ToWindow)
  /\ <<Msg("Disconnected")>> \in Seq(ToWindow)
  /\ \A b \in BOOLEAN : <<Visibility(b)>> \in Seq(ToWindow)
  /\ \A b \in BOOLEAN : <<Visibility(b), Msg("Navigation")>> \in Seq(ToWindow)
<1>1. Keys \subseteq Controls /\ Buttons \subseteq Controls /\ Compositions \subseteq Controls
  BY DEF Controls
<1>2. \A c \in Controls : <<Press(c)>> \in Seq(ToPage) /\ <<Lift(c)>> \in Seq(ToPage)
  BY MessagesHaveType
<1>3. /\ <<Msg("Navigate")>> \in Seq(ToPage) /\ <<Msg("Command")>> \in Seq(ToPage)
      /\ <<Msg("Ready")>> \in Seq(ToPage) /\ <<Msg("Gone")>> \in Seq(ToPage)
  BY MessagesHaveType
<1>4. /\ <<Msg("Navigation")>> \in Seq(ToWindow) /\ <<Msg("Connected")>> \in Seq(ToWindow)
      /\ <<Msg("Disconnected")>> \in Seq(ToWindow)
  BY MessagesHaveType
<1>5. ASSUME NEW b \in BOOLEAN
      PROVE  /\ <<Visibility(b)>> \in Seq(ToWindow)
             /\ <<Visibility(b), Msg("Navigation")>> \in Seq(ToWindow)
  <2>1. Visibility(b) \in ToWindow /\ Msg("Navigation") \in ToWindow
    BY MessagesHaveType
  <2>2. ASSUME NEW v \in ToWindow, NEW n \in ToWindow PROVE <<v>> \in Seq(ToWindow) /\ <<v, n>> \in Seq(ToWindow)
    OBVIOUS
  <2> QED BY <2>1, <2>2
<1>6. <<>> \in Seq(ToPage)
  OBVIOUS
<1> QED BY <1>1, <1>2, <1>3, <1>4, <1>5, <1>6

\* What the focus news does to a queue: it is put behind it, or not sent.
LEMMA FocusMovesFocus ==
  ASSUME TypeOK, NEW to \in Foci, FocusMoves(to)
  PROVE  focus' \in Foci /\ told' \in BOOLEAN
BY DEF FocusMoves, Foci, TypeOK

LEMMA UserType ==
  ASSUME TypeOK, User
  PROVE  TypeOK'
<1> USE ControlTypes
<1>1. ASSUME NEW to \in Foci, ChangeFocus(to) PROVE TypeOK'
  <2>1. toPage' \in Seq(ToPage)
    BY <1>1, NewsType, SentType DEF ChangeFocus
  <2>2. focus' \in Foci /\ told' \in BOOLEAN
    BY <1>1, FocusMovesFocus DEF ChangeFocus
  <2> QED BY <1>1, <2>1, <2>2 DEF ChangeFocus, TypeOK, shown, page, Foci
<1>2. ASSUME NEW k \in Keys, NEW alt \in BOOLEAN, NEW shortcut \in BOOLEAN,
             PressKey(k, alt, shortcut) \/ LiftKey(k, alt, shortcut)
      PROVE  TypeOK'
  <2>1. toPage' \in Seq(ToPage)
    BY <1>2, SentType DEF PressKey, LiftKey, TypeOK
  <2>2. held' \subseteq Controls /\ missed' \subseteq Controls
    BY <1>2 DEF PressKey, LiftKey, TypeOK
  <2>3. UNCHANGED <<link, window, shown, barCurrent, toWindow, page, unanswered, told>>
    BY <1>2 DEF PressKey, LiftKey
  <2> QED BY <2>1, <2>2, <2>3 DEF TypeOK, window, shown, page
<1>3. ASSUME NEW b \in Buttons, NEW place \in Places, PressButton(b, place) PROVE TypeOK'
  <2>1. PICK to \in FocusAfter(place) :
          /\ FocusMoves(to)
          /\ toPage' = Forwarded(FocusNews(to) \o (IF OnPage(place) THEN <<Press(b)>> ELSE <<>>))
    BY <1>3 DEF PressButton
  <2>2. to \in Foci
    BY <2>1 DEF FocusAfter, Kept, Foci, TypeOK
  <2>3. toPage' \in Seq(ToPage)
    <3> DEFINE ms == IF OnPage(place) THEN <<Press(b)>> ELSE <<>>
    <3>1. ms \in Seq(ToPage)
      OBVIOUS
    <3> HIDE DEF ms
    <3>2. FocusNews(to) \o ms \in Seq(ToPage)
      BY <3>1, NewsType, Concat
    <3> QED BY <2>1, <3>2, SentType DEF ms
  <2>4. focus' \in Foci /\ told' \in BOOLEAN
    BY <2>1, <2>2, FocusMovesFocus
  <2>5. held' \subseteq Controls /\ missed' \subseteq Controls
    BY <1>3 DEF PressButton, TypeOK
  <2>6. UNCHANGED <<link, connected, editing, shown, barCurrent, toWindow, page, unanswered>>
    BY <1>3 DEF PressButton
  <2> QED BY <2>3, <2>4, <2>5, <2>6 DEF TypeOK, shown, page, Foci
<1>4. ASSUME NEW b \in Buttons, NEW place \in Places, LiftButton(b, place) PROVE TypeOK'
  <2>1. toPage' \in Seq(ToPage)
    BY <1>4, SentType DEF LiftButton, TypeOK
  <2>2. held' \subseteq Controls /\ missed' \subseteq Controls
    BY <1>4 DEF LiftButton, TypeOK
  <2>3. UNCHANGED <<link, window, shown, barCurrent, toWindow, page, unanswered, told>>
    BY <1>4 DEF LiftButton
  <2> QED BY <2>1, <2>2, <2>3 DEF TypeOK, window, shown, page
<1>5. ASSUME NEW i \in Compositions, Compose(i) \/ EndComposition(i) PROVE TypeOK'
  <2>1. toPage' \in Seq(ToPage)
    BY <1>5, SentType DEF Compose, EndComposition
  <2>2. held' \subseteq Controls /\ missed' \subseteq Controls
    BY <1>5 DEF Compose, EndComposition, TypeOK
  <2>3. UNCHANGED <<link, window, shown, barCurrent, toWindow, page, unanswered, told>>
    BY <1>5 DEF Compose, EndComposition
  <2> QED BY <2>1, <2>2, <2>3 DEF TypeOK, window, shown, page
<1>6. ASSUME EditUrl PROVE TypeOK'
  BY <1>6 DEF EditUrl, TypeOK, shown, page
<1>7. ASSUME Go PROVE TypeOK'
  <2>1. toPage' \in Seq(ToPage)
    <3>1. <<Msg("Navigate")>> \o FocusNews("window") \in Seq(ToPage)
      BY NewsType, Concat
    <3> QED BY <1>7, <3>1, SentType DEF Go
  <2>2. focus' \in Foci /\ told' \in BOOLEAN
    <3>1. "window" \in Foci
      BY DEF Foci
    <3> QED BY <1>7, <3>1, FocusMovesFocus DEF Go
  <2>3. editing' \in BOOLEAN
    BY <1>7 DEF Go
  <2>4. UNCHANGED <<link, connected, barCurrent, shown, held, toWindow, page, unanswered, missed>>
    BY <1>7 DEF Go
  <2> QED BY <2>1, <2>2, <2>3, <2>4 DEF TypeOK, shown, page, Foci
<1>8. ASSUME ClickCommand PROVE TypeOK'
  <2>1. toPage' \in Seq(ToPage)
    BY <1>8, SentType DEF ClickCommand
  <2> QED BY <1>8, <2>1 DEF ClickCommand, TypeOK, window, shown, page
<1> QED BY <1>1, <1>2, <1>3, <1>4, <1>5, <1>6, <1>7, <1>8 DEF User, Foci

LEMMA InitHasType == Init => TypeOK
<1>1. <<>> \in Seq(ToPage) /\ <<>> \in Seq(ToWindow)
  OBVIOUS
<1> QED BY <1>1 DEF Init, TypeOK

LEMMA StepHasType == TypeOK /\ [Next]_vars => TypeOK'
<1> SUFFICES ASSUME TypeOK, [Next]_vars PROVE TypeOK'
  OBVIOUS
<1> USE ControlTypes
<1>1. ASSUME Connect PROVE TypeOK'
  <2>1. /\ toPage' \in Seq(ToPage) /\ toWindow' \in Seq(ToWindow)
    BY <1>1, MessagesHaveType, AppendProperties DEF Connect, TypeOK
  <2> QED BY <1>1, <2>1 DEF Connect, TypeOK, window, shown, page
<1>2. ASSUME LinkBreaks PROVE TypeOK'
  <2>1. PICK kept \in Surviving(toPage, Msg("Ready")) :
          /\ toPage' = Append(kept, Msg("Gone"))
          /\ missed' = missed \union LostLifts(kept)
    BY <1>2 DEF LinkBreaks
  <2>2. toPage' \in Seq(ToPage)
    BY <2>1, SurvivingIsFront, MessagesHaveType, AppendProperties DEF TypeOK
  <2>3. missed' \subseteq Controls
    BY <2>1 DEF LostLifts, TypeOK
  <2>4. PICK rest \in Surviving(toWindow, Msg("Connected")) :
          toWindow' = Append(rest, Msg("Disconnected"))
    BY <1>2 DEF LinkBreaks
  <2>5. toWindow' \in Seq(ToWindow)
    BY <2>4, SurvivingIsFront, MessagesHaveType, AppendProperties DEF TypeOK
  <2> QED BY <1>2, <2>2, <2>3, <2>5 DEF LinkBreaks, TypeOK, window, shown, page
<1>3. ASSUME User PROVE TypeOK'
  BY <1>3, UserType
<1>4. ASSUME HandleConnected \/ HandleDisconnected \/ HandleNavigation PROVE TypeOK'
  <2>1. /\ toWindow # <<>> /\ toWindow' = Tail(toWindow)
        /\ UNCHANGED <<link, editing, wanted, held, page, unanswered, missed, focus, visible, toPage, told>>
    BY <1>4 DEF HandleConnected, HandleDisconnected, HandleNavigation, WindowGets
  <2>2. toWindow' \in Seq(ToWindow)
    BY <2>1, Rest DEF TypeOK
  <2>3. connected' \in BOOLEAN /\ barCurrent' \in BOOLEAN
    BY <1>4 DEF HandleConnected, HandleDisconnected, HandleNavigation, TypeOK
  <2> QED BY <2>1, <2>2, <2>3 DEF TypeOK, page
<1>5. ASSUME HandleVisibility PROVE TypeOK'
  <2>1. /\ toWindow # <<>> /\ toWindow' = Tail(toWindow) /\ Head(toWindow).type = "Visibility"
        /\ UNCHANGED <<link, editing, wanted, held, page, unanswered, missed, connected, barCurrent>>
        /\ visible' = Head(toWindow).on
        /\ FocusMoves(IF visible' THEN focus ELSE "away")
        /\ toPage' = Forwarded(FocusNews(focus'))
    BY <1>5 DEF HandleVisibility, WindowGets
  <2>2. toWindow' \in Seq(ToWindow) /\ Head(toWindow) \in ToWindow
    BY <2>1, Rest DEF TypeOK
  <2>3. visible' \in BOOLEAN
    BY <2>1, <2>2, MessageShapes
  <2>4. focus' \in Foci /\ told' \in BOOLEAN
    <3>1. (IF visible' THEN focus ELSE "away") \in Foci
      BY DEF TypeOK, Foci
    <3> QED BY <2>1, <3>1, FocusMovesFocus
  <2>5. toPage' \in Seq(ToPage)
    BY <2>1, NewsType, SentType
  <2> QED BY <2>1, <2>2, <2>3, <2>4, <2>5 DEF TypeOK, page, Foci
<1>6. ASSUME OnLoadingStateChange \/ OnAddressChange PROVE TypeOK'
  <2>1. toWindow' \in Seq(ToWindow)
    BY <1>6, PostedType DEF OnLoadingStateChange, OnAddressChange, PublishNavigationState
  <2>2. /\ barCurrent' \in BOOLEAN /\ unanswered' \in BOOLEAN
        /\ UNCHANGED <<link, window, shown, held, toPage, page, told, missed>>
    BY <1>6 DEF OnLoadingStateChange, OnAddressChange, PublishNavigationState, TypeOK
  <2> QED BY <2>1, <2>2 DEF TypeOK, window, shown, page
<1>7. ASSUME SetViewerVisible PROVE TypeOK'
  <2>1. wanted' \in BOOLEAN
    BY <1>7 DEF SetViewerVisible
  <2>2. toWindow' \in Seq(ToWindow)
    BY <1>7, <2>1, PostedType DEF SetViewerVisible
  <2> QED BY <1>7, <2>1, <2>2 DEF SetViewerVisible, TypeOK, window, page
<1>8. ASSUME UIStep PROVE TypeOK'
  <2>1. PICK type : PageGets(type)
    BY <1>8 DEF UIStep, OnViewerReady, OnViewerDisconnected, OnViewerCommand, DispatchPress,
                DispatchLift, DispatchFocus
  <2>2. /\ toPage # <<>> /\ toPage' = Tail(toPage)
        /\ UNCHANGED <<link, window, shown, barCurrent, held, told, missed>>
    BY <2>1 DEF PageGets
  <2>3. toPage' \in Seq(ToPage) /\ Head(toPage) \in ToPage
    BY <2>2, Rest DEF TypeOK
  <2>4. toWindow' \in Seq(ToWindow)
    BY <1>8, PostedType DEF UIStep, OnViewerReady, OnViewerDisconnected, OnViewerCommand,
         DispatchPress, DispatchLift, DispatchFocus, TypeOK
  <2>5. unanswered' \in BOOLEAN
    BY <1>8 DEF UIStep, OnViewerReady, OnViewerDisconnected, OnViewerCommand,
         DispatchPress, DispatchLift, DispatchFocus, TypeOK
  <2>6. pressed' \subseteq Controls /\ pageFocused' \in BOOLEAN
    BY <1>8, <2>3, MessageShapes DEF UIStep, OnViewerReady, OnViewerDisconnected,
         OnViewerCommand, DispatchPress, DispatchLift, DispatchFocus, PageGets, page, TypeOK
  <2> QED BY <2>2, <2>3, <2>4, <2>5, <2>6 DEF TypeOK, window, shown
<1>9. ASSUME UNCHANGED vars PROVE TypeOK'
  BY <1>9 DEF vars, window, shown, page, TypeOK
<1> QED BY <1>1, <1>2, <1>3, <1>4, <1>5, <1>6, <1>7, <1>8, <1>9 DEF Next, WindowStep

\* Every variable of the viewer's window, its page and the queues between
\* them stays in its type.
THEOREM TypeCorrect == Spec => []TypeOK
<1>1. Init => TypeOK
  BY InitHasType
<1>2. TypeOK /\ [Next]_vars => TypeOK'
  BY StepHasType
<1> QED BY <1>1, <1>2, PTL DEF Spec

-----------------------------------------------------------------------------
(***************************************************************************)
(* What is under way settles what window and page have to agree on.        *)
(***************************************************************************)

\* A change of focus, its news put behind q if the window sends it: nothing
\* pressed and nothing asked for is lost, and the news settles the focus.
LEMMA NewsSettles ==
  ASSUME TypeOK, NEW to \in Foci, FocusMoves(to), NEW q \in Seq(ToPage),
         told => link /\ Ends(FocusKinds, focus = "window", pageFocused, q),
         NEW r, r = IF connected /\ link THEN q \o FocusNews(to) ELSE q
  PROVE  /\ r \in Seq(ToPage)
         /\ told' => link /\ Ends(FocusKinds, focus' = "window", pageFocused, r)
         /\ \A c, p : LetGo(c, p, q) => LetGo(c, p, r)
         /\ \A t : Has(q, t) => Has(r, t)
<1>1. r \in Seq(ToPage)
  BY NewsType, Concat
<1>2. \A t : Has(q, t) => Has(r, t)
  BY NewsType, HasConcat
<1>3. focus' = to /\ told' = IF FocusNews(to) = <<>> THEN told ELSE connected /\ link
  BY DEF FocusMoves
<1>4. CASE (to = "window") = (focus = "window")
  <2>1. FocusNews(to) = <<>>
    BY <1>4 DEF FocusNews
  <2>2. r = q
    BY <2>1, ConcatEmptySeq
  <2>3. told' = told /\ (focus' = "window") = (focus = "window")
    BY <1>3, <1>4, <2>1
  <2> QED BY <1>1, <1>2, <2>2, <2>3
<1>5. CASE (to = "window") # (focus = "window")
  <2> DEFINE b == to = "window"
             m == Focus(b)
  <2>1. FocusNews(to) = <<m>>
    BY <1>5 DEF FocusNews
  <2>2. m.type = "Focus" /\ m \in ToPage
    <3>1. b \in BOOLEAN
      OBVIOUS
    <3> HIDE DEF b
    <3>2. Focus(b) \in ToPage
      BY <3>1, MessagesHaveType
    <3> QED BY <3>2, MessageFields
  <2>3. told' => connected /\ link
    <3>1. FocusNews(to) # <<>>
      <4> HIDE DEF m
      <4>1. <<m>> # <<>>
        OBVIOUS
      <4> QED BY <2>1, <4>1
    <3> QED BY <1>3, <3>1, Zenon
  <2>4. (focus' = "window") = b
    BY <1>3
  <2>5. b \in BOOLEAN /\ m = Focus(b)
    OBVIOUS
  <2> HIDE DEF m, b
  <2>6. <<m>> \in Seq(ToPage) /\ DOMAIN <<m>> = {1} /\ <<m>>[1] = m
    BY <2>2
  <2>7. \A c, p : LetGo(c, p, q) => LetGo(c, p, q \o <<m>>)
    <3>1. \A c : m # Press(c)
      BY <2>2, MessageFields
    <3> QED BY <2>6, <3>1, LetGoConcat
  <2>8. Ends(FocusKinds, b, pageFocused, q \o <<m>>)
    <3>1. m.type \in FocusKinds /\ m \in {Focus(b), Visibility(b)}
      BY <2>2, <2>5 DEF FocusKinds
    <3> DEFINE ms == <<m>>
    <3>2. ms \in Seq(ToPage) /\ DOMAIN ms = {1} /\ ms[1] = m
      BY <2>6
    <3> HIDE DEF ms
    <3>3. Ends(FocusKinds, b, pageFocused, q \o ms)
      BY <3>1, <3>2, EndsSaid
    <3> QED BY <3>3 DEF ms
  <2>9. told' => link /\ Ends(FocusKinds, b, pageFocused, r)
    BY <2>1, <2>3, <2>8
  <2> QED BY <1>1, <1>2, <2>1, <2>4, <2>7, <2>9
<1> QED BY <1>4, <1>5

\* What the window sends leaves what is on its way to it alone.
LEMMA SendKeeps ==
  ASSUME TypeOK, AddressComing, VisibilityComing, NEW ms \in Seq(ToPage),
         toPage' \in {toPage, toPage \o ms},
         UNCHANGED <<link, editing, barCurrent, unanswered, toWindow, wanted, visible>>
  PROVE  AddressComing' /\ VisibilityComing'
<1>1. \A t : Has(toPage, t) => Has(toPage \o ms, t)
  BY HasConcat DEF TypeOK
<1>2. \A t : Has(toPage, t) => Has(toPage', t)
  BY <1>1
<1> QED BY <1>2 DEF AddressComing, VisibilityComing

\* A message that is not about the focus.
LEMMA QuietForFocus ==
  ASSUME TypeOK, FocusComing, NEW m \in ToPage, m.type \notin FocusKinds,
         toPage' \in {toPage, toPage \o <<m>>}, UNCHANGED <<told, link, focus, pageFocused>>
  PROVE  FocusComing'
<1> DEFINE ms == <<m>>
<1>1. ms \in Seq(ToPage) /\ DOMAIN ms = {1} /\ ms[1] = m
  OBVIOUS
<1>2. toPage' \in {toPage, toPage \o ms}
  OBVIOUS
<1> HIDE DEF ms
<1>3. told => Ends(FocusKinds, focus = "window", pageFocused, toPage \o ms)
  BY <1>1, EndsConcat DEF FocusComing, TypeOK
<1>4. told => Ends(FocusKinds, focus = "window", pageFocused, toPage')
  BY <1>2, <1>3 DEF FocusComing
<1> QED BY <1>4 DEF FocusComing

LEMMA PressKeepsLifts ==
  ASSUME NEW q \in Seq(ToPage), NEW k \in Controls,
         \A c \in Controls : c \in held \union missed \/ LetGo(c, pressed, q),
         held' = held \union {k}, missed' = missed \ {k}, pressed' = pressed,
         toPage' \in {q, q \o <<Press(k)>>}
  PROVE  LiftsComing'
<1> SUFFICES ASSUME NEW c \in Controls, c \notin held' \union missed'
             PROVE  LetGo(c, pressed, toPage')
  BY DEF LiftsComing
<1> DEFINE ms == <<Press(k)>>
<1>1. c # k /\ LetGo(c, pressed, q)
  OBVIOUS
<1>2. ms \in Seq(ToPage) /\ DOMAIN ms = {1} /\ ms[1] = Press(k)
  BY MessagesHaveType
<1>3. Press(k) # Press(c)
  BY <1>1, MessageFields
<1>4. toPage' \in {q, q \o ms}
  OBVIOUS
<1> HIDE DEF ms
<1>5. LetGo(c, pressed, q \o ms)
  BY <1>1, <1>2, <1>3, LetGoConcat
<1> QED BY <1>1, <1>4, <1>5

LEMMA LiftKeepsLifts ==
  ASSUME TypeOK, LiftsComing, NEW k \in Controls, held' = held \ {k}, pressed' = pressed,
         missed \subseteq missed',
         IF k \in missed' THEN toPage' \in {toPage, toPage \o <<Lift(k)>>}
                          ELSE toPage' = toPage \o <<Lift(k)>>
  PROVE  LiftsComing'
<1> SUFFICES ASSUME NEW c \in Controls, c \notin held' \union missed'
             PROVE  LetGo(c, pressed, toPage')
  BY DEF LiftsComing
<1> DEFINE ms == <<Lift(k)>>
<1>1. CASE c = k
  BY <1>1, LetGoLifted DEF TypeOK
<1>2. CASE c # k
  <2>1. LetGo(c, pressed, toPage) /\ toPage \in Seq(ToPage)
    BY <1>2 DEF LiftsComing, TypeOK
  <2>2. ms \in Seq(ToPage) /\ DOMAIN ms = {1} /\ ms[1] = Lift(k)
    BY MessagesHaveType
  <2>3. Lift(k) # Press(c)
    BY MessageFields
  <2>4. toPage' \in {toPage, toPage \o ms}
    OBVIOUS
  <2> HIDE DEF ms
  <2>5. LetGo(c, pressed, toPage \o ms)
    BY <2>1, <2>2, <2>3, LetGoConcat
  <2> QED BY <2>1, <2>4, <2>5
<1> QED BY <1>1, <1>2

\* The user's steps.
LEMMA UserKeepsInv ==
  ASSUME IInv, User
  PROVE  LiftsComing' /\ FocusComing' /\ AddressComing' /\ VisibilityComing'
<1>a. TypeOK /\ LiftsComing /\ FocusComing /\ AddressComing /\ VisibilityComing
  BY DEF IInv
<1>b. toPage \in Seq(ToPage)
  BY <1>a DEF TypeOK
<1>c. \A c \in Controls : /\ Press(c) \in ToPage /\ Press(c).type \notin FocusKinds
                          /\ Lift(c) \in ToPage /\ Lift(c).type \notin FocusKinds
  BY MessagesHaveType, MessageFields DEF FocusKinds
<1>d. /\ Msg("Command") \in ToPage /\ Msg("Command").type \notin FocusKinds
      /\ Msg("Navigate") \in ToPage /\ Msg("Navigate").type \notin FocusKinds
  BY MessagesHaveType, MessageFields DEF FocusKinds
<1> USE ControlTypes
<1>1. ASSUME NEW to \in Foci, ChangeFocus(to)
      PROVE  LiftsComing' /\ FocusComing' /\ AddressComing' /\ VisibilityComing'
  <2>1. /\ FocusMoves(to) /\ UNCHANGED <<link, held, missed, pressed, pageFocused>>
        /\ toPage' = IF connected /\ link THEN toPage \o FocusNews(to) ELSE toPage
        /\ UNCHANGED <<editing, barCurrent, unanswered, toWindow, wanted, visible>>
    BY <1>1 DEF ChangeFocus, Forwarded, Sent, page, shown
  <2>2. /\ told' => link /\ Ends(FocusKinds, focus' = "window", pageFocused, toPage')
        /\ \A c, p : LetGo(c, p, toPage) => LetGo(c, p, toPage')
    BY <1>a, <1>b, <2>1, NewsSettles DEF FocusComing
  <2>3. AddressComing' /\ VisibilityComing'
    BY <1>a, <2>1, NewsType, SendKeeps
  <2>4. FocusComing'
    BY <2>1, <2>2 DEF FocusComing
  <2>5. LiftsComing'
    BY <1>a, <2>1, <2>2 DEF LiftsComing
  <2> QED BY <2>3, <2>4, <2>5
<1>2. ASSUME NEW k \in Keys, NEW alt \in BOOLEAN, NEW shortcut \in BOOLEAN,
             PressKey(k, alt, shortcut)
      PROVE  LiftsComing' /\ FocusComing' /\ AddressComing' /\ VisibilityComing'
  <2>1. /\ toPage' \in {toPage, toPage \o <<Press(k)>>} /\ k \in Controls
        /\ held' = held \union {k} /\ missed' = missed \ {k}
        /\ UNCHANGED <<pressed, told, link, focus, pageFocused>>
        /\ UNCHANGED <<link, editing, barCurrent, unanswered, toWindow, wanted, visible>>
    BY <1>2 DEF PressKey, Forwarded, Sent, window, page, shown
  <2>2. LiftsComing'
    BY <1>a, <1>b, <2>1, PressKeepsLifts DEF LiftsComing
  <2>3. FocusComing'
    BY <1>a, <1>c, <2>1, QuietForFocus
  <2> QED BY <1>a, <2>1, <2>2, <2>3, SendKeeps
<1>3. ASSUME NEW k \in Keys, NEW alt \in BOOLEAN, NEW shortcut \in BOOLEAN,
             LiftKey(k, alt, shortcut)
      PROVE  LiftsComing' /\ FocusComing' /\ AddressComing' /\ VisibilityComing'
  <2>1. /\ toPage' \in {toPage, toPage \o <<Lift(k)>>} /\ k \in Controls
        /\ held' = held \ {k} /\ missed \subseteq missed'
        /\ UNCHANGED <<pressed, told, link, focus, pageFocused>>
        /\ UNCHANGED <<link, editing, barCurrent, unanswered, toWindow, wanted, visible>>
    BY <1>3 DEF LiftKey, Forwarded, Sent, window, page, shown
  <2>2. k \notin missed' => toPage' = toPage \o <<Lift(k)>>
    BY <1>3 DEF LiftKey, ForwardsKey, Forwarded, Sent
  <2>3. LiftsComing'
    BY <1>a, <2>1, <2>2, LiftKeepsLifts
  <2>4. FocusComing'
    BY <1>a, <1>c, <2>1, QuietForFocus
  <2> QED BY <1>a, <2>1, <2>3, <2>4, SendKeeps
<1>4. ASSUME NEW b \in Buttons, NEW place \in Places, PressButton(b, place)
      PROVE  LiftsComing' /\ FocusComing' /\ AddressComing' /\ VisibilityComing'
  <2>1. PICK to \in FocusAfter(place) :
          /\ FocusMoves(to)
          /\ toPage' = Forwarded(FocusNews(to) \o (IF OnPage(place) THEN <<Press(b)>> ELSE <<>>))
    BY <1>4 DEF PressButton
  <2>2. to \in Foci
    BY <1>a, <2>1 DEF FocusAfter, Kept, Foci, TypeOK
  <2>3. /\ b \in Controls /\ held' = held \union {b} /\ missed' = missed \ {b}
        /\ UNCHANGED <<link, pressed, pageFocused>>
        /\ UNCHANGED <<link, editing, barCurrent, unanswered, toWindow, wanted, visible>>
    BY <1>4 DEF PressButton, page, shown
  <2> DEFINE ms == IF OnPage(place) THEN <<Press(b)>> ELSE <<>>
             q == IF connected /\ link THEN toPage \o FocusNews(to) ELSE toPage
  <2>4. ms \in Seq(ToPage) /\ FocusNews(to) \in Seq(ToPage) /\ ms \in {<<>>, <<Press(b)>>}
    BY <2>3, NewsType
  <2>5. toPage' = Forwarded(FocusNews(to) \o ms)
    BY <2>1
  <2> HIDE DEF ms
  <2>6. /\ q \in Seq(ToPage)
        /\ told' => link /\ Ends(FocusKinds, focus' = "window", pageFocused, q)
        /\ \A c, p : LetGo(c, p, toPage) => LetGo(c, p, q)
    BY <1>a, <1>b, <2>1, <2>2, NewsSettles DEF FocusComing
  <2>7. toPage \o (FocusNews(to) \o ms) = (toPage \o FocusNews(to)) \o ms
    BY <1>b, <2>4, ConcatAssociative
  <2>8. toPage' = IF connected /\ link THEN q \o ms ELSE q
    BY <2>5, <2>7 DEF Forwarded, Sent
  <2>9. AddressComing' /\ VisibilityComing'
    <3>1. FocusNews(to) \o ms \in Seq(ToPage)
      BY <2>4, Concat
    <3>2. toPage' \in {toPage, toPage \o (FocusNews(to) \o ms)}
      BY <2>5 DEF Forwarded, Sent
    <3> QED BY <1>a, <2>3, <3>1, <3>2, SendKeeps
  <2> HIDE DEF q
  <2>10. toPage' \in {q, q \o <<Press(b)>>}
    <3>1. q \o <<>> = q
      BY <2>6, ConcatEmptySeq
    <3> QED BY <2>4, <2>8, <3>1
  <2>11. LiftsComing'
    <3>1. \A c \in Controls : c \in held \union missed \/ LetGo(c, pressed, q)
      BY <1>a, <2>6 DEF LiftsComing
    <3> QED BY <2>3, <2>6, <2>10, <3>1, PressKeepsLifts
  <2>12. FocusComing'
    <3> DEFINE one == <<Press(b)>>
    <3>1. one \in Seq(ToPage) /\ DOMAIN one = {1} /\ one[1] = Press(b)
      BY <1>c, <2>3
    <3>2. toPage' \in {q, q \o one}
      BY <2>10
    <3> HIDE DEF one
    <3>3. told' => Ends(FocusKinds, focus' = "window", pageFocused, q \o one)
      BY <1>c, <2>3, <2>6, <3>1, EndsConcat
    <3>4. told' => Ends(FocusKinds, focus' = "window", pageFocused, toPage')
      BY <2>6, <3>2, <3>3
    <3> QED BY <2>3, <2>6, <3>4 DEF FocusComing
  <2> QED BY <2>9, <2>11, <2>12
<1>5. ASSUME NEW b \in Buttons, NEW place \in Places, LiftButton(b, place)
      PROVE  LiftsComing' /\ FocusComing' /\ AddressComing' /\ VisibilityComing'
  <2>1. /\ toPage' \in {toPage, toPage \o <<Lift(b)>>} /\ b \in Controls
        /\ held' = held \ {b} /\ missed \subseteq missed'
        /\ UNCHANGED <<pressed, told, link, focus, pageFocused>>
        /\ UNCHANGED <<link, editing, barCurrent, unanswered, toWindow, wanted, visible>>
    BY <1>5 DEF LiftButton, Forwarded, Sent, window, page, shown
  <2>2. b \notin missed' => toPage' = toPage \o <<Lift(b)>>
    BY <1>5 DEF LiftButton, Forwarded, Sent
  <2>3. LiftsComing'
    BY <1>a, <2>1, <2>2, LiftKeepsLifts
  <2>4. FocusComing'
    BY <1>a, <1>c, <2>1, QuietForFocus
  <2> QED BY <1>a, <2>1, <2>3, <2>4, SendKeeps
<1>6. ASSUME NEW i \in Compositions, Compose(i)
      PROVE  LiftsComing' /\ FocusComing' /\ AddressComing' /\ VisibilityComing'
  <2>1. /\ toPage' \in {toPage, toPage \o <<Press(i)>>} /\ i \in Controls
        /\ held' = held \union {i} /\ missed' = missed \ {i}
        /\ UNCHANGED <<pressed, told, link, focus, pageFocused>>
        /\ UNCHANGED <<link, editing, barCurrent, unanswered, toWindow, wanted, visible>>
    BY <1>6 DEF Compose, Forwarded, Sent, window, page, shown
  <2>2. LiftsComing'
    BY <1>a, <1>b, <2>1, PressKeepsLifts DEF LiftsComing
  <2>3. FocusComing'
    BY <1>a, <1>c, <2>1, QuietForFocus
  <2> QED BY <1>a, <2>1, <2>2, <2>3, SendKeeps
<1>7. ASSUME NEW i \in Compositions, EndComposition(i)
      PROVE  LiftsComing' /\ FocusComing' /\ AddressComing' /\ VisibilityComing'
  <2>1. /\ toPage' \in {toPage, toPage \o <<Lift(i)>>} /\ i \in Controls
        /\ held' = held \ {i} /\ missed \subseteq missed'
        /\ UNCHANGED <<pressed, told, link, focus, pageFocused>>
        /\ UNCHANGED <<link, editing, barCurrent, unanswered, toWindow, wanted, visible>>
    BY <1>7 DEF EndComposition, Forwarded, Sent, window, page, shown
  <2>2. i \notin missed' => toPage' = toPage \o <<Lift(i)>>
    BY <1>7 DEF EndComposition, Forwarded, Sent
  <2>3. LiftsComing'
    BY <1>a, <2>1, <2>2, LiftKeepsLifts
  <2>4. FocusComing'
    BY <1>a, <1>c, <2>1, QuietForFocus
  <2> QED BY <1>a, <2>1, <2>3, <2>4, SendKeeps
<1>8. ASSUME EditUrl PROVE LiftsComing' /\ FocusComing' /\ AddressComing' /\ VisibilityComing'
  BY <1>8, <1>a DEF EditUrl, shown, page, LiftsComing, FocusComing, AddressComing, VisibilityComing
<1>9. ASSUME Go PROVE LiftsComing' /\ FocusComing' /\ AddressComing' /\ VisibilityComing'
  <2> DEFINE ms == <<Msg("Navigate")>>
             q == IF link THEN toPage \o ms ELSE toPage
  <2>1. ms \in Seq(ToPage) /\ DOMAIN ms = {1} /\ ms[1] = Msg("Navigate")
    BY <1>d
  <2>2. /\ FocusMoves("window") /\ "window" \in Foci
        /\ toPage' = IF connected THEN Sent(ms \o FocusNews("window")) ELSE Sent(ms)
        /\ UNCHANGED <<link, connected, barCurrent, unanswered, held, missed, toWindow>>
        /\ UNCHANGED <<pressed, pageFocused, wanted, visible>>
    BY <1>9 DEF Go, Foci, shown, page
  <2> HIDE DEF ms
  <2>3. toPage \o (ms \o FocusNews("window")) = (toPage \o ms) \o FocusNews("window")
    <3> DEFINE n == FocusNews("window")
    <3>1. n \in Seq(ToPage) /\ toPage \in Seq(ToPage)
      BY <1>b, NewsType
    <3> HIDE DEF n
    <3>2. toPage \o (ms \o n) = (toPage \o ms) \o n
      BY ONLY <2>1, <3>1, ConcatAssociative
    <3> QED BY <3>2 DEF n
  <2>4. toPage' = IF connected /\ link THEN q \o FocusNews("window") ELSE q
    BY <2>2, <2>3 DEF Sent
  <2>5. q \in Seq(ToPage)
    BY <1>b, <2>1, Concat
  <2>6. told => link /\ Ends(FocusKinds, focus = "window", pageFocused, q)
    BY <1>a, <1>b, <1>d, <2>1, EndsConcat DEF FocusComing
  <2>7. \A c, p : LetGo(c, p, toPage) => LetGo(c, p, q)
    <3>1. \A c : Msg("Navigate") # Press(c)
      BY MessageFields
    <3> QED BY <1>b, <2>1, <3>1, LetGoConcat
  <2>8. /\ \A t : Has(toPage, t) => Has(q, t)
        /\ link => Has(q, "Navigate")
    <3>1. Has(ms, "Navigate")
      BY <2>1, MessageFields DEF Has
    <3> QED BY <1>b, <2>1, <3>1, HasConcat
  <2> HIDE DEF q
  <2>9. /\ told' => link /\ Ends(FocusKinds, focus' = "window", pageFocused, toPage')
        /\ \A c, p : LetGo(c, p, q) => LetGo(c, p, toPage')
        /\ \A t : Has(q, t) => Has(toPage', t)
    BY <1>a, <2>2, <2>4, <2>5, <2>6, NewsSettles
  <2>10. FocusComing'
    BY <2>2, <2>9 DEF FocusComing
  <2>11. LiftsComing'
    BY <1>a, <2>2, <2>7, <2>9 DEF LiftsComing
  <2>12. AddressComing' /\ VisibilityComing'
    BY <1>a, <2>2, <2>8, <2>9 DEF AddressComing, VisibilityComing
  <2> QED BY <2>10, <2>11, <2>12
<1>10. ASSUME ClickCommand PROVE LiftsComing' /\ FocusComing' /\ AddressComing' /\ VisibilityComing'
  <2> DEFINE ms == <<Msg("Command")>>
  <2>1. ms \in Seq(ToPage) /\ DOMAIN ms = {1} /\ ms[1] = Msg("Command")
    BY <1>d
  <2>2. /\ toPage' \in {toPage, toPage \o <<Msg("Command")>>}
        /\ UNCHANGED <<pressed, told, link, focus, pageFocused, held, missed>>
        /\ UNCHANGED <<link, editing, barCurrent, unanswered, toWindow, wanted, visible>>
    BY <1>10 DEF ClickCommand, Sent, window, page, shown
  <2>3. FocusComing'
    BY <1>a, <1>d, <2>2, QuietForFocus
  <2>4. AddressComing' /\ VisibilityComing'
    BY <1>a, <2>2, SendKeeps
  <2>5. toPage' \in {toPage, toPage \o ms}
    BY <2>2
  <2> HIDE DEF ms
  <2>6. \A c, p : LetGo(c, p, toPage) => LetGo(c, p, toPage')
    <3>1. \A c : Msg("Command") # Press(c)
      BY MessageFields
    <3> QED BY <1>b, <2>1, <2>5, <3>1, LetGoConcat
  <2>7. LiftsComing'
    BY <1>a, <2>2, <2>6 DEF LiftsComing
  <2> QED BY <2>3, <2>4, <2>7
<1> QED
  BY <1>1, <1>2, <1>3, <1>4, <1>5, <1>6, <1>7, <1>8, <1>9, <1>10 DEF User, Foci

\* The producer's UI thread handles the head of what was sent: the controls
\* and the focus follow it, and an answer it owes is queued.
LEMMA UIKeepsInv ==
  ASSUME IInv, UIStep
  PROVE  LiftsComing' /\ FocusComing' /\ AddressComing' /\ VisibilityComing'
<1> DEFINE h == Head(toPage)
<1>a. /\ TypeOK /\ LiftsComing /\ FocusComing /\ AddressComing /\ VisibilityComing
      /\ toPage \in Seq(ToPage) /\ toWindow \in Seq(ToWindow)
      /\ wanted \in BOOLEAN
  BY DEF IInv, TypeOK
<1>b. /\ toPage # <<>> /\ toPage' = Tail(toPage)
      /\ UNCHANGED <<link, connected, focus, editing, barCurrent, visible, wanted, held, told, missed>>
  BY DEF UIStep, OnViewerReady, OnViewerDisconnected, OnViewerCommand, DispatchPress,
         DispatchLift, DispatchFocus, PageGets, window, shown
<1>c. h \in ToPage
  BY <1>a, <1>b, Rest
<1>d. /\ h.type = "Press" => h = Press(h.control)
      /\ h.type = "Lift" => h = Lift(h.control)
      /\ h.type = "Focus" => h = Focus(h.on)
  BY <1>c, MessageShapes
<1> HIDE DEF h
\* The controls.
<1>1. LiftsComing'
  <2>1. \A c : c \in pressed' => c \in pressed \/ h = Press(c)
    <3>1. CASE pressed' = pressed
      BY <3>1
    <3>2. CASE pressed' # pressed
      <4>1. \/ pressed' = pressed \ Compositions
            \/ DispatchPress \/ pressed' = pressed \ {h.control}
        BY <3>2 DEF UIStep, OnViewerReady, OnViewerDisconnected, OnViewerCommand,
           DispatchLift, DispatchFocus, page, h
      <4>2. DispatchPress => h.type = "Press" /\ pressed' = pressed \union {h.control}
        BY DEF DispatchPress, PageGets, h
      <4> QED BY <1>d, <4>1, <4>2
    <3> QED BY <3>1, <3>2
  <2>2. \A c : h = Lift(c) => c \notin pressed'
    <3> SUFFICES ASSUME NEW c, h = Lift(c) PROVE c \notin pressed'
      OBVIOUS
    <3>1. h.type = "Lift" /\ h.control = c
      BY MessageFields
    <3>2. DispatchLift
      BY <3>1 DEF UIStep, OnViewerReady, OnViewerDisconnected, OnViewerCommand,
         DispatchPress, DispatchFocus, PageGets, h
    <3> QED BY <3>1, <3>2 DEF DispatchLift, h
  <2>3. ASSUME NEW c \in Controls, LetGo(c, pressed, toPage) PROVE LetGo(c, pressed', Tail(toPage))
    <3>1. (c \in pressed' => c \in pressed \/ h = Press(c)) /\ (h = Lift(c) => c \notin pressed')
      BY <2>1, <2>2
    <3> DEFINE p2 == pressed'
    <3>2. (c \in p2 => c \in pressed \/ h = Press(c)) /\ (h = Lift(c) => c \notin p2)
      BY <3>1
    <3> HIDE DEF p2
    <3>3. LetGo(c, p2, Tail(toPage))
      BY <1>a, <1>b, <2>3, <3>2, LetGoTail DEF h
    <3> QED BY <3>3 DEF p2
  <2> QED BY <1>a, <1>b, <2>3 DEF LiftsComing
\* The focus.
<1>2. FocusComing'
  <2> DEFINE b == focus = "window"
             now2 == pageFocused'
  <2>1. h.type \notin FocusKinds => now2 = pageFocused
    BY DEF UIStep, OnViewerReady, OnViewerDisconnected, OnViewerCommand, DispatchPress,
           DispatchLift, DispatchFocus, PageGets, FocusKinds, page, h
  <2>2. h.type = "Focus" => now2 = h.on
    BY DEF UIStep, OnViewerReady, OnViewerDisconnected, OnViewerCommand, DispatchPress,
           DispatchLift, DispatchFocus, PageGets, h
  <2>3. told => Ends(FocusKinds, b, pageFocused, toPage)
    BY <1>a DEF FocusComing
  <2>4. (focus' = "window") = b
    BY <1>b
  <2> HIDE DEF b, now2
  <2>5. h.type \in FocusKinds /\ h \in {Focus(b), Visibility(b)} => now2 = b
    <3>1. h = Visibility(b) => h.type \notin FocusKinds
      BY MessageFields DEF FocusKinds
    <3>2. h = Focus(b) => h.type = "Focus" /\ h.on = b
      BY MessageFields
    <3> QED BY <2>2, <3>1, <3>2
  <2>6. told => Ends(FocusKinds, b, now2, Tail(toPage))
    BY <1>a, <1>b, <2>1, <2>3, <2>5, EndsTail DEF h
  <2>7. told' => link' /\ Ends(FocusKinds, b, now2, toPage')
    BY <1>a, <1>b, <2>6 DEF FocusComing
  <2> QED BY <2>4, <2>7 DEF FocusComing, now2
\* What was asked for is answered.
<1>3. CASE h.type = "Ready"
  <2> DEFINE v == Visibility(wanted)
             n == Msg("Navigation")
             ms == <<v, n>>
  <2>1. OnViewerReady
    BY <1>3 DEF UIStep, OnViewerDisconnected, OnViewerCommand, DispatchPress,
       DispatchLift, DispatchFocus, PageGets, h
  <2>2. toWindow' = IF link THEN toWindow \o ms ELSE toWindow
    BY <2>1 DEF OnViewerReady, Posted
  <2>3. /\ v \in ToWindow /\ v.type = "Visibility" /\ n \in ToWindow /\ n.type = "Navigation"
    BY <1>a, MessagesHaveType, MessageFields
  <2>4. v \in {Focus(wanted), Visibility(wanted)}
    OBVIOUS
  <2> HIDE DEF v, n
  <2>5. ms \in Seq(ToWindow) /\ DOMAIN ms = {1, 2} /\ ms[1] = v /\ ms[2] = n
    BY <2>3
  <2> HIDE DEF ms
  <2>6. Has(toWindow \o ms, "Navigation")
    <3>1. Has(ms, "Navigation")
      BY <2>3, <2>5 DEF Has
    <3> QED BY <1>a, <2>5, <3>1, HasConcat
  <2>7. Ends(VisibilityKinds, wanted, visible, toWindow \o ms)
    <3>1. ms[1].type \in VisibilityKinds /\ ms[2].type \notin VisibilityKinds
      BY <2>3, <2>5 DEF VisibilityKinds
    <3>2. 1 \in DOMAIN ms /\ \A j \in DOMAIN ms : j # 1 => ms[j].type \notin VisibilityKinds
      BY <2>5, <3>1
    <3> QED BY <1>a, <2>4, <2>5, <3>1, <3>2, EndsSaid
  <2> QED BY <1>1, <1>2, <1>b, <2>2, <2>6, <2>7 DEF AddressComing, VisibilityComing
<1>4. CASE h.type # "Ready"
  <2>1. toWindow' = toWindow
    BY <1>4 DEF UIStep, OnViewerReady, OnViewerDisconnected, OnViewerCommand, DispatchPress,
           DispatchLift, DispatchFocus, PageGets, h
  <2>2. /\ unanswered => unanswered'
        /\ h.type = "Navigate" /\ link => unanswered'
    <3>1. CASE \E type \in {"Navigate", "Command"} : OnViewerCommand(type)
      <4>1. PICK type \in {"Navigate", "Command"} : OnViewerCommand(type)
        BY <3>1
      <4>2. h.type = type
        BY <4>1 DEF OnViewerCommand, PageGets, h
      <4>3. unanswered' = (unanswered \/ (type = "Navigate" /\ link))
        BY <4>1 DEF OnViewerCommand
      <4> QED BY <4>2, <4>3, Zenon
    <3>2. CASE ~ \E type \in {"Navigate", "Command"} : OnViewerCommand(type)
      <4>1. OnViewerDisconnected \/ DispatchPress \/ DispatchLift \/ DispatchFocus
        BY <1>4, <3>2 DEF UIStep, OnViewerReady, PageGets, h
      <4>2. h.type \in {"Gone", "Press", "Lift", "Focus"}
        BY <4>1 DEF OnViewerDisconnected, DispatchPress, DispatchLift, DispatchFocus, PageGets, h
      <4>3. h.type # "Navigate"
        BY <4>2
      <4>4. unanswered' = unanswered
        BY <4>1 DEF OnViewerDisconnected, DispatchPress, DispatchLift, DispatchFocus
      <4> QED BY <4>3, <4>4
    <3> QED BY <3>1, <3>2
  <2>3. Has(toPage, "Ready") => Has(toPage', "Ready")
    BY <1>4, <1>a, <1>b, HasTail DEF h
  <2>4. h.type # "Navigate" /\ Has(toPage, "Navigate") => Has(toPage', "Navigate")
    BY <1>a, <1>b, HasTail DEF h
  <2>5. AddressComing'
    BY <1>a, <1>b, <2>1, <2>2, <2>3, <2>4 DEF AddressComing
  <2>6. VisibilityComing'
    BY <1>a, <1>b, <2>1, <2>3 DEF VisibilityComing
  <2> QED BY <1>1, <1>2, <2>5, <2>6
<1> QED BY <1>3, <1>4

\* The window thread handles the head of what the producer sent.
LEMMA WindowKeepsInv ==
  ASSUME IInv, WindowStep
  PROVE  LiftsComing' /\ FocusComing' /\ AddressComing' /\ VisibilityComing'
<1> DEFINE h == Head(toWindow)
<1>a. /\ TypeOK /\ LiftsComing /\ FocusComing /\ AddressComing /\ VisibilityComing
      /\ toPage \in Seq(ToPage) /\ toWindow \in Seq(ToWindow)
      /\ wanted \in BOOLEAN /\ focus \in Foci
  BY DEF IInv, TypeOK, Foci
<1>b. /\ toWindow # <<>> /\ toWindow' = Tail(toWindow)
      /\ UNCHANGED <<link, editing, wanted, held, pressed, pageFocused, unanswered, missed>>
  BY DEF WindowStep, HandleConnected, HandleDisconnected, HandleNavigation, HandleVisibility,
         WindowGets, page
<1>c. h \in ToWindow
  BY <1>a, <1>b, Rest
<1> HIDE DEF h
<1>1. CASE HandleVisibility
  <2>1. /\ h.type = "Visibility" /\ visible' = h.on /\ connected' = connected
        /\ barCurrent' = barCurrent
        /\ FocusMoves(IF visible' THEN focus ELSE "away")
        /\ toPage' = Forwarded(FocusNews(focus'))
    BY <1>1 DEF HandleVisibility, WindowGets, h
  <2> DEFINE to == IF visible' THEN focus ELSE "away"
  <2>2. to \in Foci /\ FocusMoves(to) /\ focus' = to
    BY <1>a, <2>1 DEF Foci, FocusMoves
  <2> HIDE DEF to
  <2>3. toPage' = IF connected /\ link THEN toPage \o FocusNews(to) ELSE toPage
    BY <2>1, <2>2 DEF Forwarded, Sent
  <2>4. /\ told' => link /\ Ends(FocusKinds, focus' = "window", pageFocused, toPage')
        /\ \A c, p : LetGo(c, p, toPage) => LetGo(c, p, toPage')
        /\ \A t : Has(toPage, t) => Has(toPage', t)
    BY <1>a, <2>2, <2>3, NewsSettles DEF FocusComing
  <2>5. LiftsComing'
    BY <1>a, <1>b, <2>4 DEF LiftsComing
  <2>6. FocusComing'
    BY <1>b, <2>4 DEF FocusComing
  <2>7. AddressComing'
    <3>1. Has(toWindow, "Navigation") => Has(toWindow', "Navigation")
      BY <1>a, <1>b, <2>1, HasTail DEF h
    <3> QED BY <1>a, <1>b, <2>1, <2>4, <3>1 DEF AddressComing
  <2>8. VisibilityComing'
    <3> DEFINE then == h.on
    <3>1. h \in {Focus(wanted), Visibility(wanted)} => then = wanted
      BY MessageFields
    <3>2. h.type \in VisibilityKinds
      BY <2>1 DEF VisibilityKinds
    <3> HIDE DEF then
    <3>3. Ends(VisibilityKinds, wanted, visible, toWindow)
            => Ends(VisibilityKinds, wanted, then, Tail(toWindow))
      BY <1>a, <1>b, <3>1, <3>2, EndsTail DEF h
    <3>4. Ends(VisibilityKinds, wanted, visible, toWindow)
            => Ends(VisibilityKinds, wanted, visible', toWindow')
      BY <1>b, <2>1, <3>3 DEF then
    <3> QED BY <1>a, <1>b, <2>4, <3>4 DEF VisibilityComing
  <2> QED BY <2>5, <2>6, <2>7, <2>8
<1>2. CASE HandleConnected \/ HandleDisconnected \/ HandleNavigation
  <2>1. /\ h.type # "Visibility" /\ UNCHANGED <<focus, visible, toPage, told>>
        /\ h.type # "Navigation" => barCurrent' = barCurrent
    BY <1>2 DEF HandleConnected, HandleDisconnected, HandleNavigation, WindowGets, h
  <2>2. LiftsComing' /\ FocusComing'
    BY <1>a, <1>b, <2>1 DEF LiftsComing, FocusComing
  <2>3. VisibilityComing'
    <3>1. h.type \notin VisibilityKinds
      BY <2>1 DEF VisibilityKinds
    <3>2. Ends(VisibilityKinds, wanted, visible, toWindow)
            => Ends(VisibilityKinds, wanted, visible, Tail(toWindow))
      BY <1>a, <1>b, <3>1, EndsTail DEF h
    <3> QED BY <1>a, <1>b, <2>1, <3>2 DEF VisibilityComing
  <2>4. AddressComing'
    <3>1. CASE h.type # "Navigation"
      <4>1. Has(toWindow, "Navigation") => Has(toWindow', "Navigation")
        BY <1>a, <1>b, <3>1, HasTail DEF h
      <4> QED BY <1>a, <1>b, <2>1, <3>1, <4>1 DEF AddressComing
    <3>2. CASE h.type = "Navigation"
      <4>1. HandleNavigation
        BY <1>2, <3>2 DEF HandleConnected, HandleDisconnected, WindowGets, h
      <4>2. editing \/ barCurrent' \/ Has(toWindow', "Navigation")
        BY <4>1 DEF HandleNavigation, Has
      <4> QED BY <1>b, <4>2 DEF AddressComing
    <3> QED BY <3>1, <3>2
  <2> QED BY <2>2, <2>3, <2>4
<1> QED BY <1>1, <1>2 DEF WindowStep

LEMMA InitHasInv == Init => IInv
<1> SUFFICES ASSUME Init PROVE IInv
  OBVIOUS
<1>1. toPage = <<>> /\ DOMAIN <<>> = {} /\ pressed = {} /\ ~told /\ ~link
  BY DEF Init
<1>2. LiftsComing
  BY <1>1 DEF LiftsComing, LetGo
<1> QED BY <1>1, <1>2, InitHasType DEF IInv, FocusComing, AddressComing, VisibilityComing

LEMMA StepKeepsInv == IInv /\ [Next]_vars => IInv'
<1> SUFFICES ASSUME IInv, [Next]_vars PROVE IInv'
  OBVIOUS
<1>a. /\ TypeOK /\ LiftsComing /\ FocusComing /\ AddressComing /\ VisibilityComing
      /\ toPage \in Seq(ToPage) /\ toWindow \in Seq(ToWindow) /\ TypeOK'
  BY StepHasType DEF IInv, TypeOK
<1> DEFINE Goal == LiftsComing' /\ FocusComing' /\ AddressComing' /\ VisibilityComing'
<1>b. /\ \A c : Msg("Ready") # Press(c) /\ Msg("Gone") # Press(c)
  BY MessageFields
<1>1. ASSUME Connect PROVE Goal
  <2> DEFINE ms == <<Msg("Ready")>>
  <2>1. ms \in Seq(ToPage) /\ DOMAIN ms = {1} /\ ms[1] = Msg("Ready")
    BY ControlTypes
  <2>2. /\ ~link /\ toPage' = toPage \o ms
        /\ UNCHANGED <<held, missed, pressed, told>>
    BY <1>1, <1>a, MessagesHaveType, AppendIsConcat DEF Connect, page
  <2> HIDE DEF ms
  <2>3. \A c, p : LetGo(c, p, toPage) => LetGo(c, p, toPage \o ms)
    BY <1>a, <1>b, <2>1, LetGoConcat
  <2>4. Has(toPage', "Ready")
    <3>1. Has(ms, "Ready")
      BY <2>1, MessageFields DEF Has
    <3> QED BY <1>a, <2>1, <2>2, <3>1, HasConcat
  <2>5. LiftsComing'
    BY <1>a, <2>2, <2>3 DEF LiftsComing
  <2>6. ~told'
    BY <1>a, <2>2 DEF FocusComing
  <2> QED BY <2>4, <2>5, <2>6 DEF FocusComing, AddressComing, VisibilityComing
<1>2. ASSUME LinkBreaks PROVE Goal
  <2> DEFINE ms == <<Msg("Gone")>>
  <2>1. ms \in Seq(ToPage) /\ DOMAIN ms = {1} /\ ms[1] = Msg("Gone")
    BY ControlTypes
  <2>2. link' = FALSE /\ told' = FALSE /\ UNCHANGED <<held, pressed>>
    BY <1>2 DEF LinkBreaks, page
  <2>3. PICK kept \in Surviving(toPage, Msg("Ready")) :
          toPage' = Append(kept, Msg("Gone")) /\ missed' = missed \union LostLifts(kept)
    BY <1>2 DEF LinkBreaks
  <2>4. /\ kept \in Seq(ToPage) /\ DOMAIN kept = 1 .. Len(kept)
        /\ \A i \in DOMAIN kept : i \in DOMAIN toPage /\ kept[i] = toPage[i]
        /\ \A i \in DOMAIN toPage : i \in DOMAIN kept \/ i \in Len(kept) + 1 .. Len(toPage)
    BY <1>a, <2>3, SurvivingIsFront
  <2>5. toPage' = kept \o ms
    BY <2>3, <2>4, MessagesHaveType, AppendIsConcat
  <2> HIDE DEF ms
  <2>6. ASSUME NEW c \in Controls, c \notin held \union missed', LetGo(c, pressed, toPage)
        PROVE  LetGo(c, pressed, kept \o ms)
    <3>1. \A i \in DOMAIN toPage : toPage[i] = Lift(c) => i \in DOMAIN kept
      BY <2>3, <2>4, <2>6 DEF LostLifts
    <3>2. LetGo(c, pressed, kept)
      BY <2>4, <2>6, <3>1 DEF LetGo
    <3> QED BY <1>b, <2>1, <2>4, <3>2, LetGoConcat
  <2>7. LiftsComing'
    BY <1>a, <2>2, <2>3, <2>5, <2>6 DEF LiftsComing
  <2> QED BY <2>2, <2>7 DEF FocusComing, AddressComing, VisibilityComing
<1>3. ASSUME User PROVE Goal
  BY <1>3, UserKeepsInv
<1>4. ASSUME WindowStep PROVE Goal
  BY <1>4, WindowKeepsInv
<1>5. ASSUME OnLoadingStateChange \/ OnAddressChange PROVE Goal
  <2> DEFINE ms == <<Msg("Navigation")>>
  <2>1. ms \in Seq(ToWindow) /\ DOMAIN ms = {1} /\ ms[1] = Msg("Navigation")
    BY ControlTypes
  <2>2. /\ toWindow' = IF link THEN toWindow \o ms ELSE toWindow
        /\ UNCHANGED <<link, focus, editing, visible, wanted, held, toPage, pressed, pageFocused,
                       told, missed>>
    BY <1>5 DEF OnLoadingStateChange, OnAddressChange, PublishNavigationState, Posted, window,
              shown, page
  <2> HIDE DEF ms
  <2>3. Has(toWindow \o ms, "Navigation")
    <3>1. Has(ms, "Navigation")
      BY <2>1, MessageFields DEF Has
    <3> QED BY <1>a, <2>1, <3>1, HasConcat
  <2>4. Ends(VisibilityKinds, wanted, visible, toWindow)
          => Ends(VisibilityKinds, wanted, visible, toWindow \o ms)
    <3>1. \A j \in DOMAIN ms : ms[j].type \notin VisibilityKinds
      BY <2>1, MessageFields DEF VisibilityKinds
    <3> QED BY <1>a, <2>1, <3>1, EndsConcat
  <2>5. LiftsComing' /\ FocusComing'
    BY <1>a, <2>2 DEF LiftsComing, FocusComing
  <2> QED BY <1>a, <2>2, <2>3, <2>4, <2>5 DEF AddressComing, VisibilityComing
<1>6. ASSUME SetViewerVisible PROVE Goal
  <2> DEFINE v == Visibility(wanted')
             ms == <<v>>
             b == wanted'
  <2>1. v \in ToWindow /\ v.type = "Visibility" /\ v \in {Focus(b), Visibility(b)}
    BY <1>a, MessagesHaveType, MessageFields DEF TypeOK
  <2>2. /\ toWindow' = IF link THEN toWindow \o ms ELSE toWindow
        /\ UNCHANGED <<link, focus, editing, barCurrent, visible, held, toPage, pressed, pageFocused,
                       unanswered, told, missed>>
    BY <1>6 DEF SetViewerVisible, Posted, window, page
  <2> HIDE DEF v, b
  <2>3. ms \in Seq(ToWindow) /\ DOMAIN ms = {1} /\ ms[1] = v
    BY <2>1
  <2> HIDE DEF ms
  <2>4. Ends(VisibilityKinds, b, visible, toWindow \o ms)
    <3>1. ms[1].type \in VisibilityKinds /\ 1 \in DOMAIN ms
      BY <2>1, <2>3 DEF VisibilityKinds
    <3> QED BY <1>a, <2>1, <2>3, <3>1, EndsSaid
  <2>5. Has(toWindow, "Navigation") => Has(toWindow \o ms, "Navigation")
    BY <1>a, <2>3, HasConcat
  <2>6. LiftsComing' /\ FocusComing'
    BY <1>a, <2>2 DEF LiftsComing, FocusComing
  <2> QED BY <1>a, <2>2, <2>4, <2>5, <2>6 DEF AddressComing, VisibilityComing, b
<1>7. ASSUME UIStep PROVE Goal
  BY <1>7, UIKeepsInv
<1>8. ASSUME UNCHANGED vars PROVE Goal
  BY <1>8, <1>a DEF vars, window, shown, page, LiftsComing, FocusComing, AddressComing,
     VisibilityComing
<1> QED BY <1>a, <1>1, <1>2, <1>3, <1>4, <1>5, <1>6, <1>7, <1>8 DEF Next, IInv

LEMMA InvAlways == Spec => []IInv
<1>1. Init => IInv
  BY InitHasInv
<1>2. IInv /\ [Next]_vars => IInv'
  BY StepKeepsInv
<1> QED BY <1>1, <1>2, PTL DEF Spec

\* A control the user let go does not stay pressed in the page, whatever
\* happened to focus and connection, unless its release never came to the
\* window or was lost with a connection.
THEOREM NothingStaysPressed == Spec => []OnlyHeldIsPressed
<1>1. IInv => OnlyHeldIsPressed
  BY IInvImplies
<1> QED BY <1>1, InvAlways, PTL

\* With nothing under way, window and page agree on the focus (when its last
\* change could be sent), on the address (unless it is being edited, or what
\* Go asked for has made the producer publish nothing so far) and on whether
\* the window is shown.
THEOREM WindowAndPageAgree == Spec => []WindowAgreesWithPage
<1>1. IInv => WindowAgreesWithPage
  BY IInvImplies
<1> QED BY <1>1, InvAlways, PTL

=============================================================================
