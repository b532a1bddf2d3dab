---------------------------- MODULE AgentLink_proofs ----------------------------
(***************************************************************************)
(* What holds of the agent's connection for any length of the queue and    *)
(* any bounds: the types, and that agent and receiver agree about the      *)
(* route when nothing is under way.  The invariant says what the receiver  *)
(* will make of what is under way.                                         *)
(***************************************************************************)
EXTENDS AgentLink, SequenceTheorems, TLAPS

\* What the receiver has still to process, in order.
UnderWay == writes \o queue
\* A session is open, and Run has sent its Hello.
Live == up /\ (connected \/ run = "greeting")

Carries(q, type) == \E i \in 1 .. Len(q) : q[i].type = type
\* The receiver has had a Hello when it comes to the i-th message.
Heard(q, h, i) == h \/ \E k \in 1 .. i - 1 : q[k].type = "Hello"

\* A receiver that serves the route if s, and has had a Hello if h, does not
\* serve it after q: every claim it takes is followed by a release.
Unserved(q, s, h) ==
  /\ s => Carries(q, "Release")
  /\ \A i \in 1 .. Len(q) :
       q[i].type = "Claim" /\ Heard(q, h, i)
         => \E j \in i + 1 .. Len(q) : q[j].type = "Release"

\* Beyond the b-th message there are only batches, numbered from e on, and n
\* is the next number.
InTurn(q, b, e, n) ==
  /\ \A i \in b + 1 .. Len(q) : q[i].type = "Batch" /\ q[i].number = e + (i - b - 1)
  /\ n = e + (Len(q) - b)
\* The receiver serves the route after q, and expects n.
ServedAfter(q, s, h, e, n) ==
  \/ s /\ InTurn(q, 0, e, n)
  \/ \E b \in 1 .. Len(q) :
       q[b].type = "Claim" /\ Heard(q, h, b) /\ InTurn(q, b, 1, n)

-----------------------------------------------------------------------------
\* Sequences.

LEMMA AppendAt ==
  ASSUME NEW S, NEW q \in Seq(S), NEW m \in S
  PROVE  /\ Append(q, m) \in Seq(S) /\ Len(Append(q, m)) = Len(q) + 1 /\ Len(q) \in Nat
         /\ \A i \in 1 .. Len(q) : Append(q, m)[i] = q[i]
         /\ Append(q, m)[Len(q) + 1] = m
  OBVIOUS

LEMMA TailAt ==
  ASSUME NEW S, NEW q \in Seq(S), q # <<>>
  PROVE  /\ Tail(q) \in Seq(S) /\ Len(Tail(q)) = Len(q) - 1 /\ Len(q) \in Nat \ {0}
         /\ \A i \in 1 .. Len(q) - 1 : Tail(q)[i] = q[i + 1]
         /\ Head(q) = q[1] /\ Head(q) \in S
  OBVIOUS

\* How the steps change what is under way.
LEMMA UnderWayMoves ==
  ASSUME NEW S, NEW w \in Seq(S), NEW q \in Seq(S)
  PROVE  /\ w \o q \in Seq(S)
         /\ \A m \in S : w \o Append(q, m) = Append(w \o q, m)
         /\ q # <<>> => Append(w, Head(q)) \o Tail(q) = w \o q
         /\ w # <<>> => /\ w \o q # <<>>
                        /\ Head(w \o q) = Head(w) /\ Tail(w) \o q = Tail(w \o q)
<1>1. w \o q \in Seq(S)
  OBVIOUS
<1>2. ASSUME NEW m \in S PROVE w \o Append(q, m) = Append(w \o q, m)
  OBVIOUS
<1>3. ASSUME q # <<>> PROVE Append(w, Head(q)) \o Tail(q) = w \o q
  BY <1>3
<1>4. ASSUME w # <<>>
      PROVE  w \o q # <<>> /\ Head(w \o q) = Head(w) /\ Tail(w) \o q = Tail(w \o q)
  BY <1>4
<1>q. QED
  BY <1>1, <1>2, <1>3, <1>4

LEMMA CarriesMoves ==
  ASSUME NEW q \in Seq(Messages), NEW type
  PROVE  /\ \A m \in Messages :
              Carries(Append(q, m), type) <=> Carries(q, type) \/ m.type = type
         /\ q # <<>> => (Carries(q, type) <=> Head(q).type = type \/ Carries(Tail(q), type))
         /\ ~Carries(<<>>, type)
<1>1. ASSUME NEW m \in Messages
      PROVE  Carries(Append(q, m), type) <=> Carries(q, type) \/ m.type = type
  BY AppendAt DEF Carries
<1>2. ASSUME q # <<>>
      PROVE  Carries(q, type) <=> Head(q).type = type \/ Carries(Tail(q), type)
  <2>0. /\ Len(Tail(q)) = Len(q) - 1 /\ Len(q) \in Nat \ {0}
        /\ \A i \in 1 .. Len(q) - 1 : Tail(q)[i] = q[i + 1]
        /\ Head(q) = q[1]
    BY <1>2, TailAt
  <2>1. ASSUME Carries(q, type), Head(q).type # type PROVE Carries(Tail(q), type)
    <3>1. PICK i \in 1 .. Len(q) : q[i].type = type
      BY <2>1 DEF Carries
    <3>2. i - 1 \in 1 .. Len(Tail(q)) /\ Tail(q)[i - 1].type = type
      BY <2>0, <2>1, <3>1
    <3>q. QED
      BY <3>2 DEF Carries
  <2>2. ASSUME Carries(Tail(q), type) PROVE Carries(q, type)
    <3>1. PICK i \in 1 .. Len(Tail(q)) : Tail(q)[i].type = type
      BY <2>2 DEF Carries
    <3>2. i + 1 \in 1 .. Len(q) /\ q[i + 1].type = type
      BY <2>0, <3>1
    <3>q. QED
      BY <3>2 DEF Carries
  <2>3. ASSUME Head(q).type = type PROVE Carries(q, type)
    BY <2>0, <2>3 DEF Carries
  <2>q. QED
    BY <2>1, <2>2, <2>3
<1>3. ~Carries(<<>>, type)
  BY DEF Carries
<1>q. QED
  BY <1>1, <1>2, <1>3

-----------------------------------------------------------------------------
\* What the receiver makes of a message more, or of the first one.

LEMMA UnservedAppend ==
  ASSUME NEW q \in Seq(Messages), NEW m \in Messages, NEW s, NEW h,
         \/ Unserved(q, s, h) /\ m.type # "Claim"
         \/ m.type = "Release"
         \/ ~s /\ ~h /\ ~Carries(q, "Hello") /\ m.type = "Hello"
  PROVE  Unserved(Append(q, m), s, h)
<1> DEFINE a == Append(q, m)
<1>0. /\ Len(a) = Len(q) + 1 /\ Len(q) \in Nat
      /\ \A i \in 1 .. Len(q) : a[i] = q[i]
      /\ a[Len(q) + 1] = m
  BY AppendAt
<1> HIDE DEF a
<1>1. ASSUME ~ (~s /\ ~h /\ ~Carries(q, "Hello") /\ m.type = "Hello")
      PROVE  s => Carries(a, "Release")
  BY <1>0, <1>1 DEF Unserved, Carries
<1>2. ASSUME NEW i \in 1 .. Len(a), a[i].type = "Claim", Heard(a, h, i)
      PROVE  \E j \in i + 1 .. Len(a) : a[j].type = "Release"
  <2>1. CASE m.type = "Release"
    <3>1. i # Len(q) + 1
      BY <1>0, <1>2, <2>1
    <3>2. Len(q) + 1 \in i + 1 .. Len(a)
      BY <1>0, <1>2, <3>1
    <3>q. QED
      BY <1>0, <2>1, <3>2
  <2>2. CASE m.type # "Release" /\ m.type # "Claim"
    <3>1. i \in 1 .. Len(q) /\ q[i].type = "Claim"
      BY <1>0, <1>2, <2>2
    <3>2. Heard(q, h, i)
      BY <1>0, <1>2, <3>1 DEF Heard
    <3>3. Unserved(q, s, h)
      <4>1. ASSUME ~h, ~Carries(q, "Hello") PROVE FALSE
        BY <3>1, <3>2, <4>1 DEF Heard, Carries
      <4>q. QED
        BY <2>2, <4>1
    <3>4. PICK j \in i + 1 .. Len(q) : q[j].type = "Release"
      BY <3>1, <3>2, <3>3 DEF Unserved
    <3>5. j \in i + 1 .. Len(a) /\ a[j].type = "Release"
      BY <1>0, <3>1, <3>4
    <3>q. QED
      BY <3>5
  <2>3. m.type # "Claim"
    OBVIOUS
  <2>q. QED
    BY <2>1, <2>2, <2>3
<1>q. QED
  BY <1>1, <1>2 DEF Unserved, a

LEMMA UnservedRest ==
  ASSUME NEW q \in Seq(Messages), q # <<>>,
         NEW s, NEW h, NEW s2, NEW h2, Unserved(q, s, h),
         h2 => h \/ Head(q).type = "Hello",
         s2 => \/ s /\ Head(q).type # "Release"
               \/ h /\ Head(q).type = "Claim"
  PROVE  Unserved(Tail(q), s2, h2)
<1> DEFINE t == Tail(q)
<1>0. /\ Len(t) = Len(q) - 1 /\ Len(q) \in Nat \ {0}
      /\ \A i \in 1 .. Len(q) - 1 : t[i] = q[i + 1]
      /\ Head(q) = q[1]
  BY TailAt
<1> HIDE DEF t
<1>1. ASSUME s2 PROVE Carries(t, "Release")
  <2>1. CASE s /\ Head(q).type # "Release"
    <3>1. PICK i \in 1 .. Len(q) : q[i].type = "Release"
      BY <2>1 DEF Unserved, Carries
    <3>2. i - 1 \in 1 .. Len(t) /\ t[i - 1].type = "Release"
      BY <1>0, <2>1, <3>1
    <3>q. QED
      BY <3>2 DEF Carries
  <2>2. CASE h /\ Head(q).type = "Claim"
    <3>1. Heard(q, h, 1) /\ q[1].type = "Claim" /\ 1 \in 1 .. Len(q)
      BY <1>0, <2>2 DEF Heard
    <3>2. PICK j \in 1 + 1 .. Len(q) : q[j].type = "Release"
      BY <3>1 DEF Unserved
    <3>3. j - 1 \in 1 .. Len(t) /\ t[j - 1].type = "Release"
      BY <1>0, <3>2
    <3>q. QED
      BY <3>3 DEF Carries
  <2>q. QED
    BY <1>1, <2>1, <2>2
<1>2. ASSUME NEW i \in 1 .. Len(t), t[i].type = "Claim", Heard(t, h2, i)
      PROVE  \E j \in i + 1 .. Len(t) : t[j].type = "Release"
  <2>1. i + 1 \in 1 .. Len(q) /\ q[i + 1].type = "Claim"
    BY <1>0, <1>2
  <2>2. Heard(q, h, i + 1)
    <3>1. ASSUME NEW k \in 1 .. i - 1, t[k].type = "Hello"
          PROVE  k + 1 \in 1 .. (i + 1) - 1 /\ q[k + 1].type = "Hello"
      BY <1>0, <3>1
    <3>2. 1 \in 1 .. (i + 1) - 1
      OBVIOUS
    <3>q. QED
      BY <1>0, <1>2, <3>1, <3>2 DEF Heard
  <2>3. PICK j \in i + 1 + 1 .. Len(q) : q[j].type = "Release"
    BY <2>1, <2>2 DEF Unserved
  <2>4. j - 1 \in i + 1 .. Len(t) /\ t[j - 1].type = "Release"
    BY <1>0, <2>3
  <2>q. QED
    BY <2>4
<1>q. QED
  BY <1>1, <1>2 DEF Unserved, t

LEMMA ServedClaim ==
  ASSUME NEW q \in Seq(Messages), NEW m \in Messages, NEW s, NEW h, NEW e,
         m.type = "Claim", h \/ Carries(q, "Hello")
  PROVE  ServedAfter(Append(q, m), s, h, e, 1)
<1> DEFINE a == Append(q, m)
<1>0. /\ Len(a) = Len(q) + 1 /\ Len(q) \in Nat
      /\ \A i \in 1 .. Len(q) : a[i] = q[i]
      /\ a[Len(q) + 1] = m
  BY AppendAt
<1> HIDE DEF a
<1>1. Len(a) \in 1 .. Len(a) /\ a[Len(a)].type = "Claim"
  BY <1>0
<1>2. Heard(a, h, Len(a))
  BY <1>0 DEF Heard, Carries
<1>3. InTurn(a, Len(a), 1, 1)
  BY <1>0 DEF InTurn
<1>q. QED
  BY <1>1, <1>2, <1>3 DEF ServedAfter, a

LEMMA ServedBatch ==
  ASSUME NEW q \in Seq(Messages), NEW m \in Messages, NEW s, NEW h,
         NEW e \in Int, NEW n \in Int,
         m.type = "Batch", m.number = n, ServedAfter(q, s, h, e, n)
  PROVE  ServedAfter(Append(q, m), s, h, e, n + 1)
<1> DEFINE a == Append(q, m)
<1>0. /\ Len(a) = Len(q) + 1 /\ Len(q) \in Nat
      /\ \A i \in 1 .. Len(q) : a[i] = q[i]
      /\ a[Len(q) + 1] = m
  BY AppendAt
<1> HIDE DEF a
<1>1. ASSUME NEW b \in 0 .. Len(q), NEW f \in Int, InTurn(q, b, f, n)
      PROVE  InTurn(a, b, f, n + 1)
  <2>1. ASSUME NEW i \in b + 1 .. Len(a)
        PROVE  a[i].type = "Batch" /\ a[i].number = f + (i - b - 1)
    <3>1. CASE i = Len(q) + 1
      BY <1>0, <1>1, <3>1 DEF InTurn
    <3>2. CASE i # Len(q) + 1
      <4>1. i \in b + 1 .. Len(q) /\ a[i] = q[i]
        BY <1>0, <3>2
      <4>q. QED
        BY <1>1, <4>1 DEF InTurn
    <3>q. QED
      BY <3>1, <3>2
  <2>2. n + 1 = f + (Len(a) - b)
    BY <1>0, <1>1 DEF InTurn
  <2>q. QED
    BY <2>1, <2>2 DEF InTurn
<1>2. CASE s /\ InTurn(q, 0, e, n)
  BY <1>0, <1>1, <1>2 DEF ServedAfter, a
<1>3. ASSUME NEW b \in 1 .. Len(q),
             q[b].type = "Claim", Heard(q, h, b), InTurn(q, b, 1, n)
      PROVE  ServedAfter(a, s, h, e, n + 1)
  <2>1. b \in 1 .. Len(a) /\ a[b].type = "Claim" /\ Heard(a, h, b)
    BY <1>0, <1>3 DEF Heard
  <2>2. InTurn(a, b, 1, n + 1)
    BY <1>0, <1>1, <1>3
  <2>q. QED
    BY <2>1, <2>2 DEF ServedAfter
<1>q. QED
  BY <1>2, <1>3 DEF ServedAfter, a

LEMMA ServedRest ==
  ASSUME NEW q \in Seq(Messages), q # <<>>,
         NEW s, NEW h, NEW e \in Int, NEW s2, NEW h2, NEW e2 \in Int, NEW n \in Int,
         ServedAfter(q, s, h, e, n),
         h \/ Head(q).type = "Hello" => h2,
         Head(q).type = "Claim" => (h => s2) /\ e2 = 1,
         Head(q).type = "Batch" /\ s /\ Head(q).number = e => s2 /\ e2 = e + 1
  PROVE  ServedAfter(Tail(q), s2, h2, e2, n)
<1> DEFINE t == Tail(q)
<1>0. /\ Len(t) = Len(q) - 1 /\ Len(q) \in Nat \ {0}
      /\ \A i \in 1 .. Len(q) - 1 : t[i] = q[i + 1]
      /\ Head(q) = q[1]
  BY TailAt
<1> HIDE DEF t
<1>1. CASE s /\ InTurn(q, 0, e, n)
  <2>1. q[1].type = "Batch" /\ q[1].number = e
    BY <1>0, <1>1 DEF InTurn
  <2>2. s2 /\ e2 = e + 1
    BY <1>0, <1>1, <2>1
  <2>3. ASSUME NEW i \in 0 + 1 .. Len(t)
        PROVE  t[i].type = "Batch" /\ t[i].number = e2 + (i - 0 - 1)
    <3>1. i + 1 \in 0 + 1 .. Len(q) /\ t[i] = q[i + 1]
      BY <1>0
    <3>q. QED
      BY <1>1, <2>2, <3>1 DEF InTurn
  <2>4. n = e2 + (Len(t) - 0)
    BY <1>0, <1>1, <2>2 DEF InTurn
  <2>q. QED
    BY <2>2, <2>3, <2>4 DEF ServedAfter, InTurn, t
<1>2. ASSUME NEW b \in 1 .. Len(q),
             q[b].type = "Claim", Heard(q, h, b), InTurn(q, b, 1, n)
      PROVE  ServedAfter(t, s2, h2, e2, n)
  <2>1. InTurn(t, b - 1, 1, n)
    <3>1. ASSUME NEW i \in (b - 1) + 1 .. Len(t)
          PROVE  t[i].type = "Batch" /\ t[i].number = 1 + (i - (b - 1) - 1)
      <4>1. i + 1 \in b + 1 .. Len(q) /\ t[i] = q[i + 1]
        BY <1>0
      <4>q. QED
        BY <1>2, <4>1 DEF InTurn
    <3>2. n = 1 + (Len(t) - (b - 1))
      BY <1>0, <1>2 DEF InTurn
    <3>q. QED
      BY <3>1, <3>2 DEF InTurn
  <2>2. CASE b = 1
    <3>1. h
      BY <1>2, <2>2 DEF Heard
    <3>2. s2 /\ e2 = 1
      BY <1>0, <1>2, <2>2, <3>1
    <3>q. QED
      BY <2>1, <2>2, <3>2 DEF ServedAfter
  <2>3. CASE b # 1
    <3>1. b - 1 \in 1 .. Len(t) /\ t[b - 1].type = "Claim"
      BY <1>0, <1>2, <2>3
    <3>2. Heard(t, h2, b - 1)
      <4>1. ASSUME NEW k \in 1 .. b - 1, q[k].type = "Hello", k # 1
            PROVE  k - 1 \in 1 .. (b - 1) - 1 /\ t[k - 1].type = "Hello"
        BY <1>0, <1>2, <4>1
      <4>q. QED
        BY <1>0, <1>2, <4>1 DEF Heard
    <3>q. QED
      BY <2>1, <3>1, <3>2 DEF ServedAfter
  <2>q. QED
    BY <2>2, <2>3
<1>q. QED
  BY <1>1, <1>2 DEF ServedAfter, t

LEMMA ServedAtLast ==
  ASSUME NEW s, NEW h, NEW e \in Int, NEW n, ServedAfter(<<>>, s, h, e, n)
  PROVE  s /\ n = e
  BY DEF ServedAfter, InTurn

-----------------------------------------------------------------------------
(***************************************************************************)
(* The inductive invariant.                                                *)
(***************************************************************************)

HistoryType ==
  /\ routeLost \in BOOLEAN /\ discarded \in BOOLEAN
  /\ crossed \in BOOLEAN /\ misnumbered \in BOOLEAN
Types == TypeOK /\ HistoryType /\ (sender = "numbered" => number # 0)

\* Run is between the handshake and the handlers.
Opening == run \in {"greeting", "loading", "routing", "numbering", "claiming"}

\* Where the threads are, and what that says of the connection.  A Hello is
\* queued only by Run with a new connection, unless Run is about to end.
Placed ==
  /\ run # "running" => writes = <<>>
  /\ connected => run \in {"loading", "routing", "numbering", "claiming", "running"}
  /\ run \in {"loading", "routing", "numbering", "claiming"} => connected
  /\ Opening => ~served /\ ~hello
  /\ stopped /\ (run = "connecting" \/ Opening) => stopping
  /\ stopped /\ run = "running" => stopping \/ ~connected
  /\ ~connected => \/ ~Carries(queue, "Hello")
                   \/ run = "greeting"
                   \/ run \in {"away", "over"} /\ stopping

\* A claimed route is set, but before Run has set it again.
RouteKept ==
  Live /\ claimed /\ ~routeLost /\ ~route
    => run \in {"greeting", "loading", "routing"} /\ Unserved(UnderWay, served, hello)

\* Of a route that is not claimed the release is due or under way.
ReleaseComing ==
  Live /\ ~claimed /\ ~routeLost /\ ~discarded /\ ~crossed /\ ~RunClaims
    => ReleaseDue \/ Unserved(UnderWay, served, hello)

\* The number of the next batch to be queued.
NextNumber == IF sender = "numbered" THEN number ELSE sequence
Fresh == sequence = 1 /\ sender # "numbered"

\* Of a route that is claimed the claim is due or under way, and the numbers
\* follow it.
ClaimComing ==
  Live /\ claimed /\ ~routeLost /\ ~misnumbered /\ ~crossed
     /\ (hello \/ Carries(UnderWay, "Hello"))
    => /\ run = "claiming" => caller["capture"] \in {"idle", "numbering", "storing"} /\ Fresh
       /\ run = "running" /\ caller["capture"] \in {"asking", "announcing"} => Fresh
       /\ run = "running" /\ caller["capture"] \notin {"storing", "asking", "announcing"}
            => ServedAfter(UnderWay, served, hello, expected, NextNumber)
NumberedLast ==
  claimed /\ ~misnumbered /\ sender = "numbered"
     /\ run \in {"claiming", "running"} /\ caller["capture"] # "storing"
    => addressed /\ run = "running" /\ sequence = number + 1

IInv == Types /\ Placed /\ RouteKept /\ ReleaseComing /\ ClaimComing /\ NumberedLast

-----------------------------------------------------------------------------
LEMMA InitIInv == Init => IInv
<1> SUFFICES ASSUME Init PROVE IInv
  OBVIOUS
<1>0. <<>> \in Seq(Messages)
  OBVIOUS
<1>n. 1 \in 1 .. MaxSequence + 1 /\ 0 \in 0 .. MaxSequence /\ Len(<<>>) <= MaxQueue
  BY AgentLinkAssumption
<1>c. 0 \in 0 .. MaxCalls /\ 0 \in 0 .. MaxLosses
  BY AgentLinkAssumption
<1>f. [t \in Callers |-> "idle"] \in [Callers -> CallerSteps]
  BY DEF CallerSteps
<1>1. TypeOK
  BY <1>0, <1>n, <1>c, <1>f DEF Init, TypeOK, RunSteps, SenderSteps
<1>t. Types
  BY <1>1 DEF Init, Types, HistoryType
<1>2. Placed
  BY <1>0, CarriesMoves DEF Init, Placed, Opening
<1>3. RouteKept /\ ReleaseComing /\ ClaimComing /\ NumberedLast
  BY DEF Init, RouteKept, ReleaseComing, ClaimComing, NumberedLast, Live
<1>q. QED
  BY <1>t, <1>2, <1>3 DEF IInv

\* What Enqueue does to the queue, and what the messages are.
LEMMA MessagesAre ==
  /\ \A t \in {"Hello", "Claim", "Release", "Stray"} : Msg(t) \in Messages /\ Msg(t).type = t
  /\ \A n \in 1 .. MaxSequence :
       Batch(n) \in Messages /\ Batch(n).type = "Batch" /\ Batch(n).number = n
  /\ \A m \in Messages :
       /\ m.type \in {"Hello", "Claim", "Release", "Stray", "Batch"}
       /\ m.number \in 0 .. MaxSequence
       /\ m.type = "Batch" => m.number \in 1 .. MaxSequence
<1> USE AgentLinkAssumption DEF Messages, Msg, Batch
<1>1. \A t \in {"Hello", "Claim", "Release", "Stray"} : Msg(t) \in Messages /\ Msg(t).type = t
  OBVIOUS
<1>2. \A n \in 1 .. MaxSequence :
        Batch(n) \in Messages /\ Batch(n).type = "Batch" /\ Batch(n).number = n
  OBVIOUS
<1>3. ASSUME NEW m \in Messages
      PROVE  /\ m.type \in {"Hello", "Claim", "Release", "Stray", "Batch"}
             /\ m.number \in 0 .. MaxSequence
             /\ m.type = "Batch" => m.number \in 1 .. MaxSequence
  <2>1. ASSUME NEW t \in {"Hello", "Claim", "Release", "Stray"}, m = Msg(t)
        PROVE  m.type = t /\ m.number = 0
    BY <2>1
  <2>2. ASSUME NEW n \in 1 .. MaxSequence, m = Batch(n)
        PROVE  m.type = "Batch" /\ m.number = n
    BY <2>2
  <2>q. QED
    BY <2>1, <2>2
<1>q. QED
  BY <1>1, <1>2, <1>3

LEMMA QueueGrows ==
  ASSUME Types, NEW m \in Messages
  PROVE  LET q == IF Full THEN <<>> ELSE Append(queue, m)
         IN  q \in Seq(Messages) /\ Len(q) <= MaxQueue
<1>1. queue \in Seq(Messages) /\ Len(queue) \in Nat
  BY DEF Types, TypeOK
<1>2. <<>> \in Seq(Messages) /\ Len(<<>>) = 0
  OBVIOUS
<1>3. Append(queue, m) \in Seq(Messages) /\ Len(Append(queue, m)) = Len(queue) + 1
  BY <1>1, AppendAt
<1>4. CASE Full
  BY <1>2, <1>4, AgentLinkAssumption
<1>5. CASE ~Full
  BY <1>1, <1>3, <1>5, AgentLinkAssumption DEF Full
<1>q. QED
  BY <1>4, <1>5

LEMMA StepTypes == Types /\ [Next]_vars => Types'
<1> SUFFICES ASSUME Types, [Next]_vars PROVE Types'
  OBVIOUS
<1> USE AgentLinkAssumption
<1> DEFINE D(m) == IF Full THEN <<>> ELSE Append(queue, m)
<1>m. /\ Msg("Hello") \in Messages /\ Msg("Claim") \in Messages /\ Msg("Release") \in Messages
      /\ Msg("Stray") \in Messages
      /\ \A n \in 1 .. MaxSequence : Batch(n) \in Messages
  BY MessagesAre
<1>g. \A m \in Messages : D(m) \in Seq(Messages) /\ Len(D(m)) <= MaxQueue
  BY QueueGrows
<1>b. Full \in BOOLEAN
  BY DEF Full
<1>e. <<>> \in Seq(Messages) /\ Len(<<>>) <= MaxQueue
  OBVIOUS
<1>s. /\ {"idle", "numbering", "storing", "asking", "announcing", "dropping",
          "releasing", "clearing"} = CallerSteps
      /\ "capture" \in Callers
  BY DEF CallerSteps, Callers
<1>a. ASSUME NEW t \in Callers, NEW from, NEW to \in CallerSteps,
             Goes(t, from, to), from # "idle" \/ MayCall
      PROVE  caller' \in [Callers -> CallerSteps] /\ calls' \in 0 .. MaxCalls
  <2>1. caller' \in [Callers -> CallerSteps]
    BY <1>a DEF Goes, Types, TypeOK
  <2>2. calls' = calls \/ (calls' = calls + 1 /\ calls < MaxCalls)
    BY <1>a DEF Goes, MayCall
  <2>3. calls \in 0 .. MaxCalls
    BY DEF Types, TypeOK
  <2>q. QED
    BY <2>1, <2>2, <2>3
<1>c. Claiming \in BOOLEAN
  BY DEF Claiming, RunClaims
<1>n. 1 \in 1 .. MaxSequence + 1
  OBVIOUS
<1> HIDE DEF D
<1>1. CASE ClaimRoute \/ StoreSequence \/ AskConnected
  <2>0. caller' \in [Callers -> CallerSteps] /\ calls' \in 0 .. MaxCalls
    <3>1. CASE ClaimRoute
      BY <1>a, <1>s, <3>1 DEF ClaimRoute
    <3>2. CASE StoreSequence
      BY <1>a, <1>s, <3>2 DEF StoreSequence
    <3>3. CASE AskConnected
      BY <1>a, <1>s, <3>3 DEF AskConnected
    <3>q. QED
      BY <1>1, <3>1, <3>2, <3>3
  <2>1. TypeOK'
    <3>1. CASE ClaimRoute
      BY <2>0, <3>1 DEF ClaimRoute, Types, TypeOK, atomics, stream, threads, sending, link, receiver, history
    <3>2. CASE StoreSequence
      BY <2>0, <1>n, <3>2 DEF StoreSequence, Types, TypeOK, atomics, stream, threads, sending, link, receiver, history
    <3>3. CASE AskConnected
      BY <2>0, <3>3 DEF AskConnected, Types, TypeOK, atomics, stream, threads, sending, link, receiver, history
    <3>q. QED
      BY <1>1, <3>1, <3>2, <3>3
  <2>2. HistoryType' /\ (sender = "numbered" => number # 0)'
    BY <1>1 DEF ClaimRoute, StoreSequence, AskConnected, Types, TypeOK, HistoryType, atomics, stream, threads, sending, link, receiver, history
  <2>q. QED
    BY <2>1, <2>2 DEF Types
<1>2. CASE StoreClaimed
  <2>1. TypeOK'
    BY <1>2, <1>s DEF StoreClaimed, Goes, Types, TypeOK, atomics, stream, threads, sending, link, receiver, history
  <2>2. HistoryType' /\ (sender = "numbered" => number # 0)'
    BY <1>2 DEF StoreClaimed, RunClaims, Types, TypeOK, HistoryType, atomics, stream, threads, sending, link, receiver, history
  <2>q. QED
    BY <2>1, <2>2 DEF Types
<1>4. CASE SendClaim
  <2>1. queue' = D(Msg("Claim"))
    BY <1>4 DEF SendClaim, D
  <2>t. TypeOK'
    BY <1>4, <2>1, <1>m, <1>g, <1>b, <1>s DEF SendClaim, Goes, Types, TypeOK, atomics, stream, threads, sending, link, receiver, history
  <2>h. HistoryType' /\ (sender = "numbered" => number # 0)'
    BY <1>4, <1>b DEF SendClaim, ClaimsLate, ReleaseDue, Types, TypeOK, HistoryType, atomics, stream, threads, sending, link, receiver, history
  <2>q. QED
    BY <2>t, <2>h DEF Types
<1>5. ASSUME NEW t \in Callers, ReleaseAll(t) PROVE Types'
  <2>0. caller' \in [Callers -> CallerSteps] /\ calls' \in 0 .. MaxCalls
    BY <1>5, <1>a, <1>s DEF ReleaseAll
  <2>1. TypeOK'
    BY <1>5, <2>0 DEF ReleaseAll, Types, TypeOK, atomics, stream, threads, sending, link, receiver, history
  <2>2. HistoryType' /\ (sender = "numbered" => number # 0)'
    BY <1>5 DEF ReleaseAll, Types, TypeOK, HistoryType, atomics, stream, threads, sending, link, receiver, history
  <2>q. QED
    BY <2>1, <2>2 DEF Types
<1>6. ASSUME NEW t \in Callers, DropRoute(t) PROVE Types'
  <2>1. TypeOK'
    BY <1>6, <1>s DEF DropRoute, Goes, Types, TypeOK, atomics, stream, threads, sending, link, receiver, history
  <2>2. HistoryType' /\ (sender = "numbered" => number # 0)'
    BY <1>6 DEF DropRoute, Types, TypeOK, HistoryType, atomics, stream, threads, sending, link, receiver, history
  <2>q. QED
    BY <2>1, <2>2 DEF Types
<1>7. ASSUME NEW t \in Callers, SendRelease(t) PROVE Types'
  <2>1. queue' = D(Msg("Release"))
    BY <1>7 DEF SendRelease, Enqueue, D
  <2>t. TypeOK'
    BY <1>7, <2>1, <1>m, <1>g, <1>b, <1>s DEF SendRelease, Enqueue, Goes, Types, TypeOK, atomics, stream, threads, sending, link, receiver, history
  <2>h. HistoryType' /\ (sender = "numbered" => number # 0)'
    BY <1>7, <1>b, <1>c DEF SendRelease, Enqueue, PassesClaim, Types, TypeOK, HistoryType, atomics, stream, threads, sending, link, receiver, history
  <2>q. QED
    BY <2>t, <2>h DEF Types
<1>32. ASSUME NEW t \in Callers, ClearQueue(t) PROVE Types'
  <2>1. TypeOK'
    BY <1>32, <1>e, <1>s DEF ClearQueue, Goes, Types, TypeOK, atomics, stream, threads, sending, link, receiver, history
  <2>2. HistoryType' /\ (sender = "numbered" => number # 0)'
    BY <1>32, <1>c DEF ClearQueue, PassesClaim, Types, TypeOK, HistoryType, atomics, stream, threads, sending, link, receiver, history
  <2>q. QED
    BY <2>1, <2>2 DEF Types
<1>8. CASE SendEvents \/ AskRoute \/ LoadRoute
  <2>0. calls' \in 0 .. MaxCalls
    <3>1. calls' = calls \/ (calls' = calls + 1 /\ calls < MaxCalls)
      BY <1>8 DEF SendEvents, AskRoute, LoadRoute, Sends, MayCall
    <3>2. calls \in 0 .. MaxCalls
      BY DEF Types, TypeOK
    <3>q. QED
      BY <3>1, <3>2
  <2>5. sender' \in SenderSteps /\ addressed' \in BOOLEAN /\ UNCHANGED <<caller, sequence, number, queue>>
    BY <1>8 DEF SendEvents, AskRoute, LoadRoute, Sends, SenderSteps, Types, TypeOK
  <2>6. UNCHANGED <<claimed, route, connected, stream, stopping, link, receiver>>
    BY <1>8 DEF SendEvents, AskRoute, LoadRoute, Sends
  <2>1. TypeOK'
    BY <2>0, <2>5, <2>6 DEF Types, TypeOK, stream, link, receiver
  <2>2. HistoryType' /\ (sender = "numbered" => number # 0)'
    BY <1>8 DEF SendEvents, AskRoute, LoadRoute, Sends, Types, TypeOK, HistoryType, atomics, stream, threads, sending, link, receiver, history
  <2>q. QED
    BY <2>1, <2>2 DEF Types
<1>33. CASE TakeNumber
  <2>1. TypeOK'
    BY <1>33 DEF TakeNumber, Sends, SenderSteps, Types, TypeOK, atomics, stream, threads, sending, link, receiver, history
  <2>2. HistoryType'
    BY <1>33, <1>c DEF TakeNumber, Types, TypeOK, HistoryType
  <2>3. (sender = "numbered" => number # 0)'
    BY <1>33 DEF TakeNumber, Types, TypeOK
  <2>q. QED
    BY <2>1, <2>2, <2>3 DEF Types
<1>9. CASE EnqueueBatch
  <2>1. queue' \in Seq(Messages) /\ Len(queue') <= MaxQueue
    <3>1. number \in 1 .. MaxSequence
      BY <1>9 DEF EnqueueBatch, Types, TypeOK
    <3>2. CASE addressed
      <4>1. queue' = D(Batch(number))
        BY <1>9, <3>2 DEF EnqueueBatch, Enqueue, D
      <4>q. QED
        BY <3>1, <4>1, <1>m, <1>g
    <3>3. CASE ~addressed
      <4>1. queue' = D(Msg("Stray"))
        BY <1>9, <3>3 DEF EnqueueBatch, Enqueue, D
      <4>q. QED
        BY <4>1, <1>m, <1>g
    <3>q. QED
      BY <3>2, <3>3 DEF Types, TypeOK
  <2>2. sender' \in SenderSteps /\ number' \in 0 .. MaxSequence
    BY <1>9 DEF EnqueueBatch, SenderSteps
  <2>t. TypeOK'
    BY <1>9, <2>1, <2>2, <1>b DEF EnqueueBatch, Enqueue, Types, TypeOK, atomics, stream, threads, sending, link, receiver, history
  <2>h. HistoryType' /\ (sender = "numbered" => number # 0)'
    BY <1>9, <1>b DEF EnqueueBatch, Enqueue, Types, TypeOK, HistoryType, atomics, stream, threads, sending, link, receiver, history
  <2>q. QED
    BY <2>t, <2>h DEF Types
<1>10. CASE CheckStopping
  BY <1>10 DEF CheckStopping, Types, TypeOK, HistoryType, RunSteps, atomics, stream, threads, sending, link, receiver, history
<1>11. CASE Restart
  <2>1. TypeOK'
    BY <1>11 DEF Restart, Types, TypeOK, RunSteps, atomics, stream, threads, sending, link, receiver, history
  <2>2. HistoryType' /\ (sender = "numbered" => number # 0)'
    BY <1>11 DEF Restart, Types, TypeOK, HistoryType, atomics, stream, threads, sending, link, receiver, history
  <2>q. QED
    BY <2>1, <2>2 DEF Types
<1>12. CASE Connect
  <2>1. queue' = D(Msg("Hello"))
    BY <1>12 DEF Connect, D
  <2>t. TypeOK'
    BY <1>12, <2>1, <1>m, <1>g, <1>b, <1>n DEF Connect, Types, TypeOK, RunSteps, atomics, stream, threads, sending, link, receiver, history
  <2>h. HistoryType' /\ (sender = "numbered" => number # 0)'
    BY <1>12, <1>b DEF Connect, Types, TypeOK, HistoryType, atomics, stream, threads, sending, link, receiver, history
  <2>q. QED
    BY <2>t, <2>h DEF Types
<1>34. CASE StoreConnected
  BY <1>34 DEF StoreConnected, Types, TypeOK, HistoryType, RunSteps, atomics, stream, threads, sending, link, receiver, history
<1>13. CASE ConnectFails
  BY <1>13 DEF ConnectFails, Types, TypeOK, HistoryType, RunSteps, atomics, stream, threads, sending, link, receiver, history
<1>14. CASE LoadClaimed
  BY <1>14 DEF LoadClaimed, Types, TypeOK, HistoryType, RunSteps, atomics, stream, threads, sending, link, receiver, history
<1>15. CASE RestoreRoute
  <2>1. TypeOK'
    BY <1>15 DEF RestoreRoute, Types, TypeOK, RunSteps, atomics, stream, threads, sending, link, receiver, history
  <2>2. HistoryType' /\ (sender = "numbered" => number # 0)'
    BY <1>15 DEF RestoreRoute, Types, TypeOK, HistoryType, atomics, stream, threads, sending, link, receiver, history
  <2>q. QED
    BY <2>1, <2>2 DEF Types
<1>16. CASE RestartSequence
  BY <1>16 DEF RestartSequence, Types, TypeOK, HistoryType, RunSteps, atomics, stream, threads, sending, link, receiver, history
<1>17. CASE SendClaimAgain
  <2>1. queue' = D(Msg("Claim"))
    BY <1>17 DEF SendClaimAgain, Enqueue, D
  <2>q. QED
    BY <1>17, <2>1, <1>m, <1>g, <1>b DEF SendClaimAgain, Enqueue, Types, TypeOK, HistoryType, RunSteps, atomics, stream, threads, sending, link, receiver, history
<1>18. CASE RunEnds
  <2>1. TypeOK'
    BY <1>18, <1>e DEF RunEnds, Types, TypeOK, RunSteps, atomics, stream, threads, sending, link, receiver, history
  <2>2. HistoryType' /\ (sender = "numbered" => number # 0)'
    BY <1>18, <1>e DEF RunEnds, Types, TypeOK, HistoryType, atomics, stream, threads, sending, link, receiver, history
  <2>q. QED
    BY <2>1, <2>2 DEF Types
<1>w. writes # <<>> => Tail(writes) \in Seq(Messages) /\ Head(writes) \in Messages
  BY TailAt DEF Types, TypeOK
<1>19. CASE StartWrite
  <2>0. queue \in Seq(Messages) /\ writes \in Seq(Messages) /\ queue # <<>> /\ Len(queue) <= MaxQueue
    BY <1>19 DEF StartWrite, Types, TypeOK
  <2>1. Tail(queue) \in Seq(Messages) /\ Len(Tail(queue)) <= MaxQueue /\ Head(queue) \in Messages
    BY <2>0, TailAt
  <2>2. Append(writes, Head(queue)) \in Seq(Messages)
    BY <2>0, <2>1, AppendAt
  <2>q. QED
    BY <1>19, <2>1, <2>2 DEF StartWrite, Types, TypeOK, HistoryType, atomics, stream, threads, sending, link, receiver, history
<1>o. ASSUME NEW outstanding \in SUBSET {"failed", "written"}, OnDisconnect(outstanding)
      PROVE  /\ claimed' = claimed /\ sequence' = sequence
             /\ route' \in BOOLEAN /\ connected' \in BOOLEAN /\ stopped' \in BOOLEAN
             /\ queue' \in Seq(Messages) /\ Len(queue') <= MaxQueue
             /\ stale' \subseteq {"failed", "written"}
  BY <1>o, <1>e DEF OnDisconnect, Types, TypeOK, atomics
<1>20. CASE ReadFails
  <2>1. PICK o \in SUBSET {"failed", "written"} : OnDisconnect(o)
    BY <1>20 DEF ReadFails, Types, TypeOK
  <2>q. QED
    BY <1>20, <1>o, <2>1, <1>e DEF ReadFails, Types, TypeOK, HistoryType, atomics, stream, threads, sending, link, receiver, history
<1>21. CASE WriteFails
  <2>1. PICK o \in SUBSET {"failed", "written"} : OnDisconnect(o)
    BY <1>21 DEF WriteFails, Types, TypeOK
  <2>q. QED
    BY ZenonT(30), <1>21, <1>o, <2>1, <1>w DEF WriteFails, Types, TypeOK, HistoryType, atomics, stream, threads, sending, link, receiver, history
<1>22. CASE StaleFails
  <2>1. PICK o \in SUBSET {"failed", "written"} : OnDisconnect(o)
    BY <1>22 DEF StaleFails, Types, TypeOK
  <2>q. QED
    BY <1>22, <1>o, <2>1 DEF StaleFails, Types, TypeOK, HistoryType, atomics, stream, threads, sending, link, receiver, history
<1>23. CASE StaleWritten
  <2>1. TypeOK'
    BY ZenonT(30), <1>23 DEF StaleWritten, Types, TypeOK, atomics, stream, threads, sending, link, receiver, history
  <2>2. HistoryType' /\ (sender = "numbered" => number # 0)'
    BY <1>23 DEF StaleWritten, Types, TypeOK, HistoryType, atomics, stream, threads, sending, link, receiver, history
  <2>q. QED
    BY <2>1, <2>2 DEF Types
<1>24. CASE Stop
  BY <1>24 DEF Stop, Types, TypeOK, HistoryType, atomics, stream, threads, sending, link, receiver, history
<1>25. CASE LinkBreaks
  <2>0. losses' \in 0 .. MaxLosses
    BY <1>25 DEF LinkBreaks, Types, TypeOK
  <2>1. TypeOK'
    BY <1>25, <2>0 DEF LinkBreaks, Types, TypeOK, atomics, stream, threads, sending, link, receiver, history
  <2>2. HistoryType' /\ (sender = "numbered" => number # 0)'
    BY <1>25 DEF LinkBreaks, Types, TypeOK, HistoryType, atomics, stream, threads, sending, link, receiver, history
  <2>q. QED
    BY <2>1, <2>2 DEF Types
<1>26. CASE ReceiveHello
  <2>1. TypeOK'
    BY <1>26, <1>w DEF ReceiveHello, Receives, Types, TypeOK, atomics, stream, threads, sending, link, receiver, history
  <2>2. HistoryType' /\ (sender = "numbered" => number # 0)'
    BY <1>26, <1>w DEF ReceiveHello, Receives, Types, TypeOK, HistoryType, atomics, stream, threads, sending, link, receiver, history
  <2>q. QED
    BY <2>1, <2>2 DEF Types
<1>27. CASE ReceiveClaim
  <2>1. TypeOK'
    BY <1>27, <1>w, <1>n DEF ReceiveClaim, Receives, Types, TypeOK, atomics, stream, threads, sending, link, receiver, history
  <2>2. HistoryType' /\ (sender = "numbered" => number # 0)'
    BY <1>27, <1>w DEF ReceiveClaim, Receives, Types, TypeOK, HistoryType, atomics, stream, threads, sending, link, receiver, history
  <2>q. QED
    BY <2>1, <2>2 DEF Types
<1>28. CASE ReceiveRelease
  <2>1. TypeOK'
    BY <1>28, <1>w DEF ReceiveRelease, Receives, Types, TypeOK, atomics, stream, threads, sending, link, receiver, history
  <2>2. HistoryType' /\ (sender = "numbered" => number # 0)'
    BY <1>28, <1>w DEF ReceiveRelease, Receives, Types, TypeOK, HistoryType, atomics, stream, threads, sending, link, receiver, history
  <2>q. QED
    BY <2>1, <2>2 DEF Types
<1>29. CASE ReceiveBatch
  <2>1. Head(writes).number \in 1 .. MaxSequence
    BY <1>29, <1>w, MessagesAre DEF ReceiveBatch, Receives
  <2>2. expected' \in 1 .. MaxSequence + 1
    BY <1>29, <2>1 DEF ReceiveBatch, Types, TypeOK
  <2>3. served' \in BOOLEAN
    BY <1>29 DEF ReceiveBatch, Types, TypeOK
  <2>t. TypeOK'
    BY <1>29, <2>2, <2>3, <1>w DEF ReceiveBatch, Receives, Types, TypeOK, atomics, stream, threads, sending, link, receiver, history
  <2>h. HistoryType' /\ (sender = "numbered" => number # 0)'
    BY <1>29, <1>b DEF ReceiveBatch, Receives, Types, TypeOK, HistoryType, atomics, stream, threads, sending, link, receiver, history
  <2>q. QED
    BY <2>t, <2>h DEF Types
<1>35. CASE ReceiveStray
  <2>1. TypeOK'
    BY <1>35, <1>w DEF ReceiveStray, Receives, Types, TypeOK, atomics, stream, threads, sending, link, receiver, history
  <2>2. HistoryType' /\ (sender = "numbered" => number # 0)'
    BY <1>35 DEF ReceiveStray, Receives, Types, TypeOK, HistoryType, atomics, stream, threads, sending, link, receiver, history
  <2>q. QED
    BY <2>1, <2>2 DEF Types
<1>30. CASE SessionEnds
  <2>1. TypeOK'
    BY <1>30, <1>n DEF SessionEnds, Types, TypeOK, atomics, stream, threads, sending, link, receiver, history
  <2>2. HistoryType' /\ (sender = "numbered" => number # 0)'
    BY <1>30 DEF SessionEnds, Types, TypeOK, HistoryType, atomics, stream, threads, sending, link, receiver, history
  <2>q. QED
    BY <2>1, <2>2 DEF Types
<1>31. CASE UNCHANGED vars
  BY <1>31 DEF vars, Types, TypeOK, HistoryType, atomics, stream, threads, sending, link, receiver, history
<1>q. QED
  BY <1>1, <1>2, <1>4, <1>5, <1>6, <1>7, <1>8, <1>9, <1>10, <1>11, <1>12, <1>13, <1>14,
     <1>15, <1>16, <1>17, <1>18, <1>19, <1>20, <1>21, <1>22, <1>23, <1>24, <1>25, <1>26,
     <1>27, <1>28, <1>29, <1>30, <1>31, <1>32, <1>33, <1>34, <1>35
     DEF Next, Caller, ClaimStep, ReleaseStep, CallerStep, Sender, RunStep, Handler, ReceiverStep

-----------------------------------------------------------------------------
\* What EnqueueBatch queues.
Sent == IF addressed THEN Batch(number) ELSE Msg("Stray")

LEMMA MessageFacts ==
  ASSUME Types
  PROVE  /\ Msg("Claim") \in Messages /\ Msg("Claim").type = "Claim"
         /\ Msg("Release") \in Messages /\ Msg("Release").type = "Release"
         /\ Msg("Hello") \in Messages /\ Msg("Hello").type = "Hello"
         /\ sender = "numbered"
              => /\ Sent \in Messages /\ Sent.type \in {"Batch", "Stray"}
                 /\ addressed => Sent.type = "Batch" /\ Sent.number = number
<1>1. sender = "numbered" => number \in 1 .. MaxSequence
  BY AgentLinkAssumption DEF Types, TypeOK
<1>2. \A t \in {"Hello", "Claim", "Release", "Stray"} : Msg(t) \in Messages /\ Msg(t).type = t
  BY MessagesAre
<1>3. addressed => Sent = Batch(number)
  BY DEF Sent
<1>4. ~addressed => Sent = Msg("Stray")
  BY DEF Sent
<1>5. sender = "numbered" /\ addressed
        => Sent \in Messages /\ Sent.type = "Batch" /\ Sent.number = number
  BY <1>1, <1>3, MessagesAre
<1>6. ~addressed => Sent \in Messages /\ Sent.type = "Stray"
  BY <1>2, <1>4
<1>q. QED
  BY <1>2, <1>5, <1>6

LEMMA StepPlaced == Types /\ Placed /\ [Next]_vars => Placed'
<1> SUFFICES ASSUME Types, Placed, [Next]_vars PROVE Placed'
  OBVIOUS
<1>a. ASSUME NEW m \in Messages, m.type # "Hello",
             queue' = IF Full THEN <<>> ELSE Append(queue, m)
      PROVE  Carries(queue', "Hello") => Carries(queue, "Hello")
  <2>1. queue \in Seq(Messages)
    BY DEF Types, TypeOK
  <2>q. QED
    BY <1>a, <2>1, CarriesMoves
<1>m. /\ Msg("Claim") \in Messages /\ Msg("Claim").type # "Hello"
      /\ Msg("Release") \in Messages /\ Msg("Release").type # "Hello"
      /\ sender = "numbered" => Sent \in Messages /\ Sent.type # "Hello"
  BY MessageFacts
<1>e. ~Carries(<<>>, "Hello")
  BY DEF Carries
<1>b. HistoryType /\ TypeOK
  BY DEF Types
<1>1. CASE ClaimRoute \/ StoreSequence \/ StoreClaimed \/ AskConnected
  BY <1>1 DEF ClaimRoute, StoreSequence, StoreClaimed, AskConnected, Placed, Opening, atomics, stream, threads, sending, link, receiver, history
<1>4. CASE SendClaim
  <2>1. Carries(queue', "Hello") => Carries(queue, "Hello")
    BY <1>4, <1>a, <1>m DEF SendClaim
  <2>q. QED
    BY <1>4, <2>1 DEF SendClaim, Placed, Opening, atomics, stream, threads, sending, link, receiver, history
<1>5. ASSUME NEW t \in Callers, ReleaseAll(t) \/ DropRoute(t) PROVE Placed'
  BY <1>5 DEF ReleaseAll, DropRoute, Placed, Opening, atomics, stream, threads, sending, link, receiver, history
<1>7. ASSUME NEW t \in Callers, SendRelease(t) PROVE Placed'
  <2>1. Carries(queue', "Hello") => Carries(queue, "Hello")
    BY <1>7, <1>a, <1>m DEF SendRelease, Enqueue
  <2>q. QED
    BY <1>7, <2>1 DEF SendRelease, Enqueue, Placed, Opening, atomics, stream, threads, sending, link, receiver, history
<1>32. ASSUME NEW t \in Callers, ClearQueue(t) PROVE Placed'
  BY <1>32, <1>e DEF ClearQueue, Placed, Opening, atomics, stream, threads, sending, link, receiver, history
<1>8. CASE SendEvents \/ AskRoute \/ LoadRoute \/ TakeNumber
  BY <1>8 DEF SendEvents, AskRoute, LoadRoute, TakeNumber, Sends, Placed, Opening, atomics, stream, threads, sending, link, receiver, history
<1>9. CASE EnqueueBatch
  <2>1. Carries(queue', "Hello") => Carries(queue, "Hello")
    BY <1>9, <1>a, <1>m DEF EnqueueBatch, Enqueue, Sent
  <2>q. QED
    BY <1>9, <2>1 DEF EnqueueBatch, Enqueue, Placed, Opening, atomics, stream, threads, sending, link, receiver, history
<1>10. CASE CheckStopping
  BY <1>10 DEF CheckStopping, Placed, Opening, atomics, stream, threads, sending, link, receiver, history
<1>11. CASE Restart
  BY <1>11 DEF Restart, Placed, Opening, atomics, stream, threads, sending, link, receiver, history
<1>12. CASE Connect
  BY <1>12 DEF Connect, Placed, Opening, atomics, stream, threads, sending, link, receiver, history
<1>34. CASE StoreConnected
  BY <1>34 DEF StoreConnected, Placed, Opening, atomics, stream, threads, sending, link, receiver, history
<1>13. CASE ConnectFails
  BY <1>13 DEF ConnectFails, Placed, Opening, atomics, stream, threads, sending, link, receiver, history
<1>14. CASE LoadClaimed
  BY <1>14 DEF LoadClaimed, Placed, Opening, atomics, stream, threads, sending, link, receiver, history
<1>15. CASE RestoreRoute
  BY <1>15 DEF RestoreRoute, Placed, Opening, atomics, stream, threads, sending, link, receiver, history
<1>16. CASE RestartSequence
  BY <1>16 DEF RestartSequence, Placed, Opening, atomics, stream, threads, sending, link, receiver, history
<1>17. CASE SendClaimAgain
  BY <1>17 DEF SendClaimAgain, Placed, Opening, atomics, stream, threads, sending, link, receiver, history
<1>18. CASE RunEnds
  BY <1>18 DEF RunEnds, Placed, Opening, atomics, stream, threads, sending, link, receiver, history
<1>19. CASE StartWrite
  BY <1>19 DEF StartWrite, Handles, Placed, Opening, atomics, stream, threads, sending, link, receiver, history
<1>o. ASSUME NEW outstanding, OnDisconnect(outstanding), Handles
      PROVE  /\ claimed' = claimed /\ connected' = FALSE
             /\ connected => queue' = <<>>
             /\ ~connected => queue' = queue /\ stopped' = stopped
  BY <1>o DEF OnDisconnect, TypeOK, Types, atomics
<1>20. CASE ReadFails
  <2>1. PICK o \in SUBSET {"failed", "written"} : OnDisconnect(o)
    BY <1>20 DEF ReadFails, Types, TypeOK
  <2>q. QED
    BY <1>20, <1>o, <2>1, <1>e DEF ReadFails, Handles, Placed, Opening, threads, sending, link, receiver, history
<1>21. CASE WriteFails
  <2>1. OnDisconnect(stale \union {"failed"})
    BY <1>21 DEF WriteFails
  <2>q. QED
    BY <1>21, <1>o, <2>1, <1>e DEF WriteFails, Handles, Placed, Opening, threads, sending, link, receiver, history
<1>22. CASE StaleFails
  <2>1. OnDisconnect(stale)
    BY <1>22 DEF StaleFails
  <2>q. QED
    BY <1>22, <1>o, <2>1, <1>e DEF StaleFails, Handles, Placed, Opening, threads, sending, link, receiver, history
<1>23. CASE StaleWritten
  BY <1>23 DEF StaleWritten, Handles, Placed, Opening, atomics, stream, threads, sending, link, receiver, history
<1>24. CASE Stop
  BY <1>24 DEF Stop, Placed, Opening, atomics, stream, threads, sending, link, receiver, history
<1>25. CASE LinkBreaks
  BY <1>25 DEF LinkBreaks, Placed, Opening, atomics, stream, threads, sending, link, receiver, history
<1>26. CASE ReceiveHello
  BY <1>26 DEF ReceiveHello, Receives, Handles, Placed, Opening, atomics, stream, threads, sending, link, receiver, history
<1>27. CASE ReceiveClaim
  BY <1>27 DEF ReceiveClaim, Receives, Handles, Placed, Opening, atomics, stream, threads, sending, link, receiver, history
<1>28. CASE ReceiveRelease
  BY <1>28 DEF ReceiveRelease, Receives, Handles, Placed, Opening, atomics, stream, threads, sending, link, receiver, history
<1>29. CASE ReceiveBatch
  BY <1>29 DEF ReceiveBatch, Receives, Handles, Placed, Opening, atomics, stream, threads, sending, link, receiver, history
<1>35. CASE ReceiveStray
  BY <1>35 DEF ReceiveStray, Receives, Handles, Placed, Opening, atomics, stream, threads, sending, link, receiver, history
<1>30. CASE SessionEnds
  BY <1>30 DEF SessionEnds, Placed, Opening, atomics, stream, threads, sending, link, receiver, history
<1>31. CASE UNCHANGED vars
  BY <1>31 DEF vars, Placed, Opening, atomics, stream, threads, sending, link, receiver, history
<1>q. QED
  BY <1>1, <1>4, <1>5, <1>7, <1>8, <1>9, <1>10, <1>11, <1>12, <1>13, <1>14,
     <1>15, <1>16, <1>17, <1>18, <1>19, <1>20, <1>21, <1>22, <1>23, <1>24, <1>25, <1>26,
     <1>27, <1>28, <1>29, <1>30, <1>31, <1>32, <1>34, <1>35
     DEF Next, Caller, ClaimStep, ReleaseStep, CallerStep, Sender, RunStep, Handler, ReceiverStep

-----------------------------------------------------------------------------
(***************************************************************************)
(* What the steps do to what is under way.                                 *)
(***************************************************************************)

LEMMA UnderWayFacts ==
  ASSUME Types
  PROVE  /\ UnderWay \in Seq(Messages) /\ queue \in Seq(Messages) /\ writes \in Seq(Messages)
         /\ UNCHANGED <<writes, queue>> => UnderWay' = UnderWay
         /\ queue # <<>> /\ writes' = Append(writes, Head(queue)) /\ queue' = Tail(queue)
              => UnderWay' = UnderWay
         /\ \A m \in Messages : UNCHANGED writes /\ queue' = Append(queue, m)
                                  => UnderWay' = Append(UnderWay, m)
         /\ writes # <<>> /\ writes' = Tail(writes) /\ UNCHANGED queue
              => /\ UnderWay # <<>> /\ UnderWay' = Tail(UnderWay)
                 /\ Head(UnderWay) = Head(writes)
         /\ writes = <<>> => UnderWay = queue
         /\ UNCHANGED writes /\ queue' = <<>>
              => \A type : Carries(UnderWay', type) => Carries(UnderWay, type)
<1>0. queue \in Seq(Messages) /\ writes \in Seq(Messages)
  BY DEF Types, TypeOK
<1>1. UnderWay \in Seq(Messages)
  BY <1>0, UnderWayMoves DEF UnderWay
<1>2. UNCHANGED <<writes, queue>> => UnderWay' = UnderWay
  BY DEF UnderWay
<1>3. queue # <<>> /\ writes' = Append(writes, Head(queue)) /\ queue' = Tail(queue)
        => UnderWay' = UnderWay
  BY <1>0, UnderWayMoves DEF UnderWay
<1>4. ASSUME NEW m \in Messages, UNCHANGED writes, queue' = Append(queue, m)
      PROVE  UnderWay' = Append(UnderWay, m)
  BY <1>0, <1>4, UnderWayMoves DEF UnderWay
<1>5. writes # <<>> /\ writes' = Tail(writes) /\ UNCHANGED queue
        => /\ UnderWay # <<>> /\ UnderWay' = Tail(UnderWay)
           /\ Head(UnderWay) = Head(writes)
  BY <1>0, UnderWayMoves DEF UnderWay
<1>6. writes = <<>> => UnderWay = queue
  BY <1>0 DEF UnderWay
<1>7. ASSUME UNCHANGED writes, queue' = <<>>, NEW type, Carries(UnderWay', type)
      PROVE  Carries(UnderWay, type)
  <2>1. UnderWay' = writes
    BY <1>0, <1>7 DEF UnderWay
  <2>2. /\ Len(UnderWay) = Len(writes) + Len(queue)
        /\ Len(writes) \in Nat /\ Len(queue) \in Nat
        /\ \A i \in 1 .. Len(writes) : UnderWay[i] = writes[i]
    BY <1>0 DEF UnderWay
  <2>3. PICK i \in 1 .. Len(writes) : writes[i].type = type
    BY <1>7, <2>1 DEF Carries
  <2>4. i \in 1 .. Len(UnderWay) /\ UnderWay[i].type = type
    BY <2>2, <2>3
  <2>q. QED
    BY <2>4 DEF Carries
<1>q. QED
  BY <1>0, <1>1, <1>2, <1>3, <1>4, <1>5, <1>6, <1>7

LEMMA EnqueueUnserved ==
  ASSUME Types, NEW m \in Messages, queue' = Append(queue, m),
         UNCHANGED <<writes, served, hello>>,
         m.type = "Release" \/ (Unserved(UnderWay, served, hello) /\ m.type # "Claim")
  PROVE  Unserved(UnderWay', served', hello')
<1>1. UnderWay' = Append(UnderWay, m) /\ UnderWay \in Seq(Messages)
  BY UnderWayFacts
<1>2. Unserved(Append(UnderWay, m), served, hello)
  BY <1>1, UnservedAppend
<1>q. QED
  BY <1>1, <1>2

Receive == ReceiveHello \/ ReceiveClaim \/ ReceiveRelease \/ ReceiveBatch \/ ReceiveStray

LEMMA ReceiveFacts ==
  ASSUME Types, Receive
  PROVE  /\ UnderWay # <<>> /\ UnderWay' = Tail(UnderWay)
         /\ hello' => hello \/ Head(UnderWay).type = "Hello"
         /\ hello \/ Head(UnderWay).type = "Hello" => hello'
         /\ served' => \/ served /\ Head(UnderWay).type # "Release"
                       \/ hello /\ Head(UnderWay).type = "Claim"
         /\ Head(UnderWay).type = "Claim" => (hello => served') /\ expected' = 1
         /\ Head(UnderWay).type = "Batch" /\ served /\ Head(UnderWay).number = expected
              => served' /\ expected' = expected + 1
         /\ UNCHANGED <<atomics, run, caller, sender, addressed, number, history>>
<1>0. /\ writes # <<>> /\ writes' = Tail(writes) /\ UNCHANGED queue
      /\ UNCHANGED <<atomics, run, caller, sender, addressed, number, history>>
  BY DEF Receive, ReceiveHello, ReceiveClaim, ReceiveRelease, ReceiveBatch, ReceiveStray,
         Receives, threads
<1>1. /\ UnderWay # <<>> /\ UnderWay' = Tail(UnderWay)
      /\ Head(UnderWay) = Head(writes)
  BY <1>0, UnderWayFacts
<1>2. /\ served \in BOOLEAN /\ hello \in BOOLEAN /\ expected \in Int
  BY AgentLinkAssumption DEF Types, TypeOK
<1>3. CASE ReceiveHello
  BY <1>0, <1>1, <1>2, <1>3 DEF ReceiveHello, Receives
<1>4. CASE ReceiveClaim
  BY <1>0, <1>1, <1>2, <1>4 DEF ReceiveClaim, Receives
<1>5. CASE ReceiveRelease
  BY <1>0, <1>1, <1>2, <1>5 DEF ReceiveRelease, Receives
<1>6. CASE ReceiveBatch
  BY <1>0, <1>1, <1>2, <1>6 DEF ReceiveBatch, Receives
<1>7. CASE ReceiveStray
  BY <1>0, <1>1, <1>2, <1>7 DEF ReceiveStray, Receives
<1>q. QED
  BY <1>3, <1>4, <1>5, <1>6, <1>7 DEF Receive

LEMMA ReceiveUnserved ==
  ASSUME Types, Receive, Unserved(UnderWay, served, hello)
  PROVE  Unserved(UnderWay', served', hello')
<1>1. UnderWay \in Seq(Messages)
  BY UnderWayFacts
<1>2. Unserved(Tail(UnderWay), served', hello')
  BY <1>1, ReceiveFacts, UnservedRest
<1>q. QED
  BY <1>2, ReceiveFacts

LEMMA ReceiveServed ==
  ASSUME Types, Receive, NEW n \in Int, ServedAfter(UnderWay, served, hello, expected, n)
  PROVE  ServedAfter(UnderWay', served', hello', expected', n)
<1>1. UnderWay \in Seq(Messages) /\ expected \in Int /\ expected' \in Int
  <2>1. [Next]_vars
    BY DEF Receive, Next, ReceiverStep
  <2>2. Types'
    BY <2>1, StepTypes
  <2>q. QED
    BY <2>2, UnderWayFacts, AgentLinkAssumption DEF Types, TypeOK
<1>2. ServedAfter(Tail(UnderWay), served', hello', expected', n)
  BY <1>1, ReceiveFacts, ServedRest
<1>q. QED
  BY <1>2, ReceiveFacts

LEMMA ConnectUnserved ==
  ASSUME Types, Placed, Connect, ~Full
  PROVE  Unserved(UnderWay', served', hello')
<1>1. Msg("Hello") \in Messages /\ Msg("Hello").type = "Hello"
  BY MessageFacts
<1>2. /\ queue' = Append(queue, Msg("Hello")) /\ writes = <<>> /\ UNCHANGED writes
      /\ ~Carries(queue, "Hello")
      /\ served' = FALSE /\ hello' = FALSE
  BY DEF Connect, Placed
<1>3. UnderWay = queue /\ UnderWay' = Append(UnderWay, Msg("Hello")) /\ UnderWay \in Seq(Messages)
  BY <1>1, <1>2, UnderWayFacts
<1>4. Unserved(Append(UnderWay, Msg("Hello")), FALSE, FALSE)
  BY <1>1, <1>2, <1>3, UnservedAppend
<1>q. QED
  BY <1>2, <1>3, <1>4

\* A queue that is cleared before the handlers run.
LEMMA ClearedUnserved ==
  ASSUME Types, Placed, Opening, queue' = <<>>, UNCHANGED <<writes, served, hello>>
  PROVE  Unserved(UnderWay', served', hello')
<1>1. UnderWay' = <<>>
  <2>1. writes = <<>>
    BY DEF Placed, Opening
  <2>2. UnderWay' = <<>> \o <<>>
    BY <2>1 DEF UnderWay
  <2>q. QED
    BY <2>2
<1>2. ~served' /\ ~hello'
  BY DEF Placed
<1>q. QED
  BY <1>1, <1>2 DEF Unserved

-----------------------------------------------------------------------------
\* A disconnection or a break, at which nothing has to be shown.
LEMMA StepsOfTheDead ==
  ASSUME Types, Placed,
         \/ CheckStopping \/ Restart \/ ConnectFails \/ RunEnds
         \/ ReadFails \/ WriteFails \/ StaleFails \/ LinkBreaks \/ SessionEnds
  PROVE  ~Live'
<1>1. ASSUME NEW outstanding, OnDisconnect(outstanding) PROVE connected' = FALSE
  BY <1>1 DEF OnDisconnect, atomics, Types, TypeOK
<1>2. CASE ReadFails
  BY <1>1, <1>2 DEF ReadFails, Handles, Live
<1>3. CASE WriteFails \/ StaleFails
  BY <1>1, <1>3 DEF WriteFails, StaleFails, Handles, Live
<1>4. CASE CheckStopping \/ Restart \/ ConnectFails
  BY <1>4 DEF CheckStopping, Restart, ConnectFails, Placed, Live, atomics
<1>5. CASE RunEnds \/ LinkBreaks \/ SessionEnds
  BY <1>5 DEF RunEnds, LinkBreaks, SessionEnds, Live, link
<1>q. QED
  BY <1>2, <1>3, <1>4, <1>5

\* What a step of a caller does to the callers.
LEMMA CallerGoes ==
  ASSUME Types, NEW t \in Callers, NEW from, NEW to, Goes(t, from, to)
  PROVE  /\ caller[t] = from /\ caller'[t] = to
         /\ \A other \in Callers \ {t} : caller'[other] = caller[other]
         /\ caller'["capture"] = IF t = "capture" THEN to ELSE caller["capture"]
  BY DEF Goes, Types, TypeOK, Callers

LEMMA DueStays ==
  ASSUME Types, NEW t \in Callers, NEW from, NEW to, Goes(t, from, to),
         from \notin {"dropping", "releasing"}, route => route', ReleaseDue
  PROVE  ReleaseDue'
<1>1. PICK o \in Callers : caller[o] = "releasing" \/ (caller[o] = "dropping" /\ route)
  BY DEF ReleaseDue
<1>2. o # t /\ caller'[o] = caller[o]
  BY <1>1, CallerGoes
<1>q. QED
  BY <1>1, <1>2 DEF ReleaseDue

-----------------------------------------------------------------------------
LEMMA StepNumberedLast ==
  Types /\ NumberedLast /\ [Next]_vars => NumberedLast'
<1> SUFFICES ASSUME Types, NumberedLast, [Next]_vars PROVE NumberedLast'
  OBVIOUS
<1>0. HistoryType /\ claimed \in BOOLEAN /\ "capture" \in Callers
  BY DEF Types, TypeOK, Callers
<1>1. CASE ClaimRoute \/ AskConnected \/ SendClaim
  <2>1. caller["capture"] # "storing"
    BY <1>1, <1>0, CallerGoes DEF ClaimRoute, AskConnected, SendClaim
  <2>2. UNCHANGED <<claimed, misnumbered, sending, run, sequence>>
    BY <1>1 DEF ClaimRoute, AskConnected, SendClaim, atomics, stream, history
  <2>q. QED
    BY <2>1, <2>2 DEF NumberedLast, sending
<1>2. CASE StoreSequence
  <2>1. caller'["capture"] = "storing"
    BY <1>2, <1>0, CallerGoes DEF StoreSequence
  <2>q. QED
    BY <2>1 DEF NumberedLast
<1>16. CASE StoreClaimed
  BY <1>16 DEF StoreClaimed, NumberedLast, sending
<1>3. ASSUME NEW t \in Callers, ReleaseAll(t) PROVE NumberedLast'
  BY <1>3 DEF ReleaseAll, NumberedLast
<1>4. ASSUME NEW t \in Callers, ReleaseStep(t) PROVE NumberedLast'
  <2>1. caller'["capture"] # "storing" => caller["capture"] # "storing"
    BY <1>4, CallerGoes DEF ReleaseStep, DropRoute, SendRelease, ClearQueue
  <2>2. UNCHANGED <<claimed, misnumbered, sending, run, sequence>>
    BY <1>4 DEF ReleaseStep, DropRoute, SendRelease, ClearQueue, atomics, stream, history
  <2>q. QED
    BY <2>1, <2>2 DEF NumberedLast, sending
<1>5. CASE SendEvents \/ AskRoute \/ LoadRoute
  BY <1>5 DEF SendEvents, AskRoute, LoadRoute, Sends, NumberedLast
<1>17. CASE TakeNumber
  <2>1. number' = sequence /\ sequence' = sequence + 1 /\ UNCHANGED <<claimed, run, caller, addressed>>
    BY <1>17 DEF TakeNumber, Sends, stream
  <2>2. misnumbered' = (misnumbered \/ (claimed /\ (Claiming \/ ~addressed)))
    BY <1>17 DEF TakeNumber
  <2>3. run \in {"claiming", "running"} /\ ~Claiming => run = "running"
    BY DEF Claiming, RunClaims
  <2>4. claimed' /\ ~misnumbered' => addressed /\ ~Claiming
    BY <2>1, <2>2
  <2>5. sequence' = number' + 1
    BY <2>1
  <2>q. QED
    BY <2>1, <2>3, <2>4, <2>5 DEF NumberedLast
<1>6. CASE EnqueueBatch
  BY <1>6 DEF EnqueueBatch, NumberedLast
<1>7. CASE CheckStopping \/ Restart \/ Connect \/ StoreConnected \/ ConnectFails \/ RunEnds
  BY <1>7 DEF CheckStopping, Restart, Connect, StoreConnected, ConnectFails, RunEnds, NumberedLast
<1>8. CASE LoadClaimed
  BY <1>8 DEF LoadClaimed, NumberedLast, atomics, stream, threads, sending, link, receiver, history
<1>9. CASE RestoreRoute
  BY <1>9 DEF RestoreRoute, NumberedLast
<1>10. CASE RestartSequence
  BY <1>10, <1>0 DEF RestartSequence, NumberedLast, HistoryType, atomics, stream, threads, sending, link, receiver, history
<1>11. CASE SendClaimAgain
  BY <1>11 DEF SendClaimAgain, NumberedLast, atomics, stream, threads, sending, link, receiver, history
<1>12. CASE StartWrite \/ StaleWritten \/ Stop \/ LinkBreaks \/ SessionEnds
  BY <1>12 DEF StartWrite, StaleWritten, Stop, LinkBreaks, SessionEnds, NumberedLast, atomics, stream, threads, sending, link, receiver, history
<1>o. ASSUME NEW outstanding, OnDisconnect(outstanding)
      PROVE  UNCHANGED <<claimed, sequence>>
  BY <1>o DEF OnDisconnect, atomics
<1>13. CASE ReadFails \/ WriteFails \/ StaleFails
  BY <1>13, <1>o DEF ReadFails, WriteFails, StaleFails, NumberedLast, atomics, stream, threads, sending, link, receiver, history
<1>14. CASE Receive
  BY <1>14, ReceiveFacts DEF NumberedLast, atomics, stream, threads, sending, link, receiver, history
<1>15. CASE UNCHANGED vars
  BY <1>15 DEF vars, NumberedLast, atomics, stream, threads, sending, link, receiver, history
<1>q. QED
  BY <1>1, <1>2, <1>3, <1>4, <1>5, <1>6, <1>7, <1>8, <1>9, <1>10, <1>11, <1>12, <1>13, <1>14,
     <1>15, <1>16, <1>17
     DEF Next, Caller, ClaimStep, CallerStep, Sender, RunStep, Handler, ReceiverStep, Receive

LEMMA StepRouteKept ==
  Types /\ Placed /\ RouteKept /\ [Next]_vars => RouteKept'
<1> SUFFICES ASSUME Types, Placed, RouteKept, [Next]_vars,
                    Live', claimed', ~routeLost', ~route'
             PROVE  /\ run' \in {"greeting", "loading", "routing"}
                    /\ Unserved(UnderWay', served', hello')
  BY DEF RouteKept
<1>0. HistoryType /\ claimed \in BOOLEAN /\ route \in BOOLEAN
  BY DEF Types, TypeOK
<1>u. UNCHANGED <<writes, queue>> => UnderWay' = UnderWay
  BY UnderWayFacts
<1>1. CASE ClaimRoute
  BY <1>1 DEF ClaimRoute
<1>2. CASE StoreClaimed
  BY <1>2, <1>0 DEF StoreClaimed
<1>3. CASE StoreSequence \/ AskConnected
  BY <1>3, <1>u DEF StoreSequence, AskConnected, RouteKept, Live, atomics, stream, threads, sending, link, receiver, history
<1>4. CASE SendClaim
  BY <1>4, <1>0 DEF SendClaim, HistoryType
<1>5. ASSUME NEW t \in Callers, ReleaseAll(t) \/ DropRoute(t) PROVE FALSE
  BY <1>5, <1>0 DEF ReleaseAll, DropRoute, HistoryType
<1>e. ASSUME NEW m \in Messages, m.type # "Claim", Enqueue(m),
             UNCHANGED <<claimed, stream, link, receiver, connected>>
      PROVE  /\ run' \in {"greeting", "loading", "routing"}
             /\ Unserved(UnderWay', served', hello')
  <2>1. ~Full /\ ~routeLost /\ ~route
    BY <1>e, <1>0 DEF Enqueue, HistoryType
  <2>2. queue' = Append(queue, m) /\ UNCHANGED <<writes, served, hello, run>>
    BY <1>e, <2>1 DEF Enqueue, stream, receiver
  <2>3. run \in {"greeting", "loading", "routing"} /\ Unserved(UnderWay, served, hello)
    BY <1>e, <2>1, <2>2 DEF RouteKept, Live, link
  <2>q. QED
    BY <1>e, <2>2, <2>3, EnqueueUnserved
<1>6. ASSUME NEW t \in Callers, SendRelease(t)
      PROVE  /\ run' \in {"greeting", "loading", "routing"}
             /\ Unserved(UnderWay', served', hello')
  BY <1>6, <1>e, MessageFacts DEF SendRelease
<1>18. ASSUME NEW t \in Callers, ClearQueue(t)
       PROVE  /\ run' \in {"greeting", "loading", "routing"}
              /\ Unserved(UnderWay', served', hello')
  <2>1. run \in {"greeting", "loading", "routing"}
    BY <1>18, <1>0 DEF ClearQueue, RouteKept, Live, atomics, stream, threads, sending, link, receiver, history
  <2>2. queue' = <<>> /\ UNCHANGED <<writes, served, hello, run>>
    BY <1>18 DEF ClearQueue, stream, receiver
  <2>q. QED
    BY <2>1, <2>2, ClearedUnserved DEF Opening
<1>7. CASE SendEvents \/ AskRoute \/ LoadRoute \/ TakeNumber
  BY <1>7, <1>u DEF SendEvents, AskRoute, LoadRoute, TakeNumber, Sends, RouteKept, Live, atomics, stream, threads, sending, link, receiver, history
<1>8. CASE EnqueueBatch
  BY <1>8, <1>e, MessageFacts DEF EnqueueBatch, Sent
<1>9. CASE Connect
  <2>1. ~Full /\ run' = "greeting"
    BY <1>9 DEF Connect
  <2>q. QED
    BY <1>9, <2>1, ConnectUnserved
<1>19. CASE StoreConnected
  BY <1>19, <1>u DEF StoreConnected, RouteKept, Live, atomics, stream, threads, sending, link, receiver, history
<1>10. CASE LoadClaimed
  BY <1>10, <1>u DEF LoadClaimed, RouteKept, Live, Placed, atomics, stream, threads, sending, link, receiver, history
<1>11. CASE RestoreRoute
  BY <1>11 DEF RestoreRoute
<1>12. CASE RestartSequence
  BY <1>12 DEF RestartSequence, RouteKept, Live, atomics, stream, threads, sending, link, receiver, history
<1>13. CASE SendClaimAgain
  BY <1>13, <1>0 DEF SendClaimAgain, Enqueue, RouteKept, Live, HistoryType, atomics, stream, threads, sending, link, receiver, history
<1>14. CASE StartWrite \/ StaleWritten
  BY <1>14 DEF StartWrite, StaleWritten, Handles, RouteKept, Live, atomics, stream, threads, sending, link, receiver, history
<1>15. CASE Stop
  BY <1>15, <1>u DEF Stop, RouteKept, Live, atomics, stream, threads, sending, link, receiver, history
<1>16. CASE Receive
  BY <1>16, ReceiveFacts, ReceiveUnserved
     DEF Receive, ReceiveHello, ReceiveClaim, ReceiveRelease, ReceiveBatch, ReceiveStray, Receives,
         RouteKept, Live, atomics, link, history
<1>17. CASE UNCHANGED vars
  BY <1>17, <1>u DEF vars, RouteKept, Live, atomics, stream, threads, sending, link, receiver, history
<1>d. CASE \/ CheckStopping \/ Restart \/ ConnectFails \/ RunEnds
         \/ ReadFails \/ WriteFails \/ StaleFails \/ LinkBreaks \/ SessionEnds
  BY <1>d, StepsOfTheDead
<1>q. QED
  BY <1>1, <1>2, <1>3, <1>4, <1>5, <1>6, <1>7, <1>8, <1>9, <1>10, <1>11, <1>12, <1>13, <1>14,
     <1>15, <1>16, <1>17, <1>18, <1>19, <1>d
     DEF Next, Caller, ClaimStep, ReleaseStep, CallerStep, Sender, RunStep, Handler, ReceiverStep,
         Receive

LEMMA StepReleaseComing ==
  Types /\ Placed /\ RouteKept /\ ReleaseComing /\ [Next]_vars => ReleaseComing'
<1> SUFFICES ASSUME Types, Placed, RouteKept, ReleaseComing, [Next]_vars,
                    Live', ~claimed', ~routeLost', ~discarded', ~crossed', ~RunClaims'
             PROVE  ReleaseDue' \/ Unserved(UnderWay', served', hello')
  BY DEF ReleaseComing
<1>0. HistoryType /\ claimed \in BOOLEAN /\ route \in BOOLEAN /\ "capture" \in Callers
  BY DEF Types, TypeOK, Callers
<1>u. UNCHANGED <<writes, queue>> => UnderWay' = UnderWay
  BY UnderWayFacts
<1>v. UNCHANGED <<caller, route>> => (ReleaseDue' <=> ReleaseDue)
  BY DEF ReleaseDue
\* The step before, where nothing of it has changed.
<1>w. ASSUME UNCHANGED <<claimed, routeLost, discarded, crossed, link, connected, run>>
      PROVE  ReleaseDue \/ Unserved(UnderWay, served, hello)
  BY <1>w, <1>0 DEF ReleaseComing, Live, RunClaims, link
<1>1. CASE ClaimRoute \/ StoreSequence \/ AskConnected
  <2>1. ReleaseDue \/ Unserved(UnderWay, served, hello)
    BY <1>1, <1>w DEF ClaimRoute, StoreSequence, AskConnected, atomics, stream, history
  <2>2. UnderWay' = UnderWay /\ UNCHANGED <<served, hello>> /\ (route => route')
    BY <1>1, <1>u DEF ClaimRoute, StoreSequence, AskConnected, atomics, stream, threads, sending, link, receiver, history
  <2>3. ReleaseDue => ReleaseDue'
    BY <1>1, <1>0, <2>2, DueStays DEF ClaimRoute, StoreSequence, AskConnected
  <2>q. QED
    BY <2>1, <2>2, <2>3
<1>2. CASE StoreClaimed
  BY <1>2 DEF StoreClaimed
<1>4. CASE SendClaim
  <2>1. claimed' = claimed /\ crossed' = (crossed \/ ClaimsLate) /\ (route => route')
    BY <1>4, <1>0 DEF SendClaim, HistoryType
  <2>2. ReleaseDue
    BY <2>1 DEF ClaimsLate
  <2>q. QED
    BY <1>4, <1>0, <2>1, <2>2, DueStays DEF SendClaim
<1>5. ASSUME NEW t \in Callers, ReleaseAll(t)
      PROVE  ReleaseDue' \/ Unserved(UnderWay', served', hello')
  <2>1. /\ UNCHANGED <<routeLost, discarded, crossed, link, connected, run>>
        /\ Goes(t, "idle", "dropping") /\ UNCHANGED <<route, writes, queue, served, hello>>
    BY <1>5 DEF ReleaseAll, atomics, stream, threads, sending, link, receiver, history
  <2>2. UnderWay' = UnderWay
    BY <2>1, UnderWayFacts
  <2>3. CASE claimed
    <3>1. route \/ Unserved(UnderWay, served, hello)
      BY <2>1, <2>3 DEF RouteKept, Live, link
    <3>2. route => ReleaseDue'
      BY <2>1, CallerGoes DEF ReleaseDue
    <3>q. QED
      BY <2>1, <2>2, <3>1, <3>2
  <2>4. CASE ~claimed
    <3>1. ReleaseDue \/ Unserved(UnderWay, served, hello)
      BY <2>1, <2>4 DEF ReleaseComing, Live, RunClaims, link
    <3>q. QED
      BY <2>1, <2>2, <3>1, DueStays
  <2>q. QED
    BY <2>3, <2>4
<1>6. ASSUME NEW t \in Callers, DropRoute(t)
      PROVE  ReleaseDue' \/ Unserved(UnderWay', served', hello')
  <2>1. /\ UNCHANGED <<claimed, discarded, crossed, link, connected, run, writes, queue,
                        served, hello>>
        /\ routeLost' = (routeLost \/ claimed)
        /\ Goes(t, "dropping", IF route THEN "releasing" ELSE "clearing")
    BY <1>6 DEF DropRoute, atomics, stream, threads, sending, link, receiver, history
  <2>2. CASE route
    BY <2>1, <2>2, CallerGoes DEF ReleaseDue
  <2>3. CASE ~route
    <3>1. ReleaseDue \/ Unserved(UnderWay, served, hello)
      BY <2>1, <1>w, <1>0 DEF HistoryType
    <3>2. ASSUME ReleaseDue PROVE ReleaseDue'
      <4>1. PICK o \in Callers : caller[o] = "releasing"
        BY <2>3, <3>2 DEF ReleaseDue
      <4>2. o # t /\ caller'[o] = "releasing"
        BY <2>1, <4>1, CallerGoes
      <4>q. QED
        BY <4>2 DEF ReleaseDue
    <3>q. QED
      BY <2>1, <3>1, <3>2, <1>u
  <2>q. QED
    BY <2>2, <2>3
<1>7. ASSUME NEW t \in Callers, SendRelease(t)
      PROVE  Unserved(UnderWay', served', hello')
  <2>1. ~Full
    BY <1>7, <1>0 DEF SendRelease, Enqueue, HistoryType
  <2>2. queue' = Append(queue, Msg("Release")) /\ UNCHANGED <<writes, served, hello>>
    BY <1>7, <2>1 DEF SendRelease, Enqueue, stream, receiver
  <2>q. QED
    BY <2>2, MessageFacts, EnqueueUnserved
<1>18. ASSUME NEW t \in Callers, ClearQueue(t)
       PROVE  ReleaseDue' \/ Unserved(UnderWay', served', hello')
  <2>1. /\ queue' = <<>> /\ discarded' = (discarded \/ queue # <<>>)
        /\ crossed' = (crossed \/ (PassesClaim /\ queue # <<>>))
        /\ Goes(t, "clearing", "idle")
        /\ UNCHANGED <<claimed, routeLost, link, connected, run, route, writes, served, hello>>
    BY <1>18 DEF ClearQueue, atomics, stream, threads, sending, link, receiver, history
  <2>2. queue = <<>> /\ UNCHANGED <<discarded, crossed>>
    BY <2>1, <1>0 DEF HistoryType
  <2>3. ReleaseDue \/ Unserved(UnderWay, served, hello)
    BY <2>1, <2>2, <1>w
  <2>q. QED
    BY <2>1, <2>2, <2>3, <1>u, DueStays
<1>8. CASE SendEvents \/ AskRoute \/ LoadRoute \/ TakeNumber
  <2>1. /\ UNCHANGED <<claimed, routeLost, discarded, crossed, link, connected, run>>
        /\ UNCHANGED <<caller, route, writes, queue, served, hello>>
    BY <1>8 DEF SendEvents, AskRoute, LoadRoute, TakeNumber, Sends, atomics, stream, threads, sending, link, receiver, history
  <2>q. QED
    BY <2>1, <1>u, <1>v, <1>w
<1>9. CASE EnqueueBatch
  <2>1. ~Full /\ routeLost' = routeLost
    BY <1>9, <1>0 DEF EnqueueBatch, Enqueue, HistoryType
  <2>2. /\ queue' = Append(queue, Sent) /\ UNCHANGED <<writes, served, hello>>
        /\ UNCHANGED <<claimed, link, connected, run, caller, discarded, crossed>> /\ route' = route
    BY <1>9, <2>1, <1>0 DEF EnqueueBatch, Enqueue, Sent, atomics, stream, threads, sending, link, receiver, history
  <2>3. ReleaseDue \/ Unserved(UnderWay, served, hello)
    BY <2>1, <2>2, <1>w
  <2>4. Sent \in Messages /\ Sent.type \in {"Batch", "Stray"}
    BY <1>9, MessageFacts DEF EnqueueBatch
  <2>5. Unserved(UnderWay, served, hello) => Unserved(UnderWay', served', hello')
    BY <2>2, <2>4, EnqueueUnserved
  <2>q. QED
    BY <2>2, <2>3, <2>5, <1>v
<1>10. CASE Connect
  <2>1. ~Full
    BY <1>10 DEF Connect
  <2>q. QED
    BY <1>10, <2>1, ConnectUnserved
<1>11. CASE StoreConnected \/ LoadClaimed
  <2>1. ReleaseDue \/ Unserved(UnderWay, served, hello)
    BY <1>11, <1>0 DEF StoreConnected, LoadClaimed, ReleaseComing, Live, RunClaims, Placed, atomics, stream, threads, sending, link, receiver, history
  <2>2. UNCHANGED <<caller, route, writes, queue, served, hello>>
    BY <1>11 DEF StoreConnected, LoadClaimed, atomics, stream, threads, sending, link, receiver, history
  <2>q. QED
    BY <2>1, <2>2, <1>u, <1>v
<1>12. CASE RestoreRoute \/ RestartSequence
  BY <1>12 DEF RestoreRoute, RestartSequence, RunClaims
<1>13. CASE SendClaimAgain
  <2>1. ~Full /\ claimed' = claimed /\ crossed' = (crossed \/ ClaimsLate)
    BY <1>13, <1>0 DEF SendClaimAgain, Enqueue, HistoryType
  <2>2. ReleaseDue
    BY <2>1 DEF ClaimsLate
  <2>3. UNCHANGED <<caller, route>>
    BY <1>13, <2>1, <1>0 DEF SendClaimAgain, Enqueue, threads
  <2>q. QED
    BY <2>2, <2>3, <1>v
<1>14. CASE StartWrite
  <2>1. UnderWay' = UnderWay
    BY <1>14, UnderWayFacts DEF StartWrite
  <2>2. /\ UNCHANGED <<claimed, routeLost, discarded, crossed, link, connected, run>>
        /\ UNCHANGED <<caller, route, served, hello>>
    BY <1>14 DEF StartWrite, atomics, stream, threads, sending, link, receiver, history
  <2>q. QED
    BY <2>1, <2>2, <1>v, <1>w
<1>15. CASE StaleWritten \/ Stop \/ UNCHANGED vars
  <2>1. /\ UNCHANGED <<claimed, routeLost, discarded, crossed, link, connected, run>>
        /\ UNCHANGED <<caller, route, writes, queue, served, hello>>
    BY <1>15 DEF StaleWritten, Stop, vars, atomics, stream, threads, sending, link, receiver, history
  <2>q. QED
    BY <2>1, <1>u, <1>v, <1>w
<1>16. CASE Receive
  <2>1. UNCHANGED <<atomics, run, caller, history, link>>
    BY <1>16, ReceiveFacts
       DEF Receive, ReceiveHello, ReceiveClaim, ReceiveRelease, ReceiveBatch, ReceiveStray, Receives
  <2>2. ReleaseDue \/ Unserved(UnderWay, served, hello)
    BY <2>1, <1>w DEF atomics, history
  <2>q. QED
    BY <1>16, <2>1, <2>2, <1>v, ReceiveUnserved DEF atomics
<1>d. CASE \/ CheckStopping \/ Restart \/ ConnectFails \/ RunEnds
         \/ ReadFails \/ WriteFails \/ StaleFails \/ LinkBreaks \/ SessionEnds
  BY <1>d, StepsOfTheDead
<1>q. QED
  BY <1>1, <1>2, <1>4, <1>5, <1>6, <1>7, <1>8, <1>9, <1>10, <1>11, <1>12, <1>13, <1>14,
     <1>15, <1>16, <1>18, <1>d
     DEF Next, Caller, ClaimStep, ReleaseStep, CallerStep, Sender, RunStep, Handler, ReceiverStep,
         Receive

LEMMA StepClaimComing ==
  Types /\ Placed /\ NumberedLast /\ ClaimComing /\ [Next]_vars => ClaimComing'
<1> DEFINE HelloComing == hello \/ Carries(UnderWay, "Hello")
           at == caller["capture"]
           Due == /\ run = "claiming" => at \in {"idle", "numbering", "storing"} /\ Fresh
                  /\ run = "running" /\ at \in {"asking", "announcing"} => Fresh
                  /\ run = "running" /\ at \notin {"storing", "asking", "announcing"}
                       => ServedAfter(UnderWay, served, hello, expected, NextNumber)
<1>c. ClaimComing
        <=> (Live /\ claimed /\ ~routeLost /\ ~misnumbered /\ ~crossed /\ HelloComing => Due)
  BY DEF ClaimComing
<1>k. ClaimComing'
        <=> (Live' /\ claimed' /\ ~routeLost' /\ ~misnumbered' /\ ~crossed' /\ HelloComing'
               => Due')
  BY DEF ClaimComing
<1> SUFFICES ASSUME Types, Placed, NumberedLast, ClaimComing, [Next]_vars,
                    Live', claimed', ~routeLost', ~misnumbered', ~crossed', HelloComing'
             PROVE  Due'
  BY <1>k
<1>0. /\ HistoryType /\ claimed \in BOOLEAN /\ route \in BOOLEAN
      /\ "capture" \in Callers
  BY DEF Types, TypeOK, Callers
<1>u. UnderWay' = UnderWay /\ UNCHANGED receiver => (HelloComing' <=> HelloComing)
  BY DEF receiver
<1>v. UNCHANGED <<writes, queue>> => UnderWay' = UnderWay
  BY UnderWayFacts
<1>h. ASSUME NEW m \in Messages, m.type # "Hello", queue' = Append(queue, m),
             UNCHANGED <<writes, hello>>
      PROVE  UnderWay' = Append(UnderWay, m) /\ HelloComing /\ UnderWay \in Seq(Messages)
  <2>1. UnderWay' = Append(UnderWay, m) /\ UnderWay \in Seq(Messages)
    BY <1>h, UnderWayFacts
  <2>2. Carries(UnderWay', "Hello") => Carries(UnderWay, "Hello")
    BY <1>h, <2>1, CarriesMoves
  <2>q. QED
    BY <1>h, <2>1, <2>2
\* The step before, where nothing of it has changed.
<1>w. ASSUME UNCHANGED <<link, connected, claimed, routeLost, misnumbered, crossed, run>>,
             HelloComing
      PROVE  Due
  BY <1>w, <1>0, <1>c DEF Live, HistoryType, link
\* Steps that change neither what is under way nor what the receiver makes of it.
<1>s. ASSUME UnderWay' = UnderWay, UNCHANGED <<receiver, sequence, sending, run, caller>>, Due
      PROVE  Due'
  BY <1>s DEF NextNumber, Fresh, receiver, sending
<1> HIDE DEF HelloComing
<1>1. CASE ClaimRoute \/ StoreSequence
  <2>1. /\ UNCHANGED <<link, connected, claimed, routeLost, misnumbered, crossed, run>>
        /\ UNCHANGED <<receiver, writes, queue, sending>>
    BY <1>1 DEF ClaimRoute, StoreSequence, atomics, stream, threads, sending, link, receiver, history
  <2>2. UnderWay' = UnderWay /\ Due
    BY <2>1, <1>u, <1>v, <1>w
  <2>3. CASE ClaimRoute
    <3>1. at = "idle" /\ at' = "numbering" /\ UNCHANGED sequence
      BY <2>3, <1>0, CallerGoes DEF ClaimRoute
    <3>2. NextNumber' = NextNumber /\ (Fresh' <=> Fresh)
      BY <2>1, <3>1 DEF NextNumber, Fresh, sending
    <3>q. QED
      BY <2>1, <2>2, <3>1, <3>2 DEF receiver
  <2>4. CASE StoreSequence
    <3>1. at' = "storing" /\ sequence' = 1
      BY <2>4, <1>0, CallerGoes DEF StoreSequence
    <3>2. run = "claiming" => Fresh'
      BY <2>1, <2>2, <3>1 DEF Fresh, sending
    <3>q. QED
      BY <2>1, <3>1, <3>2
  <2>q. QED
    BY <1>1, <2>3, <2>4
<1>2. CASE StoreClaimed
  <2>1. at' = "asking" /\ sequence' = sequence /\ sender' = sender /\ run' = run
    BY <1>2, <1>0, CallerGoes DEF StoreClaimed, stream, sending
  <2>2. sender # "numbered" /\ sequence = 1 /\ run # "claiming"
    BY <1>2 DEF StoreClaimed, RunClaims
  <2>q. QED
    BY <2>1, <2>2 DEF Fresh
<1>3. CASE AskConnected
  <2>1. /\ UNCHANGED <<link, connected, claimed, routeLost, misnumbered, crossed, run>>
        /\ UNCHANGED <<receiver, writes, queue, sending, sequence>>
    BY <1>3 DEF AskConnected, atomics, stream, threads, sending, link, receiver, history
  <2>2. UnderWay' = UnderWay /\ Due
    BY <2>1, <1>u, <1>v, <1>w
  <2>3. run = "running" => connected
    BY <2>1 DEF Live
  <2>4. at = "asking" /\ at' = IF connected THEN "announcing" ELSE "idle"
    BY <1>3, <1>0, CallerGoes DEF AskConnected
  <2>5. Fresh' <=> Fresh
    BY <2>1 DEF Fresh, sending
  <2>q. QED
    BY <2>1, <2>2, <2>3, <2>4, <2>5
<1>4. CASE SendClaim
  <2>1. ~Full /\ UNCHANGED <<link, connected, claimed, misnumbered, run>> /\ ~routeLost /\ ~crossed
    BY <1>4, <1>0 DEF SendClaim, HistoryType, atomics, stream, history
  <2>2. queue' = Append(queue, Msg("Claim")) /\ UNCHANGED <<writes, hello, served, expected>>
    BY <1>4, <2>1 DEF SendClaim, stream, receiver
  <2>3. UnderWay' = Append(UnderWay, Msg("Claim")) /\ HelloComing /\ UnderWay \in Seq(Messages)
    BY <2>2, <1>h, MessageFacts
  <2>4. Due
    BY <2>1, <2>3, <1>c, <1>0 DEF Live, link
  <2>5. ServedAfter(UnderWay', served', hello', expected', 1)
    BY <2>2, <2>3, ServedClaim, MessageFacts DEF HelloComing
  <2>6. at = "announcing" /\ at' = "idle" /\ UNCHANGED <<sequence, sending>>
    BY <1>4, <1>0, CallerGoes DEF SendClaim
  <2>7. run # "claiming" /\ (run = "running" => sequence = 1 /\ sender # "numbered")
    BY <2>4, <2>6 DEF Fresh
  <2>8. run = "running" => NextNumber' = 1
    BY <2>6, <2>7 DEF NextNumber, sending
  <2>q. QED
    BY <2>1, <2>5, <2>6, <2>7, <2>8
<1>5. ASSUME NEW t \in Callers, ReleaseAll(t) \/ DropRoute(t) PROVE FALSE
  BY <1>5, <1>0 DEF ReleaseAll, DropRoute, HistoryType
\* The end of a ReleaseAll.
<1>f. ASSUME NEW t \in Callers, NEW from \in {"releasing", "clearing"}, Goes(t, from, "idle"),
             UNCHANGED <<run, sequence, sending>>, Due,
             Claiming \/ (UnderWay' = UnderWay /\ UNCHANGED receiver)
      PROVE  Due'
  <2>1. at' = at \/ (at' = "idle" /\ at \in {"releasing", "clearing"})
    BY <1>f, CallerGoes
  <2>2. (Fresh' <=> Fresh) /\ NextNumber' = NextNumber
    BY <1>f DEF Fresh, NextNumber, sending
  <2>3. CASE UnderWay' = UnderWay /\ UNCHANGED receiver
    BY <1>f, <2>1, <2>2, <2>3 DEF receiver
  <2>4. CASE Claiming
    <3>1. run = "running" => at \in {"storing", "asking", "announcing"}
      BY <2>4 DEF Claiming, RunClaims
    <3>q. QED
      BY <1>f, <2>1, <2>2, <3>1
  <2>q. QED
    BY <1>f, <2>3, <2>4
<1>6. ASSUME NEW t \in Callers, SendRelease(t) PROVE Due'
  <2>1. /\ UNCHANGED <<link, connected, claimed, misnumbered, run, sequence, sending>>
        /\ UNCHANGED <<writes, hello>> /\ ~routeLost /\ ~Full /\ ~crossed /\ ~PassesClaim
        /\ queue' = Append(queue, Msg("Release")) /\ Goes(t, "releasing", "idle")
    BY <1>6, <1>0 DEF SendRelease, Enqueue, HistoryType, stream, receiver
  <2>2. HelloComing
    BY <2>1, <1>h, MessageFacts
  <2>3. Due
    BY <2>1, <2>2, <1>c, <1>0 DEF Live, link
  <2>4. Claiming
    BY <2>1 DEF PassesClaim
  <2>q. QED
    BY <2>1, <2>3, <2>4, <1>f
<1>14. ASSUME NEW t \in Callers, ClearQueue(t) PROVE Due'
  <2>1. /\ UNCHANGED <<link, connected, claimed, misnumbered, routeLost, run, sequence, sending>>
        /\ UNCHANGED <<writes, receiver>> /\ queue' = <<>> /\ Goes(t, "clearing", "idle")
        /\ crossed' = (crossed \/ (PassesClaim /\ queue # <<>>))
    BY <1>14 DEF ClearQueue, atomics, stream, history
  <2>2. ~crossed /\ (queue = <<>> \/ Claiming)
    BY <2>1 DEF PassesClaim
  <2>3. HelloComing
    BY <2>1, UnderWayFacts DEF HelloComing, receiver
  <2>4. Due
    BY <2>1, <2>2, <2>3, <1>c, <1>0 DEF Live, link
  <2>5. queue = <<>> => UnderWay' = UnderWay
    BY <2>1, <1>v
  <2>q. QED
    BY <2>1, <2>2, <2>4, <2>5, <1>f
<1>15. CASE SendEvents \/ AskRoute \/ LoadRoute
  <2>1. /\ UNCHANGED <<link, connected, claimed, routeLost, misnumbered, crossed, run>>
        /\ UNCHANGED <<receiver, writes, queue, caller, sequence, number>>
        /\ sender # "numbered" /\ sender' # "numbered"
    BY <1>15 DEF SendEvents, AskRoute, LoadRoute, Sends, atomics, stream, threads, sending, link, receiver, history
  <2>2. UnderWay' = UnderWay /\ Due
    BY <2>1, <1>u, <1>v, <1>w
  <2>3. NextNumber' = NextNumber /\ (Fresh' <=> Fresh)
    BY <2>1 DEF NextNumber, Fresh
  <2>q. QED
    BY <2>1, <2>2, <2>3 DEF receiver
<1>16. CASE TakeNumber
  <2>1. /\ UNCHANGED <<link, connected, claimed, routeLost, crossed, run>>
        /\ UNCHANGED <<receiver, writes, queue, caller>>
        /\ number' = sequence /\ sender' = "numbered" /\ sender = "loaded"
        /\ misnumbered' = (misnumbered \/ (claimed /\ (Claiming \/ ~addressed)))
    BY <1>16 DEF TakeNumber, Sends, atomics, stream, threads, sending, link, receiver, history
  <2>2. UNCHANGED misnumbered /\ ~Claiming
    BY <2>1, <1>0 DEF HistoryType
  <2>3. UnderWay' = UnderWay /\ Due
    BY <2>1, <2>2, <1>u, <1>v, <1>w
  <2>4. at \notin {"storing", "asking", "announcing"} /\ run # "claiming"
    BY <2>2 DEF Claiming, RunClaims
  <2>5. NextNumber' = NextNumber
    BY <2>1 DEF NextNumber
  <2>q. QED
    BY <2>1, <2>3, <2>4, <2>5 DEF receiver
<1>7. CASE EnqueueBatch
  <2>1. /\ ~Full /\ ~routeLost
        /\ UNCHANGED <<link, connected, claimed, misnumbered, crossed, run, caller, sequence>>
    BY <1>7, <1>0 DEF EnqueueBatch, Enqueue, HistoryType, stream
  <2>2. /\ queue' = Append(queue, Sent) /\ UNCHANGED <<writes, hello, served, expected>>
        /\ sender = "numbered" /\ sender' = "idle"
    BY <1>7, <2>1 DEF EnqueueBatch, Enqueue, Sent, stream, receiver
  <2>3. Sent \in Messages /\ Sent.type # "Hello"
    BY <2>2, MessageFacts
  <2>4. UnderWay' = Append(UnderWay, Sent) /\ HelloComing /\ UnderWay \in Seq(Messages)
    BY <2>2, <2>3, <1>h
  <2>5. Due
    BY <2>1, <2>4, <1>c, <1>0 DEF Live, link
  <2>6. ASSUME run = "running", at \notin {"storing", "asking", "announcing"}
        PROVE  ServedAfter(UnderWay', served', hello', expected', NextNumber')
    <3>1. ServedAfter(UnderWay, served, hello, expected, number)
      BY <2>2, <2>5, <2>6 DEF NextNumber
    <3>2. number \in Int /\ expected \in Int
      BY AgentLinkAssumption DEF Types, TypeOK
    <3>5. addressed /\ sequence = number + 1
      BY <2>1, <2>2, <2>6 DEF NumberedLast
    <3>6. Sent.type = "Batch" /\ Sent.number = number
      BY <2>2, <3>5, MessageFacts
    <3>3. ServedAfter(UnderWay', served, hello, expected, number + 1)
      BY <2>3, <2>4, <3>1, <3>2, <3>6, ServedBatch
    <3>4. NextNumber' = number + 1
      BY <2>1, <2>2, <3>5 DEF NextNumber
    <3>q. QED
      BY <2>2, <3>3, <3>4
  <2>7. Fresh => Fresh'
    BY <2>1, <2>2 DEF Fresh
  <2>q. QED
    BY <2>1, <2>5, <2>6, <2>7
<1>8. CASE Connect \/ StoreConnected \/ LoadClaimed \/ RestoreRoute
  BY <1>8 DEF Connect, StoreConnected, LoadClaimed, RestoreRoute, atomics, stream, threads, sending, link, receiver, history
<1>9. CASE RestartSequence
  <2>1. run' = "claiming" /\ sequence' = 1 /\ UNCHANGED <<claimed, sender, caller>>
    BY <1>9 DEF RestartSequence, threads
  <2>3. misnumbered' = (claimed /\ (sender = "numbered" \/ at # "idle"))
    BY <1>9 DEF RestartSequence
  <2>2. sender # "numbered" /\ at = "idle"
    BY <2>1, <2>3
  <2>q. QED
    BY <2>1, <2>2 DEF Fresh
<1>10. CASE SendClaimAgain
  <2>1. /\ ~Full /\ ~routeLost /\ ~crossed
        /\ UNCHANGED <<link, connected, claimed, misnumbered, sequence, sender, caller>>
    BY <1>10, <1>0 DEF SendClaimAgain, Enqueue, HistoryType, threads
  <2>2. /\ queue' = Append(queue, Msg("Claim")) /\ UNCHANGED <<writes, hello, served, expected>>
        /\ run = "claiming" /\ run' = "running"
    BY <1>10, <2>1 DEF SendClaimAgain, Enqueue, receiver
  <2>3. UnderWay' = Append(UnderWay, Msg("Claim")) /\ HelloComing /\ UnderWay \in Seq(Messages)
    BY <2>2, <1>h, MessageFacts
  <2>8. Live
    BY <2>1, <2>2 DEF Live, link
  <2>4. Due
    BY <2>1, <2>3, <2>8, <1>c, <1>0
  <2>5. ServedAfter(UnderWay', served', hello', expected', 1)
    BY <2>2, <2>3, ServedClaim, MessageFacts DEF HelloComing
  <2>6. at' \in {"idle", "numbering", "storing"} /\ sequence' = 1 /\ sender' # "numbered"
    BY <2>1, <2>2, <2>4 DEF Fresh
  <2>7. NextNumber' = 1
    BY <2>6 DEF NextNumber
  <2>q. QED
    BY <2>2, <2>5, <2>6, <2>7
<1>11. CASE StartWrite
  <2>1. UnderWay' = UnderWay
    BY <1>11, UnderWayFacts DEF StartWrite
  <2>2. /\ UNCHANGED <<link, connected, claimed, routeLost, misnumbered, crossed, run>>
        /\ UNCHANGED <<receiver, sequence, sending, caller>>
    BY <1>11 DEF StartWrite, atomics, threads, sending, history
  <2>q. QED
    BY <2>1, <2>2, <1>s, <1>u, <1>w
<1>12. CASE StaleWritten \/ Stop \/ UNCHANGED vars
  <2>1. /\ UNCHANGED <<link, connected, claimed, routeLost, misnumbered, crossed, run>>
        /\ UNCHANGED <<receiver, sequence, sending, caller, writes, queue>>
    BY <1>12 DEF StaleWritten, Stop, vars, atomics, stream, threads, sending, link, receiver, history
  <2>q. QED
    BY <2>1, <1>s, <1>u, <1>v, <1>w
<1>13. CASE Receive
  <2>0. UnderWay \in Seq(Messages) /\ UnderWay # <<>> /\ UnderWay' = Tail(UnderWay)
    BY <1>13, UnderWayFacts, ReceiveFacts
  <2>1. /\ UNCHANGED <<atomics, run, caller, sender, number, history, link>>
        /\ hello' => hello \/ Head(UnderWay).type = "Hello"
    BY <1>13, ReceiveFacts
       DEF Receive, ReceiveHello, ReceiveClaim, ReceiveRelease, ReceiveBatch, ReceiveStray, Receives
  <2>2. HelloComing
    BY <2>0, <2>1, CarriesMoves DEF HelloComing
  <2>3. Due
    BY <2>1, <2>2, <1>w DEF atomics, history
  <2>4. NextNumber \in Int /\ NextNumber' = NextNumber /\ (Fresh' <=> Fresh)
    <3>1. number \in Int /\ sequence \in Int
      BY AgentLinkAssumption DEF Types, TypeOK
    <3>q. QED
      BY <2>1, <3>1 DEF NextNumber, Fresh, atomics
  <2>5. ServedAfter(UnderWay, served, hello, expected, NextNumber)
          => ServedAfter(UnderWay', served', hello', expected', NextNumber)
    BY <1>13, <2>4, ReceiveServed
  <2>q. QED
    BY <2>1, <2>3, <2>4, <2>5 DEF atomics
<1>d. CASE \/ CheckStopping \/ Restart \/ ConnectFails \/ RunEnds
         \/ ReadFails \/ WriteFails \/ StaleFails \/ LinkBreaks \/ SessionEnds
  BY <1>d, StepsOfTheDead
<1>q. QED
  BY <1>1, <1>2, <1>3, <1>4, <1>5, <1>6, <1>7, <1>8, <1>9, <1>10, <1>11, <1>12, <1>13, <1>14,
     <1>15, <1>16, <1>d
     DEF Next, Caller, ClaimStep, ReleaseStep, CallerStep, Sender, RunStep, Handler, ReceiverStep,
         Receive

-----------------------------------------------------------------------------
LEMMA StepIInv == IInv /\ [Next]_vars => IInv'
  BY StepTypes, StepPlaced, StepRouteKept, StepReleaseComing, StepClaimComing, StepNumberedLast
     DEF IInv

LEMMA Invariance == Spec => []IInv
  BY InitIInv, StepIInv, PTL DEF Spec

\* Types of the agent's connection and of the receiver's session: its queue
\* never exceeds its limit, and a number taken is one the receiver may expect.
THEOREM TypeCorrect == Spec => []TypeOK
<1>1. IInv => TypeOK
  BY DEF IInv, Types
<1>q. QED
  BY <1>1, Invariance, PTL

\* With nothing under way, agent and receiver agree about the route, through
\* reconnections, late handlers of earlier streams, calls of ClaimRoute,
\* ReleaseAll and SendEvents in any interleaving of their accesses, and the
\* end of the agent, short of the races that RouteAgrees names.
THEOREM AgentAndReceiverAgree == Spec => []RouteAgrees
<1>1. ASSUME IInv, Drained PROVE served => claimed \/ routeLost \/ discarded \/ crossed
  <2>1. UnderWay = <<>> /\ Live /\ ~ReleaseDue /\ ~RunClaims
    BY <1>1 DEF Drained, UnderWay, Live, ReleaseDue, RunClaims
  <2>2. ~Unserved(<<>>, TRUE, hello)
    BY DEF Unserved, Carries
  <2>q. QED
    BY <1>1, <2>1, <2>2 DEF IInv, ReleaseComing, Types, TypeOK
<1>2. ASSUME IInv, Drained, claimed, ~routeLost, hello, ~misnumbered, ~crossed
      PROVE  served /\ route /\ expected = sequence
  <2>1. /\ UnderWay = <<>> /\ Live /\ run = "running" /\ sender # "numbered"
        /\ caller["capture"] = "idle"
    BY <1>2 DEF Drained, UnderWay, Live, Callers
  <2>2. ServedAfter(<<>>, served, hello, expected, NextNumber)
    BY <1>2, <2>1 DEF IInv, ClaimComing
  <2>3. NextNumber = sequence
    BY <2>1 DEF NextNumber
  <2>4. expected \in Int
    BY <1>2, AgentLinkAssumption DEF IInv, Types, TypeOK
  <2>5. served /\ sequence = expected
    BY <2>2, <2>3, <2>4, ServedAtLast
  <2>6. route
    BY <1>2, <2>1 DEF IInv, RouteKept
  <2>q. QED
    BY <2>5, <2>6
<1>3. IInv => RouteAgrees
  BY <1>1, <1>2 DEF RouteAgrees
<1>q. QED
  BY <1>3, Invariance, PTL
=============================================================================
