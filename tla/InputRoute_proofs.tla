---------------------------- MODULE InputRoute_proofs ----------------------------
(***************************************************************************)
(* Proofs about InputRoute: whatever the keys, buttons and routes in use   *)
(* and however long the backlog of UI tasks, the page's controls, its      *)
(* controller and its focus agree with the books of the network thread as  *)
(* soon as the UI thread has caught up.                                    *)
(*                                                                         *)
(* The invariants speak of the tasks still queued.  Every handler of the   *)
(* network thread appends a short sequence of tasks, its posts, and the UI *)
(* thread takes tasks off the head; so the proofs are about what posts do  *)
(* (Keeps, Agrees, Announced), how that composes under concatenation, and  *)
(* what taking the head leaves.                                            *)
(***************************************************************************)
EXTENDS InputRoute, SequenceTheorems, TLAPS

-----------------------------------------------------------------------------
(***************************************************************************)
(* The inductive invariant.                                                *)
(***************************************************************************)

\* A task that takes control from the route, and one that lifts p.
Ends(t) == t.type = "Activity" /\ ~t.on
Lifts(t, p) == t.type = "Lift" /\ p \in Seen(t.controls)

\* No task strictly between k and n ends the route's control.
NoEnd(q, k, n) == \A i \in 1 .. Len(q) : k < i /\ i < n => ~Ends(q[i])

\* A control the page sees pressed once the first k tasks of q have run is
\* accounted for: it has left the books, or a later task lifts it while the
\* route is still in control, or the books have it and no later task ends
\* the route's control.
Cleared(q, k, p, lost, booked) ==
  \/ p \in lost
  \/ \E j \in 1 .. Len(q) : k < j /\ Lifts(q[j], p) /\ NoEnd(q, k, j)
  \/ p \in booked /\ NoEnd(q, k, Len(q) + 1)

\* The books that still count: those of a session that will release them.
Booked == IF conn = "open" THEN Seen(route.held) ELSE {}

ViewerPressesCleared == ~networkActive => page \subseteq viewerHeld \union leaked
ViewerHoldsNothing == networkActive => viewerHeld = {}
PagePressesCleared ==
  networkActive => \A p \in page : Cleared(tasks, 0, p, leaked, Booked)
PostedPressesCleared ==
  \A i \in 1 .. Len(tasks) : tasks[i].type = "Press" =>
    \A p \in Seen(tasks[i].controls) : Cleared(tasks, i, p, leaked, Booked)
BooksClosed == conn \in {"cut", "upgrading"} => route = NoRoute

PressesCleared ==
  /\ ViewerPressesCleared
  /\ ViewerHoldsNothing
  /\ PagePressesCleared
  /\ PostedPressesCleared
  /\ BooksClosed

\* Running the tasks of q takes the controller from a to b.
LastActivity(q, i) ==
  /\ q[i].type = "Activity"
  /\ \A j \in 1 .. Len(q) : i < j => q[j].type # "Activity"
Agrees(q, a, b) ==
  /\ (\A i \in 1 .. Len(q) : q[i].type # "Activity") => a = b
  /\ \A i \in 1 .. Len(q) : LastActivity(q, i) => q[i].on = b

InControl == routeActive \/ orphaned

ControlInv ==
  /\ Agrees(tasks, networkActive, InControl)
  /\ routeActive => route.id # 0 /\ (conn = "open" \/ orphaned)

\* The page loses the focus before the route loses control.
Announced(q) ==
  \A i \in 1 .. Len(q) : Ends(q[i]) /\ i > 1 => q[i - 1] = Focus(FALSE)
AnnouncedFirst(q) == \A i \in 1 .. Len(q) : i = 1 => ~Ends(q[i])

FocusInv ==
  /\ ~networkActive /\ pageFocused => viewerFocused
  /\ \A i \in 1 .. Len(tasks) : i = 1 /\ Ends(tasks[i]) /\ networkActive => ~pageFocused
  /\ Announced(tasks)

IInv == TypeOK /\ PressesCleared /\ ControlInv /\ FocusInv

\* What a network handler's posts do to the controls on the page: those in
\* booked, and those the posts press, are accounted for afterwards.
Keeps(posts, booked, lost, booked2) ==
  /\ \A p \in booked : Cleared(posts, 0, p, lost, booked2)
  /\ \A i \in 1 .. Len(posts) : posts[i].type = "Press" =>
       \A p \in Seen(posts[i].controls) : Cleared(posts, i, p, lost, booked2)

-----------------------------------------------------------------------------
(***************************************************************************)
(* Types.                                                                  *)
(***************************************************************************)

Visible == ViewerControls \union {2}

LEMMA SeenIsVisible ==
  ASSUME NEW S \in SUBSET Controls
  PROVE  /\ Seen(S) \subseteq Visible
         /\ Unreleased(S) \subseteq Visible
         /\ Releasable(S) \in SUBSET Controls
  <1>1. ASSUME NEW T \in SUBSET Controls PROVE Seen(T) \subseteq Visible
    BY <1>1 DEF Seen, OnPage, Visible, ViewerControls
  <1>2. Releasable(S) \in SUBSET Controls /\ S \ Releasable(S) \in SUBSET Controls
    BY DEF Releasable
  <1>3. QED BY <1>1, <1>2 DEF Unreleased

LEMMA TasksHaveType ==
  /\ \A c \in Controls : Press(c) \in Tasks
  /\ \A S \in SUBSET Controls : Lift(S) \in Tasks
  /\ \A b \in BOOLEAN : Focus(b) \in Tasks /\ Activity(b) \in Tasks
  BY DEF Tasks

LEMMA TaskFields ==
  ASSUME NEW t \in Tasks
  PROVE  t.controls \in SUBSET Controls /\ t.on \in BOOLEAN
  <1>1. \A c \in Controls : Press(c).controls \in SUBSET Controls /\ Press(c).on \in BOOLEAN
    BY DEF Press
  <1>2. \A S \in SUBSET Controls : Lift(S).controls \in SUBSET Controls /\ Lift(S).on \in BOOLEAN
    BY DEF Lift
  <1>3. \A b \in BOOLEAN : Focus(b).controls \in SUBSET Controls /\ Focus(b).on \in BOOLEAN
    BY DEF Focus
  <1>4. \A b \in BOOLEAN :
          Activity(b).controls \in SUBSET Controls /\ Activity(b).on \in BOOLEAN
    BY DEF Activity
  <1>5. QED BY <1>1, <1>2, <1>3, <1>4 DEF Tasks

LEMMA PairIsSeq ==
  ASSUME NEW S, NEW a \in S, NEW b \in S
  PROVE  /\ <<a, b>> \in Seq(S)
         /\ Len(<<a, b>>) = 2 /\ <<a, b>>[1] = a /\ <<a, b>>[2] = b
  OBVIOUS

LEMMA PostsHaveType ==
  /\ \A S \in SUBSET Controls : ReleasePosts(S) \in Seq(Tasks)
  /\ \A b \in BOOLEAN : DeactivatePosts(b) \in Seq(Tasks)
  /\ \A e \in Events : EventPost(e) \in Tasks /\ <<EventPost(e)>> \in Seq(Tasks)
  /\ <<Activity(TRUE), Focus(TRUE)>> \in Seq(Tasks)
  /\ <<>> \in Seq(Tasks)
  <1>1. ASSUME NEW S \in SUBSET Controls PROVE ReleasePosts(S) \in Seq(Tasks)
    <2>1. Lift(Releasable(S)) \in Tasks BY SeenIsVisible, TasksHaveType
    <2>2. <<Lift(Releasable(S))>> \in Seq(Tasks) BY <2>1
    <2>3. <<>> \in Seq(Tasks) OBVIOUS
    <2>4. QED BY <2>2, <2>3 DEF ReleasePosts
  <1>2. ASSUME NEW b \in BOOLEAN PROVE DeactivatePosts(b) \in Seq(Tasks)
    <2>1. Focus(FALSE) \in Tasks /\ Activity(FALSE) \in Tasks BY TasksHaveType
    <2>2. <<Focus(FALSE), Activity(FALSE)>> \in Seq(Tasks) BY <2>1, PairIsSeq
    <2>3. <<>> \in Seq(Tasks) OBVIOUS
    <2>4. QED BY <2>2, <2>3 DEF DeactivatePosts
  <1>3. \A e \in Events : EventPost(e) \in Tasks
    BY TasksHaveType DEF EventPost, Events
  <1>4. \A e \in Events : <<EventPost(e)>> \in Seq(Tasks)
    BY <1>3
  <1>5. Activity(TRUE) \in Tasks /\ Focus(TRUE) \in Tasks
    BY TasksHaveType
  <1>6. <<Activity(TRUE), Focus(TRUE)>> \in Seq(Tasks)
    BY <1>5, PairIsSeq
  <1>7. <<>> \in Seq(Tasks) OBVIOUS
  <1>8. QED BY <1>1, <1>2, <1>3, <1>4, <1>6, <1>7

LEMMA ApplyHasType ==
  ASSUME NEW held \in SUBSET Controls, NEW e \in Events
  PROVE  Apply(held, e) \in SUBSET Controls
  BY DEF Apply, Events

\* The pieces of a queue may be joined in any grouping. Joined names the join,
\* so that the provers see no more of it than the lemmas say.
Joined(a, b) == a \o b

LEMMA JoinsRegroup ==
  ASSUME NEW S, NEW a \in Seq(S), NEW b \in Seq(S), NEW c \in Seq(S)
  PROVE  Joined(Joined(a, b), c) = Joined(a, Joined(b, c)) /\ Joined(a, b) \in Seq(S)
  <1>1. Joined(Joined(a, b), c) = Joined(a, Joined(b, c))
    BY ConcatAssociative DEF Joined
  <1>2. Joined(a, b) \in Seq(S)
    BY ConcatProperties DEF Joined
  <1>3. QED BY <1>1, <1>2

\* A reset appends three pieces, which are one sequence of posts.
LEMMA ResetPosts ==
  ASSUME TypeOK, NEW held \in SUBSET Controls, NEW posts \in Seq(Tasks),
         ResetRoute(held, posts)
  PROVE  LET r == (posts \o ReleasePosts(held)) \o DeactivatePosts(routeActive)
         IN  r \in Seq(Tasks) /\ tasks' = tasks \o r
  <1> DEFINE rel == ReleasePosts(held)
             dea == DeactivatePosts(routeActive)
  <1>1. rel \in Seq(Tasks) /\ dea \in Seq(Tasks) /\ tasks \in Seq(Tasks)
    BY PostsHaveType DEF TypeOK
  <1>2. tasks' = Joined(Joined(Joined(tasks, posts), rel), dea)
    BY DEF ResetRoute, Joined
  <1> HIDE DEF rel, dea
  <1>3. /\ Joined(Joined(posts, rel), dea) \in Seq(Tasks)
        /\ tasks' = Joined(tasks, Joined(Joined(posts, rel), dea))
    BY <1>1, <1>2, JoinsRegroup
  <1>4. QED BY ONLY <1>3 DEF Joined, rel, dea

LEMMA ResetKeepsType ==
  ASSUME TypeOK, NEW held \in SUBSET Controls, NEW posts \in Seq(Tasks),
         ResetRoute(held, posts)
  PROVE  /\ route' \in [id : Routes \union {0}, held : SUBSET Controls]
         /\ routeActive' \in BOOLEAN
         /\ tasks' \in Seq(Tasks)
         /\ leaked' \subseteq Visible
         /\ orphaned' \in BOOLEAN
  <1>1. tasks' \in Seq(Tasks)
    <2> DEFINE r == (posts \o ReleasePosts(held)) \o DeactivatePosts(routeActive)
    <2>1. r \in Seq(Tasks) /\ tasks' = tasks \o r BY ResetPosts
    <2> HIDE DEF r
    <2>2. QED BY <2>1, ConcatProperties DEF TypeOK
  <1>2. leaked' \subseteq Visible
    BY SeenIsVisible DEF ResetRoute, TypeOK, Visible
  <1>3. /\ route' \in [id : Routes \union {0}, held : SUBSET Controls]
        /\ routeActive' \in BOOLEAN
    BY DEF ResetRoute, NoRoute
  <1>4. orphaned' \in BOOLEAN
    BY DEF ResetRoute, TypeOK
  <1>5. QED BY <1>1, <1>2, <1>3, <1>4

LEMMA CloseKeepsType ==
  ASSUME TypeOK, NEW after \in Conns, Close(after)
  PROVE  TypeOK'
  <1>1. route.held \in SUBSET Controls /\ <<>> \in Seq(Tasks)
    BY DEF TypeOK
  <1>2. ResetRoute(route.held, <<>>) BY DEF Close
  <1>3. /\ route' \in [id : Routes \union {0}, held : SUBSET Controls]
        /\ routeActive' \in BOOLEAN
        /\ tasks' \in Seq(Tasks)
        /\ leaked' \subseteq Visible
        /\ orphaned' \in BOOLEAN
    BY <1>1, <1>2, ResetKeepsType
  <1>4. QED BY <1>3 DEF Close, TypeOK, ui, Visible

\* The step of the type invariant that the handlers of a batch or a snapshot
\* share: they reset the route or append to the tasks and keep the rest.
LEMMA ReceiveKeepsType ==
  ASSUME TypeOK, Receive
  PROVE  TypeOK'
  <1> USE PostsHaveType
  <1>1. CASE ReceiveHello
    BY <1>1 DEF ReceiveHello, Receives, TypeOK, ui, history
  <1>2. ASSUME NEW e \in Events, ReceiveNextEvent(e) PROVE TypeOK'
    <2>1. Apply(route.held, e) \in SUBSET Controls
      BY ApplyHasType DEF TypeOK
    <2>2. tasks' \in Seq(Tasks)
      BY <1>2, AppendProperties DEF ReceiveNextEvent, TypeOK
    <2>3. route' \in [id : Routes \union {0}, held : SUBSET Controls]
      BY <1>2, <2>1 DEF ReceiveNextEvent, TypeOK
    <2>4. QED BY <1>2, <2>2, <2>3 DEF ReceiveNextEvent, Receives, TypeOK, ui, history
  <1>3. ASSUME NEW e \in Events, ReceiveInvalidEvent(e) PROVE TypeOK'
    <2>1. Apply(route.held, e) \in SUBSET Controls
      BY ApplyHasType DEF TypeOK
    <2>2. /\ route' \in [id : Routes \union {0}, held : SUBSET Controls]
          /\ routeActive' \in BOOLEAN
          /\ tasks' \in Seq(Tasks)
          /\ leaked' \subseteq Visible
          /\ orphaned' \in BOOLEAN
      BY <1>3, <2>1, ResetKeepsType DEF ReceiveInvalidEvent
    <2>3. QED BY <1>3, <2>2 DEF ReceiveInvalidEvent, Receives, TypeOK, ui, Visible
  <1>4. CASE ReceiveAfterGap \/ ReceiveReleaseAll
    <2>1. route.held \in SUBSET Controls BY DEF TypeOK
    <2>2. /\ route' \in [id : Routes \union {0}, held : SUBSET Controls]
          /\ routeActive' \in BOOLEAN
          /\ tasks' \in Seq(Tasks)
          /\ leaked' \subseteq Visible
          /\ orphaned' \in BOOLEAN
      BY <1>4, <2>1, ResetKeepsType DEF ReceiveAfterGap, ReceiveReleaseAll
    <2>3. QED
      BY <1>4, <2>2 DEF ReceiveAfterGap, ReceiveReleaseAll, Receives, TypeOK, ui, Visible
  <1>5. CASE ReceiveStaleBatch
    <2>1. Seen(route.held) \subseteq Visible
      BY SeenIsVisible DEF TypeOK
    <2>2. DeactivatePosts(TRUE) \in Seq(Tasks) OBVIOUS
    <2>3. tasks' \in Seq(Tasks)
      BY <1>5, <2>2, ConcatProperties DEF ReceiveStaleBatch, TypeOK
    <2>4. QED BY <1>5, <2>1, <2>3 DEF ReceiveStaleBatch, Receives, TypeOK, ui, Visible
  <1>6. ASSUME NEW held \in SUBSET Controls, ReceiveSnapshot(held) PROVE TypeOK'
    <2>1. Seen(route.held \ held) \subseteq Visible
      BY SeenIsVisible DEF TypeOK
    <2>2. QED BY <1>6, <2>1 DEF ReceiveSnapshot, Receives, TypeOK, ui, Visible
  <1>7. ASSUME NEW held \in SUBSET Controls, NEW r \in Routes, ReceiveClaim(r, held)
        PROVE  TypeOK'
    <2>1. Unreleased(route.held) \subseteq Visible
      BY SeenIsVisible DEF TypeOK
    <2>2. ReleasePosts(route.held) \in Seq(Tasks) BY DEF TypeOK
    <2>3. tasks' \in Seq(Tasks)
      BY <1>7, <2>2, ConcatProperties DEF ReceiveClaim, TypeOK
    <2>4. route' \in [id : Routes \union {0}, held : SUBSET Controls]
      BY <1>7 DEF ReceiveClaim
    <2>5. QED BY <1>7, <2>1, <2>3, <2>4 DEF ReceiveClaim, Receives, TypeOK, ui, Visible
  <1>8. ASSUME NEW held \in SUBSET Controls, NEW r \in Routes, LateClaim(r, held)
        PROVE  TypeOK'
    <2>1. tasks' \in Seq(Tasks)
      BY <1>8, ConcatProperties DEF LateClaim, TypeOK
    <2>2. QED BY <1>8, <2>1 DEF LateClaim, TypeOK, ui, Conns
  <1>9. CASE ReceiveIdle
    BY <1>9 DEF ReceiveIdle, Receives, TypeOK, ui, history
  <1>10. CASE ReceiveMalformed
    BY <1>10, CloseKeepsType DEF ReceiveMalformed, Conns
  <1>11. QED
    BY <1>1, <1>2, <1>3, <1>4, <1>5, <1>6, <1>7, <1>8, <1>9, <1>10
    DEF Receive, ReceiveBatch, ReceiveState

LEMMA UiKeepsType ==
  ASSUME TypeOK, DispatchTask \/ ViewerStep
  PROVE  TypeOK'
  <1>1. ASSUME NEW type, NextTask(type)
        PROVE  /\ Tail(tasks) \in Seq(Tasks)
               /\ Head(tasks).on \in BOOLEAN
               /\ Seen(Head(tasks).controls) \subseteq Visible
    <2>1. tasks # <<>> BY <1>1 DEF NextTask
    <2>2. Head(tasks) \in Tasks /\ Tail(tasks) \in Seq(Tasks)
      BY <2>1, HeadTailProperties DEF TypeOK
    <2>3. QED BY <2>2, TaskFields, SeenIsVisible
  <1>2. CASE DispatchPress
    <2>1. NextTask("Press") BY <1>2 DEF DispatchPress
    <2>2. QED
      BY <1>2, <1>1, <2>1 DEF DispatchPress, NextTask, TypeOK, network, history, Visible
  <1>3. CASE DispatchLift
    <2>1. NextTask("Lift") BY <1>3 DEF DispatchLift
    <2>2. QED
      BY <1>3, <1>1, <2>1 DEF DispatchLift, NextTask, TypeOK, network, history, Visible
  <1>4. CASE DispatchFocus
    <2>1. NextTask("Focus") BY <1>4 DEF DispatchFocus
    <2>2. QED BY <1>4, <1>1, <2>1 DEF DispatchFocus, NextTask, TypeOK, network, history
  <1>5. CASE RouteTakesControl
    <2>1. NextTask("Activity") BY <1>5 DEF RouteTakesControl
    <2>2. QED BY <1>5, <1>1, <2>1 DEF RouteTakesControl, NextTask, TypeOK, network, history
  <1>6. CASE RouteLosesControl
    <2>1. NextTask("Activity") BY <1>6 DEF RouteLosesControl
    <2>2. QED BY <1>6, <1>1, <2>1 DEF RouteLosesControl, NextTask, TypeOK, network, history
  <1>7. ASSUME NEW c \in ViewerControls, ViewerPress(c) \/ ViewerLift(c) PROVE TypeOK'
    BY <1>7 DEF ViewerPress, ViewerLift, TypeOK, network, history
  <1>8. ASSUME NEW b \in BOOLEAN, ViewerFocus(b) PROVE TypeOK'
    BY <1>8 DEF ViewerFocus, TypeOK, network, history
  <1>9. CASE ViewerGone
    BY <1>9 DEF ViewerGone, TypeOK, network, history
  <1>10. QED
    BY <1>2, <1>3, <1>4, <1>5, <1>6, <1>7, <1>8, <1>9 DEF DispatchTask, ViewerStep

LEMMA NextKeepsType ==
  ASSUME TypeOK, [Next]_vars
  PROVE  TypeOK'
  <1>1. CASE Connect
    BY <1>1 DEF Connect, TypeOK, ui, history, Conns, NoRoute
  <1>2. CASE Upgraded
    BY <1>2 DEF Upgraded, TypeOK, ui, history, Conns
  <1>3. CASE UpgradeFails
    BY <1>3, CloseKeepsType DEF UpgradeFails, Conns
  <1>4. CASE Receive
    BY <1>4, ReceiveKeepsType
  <1>5. CASE ReadFails
    BY <1>5, CloseKeepsType DEF ReadFails, Conns
  <1>6. CASE WriteFails
    BY <1>6, CloseKeepsType DEF WriteFails, Conns
  <1>7. CASE AgentDies
    BY <1>7 DEF AgentDies, TypeOK, ui, history
  <1>8. CASE TimePasses
    BY <1>8 DEF TimePasses, TypeOK, ui, history
  <1>9. CASE CheckActivity
    BY <1>9, CloseKeepsType DEF CheckActivity, Conns
  <1>10. CASE ForgetSession
    BY <1>10 DEF ForgetSession, TypeOK, ui, history, Conns
  <1>11. CASE DispatchTask \/ ViewerStep
    BY <1>11, UiKeepsType
  <1>12. CASE UNCHANGED vars
    BY <1>12 DEF vars, network, ui, history, TypeOK
  <1>13. QED
    BY <1>1, <1>2, <1>3, <1>4, <1>5, <1>6, <1>7, <1>8, <1>9, <1>10, <1>11, <1>12 DEF Next

LEMMA InitHasType == Init => TypeOK
  <1> HAVE Init
  <1>1. tasks \in Seq(Tasks) BY DEF Init
  <1>2. route \in [id : Routes \union {0}, held : SUBSET Controls] BY DEF Init, NoRoute
  <1>3. QED BY <1>1, <1>2 DEF Init, TypeOK, Conns

\* Type correctness: the server's session, its books, the queue of UI tasks
\* and what the page sees pressed stay of their types, in particular no
\* handler posts a control the page cannot see.
THEOREM TypeCorrect == Spec => []TypeOK
  BY InitHasType, NextKeepsType, PTL DEF Spec

-----------------------------------------------------------------------------
(***************************************************************************)
(* What posts do, composed.                                                *)
(***************************************************************************)

LEMMA ConcatFacts ==
  ASSUME NEW q \in Seq(Tasks), NEW r \in Seq(Tasks)
  PROVE  /\ q \o r \in Seq(Tasks)
         /\ Len(q) \in Nat /\ Len(r) \in Nat /\ Len(q \o r) = Len(q) + Len(r)
         /\ \A i \in 1 .. Len(q) : (q \o r)[i] = q[i]
         /\ \A i \in 1 .. Len(r) : (q \o r)[Len(q) + i] = r[i]
         /\ \A i \in 1 .. Len(q \o r) :
              i \in 1 .. Len(q) \/ \E j \in 1 .. Len(r) : i = Len(q) + j
  <1>1. Len(q) \in Nat /\ Len(r) \in Nat
    BY LenProperties
  <1>2. q \o r \in Seq(Tasks) /\ Len(q \o r) = Len(q) + Len(r)
    BY ConcatProperties
  <1>3. \A i \in 1 .. Len(q) + Len(r) :
          (q \o r)[i] = IF i <= Len(q) THEN q[i] ELSE r[i - Len(q)]
    BY ConcatProperties
  <1> DEFINE s == q \o r
  <1> HIDE DEF s
  <1>4. \A i \in 1 .. Len(q) : s[i] = q[i]
    BY <1>1, <1>3 DEF s
  <1>5. ASSUME NEW i \in 1 .. Len(r) PROVE s[Len(q) + i] = r[i]
    <2>1. Len(q) + i \in 1 .. Len(q) + Len(r) /\ ~(Len(q) + i <= Len(q))
      BY <1>1
    <2>2. (Len(q) + i) - Len(q) = i BY <1>1
    <2>3. QED BY <1>3, <2>1, <2>2 DEF s
  <1>6. ASSUME NEW i \in 1 .. Len(q) + Len(r), i \notin 1 .. Len(q)
        PROVE  \E j \in 1 .. Len(r) : i = Len(q) + j
    <2>1. i - Len(q) \in 1 .. Len(r) /\ i = Len(q) + (i - Len(q))
      BY <1>1, <1>6
    <2>2. QED BY <2>1
  <1>7. QED BY <1>1, <1>2, <1>4, <1>5, <1>6 DEF s

LEMMA ConcatNoEnd ==
  ASSUME NEW q \in Seq(Tasks), NEW r \in Seq(Tasks), NEW k \in 0 .. Len(q)
  PROVE  /\ \A n \in 1 .. Len(q) : NoEnd(q, k, n) => NoEnd(q \o r, k, n)
         /\ \A n \in 1 .. Len(r) + 1 :
              NoEnd(q, k, Len(q) + 1) /\ NoEnd(r, 0, n) => NoEnd(q \o r, k, Len(q) + n)
         /\ \A m \in Nat, n \in 1 .. Len(r) + 1 :
              NoEnd(r, m, n) => NoEnd(q \o r, Len(q) + m, Len(q) + n)
  <1> DEFINE s == q \o r
  <1>1. /\ Len(q) \in Nat /\ Len(r) \in Nat /\ Len(s) = Len(q) + Len(r)
        /\ \A i \in 1 .. Len(q) : s[i] = q[i]
        /\ \A i \in 1 .. Len(r) : s[Len(q) + i] = r[i]
        /\ \A i \in 1 .. Len(s) :
              i \in 1 .. Len(q) \/ \E j \in 1 .. Len(r) : i = Len(q) + j
    BY ConcatFacts
  <1> HIDE DEF s
  <1>2. ASSUME NEW n \in 1 .. Len(q), NoEnd(q, k, n) PROVE NoEnd(s, k, n)
    BY <1>1, <1>2 DEF NoEnd
  <1>3. ASSUME NEW n \in 1 .. Len(r) + 1, NoEnd(q, k, Len(q) + 1), NoEnd(r, 0, n)
        PROVE  NoEnd(s, k, Len(q) + n)
    <2> SUFFICES ASSUME NEW i \in 1 .. Len(s), k < i, i < Len(q) + n PROVE ~Ends(s[i])
      BY DEF NoEnd
    <2>1. CASE i \in 1 .. Len(q)
      BY <1>1, <1>3, <2>1 DEF NoEnd
    <2>2. ASSUME NEW j \in 1 .. Len(r), i = Len(q) + j PROVE ~Ends(s[i])
      BY <1>1, <1>3, <2>2 DEF NoEnd
    <2>3. QED BY <1>1, <2>1, <2>2
  <1>4. ASSUME NEW m \in Nat, NEW n \in 1 .. Len(r) + 1, NoEnd(r, m, n)
        PROVE  NoEnd(s, Len(q) + m, Len(q) + n)
    <2> SUFFICES ASSUME NEW i \in 1 .. Len(s), Len(q) + m < i, i < Len(q) + n
                 PROVE  ~Ends(s[i])
      BY DEF NoEnd
    <2>1. i \notin 1 .. Len(q) BY <1>1
    <2>2. PICK j \in 1 .. Len(r) : i = Len(q) + j BY <1>1, <2>1
    <2>3. m < j /\ j < n BY <1>1, <2>2
    <2>4. QED BY <1>1, <1>4, <2>2, <2>3 DEF NoEnd
  <1>5. QED BY <1>2, <1>3, <1>4 DEF s

\* What the earlier tasks leave in the books, the later ones account for.
LEMMA ConcatClears ==
  ASSUME NEW q \in Seq(Tasks), NEW r \in Seq(Tasks), NEW k \in 0 .. Len(q), NEW p,
         NEW lost, NEW booked, NEW lost2, NEW booked2, lost \subseteq lost2,
         Cleared(q, k, p, lost, booked),
         p \in booked => Cleared(r, 0, p, lost2, booked2)
  PROVE  Cleared(q \o r, k, p, lost2, booked2)
  <1> DEFINE s == q \o r
  <1>1. /\ Len(q) \in Nat /\ Len(r) \in Nat /\ Len(s) = Len(q) + Len(r)
        /\ \A i \in 1 .. Len(q) : s[i] = q[i]
        /\ \A i \in 1 .. Len(r) : s[Len(q) + i] = r[i]
    BY ConcatFacts
  <1>2. /\ \A n \in 1 .. Len(q) : NoEnd(q, k, n) => NoEnd(s, k, n)
        /\ \A n \in 1 .. Len(r) + 1 :
             NoEnd(q, k, Len(q) + 1) /\ NoEnd(r, 0, n) => NoEnd(s, k, Len(q) + n)
    BY ConcatNoEnd
  <1> HIDE DEF s
  <1>3. CASE p \in lost
    BY <1>3 DEF Cleared
  <1>4. ASSUME NEW j \in 1 .. Len(q), k < j, Lifts(q[j], p), NoEnd(q, k, j)
        PROVE  Cleared(s, k, p, lost2, booked2)
    <2>1. j \in 1 .. Len(s) /\ Lifts(s[j], p) /\ NoEnd(s, k, j)
      BY <1>1, <1>2, <1>4
    <2>2. QED BY <2>1, <1>4 DEF Cleared
  <1>5. ASSUME p \in booked, NoEnd(q, k, Len(q) + 1)
        PROVE  Cleared(s, k, p, lost2, booked2)
    <2>1. Cleared(r, 0, p, lost2, booked2) BY <1>5
    <2>2. CASE p \in lost2 BY <2>2 DEF Cleared
    <2>3. ASSUME NEW j \in 1 .. Len(r), 0 < j, Lifts(r[j], p), NoEnd(r, 0, j)
          PROVE  Cleared(s, k, p, lost2, booked2)
      <3>1. Len(q) + j \in 1 .. Len(s) /\ k < Len(q) + j BY <1>1
      <3>2. Lifts(s[Len(q) + j], p) BY <1>1, <2>3
      <3>3. NoEnd(s, k, Len(q) + j) BY <1>1, <1>2, <1>5, <2>3
      <3>4. QED BY <3>1, <3>2, <3>3 DEF Cleared
    <2>4. ASSUME p \in booked2, NoEnd(r, 0, Len(r) + 1)
          PROVE  Cleared(s, k, p, lost2, booked2)
      <3>1. Len(r) + 1 \in 1 .. Len(r) + 1 /\ Len(q) + (Len(r) + 1) = Len(s) + 1
        BY <1>1
      <3>2. NoEnd(s, k, Len(s) + 1) BY <1>2, <1>5, <2>4, <3>1
      <3>3. QED BY <2>4, <3>2 DEF Cleared
    <2>5. QED BY <2>1, <2>2, <2>3, <2>4 DEF Cleared
  <1>6. QED BY <1>3, <1>4, <1>5 DEF Cleared, s

\* Accounting within the later tasks is the same with others before them.
LEMMA ConcatShiftsClears ==
  ASSUME NEW q \in Seq(Tasks), NEW r \in Seq(Tasks), NEW m \in Nat, NEW p,
         NEW lost, NEW booked, Cleared(r, m, p, lost, booked)
  PROVE  Cleared(q \o r, Len(q) + m, p, lost, booked)
  <1> DEFINE s == q \o r
  <1>1. /\ Len(q) \in Nat /\ Len(r) \in Nat /\ Len(s) = Len(q) + Len(r)
        /\ \A i \in 1 .. Len(r) : s[Len(q) + i] = r[i]
    BY ConcatFacts
  <1>2. \A n \in 1 .. Len(r) + 1 : NoEnd(r, m, n) => NoEnd(s, Len(q) + m, Len(q) + n)
    <2>1. 0 \in 0 .. Len(q) BY <1>1
    <2>2. QED BY <2>1, ConcatNoEnd DEF s
  <1> HIDE DEF s
  <1>3. ASSUME NEW j \in 1 .. Len(r), m < j, Lifts(r[j], p), NoEnd(r, m, j)
        PROVE  Cleared(s, Len(q) + m, p, lost, booked)
    <2>1. Len(q) + j \in 1 .. Len(s) /\ Len(q) + m < Len(q) + j BY <1>1, <1>3
    <2>2. Lifts(s[Len(q) + j], p) BY <1>1, <1>3
    <2>3. NoEnd(s, Len(q) + m, Len(q) + j) BY <1>1, <1>2, <1>3
    <2>4. QED BY <2>1, <2>2, <2>3 DEF Cleared
  <1>4. ASSUME p \in booked, NoEnd(r, m, Len(r) + 1)
        PROVE  Cleared(s, Len(q) + m, p, lost, booked)
    <2>1. Len(r) + 1 \in 1 .. Len(r) + 1 /\ Len(q) + (Len(r) + 1) = Len(s) + 1
      BY <1>1
    <2>2. NoEnd(s, Len(q) + m, Len(s) + 1) BY <1>2, <1>4, <2>1
    <2>3. QED BY <1>4, <2>2 DEF Cleared
  <1>5. CASE p \in lost BY <1>5 DEF Cleared
  <1>6. QED BY <1>3, <1>4, <1>5 DEF Cleared, s

LEMMA KeepsComposes ==
  ASSUME NEW q \in Seq(Tasks), NEW r \in Seq(Tasks),
         NEW booked, NEW lost1, NEW booked1, NEW lost2, NEW booked2,
         lost1 \subseteq lost2,
         Keeps(q, booked, lost1, booked1), Keeps(r, booked1, lost2, booked2)
  PROVE  Keeps(q \o r, booked, lost2, booked2)
  <1> DEFINE s == q \o r
  <1>1. /\ Len(q) \in Nat /\ Len(r) \in Nat /\ Len(s) = Len(q) + Len(r)
        /\ \A i \in 1 .. Len(q) : s[i] = q[i]
        /\ \A i \in 1 .. Len(r) : s[Len(q) + i] = r[i]
        /\ \A i \in 1 .. Len(s) :
              i \in 1 .. Len(q) \/ \E j \in 1 .. Len(r) : i = Len(q) + j
    BY ConcatFacts
  <1>2. ASSUME NEW k \in 0 .. Len(q), NEW p, Cleared(q, k, p, lost1, booked1)
        PROVE  Cleared(s, k, p, lost2, booked2)
    <2>1. p \in booked1 => Cleared(r, 0, p, lost2, booked2) BY DEF Keeps
    <2>2. QED BY <1>2, <2>1, ConcatClears DEF s
  <1>3. ASSUME NEW m \in Nat, NEW p, Cleared(r, m, p, lost2, booked2)
        PROVE  Cleared(s, Len(q) + m, p, lost2, booked2)
    BY <1>3, ConcatShiftsClears DEF s
  <1> HIDE DEF s
  <1>4. ASSUME NEW p \in booked PROVE Cleared(s, 0, p, lost2, booked2)
    <2>1. Cleared(q, 0, p, lost1, booked1) /\ 0 \in 0 .. Len(q) BY <1>1 DEF Keeps
    <2>2. QED BY <2>1, <1>2
  <1>5. ASSUME NEW i \in 1 .. Len(s), s[i].type = "Press", NEW p \in Seen(s[i].controls)
        PROVE  Cleared(s, i, p, lost2, booked2)
    <2>1. CASE i \in 1 .. Len(q)
      <3>1. q[i].type = "Press" /\ p \in Seen(q[i].controls) BY <1>1, <1>5, <2>1
      <3>2. Cleared(q, i, p, lost1, booked1) BY <2>1, <3>1 DEF Keeps
      <3>3. i \in 0 .. Len(q) BY <1>1, <2>1
      <3>4. QED BY <3>2, <3>3, <1>2
    <2>2. ASSUME NEW j \in 1 .. Len(r), i = Len(q) + j
          PROVE  Cleared(s, i, p, lost2, booked2)
      <3>1. r[j].type = "Press" /\ p \in Seen(r[j].controls) BY <1>1, <1>5, <2>2
      <3>2. Cleared(r, j, p, lost2, booked2) BY <3>1 DEF Keeps
      <3>3. j \in Nat BY <1>1
      <3>4. QED BY <2>2, <3>2, <3>3, <1>3
    <2>3. QED BY <1>1, <2>1, <2>2
  <1>6. QED BY <1>4, <1>5 DEF Keeps, s

LEMMA AgreesComposes ==
  ASSUME NEW q \in Seq(Tasks), NEW r \in Seq(Tasks), NEW a, NEW b, NEW c,
         Agrees(q, a, b), Agrees(r, b, c)
  PROVE  Agrees(q \o r, a, c)
  <1> DEFINE s == q \o r
  <1>1. /\ Len(q) \in Nat /\ Len(r) \in Nat /\ Len(s) = Len(q) + Len(r)
        /\ \A i \in 1 .. Len(q) : s[i] = q[i]
        /\ \A i \in 1 .. Len(r) : s[Len(q) + i] = r[i]
        /\ \A i \in 1 .. Len(s) :
              i \in 1 .. Len(q) \/ \E j \in 1 .. Len(r) : i = Len(q) + j
    BY ConcatFacts
  <1> HIDE DEF s
  <1>2. \A i \in 1 .. Len(q) : i \in 1 .. Len(s)
    BY <1>1
  <1>3. \A i \in 1 .. Len(r) : Len(q) + i \in 1 .. Len(s)
    BY <1>1
  <1>4. ASSUME \A i \in 1 .. Len(s) : s[i].type # "Activity" PROVE a = c
    <2>1. \A i \in 1 .. Len(q) : q[i].type # "Activity" BY <1>1, <1>2, <1>4
    <2>2. \A i \in 1 .. Len(r) : r[i].type # "Activity" BY <1>1, <1>3, <1>4
    <2>3. QED BY <2>1, <2>2 DEF Agrees
  <1>5. ASSUME NEW i \in 1 .. Len(s), LastActivity(s, i) PROVE s[i].on = c
    <2>1. CASE i \in 1 .. Len(q)
      <3>1. ASSUME NEW j \in 1 .. Len(r) PROVE r[j].type # "Activity"
        <4>1. i < Len(q) + j BY <1>1, <2>1
        <4>2. s[Len(q) + j].type # "Activity" BY <1>3, <1>5, <4>1 DEF LastActivity
        <4>3. QED BY <1>1, <4>2
      <3>2. LastActivity(q, i) BY <1>1, <1>2, <1>5, <2>1 DEF LastActivity
      <3>3. q[i].on = b BY <2>1, <3>2 DEF Agrees
      <3>4. b = c BY <3>1 DEF Agrees
      <3>5. QED BY <1>1, <2>1, <3>3, <3>4
    <2>2. ASSUME NEW j \in 1 .. Len(r), i = Len(q) + j PROVE s[i].on = c
      <3>1. r[j].type = "Activity" BY <1>1, <1>5, <2>2 DEF LastActivity
      <3>2. ASSUME NEW k \in 1 .. Len(r), j < k PROVE r[k].type # "Activity"
        <4>1. i < Len(q) + k BY <1>1, <2>2, <3>2
        <4>2. s[Len(q) + k].type # "Activity" BY <1>3, <1>5, <4>1 DEF LastActivity
        <4>3. QED BY <1>1, <4>2
      <3>3. LastActivity(r, j) BY <3>1, <3>2 DEF LastActivity
      <3>4. r[j].on = c BY <3>3 DEF Agrees
      <3>5. QED BY <1>1, <2>2, <3>4
    <2>3. QED BY <1>1, <2>1, <2>2
  <1>6. QED BY <1>4, <1>5 DEF Agrees, s

LEMMA AnnouncedComposes ==
  ASSUME NEW q \in Seq(Tasks), NEW r \in Seq(Tasks),
         Announced(q), Announced(r), AnnouncedFirst(r)
  PROVE  /\ Announced(q \o r)
         /\ AnnouncedFirst(q) => AnnouncedFirst(q \o r)
         /\ \A i \in 1 .. Len(q \o r) : i = 1 /\ Ends((q \o r)[i]) =>
              i \in 1 .. Len(q) /\ (q \o r)[i] = q[i]
  <1> DEFINE s == q \o r
  <1>1. /\ Len(q) \in Nat /\ Len(r) \in Nat /\ Len(s) = Len(q) + Len(r)
        /\ \A i \in 1 .. Len(q) : s[i] = q[i]
        /\ \A i \in 1 .. Len(r) : s[Len(q) + i] = r[i]
        /\ \A i \in 1 .. Len(s) :
              i \in 1 .. Len(q) \/ \E j \in 1 .. Len(r) : i = Len(q) + j
    BY ConcatFacts
  <1> HIDE DEF s
  <1>2. ASSUME NEW j \in 1 .. Len(r), Ends(s[Len(q) + j])
        PROVE  j > 1 /\ s[(Len(q) + j) - 1] = Focus(FALSE)
    <2>1. Ends(r[j]) BY <1>1, <1>2
    <2>2. j > 1 BY <1>1, <2>1 DEF AnnouncedFirst
    <2>3. r[j - 1] = Focus(FALSE) BY <2>1, <2>2 DEF Announced
    <2>4. j - 1 \in 1 .. Len(r) /\ Len(q) + (j - 1) = (Len(q) + j) - 1 BY <1>1, <2>2
    <2>5. s[Len(q) + (j - 1)] = Focus(FALSE) BY <1>1, <2>3, <2>4
    <2>6. QED BY <2>2, <2>4, <2>5
  <1>3. ASSUME NEW i \in 1 .. Len(s), Ends(s[i]), i > 1 PROVE s[i - 1] = Focus(FALSE)
    <2>1. CASE i \in 1 .. Len(q)
      <3>1. Ends(q[i]) BY <1>1, <1>3, <2>1
      <3>2. q[i - 1] = Focus(FALSE) BY <1>3, <2>1, <3>1 DEF Announced
      <3>3. i - 1 \in 1 .. Len(q) BY <1>1, <1>3, <2>1
      <3>4. QED BY <1>1, <3>2, <3>3
    <2>2. ASSUME NEW j \in 1 .. Len(r), i = Len(q) + j PROVE s[i - 1] = Focus(FALSE)
      <3>1. Ends(s[Len(q) + j]) BY <1>3, <2>2
      <3>2. s[(Len(q) + j) - 1] = Focus(FALSE) BY <1>2, <3>1
      <3>3. QED BY <2>2, <3>2
    <2>3. QED BY <1>1, <2>1, <2>2
  <1>4. ASSUME NEW i \in 1 .. Len(s), i = 1, Ends(s[i])
        PROVE  i \in 1 .. Len(q) /\ s[i] = q[i]
    <2>1. ASSUME NEW j \in 1 .. Len(r), i = Len(q) + j PROVE FALSE
      <3>1. Ends(s[Len(q) + j]) BY <1>4, <2>1
      <3>2. j > 1 BY <1>2, <3>1
      <3>3. QED BY <1>1, <1>4, <2>1, <3>2
    <2>2. QED BY <1>1, <2>1
  <1>5. AnnouncedFirst(q) => AnnouncedFirst(s)
    BY <1>4 DEF AnnouncedFirst
  <1>6. QED BY <1>3, <1>4, <1>5 DEF Announced, s

-----------------------------------------------------------------------------
(***************************************************************************)
(* What each kind of post does.                                            *)
(***************************************************************************)

LEMMA SeenProperties ==
  /\ \A S, T \in SUBSET Controls : Seen(S \union T) = Seen(S) \union Seen(T)
  /\ \A S \in SUBSET Controls, T \in SUBSET Controls :
       S \subseteq T => Seen(S) \subseteq Seen(T)
  /\ \A S \in SUBSET Controls : Seen(S) \subseteq Seen(Releasable(S)) \union Unreleased(S)
  /\ Seen({}) = {} /\ Unreleased({}) = {}
  BY DEF Seen, Unreleased, Releasable

\* Nothing posted, and posts that press nothing.
LEMMA NothingKeeps ==
  ASSUME NEW booked, NEW lost, NEW booked2, booked \subseteq lost \union booked2
  PROVE  Keeps(<<>>, booked, lost, booked2)
  <1>1. ASSUME NEW p \in booked PROVE Cleared(<<>>, 0, p, lost, booked2)
    BY DEF Cleared, NoEnd
  <1>2. 1 .. Len(<<>>) = {} OBVIOUS
  <1>3. QED BY <1>1, <1>2 DEF Keeps

LEMMA QuietKeeps ==
  ASSUME NEW posts, NEW lost, NEW booked,
         \A i \in 1 .. Len(posts) : posts[i].type # "Press"
  PROVE  Keeps(posts, {}, lost, booked)
  BY DEF Keeps

LEMMA ReleaseFacts ==
  ASSUME NEW held \in SUBSET Controls, NEW lost, NEW booked, Unreleased(held) \subseteq lost
  PROVE  /\ Keeps(ReleasePosts(held), Seen(held), lost, booked)
         /\ \A a : Agrees(ReleasePosts(held), a, a)
         /\ Announced(ReleasePosts(held)) /\ AnnouncedFirst(ReleasePosts(held))
  <1>1. CASE held = {}
    <2>1. ReleasePosts(held) = <<>> /\ Seen(held) = {}
      BY <1>1, SeenProperties DEF ReleasePosts
    <2>2. Keeps(<<>>, {}, lost, booked) BY NothingKeeps
    <2>3. 1 .. Len(<<>>) = {} OBVIOUS
    <2>4. \A a : Agrees(<<>>, a, a) BY <2>3 DEF Agrees
    <2>5. Announced(<<>>) /\ AnnouncedFirst(<<>>) BY <2>3 DEF Announced, AnnouncedFirst
    <2>6. QED BY <2>1, <2>2, <2>4, <2>5
  <1>2. CASE held # {}
    <2> DEFINE l == Lift(Releasable(held))
               r == <<l>>
    <2>1. ReleasePosts(held) = r BY <1>2 DEF ReleasePosts
    <2>2. l.type = "Lift" /\ l.controls = Releasable(held) BY DEF Lift
    <2> HIDE DEF l
    <2>3. Len(r) = 1 /\ r[1] = l OBVIOUS
    <2> HIDE DEF r
    <2>4. \A i \in 1 .. Len(r) : r[i].type = "Lift" BY <2>2, <2>3
    <2>5. ASSUME NEW p \in Seen(held) PROVE Cleared(r, 0, p, lost, booked)
      <3>1. CASE p \in Unreleased(held) BY <3>1 DEF Cleared
      <3>2. CASE p \in Seen(Releasable(held))
        <4>1. 1 \in 1 .. Len(r) /\ 0 < 1 BY <2>3
        <4>2. Lifts(r[1], p) BY <2>2, <2>3, <3>2 DEF Lifts
        <4>3. NoEnd(r, 0, 1) BY DEF NoEnd
        <4>4. QED BY <4>1, <4>2, <4>3 DEF Cleared
      <3>3. QED BY <3>1, <3>2, SeenProperties
    <2>6. Keeps(r, Seen(held), lost, booked) BY <2>4, <2>5 DEF Keeps
    <2>7. \A a : Agrees(r, a, a) BY <2>4 DEF Agrees, LastActivity
    <2>8. Announced(r) /\ AnnouncedFirst(r) BY <2>4 DEF Announced, AnnouncedFirst, Ends
    <2>9. QED BY <2>1, <2>6, <2>7, <2>8
  <1>3. QED BY <1>1, <1>2

LEMMA DeactivateFacts ==
  ASSUME NEW active \in BOOLEAN, NEW lost, NEW booked, NEW a \in BOOLEAN
  PROVE  /\ Keeps(DeactivatePosts(active), {}, lost, booked)
         /\ Agrees(DeactivatePosts(active), a, ~active /\ a)
         /\ Announced(DeactivatePosts(active)) /\ AnnouncedFirst(DeactivatePosts(active))
  <1>1. CASE ~active
    <2>1. DeactivatePosts(active) = <<>> /\ (~active /\ a) = a
      BY <1>1 DEF DeactivatePosts
    <2>2. Keeps(<<>>, {}, lost, booked) BY NothingKeeps
    <2>3. 1 .. Len(<<>>) = {} OBVIOUS
    <2>4. Agrees(<<>>, a, a) BY <2>3 DEF Agrees
    <2>5. Announced(<<>>) /\ AnnouncedFirst(<<>>) BY <2>3 DEF Announced, AnnouncedFirst
    <2>6. QED BY <2>1, <2>2, <2>4, <2>5
  <1>2. CASE active
    <2> DEFINE f == Focus(FALSE)
               e == Activity(FALSE)
               r == <<f, e>>
    <2>1. DeactivatePosts(active) = r /\ (~active /\ a) = FALSE
      BY <1>2 DEF DeactivatePosts
    <2>2. f.type = "Focus" /\ e.type = "Activity" /\ e.on = FALSE BY DEF Focus, Activity
    <2>3. f = Focus(FALSE) OBVIOUS
    <2> HIDE DEF f, e
    <2>4. Len(r) = 2 /\ r[1] = f /\ r[2] = e OBVIOUS
    <2> HIDE DEF r
    <2>5. \A i \in 1 .. Len(r) : i = 1 \/ i = 2 BY <2>4
    <2>6. Keeps(r, {}, lost, booked)
      BY <2>2, <2>4, <2>5, QuietKeeps
    <2>7. Agrees(r, a, FALSE)
      <3>1. 2 \in 1 .. Len(r) /\ r[2].type = "Activity" BY <2>2, <2>4
      <3>2. \A i \in 1 .. Len(r) : LastActivity(r, i) => r[i].on = FALSE
        BY <2>2, <2>4, <2>5 DEF LastActivity
      <3>3. QED BY <3>1, <3>2 DEF Agrees
    <2>8. Announced(r) /\ AnnouncedFirst(r)
      <3>1. ~Ends(f) BY <2>2 DEF Ends
      <3>2. ASSUME NEW i \in 1 .. Len(r), i > 1 PROVE r[i - 1] = f
        BY <2>4, <2>5, <3>2
      <3>3. QED BY <2>3, <2>4, <3>1, <3>2 DEF Announced, AnnouncedFirst
    <2>9. QED BY <2>1, <2>6, <2>7, <2>8
  <1>3. QED BY <1>1, <1>2

LEMMA ClaimFacts ==
  ASSUME NEW lost, NEW booked, NEW a
  PROVE  LET r == <<Activity(TRUE), Focus(TRUE)>>
         IN  Keeps(r, {}, lost, booked) /\ Agrees(r, a, TRUE)
               /\ Announced(r) /\ AnnouncedFirst(r)
  <1> DEFINE f == Focus(TRUE)
             e == Activity(TRUE)
             r == <<e, f>>
  <1>1. f.type = "Focus" /\ e.type = "Activity" /\ e.on = TRUE BY DEF Focus, Activity
  <1> HIDE DEF f, e
  <1>2. Len(r) = 2 /\ r[1] = e /\ r[2] = f OBVIOUS
  <1> HIDE DEF r
  <1>3. \A i \in 1 .. Len(r) : i = 1 \/ i = 2 BY <1>2
  <1>4. Keeps(r, {}, lost, booked)
    BY <1>1, <1>2, <1>3, QuietKeeps
  <1>5. Agrees(r, a, TRUE)
    <2>1. 1 \in 1 .. Len(r) /\ r[1].type = "Activity" BY <1>1, <1>2
    <2>2. \A i \in 1 .. Len(r) : LastActivity(r, i) => r[i].on = TRUE
      BY <1>1, <1>2, <1>3 DEF LastActivity
    <2>3. QED BY <2>1, <2>2 DEF Agrees
  <1>6. \A i \in 1 .. Len(r) : ~Ends(r[i]) BY <1>1, <1>2, <1>3 DEF Ends
  <1>7. QED BY <1>4, <1>5, <1>6 DEF Announced, AnnouncedFirst, r, e, f

\* One event: the books before it are accounted for by the event or by the
\* books after it, and so is what it presses.
LEMMA EventFacts ==
  ASSUME NEW held \in SUBSET Controls, NEW e \in Events, NEW lost
  PROVE  LET r == <<EventPost(e)>>
         IN  Keeps(r, Seen(held), lost, Seen(Apply(held, e)))
               /\ (\A a : Agrees(r, a, a)) /\ Announced(r) /\ AnnouncedFirst(r)
  <1> DEFINE t == EventPost(e)
             r == <<t>>
             books == Seen(Apply(held, e))
  <1>1. /\ t.controls = {e.control}
        /\ e.down => t.type = "Press"
        /\ ~e.down => t.type = "Lift"
    BY DEF EventPost, Press, Lift, Events
  <1>2. /\ e.down => Seen(held) \subseteq books /\ Seen({e.control}) \subseteq books
        /\ ~e.down => Seen(held) \subseteq books \union Seen({e.control})
    BY DEF Apply, Seen
  <1>3. e.down \in BOOLEAN BY DEF Events
  <1> HIDE DEF t, books
  <1>4. Len(r) = 1 /\ r[1] = t OBVIOUS
  <1> HIDE DEF r
  <1>5. \A i \in 1 .. Len(r) : i = 1 /\ r[i].type # "Activity" BY <1>1, <1>3, <1>4
  <1>6. \A k \in 0 .. 1, n \in 1 .. 2 : NoEnd(r, k, n)
    BY <1>5 DEF NoEnd, Ends
  <1>7. ASSUME NEW p \in books, NEW k \in 0 .. 1 PROVE Cleared(r, k, p, lost, books)
    BY <1>4, <1>6 DEF Cleared
  <1>8. ASSUME NEW p \in Seen(held) PROVE Cleared(r, 0, p, lost, books)
    <2>1. CASE p \in books BY <2>1, <1>7
    <2>2. CASE p \notin books
      <3>1. ~e.down /\ p \in Seen({e.control}) BY <1>2, <1>3, <2>2
      <3>2. 1 \in 1 .. Len(r) /\ 0 < 1 /\ Lifts(r[1], p) BY <1>1, <1>4, <3>1 DEF Lifts
      <3>3. NoEnd(r, 0, 1) BY <1>6
      <3>4. QED BY <3>2, <3>3 DEF Cleared
    <2>3. QED BY <2>1, <2>2
  <1>9. ASSUME NEW i \in 1 .. Len(r), r[i].type = "Press", NEW p \in Seen(r[i].controls)
        PROVE  Cleared(r, i, p, lost, books)
    <2>1. i = 1 BY <1>5
    <2>2. e.down /\ p \in books BY <1>1, <1>2, <1>3, <1>4, <1>9, <2>1
    <2>3. QED BY <1>7, <2>1, <2>2
  <1>10. Keeps(r, Seen(held), lost, books) BY <1>8, <1>9 DEF Keeps
  <1>11. \A a : Agrees(r, a, a) BY <1>5 DEF Agrees, LastActivity
  <1>12. Announced(r) /\ AnnouncedFirst(r) BY <1>5 DEF Announced, AnnouncedFirst, Ends
  <1>13. QED BY <1>10, <1>11, <1>12 DEF r, t, books

-----------------------------------------------------------------------------
(***************************************************************************)
(* The network thread's steps.                                             *)
(***************************************************************************)

\* The handler posts r, and what r does to the page's controls, controller
\* and focus agrees with what the handler does to the books.
PostsSoundly(r) ==
  /\ r \in Seq(Tasks) /\ tasks' = tasks \o r
  /\ leaked \subseteq leaked'
  /\ Keeps(r, Booked, leaked', Booked')
  /\ Agrees(r, InControl, InControl')
  /\ Announced(r) /\ AnnouncedFirst(r)

\* What is left of the invariant besides: the books themselves.
BooksSound ==
  /\ BooksClosed
  /\ routeActive => route.id # 0 /\ (conn = "open" \/ orphaned)

LEMMA PostsKeepInv ==
  ASSUME IInv, NEW r, PostsSoundly(r), UNCHANGED ui, BooksSound'
  PROVE  PressesCleared' /\ ControlInv' /\ FocusInv'
  <1>1. /\ tasks \in Seq(Tasks) /\ r \in Seq(Tasks) /\ tasks' = tasks \o r
        /\ leaked \subseteq leaked'
        /\ page' = page /\ networkActive' = networkActive /\ viewerHeld' = viewerHeld
        /\ pageFocused' = pageFocused /\ viewerFocused' = viewerFocused
    BY DEF PostsSoundly, IInv, TypeOK, ui
  <1>2. ViewerPressesCleared' /\ ViewerHoldsNothing'
    BY <1>1 DEF IInv, PressesCleared, ViewerPressesCleared, ViewerHoldsNothing
  <1>3. Keeps(r, Booked, leaked', Booked')
    BY DEF PostsSoundly
  <1> DEFINE lost2 == leaked'
             booked2 == Booked'
  <1>4. Len(tasks) \in Nat
    BY <1>1, LenProperties
  <1>5. PagePressesCleared'
    <2> SUFFICES ASSUME networkActive, NEW p \in page PROVE Cleared(tasks \o r, 0, p, lost2, booked2)
      BY <1>1 DEF PagePressesCleared
    <2>1. Cleared(tasks, 0, p, leaked, Booked)
      BY DEF IInv, PressesCleared, PagePressesCleared
    <2>2. 0 \in 0 .. Len(tasks) BY <1>4
    <2>3. p \in Booked => Cleared(r, 0, p, lost2, booked2) BY <1>3 DEF Keeps
    <2> HIDE DEF lost2, booked2
    <2>4. leaked \subseteq lost2 BY <1>1 DEF lost2
    <2>5. QED BY <1>1, <2>1, <2>2, <2>3, <2>4, ConcatClears
  <1>6. PostedPressesCleared'
    <2>1. Keeps(tasks, {}, leaked, Booked)
      BY DEF IInv, PressesCleared, PostedPressesCleared, Keeps
    <2>2. Keeps(r, Booked, lost2, booked2) BY <1>3
    <2> HIDE DEF lost2, booked2
    <2>3. leaked \subseteq lost2 BY <1>1 DEF lost2
    <2>4. Keeps(tasks \o r, {}, lost2, booked2)
      BY <1>1, <2>1, <2>2, <2>3, KeepsComposes
    <2>5. QED BY <1>1, <2>4 DEF Keeps, PostedPressesCleared, lost2, booked2
  <1>7. ControlInv'
    <2> DEFINE c == InControl'
    <2>1. Agrees(tasks, networkActive, InControl) BY DEF IInv, ControlInv
    <2>2. Agrees(r, InControl, c) BY DEF PostsSoundly
    <2> HIDE DEF c
    <2>3. Agrees(tasks \o r, networkActive, c)
      BY <1>1, <2>1, <2>2, AgreesComposes
    <2>4. QED BY <1>1, <2>3 DEF c, ControlInv, BooksSound
  <1>8. FocusInv'
    <2>1. Announced(tasks) /\ Announced(r) /\ AnnouncedFirst(r)
      BY DEF IInv, FocusInv, PostsSoundly
    <2>2. /\ Announced(tasks \o r)
          /\ \A i \in 1 .. Len(tasks \o r) : i = 1 /\ Ends((tasks \o r)[i]) =>
               i \in 1 .. Len(tasks) /\ (tasks \o r)[i] = tasks[i]
      BY <1>1, <2>1, AnnouncedComposes
    <2>3. \A i \in 1 .. Len(tasks \o r) :
            i = 1 /\ Ends((tasks \o r)[i]) /\ networkActive => ~pageFocused
      <3> SUFFICES ASSUME NEW i \in 1 .. Len(tasks \o r), i = 1, Ends((tasks \o r)[i]),
                          networkActive
                   PROVE  ~pageFocused
        OBVIOUS
      <3>1. i \in 1 .. Len(tasks) /\ (tasks \o r)[i] = tasks[i] BY <2>2
      <3>2. Ends(tasks[i]) BY <3>1
      <3>3. QED BY <3>1, <3>2 DEF IInv, FocusInv
    <2>4. ~networkActive /\ pageFocused => viewerFocused BY DEF IInv, FocusInv
    <2>5. QED BY <1>1, <2>2, <2>3, <2>4 DEF FocusInv
  <1>9. QED
    BY <1>2, <1>5, <1>6, <1>7, <1>8 DEF PressesCleared, BooksSound

LEMMA KeepsLess ==
  ASSUME NEW r, NEW booked, NEW booked0, NEW lost, NEW booked2, booked0 \subseteq booked,
         Keeps(r, booked, lost, booked2)
  PROVE  Keeps(r, booked0, lost, booked2)
  BY DEF Keeps

\* ResetRoute after the posts of a batch, or after none.
LEMMA ResetPostsSoundly ==
  ASSUME IInv, NEW held \in SUBSET Controls, NEW posts \in Seq(Tasks),
         ResetRoute(held, posts), Booked' = {},
         Keeps(posts, Booked, leaked, Seen(held)),
         \A a : Agrees(posts, a, a), Announced(posts), AnnouncedFirst(posts)
  PROVE  \E r : PostsSoundly(r)
  <1> DEFINE rel == ReleasePosts(held)
             dea == DeactivatePosts(routeActive)
             lost2 == leaked'
             both == posts \o rel
             c == InControl
  <1>1. /\ both \o dea \in Seq(Tasks) /\ tasks' = tasks \o (both \o dea)
    BY ResetPosts DEF IInv
  <1>2. rel \in Seq(Tasks) /\ dea \in Seq(Tasks) /\ routeActive \in BOOLEAN
          /\ orphaned \in BOOLEAN
    BY PostsHaveType DEF IInv, TypeOK
  <1>3. leaked \subseteq lost2 /\ Unreleased(held) \subseteq lost2
    BY DEF ResetRoute
  <1>4. InControl' = (~routeActive /\ c)
    BY DEF ResetRoute, InControl
  <1>5. c \in BOOLEAN BY <1>2 DEF InControl
  <1> HIDE DEF lost2, c
  <1>6. /\ Keeps(rel, Seen(held), lost2, {}) /\ \A a : Agrees(rel, a, a)
        /\ Announced(rel) /\ AnnouncedFirst(rel)
    BY <1>3, ReleaseFacts
  <1>7. /\ Keeps(dea, {}, lost2, {}) /\ Agrees(dea, c, ~routeActive /\ c)
        /\ Announced(dea) /\ AnnouncedFirst(dea)
    BY <1>2, <1>5, DeactivateFacts
  <1> HIDE DEF rel, dea
  <1>8. both \in Seq(Tasks) BY <1>2, ConcatProperties
  <1>9. Keeps(both, Booked, lost2, {})
    BY <1>2, <1>3, <1>6, KeepsComposes
  <1>10. Agrees(both, c, c)
    BY <1>2, <1>6, AgreesComposes
  <1>11. Announced(both) /\ AnnouncedFirst(both)
    BY <1>2, <1>6, AnnouncedComposes
  <1> HIDE DEF both
  <1>12. Keeps(both \o dea, Booked, lost2, {})
    BY <1>2, <1>7, <1>8, <1>9, KeepsComposes
  <1>13. Agrees(both \o dea, c, ~routeActive /\ c)
    BY <1>2, <1>7, <1>8, <1>10, AgreesComposes
  <1>14. Announced(both \o dea) /\ AnnouncedFirst(both \o dea)
    BY <1>2, <1>7, <1>8, <1>11, AnnouncedComposes
  <1>15. PostsSoundly(both \o dea)
    <2>1. Agrees(both \o dea, InControl, InControl') BY <1>4, <1>13 DEF c
    <2>2. Keeps(both \o dea, Booked, leaked', Booked') BY <1>12 DEF lost2
    <2>3. QED BY <1>1, <1>3, <1>14, <2>1, <2>2 DEF PostsSoundly, lost2
  <1>16. QED BY <1>15

LEMMA CloseKeepsInv ==
  ASSUME IInv, NEW after \in {"closing", "cut"}, Close(after)
  PROVE  PressesCleared' /\ ControlInv' /\ FocusInv'
  <1>1. route.held \in SUBSET Controls /\ <<>> \in Seq(Tasks)
    BY DEF IInv, TypeOK
  <1>2. ResetRoute(route.held, <<>>) BY DEF Close
  <1>3. Booked' = {} BY DEF Close, Booked
  <1>4. Keeps(<<>>, Booked, leaked, Seen(route.held))
    <2>1. Booked \subseteq leaked \union Seen(route.held) BY DEF Booked
    <2>2. QED BY <2>1, NothingKeeps
  <1>5. /\ \A a : Agrees(<<>>, a, a)
        /\ Announced(<<>>) /\ AnnouncedFirst(<<>>)
    <2>1. 1 .. Len(<<>>) = {} OBVIOUS
    <2>2. QED BY <2>1 DEF Agrees, Announced, AnnouncedFirst
  <1>6. PICK r : PostsSoundly(r)
    BY <1>1, <1>2, <1>3, <1>4, <1>5, ResetPostsSoundly
  <1>7. BooksSound'
    BY <1>2 DEF ResetRoute, BooksSound, BooksClosed
  <1>8. UNCHANGED ui BY DEF Close
  <1>9. QED BY <1>6, <1>7, <1>8, PostsKeepInv

\* A step that posts nothing.
LEMMA QuietStepKeepsInv ==
  ASSUME IInv, UNCHANGED <<tasks, ui>>, leaked \subseteq leaked',
         Booked \subseteq leaked' \union Booked', InControl' = InControl, BooksSound'
  PROVE  PressesCleared' /\ ControlInv' /\ FocusInv'
  <1>1. <<>> \in Seq(Tasks) /\ tasks \in Seq(Tasks) BY DEF IInv, TypeOK
  <1>2. tasks' = tasks \o <<>> BY <1>1, ConcatEmptySeq
  <1>3. 1 .. Len(<<>>) = {} OBVIOUS
  <1>4. Agrees(<<>>, InControl, InControl') BY <1>3 DEF Agrees
  <1>5. Announced(<<>>) /\ AnnouncedFirst(<<>>) BY <1>3 DEF Announced, AnnouncedFirst
  <1>6. Keeps(<<>>, Booked, leaked', Booked') BY NothingKeeps
  <1>7. PostsSoundly(<<>>) BY <1>1, <1>2, <1>4, <1>5, <1>6 DEF PostsSoundly
  <1>8. QED BY <1>7, PostsKeepInv

LEMMA ReceiveKeepsInv ==
  ASSUME IInv, Receive
  PROVE  PressesCleared' /\ ControlInv' /\ FocusInv'
  <1>1. /\ route.held \in SUBSET Controls /\ tasks \in Seq(Tasks)
        /\ routeActive \in BOOLEAN /\ orphaned \in BOOLEAN
        /\ BooksClosed
        /\ routeActive => route.id # 0 /\ (conn = "open" \/ orphaned)
    BY DEF IInv, TypeOK, PressesCleared, ControlInv
  <1>2. CASE ReceiveHello \/ ReceiveIdle
    <2>1. UNCHANGED <<tasks, ui, leaked, conn, route, routeActive, orphaned>>
      BY <1>2 DEF ReceiveHello, ReceiveIdle, Receives, history
    <2>2. BooksSound' BY <1>1, <2>1 DEF BooksSound, BooksClosed
    <2>3. Booked' = Booked /\ InControl' = InControl BY <2>1 DEF Booked, InControl
    <2>4. QED BY <2>1, <2>2, <2>3, QuietStepKeepsInv
  <1>3. ASSUME NEW e \in Events, ReceiveNextEvent(e)
        PROVE  PressesCleared' /\ ControlInv' /\ FocusInv'
    <2> DEFINE r == <<EventPost(e)>>
               lost == leaked
    <2>1. /\ UNCHANGED <<ui, leaked, conn, routeActive, orphaned>> /\ conn = "open"
          /\ route.id # 0 /\ route'.id = route.id /\ route'.held = Apply(route.held, e)
          /\ tasks' = Append(tasks, EventPost(e))
      BY <1>3 DEF ReceiveNextEvent, Receives, history, IInv, TypeOK
    <2>2. r \in Seq(Tasks) /\ EventPost(e) \in Tasks BY PostsHaveType
    <2>3. tasks' = tasks \o r BY <1>1, <2>1, <2>2, AppendIsConcat
    <2>4. /\ Keeps(r, Seen(route.held), lost, Seen(Apply(route.held, e)))
          /\ \A a : Agrees(r, a, a)
          /\ Announced(r) /\ AnnouncedFirst(r)
      BY <1>1, EventFacts
    <2> HIDE DEF r
    <2>5. Booked = Seen(route.held) /\ Booked' = Seen(Apply(route.held, e)) /\ lost = leaked'
            /\ InControl' = InControl
      BY <2>1 DEF Booked, InControl
    <2>6. PostsSoundly(r) BY <2>2, <2>3, <2>4, <2>5 DEF PostsSoundly
    <2>7. BooksSound' BY <2>1 DEF BooksSound, BooksClosed
    <2>8. QED BY <2>1, <2>6, <2>7, PostsKeepInv
  <1>4. ASSUME NEW e \in Events, ReceiveInvalidEvent(e)
        PROVE  PressesCleared' /\ ControlInv' /\ FocusInv'
    <2> DEFINE r == <<EventPost(e)>>
               held == Apply(route.held, e)
    <2>1. /\ UNCHANGED <<ui, conn>> /\ conn = "open" /\ ResetRoute(held, r)
      BY <1>4 DEF ReceiveInvalidEvent, Receives
    <2>2. r \in Seq(Tasks) BY PostsHaveType
    <2>3. held \in SUBSET Controls BY <1>1, ApplyHasType
    <2>4. /\ Keeps(r, Seen(route.held), leaked, Seen(held))
          /\ \A a : Agrees(r, a, a)
          /\ Announced(r) /\ AnnouncedFirst(r)
      BY <1>1, EventFacts
    <2>5. route' = NoRoute /\ routeActive' = FALSE BY <2>1 DEF ResetRoute
    <2> HIDE DEF r, held
    <2>6. Booked = Seen(route.held) /\ Booked' = {}
      BY <2>1, <2>5, SeenProperties DEF Booked, NoRoute
    <2>7. PICK p : PostsSoundly(p)
      BY <2>1, <2>2, <2>3, <2>4, <2>6, ResetPostsSoundly
    <2>8. BooksSound' BY <2>5 DEF BooksSound, BooksClosed
    <2>9. QED BY <2>1, <2>7, <2>8, PostsKeepInv
  <1>5. CASE ReceiveAfterGap \/ ReceiveReleaseAll
    <2>1. /\ UNCHANGED <<ui, conn>> /\ conn = "open" /\ ResetRoute(route.held, <<>>)
      BY <1>5 DEF ReceiveAfterGap, ReceiveReleaseAll, Receives
    <2>2. route' = NoRoute /\ routeActive' = FALSE BY <2>1 DEF ResetRoute
    <2>3. Booked = Seen(route.held) /\ Booked' = {}
      BY <2>1, <2>2, SeenProperties DEF Booked, NoRoute
    <2>4. Keeps(<<>>, Booked, leaked, Seen(route.held)) BY <2>3, NothingKeeps
    <2>5. 1 .. Len(<<>>) = {} OBVIOUS
    <2>6. (\A a : Agrees(<<>>, a, a)) /\ Announced(<<>>) /\ AnnouncedFirst(<<>>)
      BY <2>5 DEF Agrees, Announced, AnnouncedFirst
    <2>7. <<>> \in Seq(Tasks) OBVIOUS
    <2>8. PICK p : PostsSoundly(p)
      BY <1>1, <2>1, <2>3, <2>4, <2>6, <2>7, ResetPostsSoundly
    <2>9. BooksSound' BY <2>2 DEF BooksSound, BooksClosed
    <2>10. QED BY <2>1, <2>8, <2>9, PostsKeepInv
  <1>6. CASE ReceiveStaleBatch
    <2> DEFINE r == DeactivatePosts(TRUE)
               lost2 == leaked'
               booked2 == Booked'
    <2>1. /\ UNCHANGED <<ui, conn, route>> /\ conn = "open" /\ routeActive
          /\ routeActive' = FALSE /\ orphaned' = FALSE /\ tasks' = tasks \o r
          /\ leaked' = leaked \union Seen(route.held)
      BY <1>6 DEF ReceiveStaleBatch, Receives
    <2>2. r \in Seq(Tasks) BY PostsHaveType
    <2>3. Booked \subseteq lost2 BY <2>1 DEF Booked
    <2>4. InControl \in BOOLEAN /\ InControl' = (~TRUE /\ InControl)
      BY <1>1, <2>1 DEF InControl
    <2>5. /\ Keeps(r, {}, lost2, booked2) /\ Agrees(r, InControl, ~TRUE /\ InControl)
          /\ Announced(r) /\ AnnouncedFirst(r)
      <3> HIDE DEF lost2, booked2
      <3>1. QED BY <2>4, DeactivateFacts
    <2> HIDE DEF r
    <2>6. Keeps(r, Booked, leaked', Booked') BY <2>3, <2>5 DEF Keeps, Cleared
    <2>7. PostsSoundly(r) BY <2>1, <2>2, <2>4, <2>5, <2>6 DEF PostsSoundly
    <2>8. BooksSound' BY <2>1 DEF BooksSound, BooksClosed
    <2>9. QED BY <2>1, <2>7, <2>8, PostsKeepInv
  <1>7. ASSUME NEW held \in SUBSET Controls, ReceiveSnapshot(held)
        PROVE  PressesCleared' /\ ControlInv' /\ FocusInv'
    <2>1. /\ UNCHANGED <<tasks, ui, conn, routeActive, orphaned>> /\ conn = "open"
          /\ route.id # 0 /\ route'.id = route.id /\ route'.held = held
          /\ leaked' = leaked \union Seen(route.held \ held)
      BY <1>7 DEF ReceiveSnapshot, Receives, IInv, TypeOK
    <2>2. Seen(route.held) \subseteq Seen(route.held \ held) \union Seen(held)
      BY DEF Seen
    <2>3. Booked = Seen(route.held) /\ Booked' = Seen(held) /\ InControl' = InControl
      BY <2>1 DEF Booked, InControl
    <2>4. BooksSound' BY <2>1 DEF BooksSound, BooksClosed
    <2>5. QED BY <2>1, <2>2, <2>3, <2>4, QuietStepKeepsInv
  <1>8. ASSUME NEW held \in SUBSET Controls, NEW id \in Routes, ReceiveClaim(id, held)
        PROVE  PressesCleared' /\ ControlInv' /\ FocusInv'
    <2> DEFINE rel == ReleasePosts(route.held)
               cla == <<Activity(TRUE), Focus(TRUE)>>
               lost2 == leaked'
    <2>1. /\ UNCHANGED <<ui, conn, orphaned>> /\ conn = "open"
          /\ route' = [id |-> id, held |-> held] /\ routeActive' = TRUE
          /\ tasks' = (tasks \o rel) \o cla
          /\ leaked' = leaked \union Unreleased(route.held)
      BY <1>8 DEF ReceiveClaim, Receives
    <2>2. rel \in Seq(Tasks) /\ cla \in Seq(Tasks) BY <1>1, PostsHaveType
    <2>3. /\ Booked = Seen(route.held) /\ Booked' = Seen(held) /\ InControl' = TRUE
          /\ Unreleased(route.held) \subseteq lost2 /\ leaked \subseteq lost2
      BY <2>1 DEF Booked, InControl
    <2> HIDE DEF lost2
    <2>4. /\ Keeps(rel, Seen(route.held), lost2, {}) /\ \A a : Agrees(rel, a, a)
          /\ Announced(rel) /\ AnnouncedFirst(rel)
      BY <1>1, <2>3, ReleaseFacts
    <2>5. /\ Keeps(cla, {}, lost2, Seen(held)) /\ Agrees(cla, InControl, TRUE)
          /\ Announced(cla) /\ AnnouncedFirst(cla)
      BY ClaimFacts
    <2> HIDE DEF rel, cla
    <2>6. Keeps(rel \o cla, Seen(route.held), lost2, Seen(held))
      BY <2>2, <2>4, <2>5, KeepsComposes
    <2>7. Agrees(rel \o cla, InControl, TRUE)
      BY <2>2, <2>4, <2>5, AgreesComposes
    <2>8. Announced(rel \o cla) /\ AnnouncedFirst(rel \o cla)
      BY <2>2, <2>4, <2>5, AnnouncedComposes
    <2>9. rel \o cla \in Seq(Tasks) /\ tasks' = tasks \o (rel \o cla)
      <3>1. tasks \in Seq(Tasks)
        BY <1>1 DEF TypeOK
      <3>2. rel \o cla \in Seq(Tasks)
        BY <2>2, ConcatProperties
      <3>3. tasks' = Joined(Joined(tasks, rel), cla)
        BY <2>1 DEF Joined
      <3>4. tasks' = Joined(tasks, Joined(rel, cla))
        BY <2>2, <3>1, <3>3, JoinsRegroup
      <3> QED BY ONLY <3>2, <3>4 DEF Joined
    <2>10. PostsSoundly(rel \o cla)
      BY <2>3, <2>6, <2>7, <2>8, <2>9 DEF PostsSoundly, lost2
    <2>11. BooksSound' BY <2>1, InputRouteAssumption DEF BooksSound, BooksClosed
    <2>12. QED BY <2>1, <2>10, <2>11, PostsKeepInv
  <1>9. ASSUME NEW held \in SUBSET Controls, NEW id \in Routes, LateClaim(id, held)
        PROVE  PressesCleared' /\ ControlInv' /\ FocusInv'
    <2> DEFINE cla == <<Activity(TRUE), Focus(TRUE)>>
               lost2 == leaked'
    <2>1. /\ UNCHANGED <<ui, leaked>> /\ conn = "cut" /\ conn' = "closing"
          /\ route' = [id |-> id, held |-> held] /\ routeActive' = TRUE
          /\ orphaned' = TRUE /\ tasks' = tasks \o cla
      BY <1>9 DEF LateClaim
    <2>2. cla \in Seq(Tasks) BY PostsHaveType
    <2>3. Booked = {} /\ Booked' = {} /\ InControl' = TRUE
      BY <2>1 DEF Booked, InControl
    <2> HIDE DEF lost2
    <2>4. /\ Keeps(cla, {}, lost2, {}) /\ Agrees(cla, InControl, TRUE)
          /\ Announced(cla) /\ AnnouncedFirst(cla)
      BY ClaimFacts
    <2> HIDE DEF cla
    <2>5. PostsSoundly(cla) BY <2>1, <2>2, <2>3, <2>4 DEF PostsSoundly, lost2
    <2>6. BooksSound' BY <2>1, InputRouteAssumption DEF BooksSound, BooksClosed
    <2>7. QED BY <2>1, <2>5, <2>6, PostsKeepInv
  <1>10. CASE ReceiveMalformed
    BY <1>10, CloseKeepsInv DEF ReceiveMalformed
  <1>11. QED
    BY <1>2, <1>3, <1>4, <1>5, <1>6, <1>7, <1>8, <1>9, <1>10
    DEF Receive, ReceiveBatch, ReceiveState

-----------------------------------------------------------------------------
(***************************************************************************)
(* The UI thread's steps: taking the head.                                 *)
(***************************************************************************)

LEMMA TailFacts ==
  ASSUME NEW q \in Seq(Tasks), q # <<>>
  PROVE  /\ Len(q) \in Nat \ {0} /\ Head(q) = q[1] /\ q[1] \in Tasks
         /\ Tail(q) \in Seq(Tasks) /\ Len(Tail(q)) = Len(q) - 1
         /\ \A i \in 1 .. Len(Tail(q)) : Tail(q)[i] = q[i + 1] /\ i + 1 \in 1 .. Len(q)
  <1>1. Len(q) \in Nat \ {0} BY EmptySeq
  <1>2. /\ Head(q) \in Tasks /\ Tail(q) \in Seq(Tasks) /\ Len(Tail(q)) = Len(q) - 1
        /\ \A i \in 1 .. Len(Tail(q)) : Tail(q)[i] = q[i + 1]
    BY HeadTailProperties
  <1>3. Head(q) = q[1] OBVIOUS
  <1>4. \A i \in 1 .. Len(Tail(q)) : i + 1 \in 1 .. Len(q) BY <1>1, <1>2
  <1>5. QED BY <1>1, <1>2, <1>3, <1>4

LEMMA TailClears ==
  ASSUME NEW q \in Seq(Tasks), q # <<>>, NEW p, NEW lost, NEW booked,
         NEW k \in 0 .. Len(q), NEW h \in Nat, k > 0 => h = k - 1, k = 0 => h = 0,
         Cleared(q, k, p, lost, booked)
  PROVE  /\ k > 0 \/ ~Lifts(q[1], p) => Cleared(Tail(q), h, p, lost, booked)
         /\ k = 0 /\ Ends(q[1]) => p \in lost
  <1> DEFINE t == Tail(q)
  <1>1. /\ Len(q) \in Nat \ {0} /\ Len(t) = Len(q) - 1
        /\ \A i \in 1 .. Len(t) : t[i] = q[i + 1] /\ i + 1 \in 1 .. Len(q)
    BY TailFacts
  <1> HIDE DEF t
  <1>2. k \in Nat /\ (k = 0 \/ k = h + 1)
    BY <1>1
  <1>3. ASSUME NEW n \in 2 .. Len(q) + 1, NoEnd(q, k, n) PROVE NoEnd(t, h, n - 1)
    <2> SUFFICES ASSUME NEW i \in 1 .. Len(t), h < i, i < n - 1 PROVE ~Ends(t[i])
      BY DEF NoEnd
    <2>1. i + 1 \in 1 .. Len(q) /\ t[i] = q[i + 1] BY <1>1
    <2>2. k < i + 1 /\ i + 1 < n BY <1>1, <1>2
    <2>3. QED BY <1>3, <2>1, <2>2 DEF NoEnd
  <1>4. CASE p \in lost
    BY <1>2, <1>4 DEF Cleared, t
  <1>5. ASSUME NEW j \in 1 .. Len(q), k < j, Lifts(q[j], p), NoEnd(q, k, j)
        PROVE  /\ k > 0 \/ ~Lifts(q[1], p) => Cleared(t, h, p, lost, booked)
               /\ k = 0 /\ Ends(q[1]) => p \in lost
    <2>1. ASSUME j > 1 PROVE Cleared(t, h, p, lost, booked)
      <3>1. j \in 2 .. Len(q) + 1 /\ j - 1 \in 1 .. Len(t) /\ (j - 1) + 1 = j
        BY <1>1, <2>1
      <3>2. NoEnd(t, h, j - 1) BY <1>3, <1>5, <3>1
      <3>3. t[j - 1] = q[j] BY <1>1, <3>1
      <3>4. h < j - 1 BY <1>2, <1>5, <2>1
      <3>5. QED BY <1>5, <3>1, <3>2, <3>3, <3>4 DEF Cleared
    <2>2. k > 0 \/ ~Lifts(q[1], p) => j > 1 BY <1>1, <1>5
    <2>3. ASSUME k = 0, Ends(q[1]) PROVE FALSE
      <3>1. j # 1 BY <1>5, <2>3 DEF Ends, Lifts
      <3>2. 1 \in 1 .. Len(q) /\ k < 1 /\ 1 < j BY <1>1, <2>3, <3>1
      <3>3. QED BY <1>5, <2>3, <3>2 DEF NoEnd
    <2>4. QED BY <2>1, <2>2, <2>3
  <1>6. ASSUME p \in booked, NoEnd(q, k, Len(q) + 1)
        PROVE  Cleared(t, h, p, lost, booked) /\ ~(k = 0 /\ Ends(q[1]))
    <2>1. Len(q) + 1 \in 2 .. Len(q) + 1 /\ (Len(q) + 1) - 1 = Len(t) + 1 BY <1>1
    <2>2. NoEnd(t, h, Len(t) + 1) BY <1>3, <1>6, <2>1
    <2>3. 1 \in 1 .. Len(q) /\ 1 < Len(q) + 1 BY <1>1
    <2>4. ~(k = 0 /\ Ends(q[1])) BY <1>6, <2>3 DEF NoEnd
    <2>5. QED BY <1>6, <2>2, <2>4 DEF Cleared
  <1>7. /\ k > 0 \/ ~Lifts(q[1], p) => Cleared(t, h, p, lost, booked)
        /\ k = 0 /\ Ends(q[1]) => p \in lost
    BY <1>4, <1>5, <1>6 DEF Cleared
  <1>8. QED BY <1>7 DEF t

LEMMA TailAgrees ==
  ASSUME NEW q \in Seq(Tasks), q # <<>>, NEW a, NEW b, Agrees(q, a, b)
  PROVE  /\ q[1].type = "Activity" => Agrees(Tail(q), q[1].on, b)
         /\ q[1].type # "Activity" => Agrees(Tail(q), a, b)
  <1> DEFINE t == Tail(q)
  <1>1. /\ Len(q) \in Nat \ {0} /\ Len(t) = Len(q) - 1
        /\ \A i \in 1 .. Len(t) : t[i] = q[i + 1] /\ i + 1 \in 1 .. Len(q)
    BY TailFacts
  <1> HIDE DEF t
  <1>2. \A i \in 1 .. Len(q) : i = 1 \/ (i - 1 \in 1 .. Len(t) /\ t[i - 1] = q[i])
    <2>1. ASSUME NEW i \in 1 .. Len(q), i # 1
          PROVE  i - 1 \in 1 .. Len(t) /\ (i - 1) + 1 = i
      BY <1>1, <2>1
    <2>2. QED BY <1>1, <2>1
  <1>3. ASSUME NEW i \in 1 .. Len(t), LastActivity(t, i) PROVE t[i].on = b
    <2>1. q[i + 1].type = "Activity" BY <1>1, <1>3 DEF LastActivity
    <2>2. ASSUME NEW j \in 1 .. Len(q), i + 1 < j PROVE q[j].type # "Activity"
      <3>1. j # 1 /\ i < j - 1 BY <1>1, <2>2
      <3>2. j - 1 \in 1 .. Len(t) /\ t[j - 1] = q[j] BY <1>2, <3>1
      <3>3. QED BY <1>3, <3>1, <3>2 DEF LastActivity
    <2>3. LastActivity(q, i + 1) BY <2>1, <2>2 DEF LastActivity
    <2>4. i + 1 \in 1 .. Len(q) /\ t[i] = q[i + 1] BY <1>1
    <2>5. QED BY <2>3, <2>4 DEF Agrees
  <1>4. ASSUME \A i \in 1 .. Len(t) : t[i].type # "Activity"
        PROVE  /\ q[1].type = "Activity" => q[1].on = b
               /\ q[1].type # "Activity" => a = b
    <2>1. 1 \in 1 .. Len(q) BY <1>1
    <2>2. \A i \in 1 .. Len(q) : i # 1 => q[i].type # "Activity" BY <1>2, <1>4
    <2>3. \A i \in 1 .. Len(q) : 1 < i => i # 1 OBVIOUS
    <2>4. q[1].type = "Activity" => LastActivity(q, 1) BY <2>2, <2>3 DEF LastActivity
    <2>5. QED BY <2>1, <2>2, <2>4 DEF Agrees
  <1>5. QED BY <1>3, <1>4 DEF Agrees, t

\* What taking a task off the head leaves of the invariant.
LEMMA DispatchLeaves ==
  ASSUME IInv, NEW type, NextTask(type), UNCHANGED <<network, history>>
  PROVE  /\ Head(tasks).type = type
         /\ PostedPressesCleared' /\ BooksSound' /\ Announced(tasks')
         /\ type = "Activity" => Agrees(tasks', Head(tasks).on, InControl')
         /\ type # "Activity" => Agrees(tasks', networkActive, InControl')
         /\ \A i \in 1 .. Len(tasks') : i = 1 /\ Ends(tasks'[i]) => Head(tasks) = Focus(FALSE)
         /\ \A p : Cleared(tasks, 0, p, leaked, Booked) /\ ~Lifts(Head(tasks), p)
                 => Cleared(tasks', 0, p, leaked', Booked')
         /\ \A p : Cleared(tasks, 1, p, leaked, Booked)
                 => Cleared(tasks', 0, p, leaked', Booked')
         /\ \A p : Cleared(tasks, 0, p, leaked, Booked) /\ Ends(Head(tasks)) => p \in leaked
  <1> DEFINE t == Tail(tasks)
  <1>1. tasks \in Seq(Tasks) /\ tasks # <<>> /\ tasks' = t /\ Head(tasks).type = type
    BY DEF NextTask, IInv, TypeOK
  <1>2. /\ Len(tasks) \in Nat \ {0} /\ Head(tasks) = tasks[1]
        /\ Len(t) = Len(tasks) - 1
        /\ \A i \in 1 .. Len(t) : t[i] = tasks[i + 1] /\ i + 1 \in 1 .. Len(tasks)
    BY <1>1, TailFacts
  <1>3. leaked' = leaked /\ Booked' = Booked /\ InControl' = InControl
    BY DEF network, history, Booked, InControl
  <1>4. ASSUME NEW k \in 0 .. Len(tasks), NEW h \in Nat, k > 0 => h = k - 1, k = 0 => h = 0,
               NEW p, Cleared(tasks, k, p, leaked, Booked)
        PROVE  /\ k > 0 \/ ~Lifts(tasks[1], p) => Cleared(t, h, p, leaked, Booked)
               /\ k = 0 /\ Ends(tasks[1]) => p \in leaked
    BY <1>1, <1>4, TailClears
  <1>5. Agrees(tasks, networkActive, InControl)
    BY DEF IInv, ControlInv
  <1>6. /\ tasks[1].type = "Activity" => Agrees(t, tasks[1].on, InControl)
        /\ tasks[1].type # "Activity" => Agrees(t, networkActive, InControl)
    BY <1>1, <1>5, TailAgrees
  <1> HIDE DEF t
  <1>7. ASSUME NEW i \in 1 .. Len(t), t[i].type = "Press", NEW p \in Seen(t[i].controls)
        PROVE  Cleared(t, i, p, leaked, Booked)
    <2> DEFINE k == i + 1
    <2>1. k \in 1 .. Len(tasks) /\ t[i] = tasks[k] BY <1>2
    <2>2. /\ k \in 0 .. Len(tasks) /\ k > 0 /\ i = k - 1 /\ i \in Nat
          /\ (k = 0 => i = 0)
      BY <1>2
    <2> HIDE DEF k
    <2>3. Cleared(tasks, k, p, leaked, Booked)
      BY <1>7, <2>1 DEF IInv, PressesCleared, PostedPressesCleared
    <2>4. QED BY <1>4, <2>2, <2>3
  <1>8. PostedPressesCleared'
    BY <1>1, <1>3, <1>7 DEF PostedPressesCleared
  <1>9. BooksSound'
    BY DEF network, history, IInv, PressesCleared, ControlInv, BooksSound, BooksClosed
  <1>10. ASSUME NEW i \in 1 .. Len(t), Ends(t[i]), i > 1 PROVE t[i - 1] = Focus(FALSE)
    <2>1. i + 1 \in 1 .. Len(tasks) /\ t[i] = tasks[i + 1] /\ i + 1 > 1 /\ (i + 1) - 1 = i
      BY <1>2
    <2>2. tasks[i] = Focus(FALSE) BY <1>10, <2>1 DEF IInv, FocusInv, Announced
    <2>3. i - 1 \in 1 .. Len(t) /\ (i - 1) + 1 = i BY <1>2, <1>10
    <2>4. QED BY <1>2, <2>2, <2>3
  <1>11. ASSUME NEW i \in 1 .. Len(t), i = 1, Ends(t[i]) PROVE Head(tasks) = Focus(FALSE)
    <2>1. 2 \in 1 .. Len(tasks) /\ t[1] = tasks[2] /\ 2 - 1 = 1 /\ 2 > 1 BY <1>2, <1>11
    <2>2. Ends(tasks[2]) BY <1>11, <2>1
    <2>3. tasks[2 - 1] = Focus(FALSE) BY <2>1, <2>2 DEF IInv, FocusInv, Announced
    <2>4. QED BY <1>2, <2>1, <2>3
  <1>12. /\ 0 \in 0 .. Len(tasks) /\ ~(0 > 0) /\ 0 \in Nat
         /\ 1 \in 0 .. Len(tasks) /\ 1 > 0 /\ 1 # 0 /\ 0 = 1 - 1
    BY <1>2
  <1>13. ASSUME NEW p, Cleared(tasks, 0, p, leaked, Booked)
         PROVE  /\ ~Lifts(Head(tasks), p) => Cleared(t, 0, p, leaked, Booked)
                /\ Ends(Head(tasks)) => p \in leaked
    BY <1>2, <1>4, <1>12, <1>13
  <1>14. ASSUME NEW p, Cleared(tasks, 1, p, leaked, Booked)
         PROVE  Cleared(t, 0, p, leaked, Booked)
    BY <1>4, <1>12, <1>14
  <1>15. Announced(t) BY <1>10 DEF Announced
  <1>16. QED
    BY <1>1, <1>2, <1>3, <1>6, <1>8, <1>9, <1>11, <1>13, <1>15, <1>14

LEMMA DispatchKeepsInv ==
  ASSUME IInv, DispatchTask
  PROVE  PressesCleared' /\ ControlInv' /\ FocusInv'
  <1> USE DEF ViewerPressesCleared, ViewerHoldsNothing, PagePressesCleared
  <1>1. /\ ~networkActive => page \subseteq viewerHeld \union leaked
        /\ networkActive => viewerHeld = {}
        /\ networkActive => \A p \in page : Cleared(tasks, 0, p, leaked, Booked)
        /\ ~networkActive /\ pageFocused => viewerFocused
        /\ networkActive \in BOOLEAN /\ pageFocused \in BOOLEAN /\ viewerFocused \in BOOLEAN
    BY DEF IInv, PressesCleared, FocusInv, TypeOK
  <1>2. ASSUME BooksSound' PROVE /\ BooksClosed'
                                 /\ (routeActive => route.id # 0 /\ (conn = "open" \/ orphaned))'
    BY <1>2 DEF BooksSound
  <1>3. tasks # <<>> => /\ 1 \in 1 .. Len(tasks) /\ Head(tasks) = tasks[1]
                        /\ Head(tasks) \in Tasks
    <2>1. tasks \in Seq(Tasks) BY DEF IInv, TypeOK
    <2>2. QED BY <2>1, TailFacts
  <1>4. ASSUME NextTask("Press") \/ NextTask("Lift") \/ NextTask("Focus"),
               UNCHANGED <<network, history>>
        PROVE  /\ ~Ends(Head(tasks))
               /\ BooksSound' /\ PostedPressesCleared' /\ Announced(tasks')
               /\ Agrees(tasks', networkActive, InControl')
    <2>1. PICK type \in {"Press", "Lift", "Focus"} : NextTask(type) BY <1>4
    <2>2. UNCHANGED <<network, history>> BY <1>4
    <2>3. type # "Activity" BY <2>1
    <2>4. /\ Head(tasks).type = type
          /\ BooksSound' /\ PostedPressesCleared' /\ Announced(tasks')
          /\ Agrees(tasks', networkActive, InControl')
      BY <2>1, <2>2, <2>3, DispatchLeaves
    <2>5. QED BY <2>3, <2>4 DEF Ends
  <1>5. CASE DispatchPress
    <2>1. /\ NextTask("Press")
          /\ UNCHANGED <<network, history>> /\ leaked' = leaked
          /\ UNCHANGED <<networkActive, viewerFocused, viewerHeld, pageFocused>>
          /\ page' = IF networkActive THEN page \union Seen(Head(tasks).controls) ELSE page
      BY <1>5 DEF DispatchPress, history
    <2>2. /\ Head(tasks).type = "Press" /\ tasks # <<>>
          /\ \A p : Cleared(tasks, 0, p, leaked, Booked) /\ ~Lifts(Head(tasks), p)
                 => Cleared(tasks', 0, p, leaked', Booked')
          /\ \A p : Cleared(tasks, 1, p, leaked, Booked)
                 => Cleared(tasks', 0, p, leaked', Booked')
          /\ \A i \in 1 .. Len(tasks') : i = 1 /\ Ends(tasks'[i]) => Head(tasks) = Focus(FALSE)
      BY <2>1, DispatchLeaves DEF NextTask
    <2>3. \A p \in Seen(Head(tasks).controls) : Cleared(tasks, 1, p, leaked, Booked)
      BY <1>3, <2>2 DEF IInv, PressesCleared, PostedPressesCleared
    <2>4. PagePressesCleared'
      BY <1>1, <2>1, <2>2, <2>3 DEF Lifts
    <2>5. ViewerPressesCleared' /\ ViewerHoldsNothing' BY <1>1, <2>1
    <2>6. Head(tasks) # Focus(FALSE) BY <2>2 DEF Focus
    <2>7. FocusInv' BY <1>1, <1>4, <2>1, <2>2, <2>6 DEF FocusInv
    <2>8. QED BY <1>2, <1>4, <2>1, <2>4, <2>5, <2>7 DEF PressesCleared, ControlInv
  <1>6. CASE DispatchLift
    <2>1. /\ NextTask("Lift")
          /\ UNCHANGED <<network, history>> /\ leaked' = leaked
          /\ UNCHANGED <<networkActive, viewerFocused, viewerHeld, pageFocused>>
          /\ page' = IF networkActive THEN page \ Seen(Head(tasks).controls) ELSE page
      BY <1>6 DEF DispatchLift, history
    <2>2. /\ Head(tasks).type = "Lift"
          /\ \A p : Cleared(tasks, 0, p, leaked, Booked) /\ ~Lifts(Head(tasks), p)
                 => Cleared(tasks', 0, p, leaked', Booked')
          /\ \A i \in 1 .. Len(tasks') : i = 1 /\ Ends(tasks'[i]) => Head(tasks) = Focus(FALSE)
      BY <2>1, DispatchLeaves
    <2>3. PagePressesCleared' BY <1>1, <2>1, <2>2 DEF Lifts
    <2>4. ViewerPressesCleared' /\ ViewerHoldsNothing' BY <1>1, <2>1
    <2>5. Head(tasks) # Focus(FALSE) BY <2>2 DEF Focus
    <2>6. FocusInv' BY <1>1, <1>4, <2>1, <2>2, <2>5 DEF FocusInv
    <2>7. QED BY <1>2, <1>4, <2>1, <2>3, <2>4, <2>6 DEF PressesCleared, ControlInv
  <1>7. CASE DispatchFocus
    <2>1. /\ NextTask("Focus")
          /\ UNCHANGED <<network, history>> /\ leaked' = leaked
          /\ UNCHANGED <<networkActive, viewerFocused, viewerHeld, page>>
          /\ pageFocused' = IF networkActive THEN Head(tasks).on ELSE pageFocused
      BY <1>7 DEF DispatchFocus, history
    <2>2. /\ Head(tasks).type = "Focus"
          /\ \A p : Cleared(tasks, 0, p, leaked, Booked) /\ ~Lifts(Head(tasks), p)
                 => Cleared(tasks', 0, p, leaked', Booked')
          /\ \A i \in 1 .. Len(tasks') : i = 1 /\ Ends(tasks'[i]) => Head(tasks) = Focus(FALSE)
      BY <2>1, DispatchLeaves
    <2>3. PagePressesCleared' BY <1>1, <2>1, <2>2 DEF Lifts
    <2>4. ViewerPressesCleared' /\ ViewerHoldsNothing' BY <1>1, <2>1
    <2>5. Head(tasks) = Focus(FALSE) => Head(tasks).on = FALSE BY DEF Focus
    <2>6. FocusInv' BY <1>1, <1>4, <2>1, <2>2, <2>5 DEF FocusInv
    <2>7. QED BY <1>2, <1>4, <2>1, <2>3, <2>4, <2>6 DEF PressesCleared, ControlInv
  <1>8. ASSUME NextTask("Activity"), UNCHANGED <<network, history>>
        PROVE  /\ Head(tasks).type = "Activity" /\ Head(tasks) # Focus(FALSE) /\ tasks # <<>>
               /\ BooksSound' /\ PostedPressesCleared' /\ Announced(tasks')
               /\ Agrees(tasks', Head(tasks).on, InControl')
               /\ \A i \in 1 .. Len(tasks') : ~(i = 1 /\ Ends(tasks'[i]))
               /\ \A p : Cleared(tasks, 0, p, leaked, Booked)
                    => Cleared(tasks', 0, p, leaked', Booked')
               /\ \A p : Cleared(tasks, 0, p, leaked, Booked) /\ Ends(Head(tasks))
                    => p \in leaked
    <2>1. Head(tasks).type = "Activity" BY <1>8, DispatchLeaves
    <2>2. Head(tasks) # Focus(FALSE) /\ \A p : ~Lifts(Head(tasks), p)
      BY <2>1 DEF Focus, Lifts
    <2>3. QED BY <1>8, <2>1, <2>2, DispatchLeaves DEF NextTask
  <1>9. CASE RouteTakesControl
    <2>1. /\ NextTask("Activity") /\ Head(tasks).on
          /\ UNCHANGED <<network, history>> /\ leaked' = leaked
          /\ UNCHANGED <<viewerFocused, pageFocused>> /\ networkActive' = TRUE
          /\ page' = IF networkActive THEN page ELSE page \ viewerHeld
          /\ viewerHeld' = IF networkActive THEN viewerHeld ELSE {}
      BY <1>9 DEF RouteTakesControl, history
    <2>2. ViewerPressesCleared' /\ ViewerHoldsNothing' BY <1>1, <2>1
    <2>3. PagePressesCleared'
      <3>1. CASE networkActive BY <1>1, <1>8, <2>1, <3>1
      <3>2. CASE ~networkActive BY <1>1, <2>1, <3>2 DEF Cleared
      <3>3. QED BY <3>1, <3>2
    <2>4. Head(tasks).on = TRUE BY <1>3, <1>8, <2>1, TaskFields
    <2>5. FocusInv' BY <1>8, <2>1 DEF FocusInv
    <2>6. QED BY <1>2, <1>8, <2>1, <2>2, <2>3, <2>4, <2>5 DEF PressesCleared, ControlInv
  <1>10. CASE RouteLosesControl
    <2>1. /\ NextTask("Activity") /\ ~Head(tasks).on
          /\ UNCHANGED <<network, history>> /\ leaked' = leaked
          /\ UNCHANGED <<viewerFocused, viewerHeld, page>> /\ networkActive' = FALSE
          /\ pageFocused' = (pageFocused \/ (networkActive /\ viewerFocused))
      BY <1>10 DEF RouteLosesControl, history
    <2>2. Ends(Head(tasks)) BY <1>8, <2>1 DEF Ends
    <2>3. ViewerPressesCleared' /\ ViewerHoldsNothing' /\ PagePressesCleared'
      BY <1>1, <1>8, <2>1, <2>2
    <2>4. Head(tasks).on = FALSE BY <1>3, <1>8, <2>1, TaskFields
    <2>5. networkActive => ~pageFocused BY <1>3, <1>8, <2>1, <2>2 DEF IInv, FocusInv
    <2>6. FocusInv' BY <1>1, <1>8, <2>1, <2>5 DEF FocusInv
    <2>7. QED BY <1>2, <1>8, <2>1, <2>3, <2>4, <2>6 DEF PressesCleared, ControlInv
  <1>11. QED
    BY <1>5, <1>6, <1>7, <1>9, <1>10 DEF DispatchTask

LEMMA ViewerKeepsInv ==
  ASSUME IInv, ViewerStep
  PROVE  PressesCleared' /\ ControlInv' /\ FocusInv'
  <1>1. UNCHANGED <<network, tasks, networkActive, history>>
    BY DEF ViewerStep, ViewerPress, ViewerLift, ViewerFocus, ViewerGone
  <1>2. Booked' = Booked /\ InControl' = InControl /\ leaked' = leaked
    BY <1>1 DEF network, history, Booked, InControl
  <1>3. ControlInv'
    BY <1>1, <1>2 DEF IInv, ControlInv, network, history
  <1>4. PostedPressesCleared' /\ BooksClosed'
    BY <1>1, <1>2
    DEF IInv, PressesCleared, PostedPressesCleared, BooksClosed, network, history
  <1>5. ViewerPressesCleared' /\ ViewerHoldsNothing' /\ PagePressesCleared'
    <2>1. CASE networkActive
      <3>1. UNCHANGED <<page, viewerHeld>>
        BY <2>1 DEF ViewerStep, ViewerPress, ViewerLift, ViewerFocus, ViewerGone
      <3>2. QED
        BY <1>1, <1>2, <3>1
        DEF IInv, PressesCleared, ViewerPressesCleared, ViewerHoldsNothing, PagePressesCleared
    <2>2. CASE ~networkActive
      <3>1. page' \subseteq viewerHeld' \union leaked'
        BY <1>2, <2>2 DEF ViewerStep, ViewerPress, ViewerLift, ViewerFocus, ViewerGone,
             IInv, PressesCleared, ViewerPressesCleared
      <3>2. QED
        BY <1>1, <2>2, <3>1 DEF ViewerPressesCleared, ViewerHoldsNothing, PagePressesCleared
    <2>3. QED BY <2>1, <2>2
  <1>6. FocusInv'
    <2>1. ~networkActive' /\ pageFocused' => viewerFocused'
      <3>1. ~networkActive /\ pageFocused => viewerFocused BY DEF IInv, FocusInv
      <3>2. ASSUME NEW c, ViewerPress(c) \/ ViewerLift(c)
            PROVE  ~networkActive' /\ pageFocused' => viewerFocused'
        <4>1. UNCHANGED <<networkActive, viewerFocused, pageFocused>>
          BY <3>2 DEF ViewerPress, ViewerLift
        <4>2. QED BY <3>1, <4>1
      <3>3. ASSUME NEW b, ViewerFocus(b)
            PROVE  ~networkActive' /\ pageFocused' => viewerFocused'
        <4>1. networkActive' = networkActive /\ viewerFocused' = b
          BY <3>3 DEF ViewerFocus
        <4>2. ~networkActive => pageFocused' = b BY <3>3 DEF ViewerFocus
        <4>3. QED BY <4>1, <4>2
      <3>4. CASE ViewerGone
        BY <3>4 DEF ViewerGone
      <3>5. QED BY <3>2, <3>3, <3>4 DEF ViewerStep
    <2>2. networkActive => (pageFocused' => pageFocused)
      BY DEF ViewerStep, ViewerPress, ViewerLift, ViewerFocus, ViewerGone
    <2>3. QED BY <1>1, <2>1, <2>2 DEF IInv, FocusInv
  <1>7. QED BY <1>3, <1>4, <1>5, <1>6 DEF PressesCleared

-----------------------------------------------------------------------------
(***************************************************************************)
(* The theorems.                                                           *)
(***************************************************************************)

LEMMA InitHasInv == Init => IInv
  <1> HAVE Init
  <1>1. 1 .. Len(tasks) = {} BY DEF Init
  <1>2. networkActive = FALSE /\ InControl = FALSE BY DEF Init, InControl
  <1>3. ControlInv
    <2>1. Agrees(tasks, networkActive, InControl) BY <1>1, <1>2 DEF Agrees
    <2>2. QED BY <2>1 DEF Init, ControlInv
  <1>4. FocusInv BY <1>1 DEF Init, FocusInv, Announced
  <1>5. PressesCleared
    BY <1>1 DEF Init, PressesCleared, ViewerPressesCleared, ViewerHoldsNothing,
         PagePressesCleared, PostedPressesCleared, BooksClosed
  <1>6. QED BY <1>3, <1>4, <1>5, InitHasType DEF IInv

LEMMA NextKeepsInv ==
  ASSUME IInv, [Next]_vars
  PROVE  IInv'
  <1>1. TypeOK' BY NextKeepsType DEF IInv
  <1>2. SUFFICES PressesCleared' /\ ControlInv' /\ FocusInv'
    BY <1>1 DEF IInv
  <1>3. /\ BooksClosed
        /\ routeActive => route.id # 0 /\ (conn = "open" \/ orphaned)
        /\ routeActive \in BOOLEAN /\ orphaned \in BOOLEAN
    BY DEF IInv, TypeOK, PressesCleared, ControlInv
  <1>4. ASSUME UNCHANGED <<tasks, ui, leaked, orphaned, route, routeActive, conn>>
        PROVE  PressesCleared' /\ ControlInv' /\ FocusInv'
    <2>1. BooksSound' BY <1>3, <1>4 DEF BooksSound, BooksClosed
    <2>2. Booked' = Booked /\ InControl' = InControl BY <1>4 DEF Booked, InControl
    <2>3. QED BY <1>4, <2>1, <2>2, QuietStepKeepsInv
  <1>5. CASE Connect
    <2>1. /\ UNCHANGED <<tasks, ui, leaked, orphaned>> /\ conn = "none" /\ conn' = "upgrading"
          /\ route' = NoRoute /\ routeActive' = FALSE
      BY <1>5 DEF Connect, history
    <2>2. Booked = {} /\ Booked' = {} BY <2>1 DEF Booked
    <2>3. routeActive => orphaned BY <1>3, <2>1
    <2>4. InControl' = InControl BY <1>3, <2>1, <2>3 DEF InControl
    <2>5. BooksSound' BY <2>1 DEF BooksSound, BooksClosed
    <2>6. QED BY <2>1, <2>2, <2>4, <2>5, QuietStepKeepsInv
  <1>6. CASE Upgraded
    <2>1. /\ UNCHANGED <<tasks, ui, leaked, orphaned, route, routeActive>>
          /\ conn = "upgrading" /\ conn' = "open"
      BY <1>6 DEF Upgraded, history
    <2>2. Booked = {} /\ InControl' = InControl BY <2>1 DEF Booked, InControl
    <2>3. BooksSound' BY <1>3, <2>1 DEF BooksSound, BooksClosed
    <2>4. QED BY <2>1, <2>2, <2>3, QuietStepKeepsInv
  <1>7. CASE UpgradeFails
    BY <1>7, CloseKeepsInv DEF UpgradeFails
  <1>8. CASE Receive
    BY <1>8, ReceiveKeepsInv
  <1>9. CASE ReadFails \/ WriteFails \/ CheckActivity
    BY <1>9, CloseKeepsInv DEF ReadFails, WriteFails, CheckActivity
  <1>10. CASE AgentDies \/ TimePasses
    BY <1>4, <1>10 DEF AgentDies, TimePasses, history
  <1>11. CASE ForgetSession
    <2>1. /\ UNCHANGED <<tasks, ui, leaked, orphaned, route, routeActive>>
          /\ conn \in {"closing", "cut"} /\ conn' = "none"
      BY <1>11 DEF ForgetSession, history
    <2>2. Booked = {} /\ InControl' = InControl BY <2>1 DEF Booked, InControl
    <2>3. BooksSound' BY <1>3, <2>1 DEF BooksSound, BooksClosed
    <2>4. QED BY <2>1, <2>2, <2>3, QuietStepKeepsInv
  <1>12. CASE DispatchTask
    BY <1>12, DispatchKeepsInv
  <1>13. CASE ViewerStep
    BY <1>13, ViewerKeepsInv
  <1>14. CASE UNCHANGED vars
    BY <1>4, <1>14 DEF vars, network, history
  <1>15. QED
    BY <1>5, <1>6, <1>7, <1>8, <1>9, <1>10, <1>11, <1>12, <1>13, <1>14 DEF Next

LEMMA InvAlways == Spec => []IInv
  BY InitHasInv, NextKeepsInv, PTL DEF Spec

\* No stuck control: once the UI thread has caught up, what the page sees
\* pressed is in the books of whoever controls it, or has left the books in
\* one of the three named ways: through resets, lost connections, timeouts,
\* renewed claims, invalid batches and handlers that run after Close.
THEOREM NoControlIsStuck == Spec => []NoOtherStuckControl
  <1>1. IInv => NoOtherStuckControl
    <2> SUFFICES ASSUME IInv, tasks = <<>>, NEW p \in page
                 PROVE  p \in Accounted \union leaked
      BY DEF NoOtherStuckControl
    <2>1. 1 .. Len(tasks) = {} OBVIOUS
    <2>2. CASE networkActive
      <3>1. Cleared(tasks, 0, p, leaked, Booked)
        BY <2>2 DEF IInv, PressesCleared, PagePressesCleared
      <3>2. p \in leaked \/ p \in Booked BY <2>1, <3>1 DEF Cleared
      <3>3. QED BY <2>2, <3>2 DEF Booked, Accounted
    <2>3. CASE ~networkActive
      BY <2>3 DEF IInv, PressesCleared, ViewerPressesCleared, Accounted
    <2>4. QED BY <2>2, <2>3
  <1>2. QED BY <1>1, InvAlways, PTL

\* Once the UI thread has caught up, BrowserClient's network_input_active_
\* is the server's route_active_, and a route in control belongs to an open
\* session or to the one whose last message was processed after Close.
THEOREM ThreadsAgreeOnControl == Spec => []ControlAgrees
  <1>1. IInv => ControlAgrees
    <2> SUFFICES ASSUME IInv PROVE ControlAgrees OBVIOUS
    <2>1. ASSUME tasks = <<>> PROVE networkActive = InControl
      <3>1. 1 .. Len(tasks) = {} BY <2>1
      <3>2. Agrees(tasks, networkActive, InControl) BY DEF IInv, ControlInv
      <3>3. QED BY <3>1, <3>2 DEF Agrees
    <2>2. QED BY <2>1 DEF IInv, ControlInv, ControlAgrees, InControl
  <1>2. QED BY <1>1, InvAlways, PTL

\* A route that ended does not leave the page focused when the viewer's
\* window is not.
THEOREM FocusAlwaysReturned == Spec => []FocusIsReturned
  <1>1. IInv => FocusIsReturned BY DEF IInv, FocusInv, FocusIsReturned
  <1>2. QED BY <1>1, InvAlways, PTL


=============================================================================
