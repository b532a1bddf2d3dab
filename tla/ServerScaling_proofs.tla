-------------------------- MODULE ServerScaling_proofs --------------------------
(***************************************************************************)
(* Proofs about the viewport's way to the browser.  First the mailbox by   *)
(* itself, for every set of sizes and for both values of StoreLingers:     *)
(* nothing in that part is about ServerScaling's own constants.  Then the  *)
(* compositor, the pipe and the mailbox together.                          *)
(***************************************************************************)
EXTENDS ServerScaling, SequenceTheorems, TLAPS

-----------------------------------------------------------------------------
(***************************************************************************)
(* The mailbox.                                                            *)
(***************************************************************************)

\* The flag covers a running task and a clearing that is on its way; only
\* stores that may linger do.
FlagCovers ==
  /\ ui = "applied" \/ lingering => taskPending
  /\ ui = "applied" => ~lingering
  /\ lingering => StoreLingers

\* The mailbox holds the size stored last, or the view has it.
MailboxHolds ==
  IF pending = 0 THEN view = stored ELSE pending = stored

MailboxInv ==
  /\ MailboxTypeOK /\ OneTask /\ FlagNeverStuck /\ FlagCovers
  /\ NoViewportForgotten /\ MailboxHolds

-----------------------------------------------------------------------------
LEMMA MailboxInvInit == MailboxInit => MailboxInv
<1> SUFFICES ASSUME MailboxInit PROVE MailboxInv
    OBVIOUS
<1>1. /\ ~taskPending /\ ~lingering /\ tasks = 0 /\ pending = 0
      /\ ui = "idle" /\ view = stored
  BY DEF MailboxInit
<1>2. MailboxTypeOK
  <2>1. pending \in Sizes \union {0} /\ view \in Sizes /\ stored \in Sizes
    BY ViewportAssumption DEF MailboxInit
  <2>2. taskPending \in BOOLEAN /\ lingering \in BOOLEAN
    BY Zenon DEF MailboxInit
  <2>3. tasks \in Nat /\ reader \in ReaderSteps /\ ui \in UISteps
    BY DEF MailboxInit, ReaderSteps, UISteps
  <2> QED
    BY <2>1, <2>2, <2>3 DEF MailboxTypeOK
<1> QED
  BY <1>1, <1>2 DEF MailboxInv, OneTask, FlagNeverStuck, FlagCovers,
                    NoViewportForgotten, MailboxHolds

\* What the reader and the UI thread do when they exchange the flag: whoever
\* does it, a task is posted afterwards or one is already running.
LEMMA ExchangePosts ==
  ASSUME MailboxTypeOK, OneTask, FlagNeverStuck, FlagCovers, PostUnlessPending
  PROVE  /\ taskPending' /\ tasks' \in Nat /\ tasks' <= 1
         /\ tasks' = 1 => ui # "applied" /\ ~lingering
         /\ tasks' = 1 \/ ui = "applied" \/ lingering
  BY DEF MailboxTypeOK, OneTask, FlagNeverStuck, FlagCovers, PostUnlessPending

LEMMA MailboxInvStep ==
  ASSUME MailboxInv, [MailboxNext]_mailboxVars
  PROVE  MailboxInv'
<1> USE ViewportAssumption DEF MailboxInv
<1> DEFINE Kept == MailboxTypeOK' /\ OneTask' /\ FlagNeverStuck' /\ FlagCovers'
                     /\ NoViewportForgotten' /\ MailboxHolds'
<1> SUFFICES Kept
    OBVIOUS
<1>1. ASSUME NEW s \in Sizes, Store(s) PROVE Kept
  BY <1>1 DEF Store, MailboxTypeOK, OneTask, FlagNeverStuck, FlagCovers,
              NoViewportForgotten, MailboxHolds, ReaderSteps, UISteps
<1>2. CASE Signal
  <2>1. PostUnlessPending
    BY <1>2 DEF Signal
  <2> QED
    BY <1>2, <2>1, ExchangePosts
    DEF Signal, MailboxTypeOK, OneTask, FlagNeverStuck, FlagCovers,
        NoViewportForgotten, MailboxHolds, ReaderSteps, UISteps
<1>3. CASE Take
  BY <1>3 DEF Take, MailboxTypeOK, OneTask, FlagNeverStuck, FlagCovers,
              NoViewportForgotten, MailboxHolds, ReaderSteps, UISteps
<1>4. CASE Clear
  BY <1>4 DEF Clear, MailboxTypeOK, OneTask, FlagNeverStuck, FlagCovers,
              NoViewportForgotten, MailboxHolds, ReaderSteps, UISteps
<1>5. CASE Recheck
  BY <1>5 DEF Recheck, MailboxTypeOK, OneTask, FlagNeverStuck, FlagCovers,
              NoViewportForgotten, MailboxHolds, ReaderSteps, UISteps
<1>6. CASE Repost
  <2>1. PostUnlessPending
    BY <1>6 DEF Repost
  <2> QED
    BY <1>6, <2>1, ExchangePosts
    DEF Repost, MailboxTypeOK, OneTask, FlagNeverStuck, FlagCovers,
        NoViewportForgotten, MailboxHolds, ReaderSteps, UISteps
<1>7. CASE Drain
  BY <1>7 DEF Drain, MailboxTypeOK, OneTask, FlagNeverStuck, FlagCovers,
              NoViewportForgotten, MailboxHolds, ReaderSteps, UISteps
<1>8. CASE UNCHANGED mailboxVars
  BY <1>8 DEF mailboxVars, MailboxTypeOK, OneTask, FlagNeverStuck, FlagCovers,
              NoViewportForgotten, MailboxHolds
<1> QED
  BY <1>1, <1>2, <1>3, <1>4, <1>5, <1>6, <1>7, <1>8 DEF MailboxNext, ApplyStep

LEMMA MailboxInvariant == MailboxSpec => []MailboxInv
<1>1. MailboxInv /\ [MailboxNext]_mailboxVars => MailboxInv'
  BY MailboxInvStep
<1> QED
  BY MailboxInvInit, <1>1, PTL DEF MailboxSpec

-----------------------------------------------------------------------------
\* Every variable of the mailbox keeps its type.
THEOREM MailboxTypeCorrect == MailboxSpec => []MailboxTypeOK
<1>1. MailboxInv => MailboxTypeOK
  BY DEF MailboxInv
<1> QED
  BY <1>1, MailboxInvariant, PTL

\* QueueViewerViewport and ApplyPendingViewerViewport never have two tasks
\* under way.
THEOREM AtMostOneTask == MailboxSpec => []OneTask
<1>1. MailboxInv => OneTask
  BY DEF MailboxInv
<1> QED
  BY <1>1, MailboxInvariant, PTL

\* viewport_task_pending_ is never left set with no task behind it, even when
\* its clearing lingers in the store buffer.
THEOREM FlagIsNeverStuck == MailboxSpec => []FlagNeverStuck
<1>1. MailboxInv => FlagNeverStuck
  BY DEF MailboxInv
<1> QED
  BY <1>1, MailboxInvariant, PTL

\* With stores that do not linger, a size in pending_viewport_ always has a
\* thread or a task that will look at it.
THEOREM NoViewportIsForgotten == MailboxSpec => []NoViewportForgotten
<1>1. MailboxInv => NoViewportForgotten
  BY DEF MailboxInv
<1> QED
  BY <1>1, MailboxInvariant, PTL

\* Together: what QueueViewerViewport and ApplyPendingViewerViewport have to
\* keep between them.
THEOREM MailboxStaysSound == MailboxSpec => []MailboxIsSound
<1>1. MailboxIsSound <=> OneTask /\ FlagNeverStuck /\ NoViewportForgotten
  BY DEF MailboxIsSound
<1> QED
  BY <1>1, AtMostOneTask, FlagIsNeverStuck, NoViewportIsForgotten, PTL

-----------------------------------------------------------------------------
LEMMA StoreIsAsk ==
  ASSUME NEW s \in Sizes, Store(s)
  PROVE  Register!Next
  BY DEF Store, Register!Next, Register!Ask

\* The exchange takes the size stored last, so it is the abstract Apply.
LEMMA TakeIsApply ==
  ASSUME MailboxHolds, Take
  PROVE  [Register!Next]_Register!vars
<1>1. CASE pending = 0
  BY <1>1 DEF Take, Register!vars
<1>2. CASE pending # 0
  BY <1>2 DEF Take, MailboxHolds, Register!Next, Register!Apply
<1> QED
  BY <1>1, <1>2

LEMMA MailboxStepSimulates ==
  ASSUME MailboxInv, [MailboxNext]_mailboxVars
  PROVE  [Register!Next]_Register!vars
<1>1. ASSUME NEW s \in Sizes, Store(s) PROVE [Register!Next]_Register!vars
  BY <1>1, StoreIsAsk
<1>2. CASE Take
  BY <1>2, TakeIsApply DEF MailboxInv
<1>3. CASE Signal \/ Clear \/ Recheck \/ Repost \/ Drain \/ UNCHANGED mailboxVars
  BY <1>3 DEF Signal, Clear, Recheck, Repost, Drain, mailboxVars, Register!vars
<1> QED
  BY <1>1, <1>2, <1>3 DEF MailboxNext, ApplyStep

\* The mailbox implements the latest-value register: the view only ever takes
\* the size QueueViewerViewport stored last.
THEOREM MailboxImplementsRegister == MailboxSpec => RegisterSafety
<1>1. MailboxInit => Register!Init
  BY DEF MailboxInit, Register!Init
<1>2. MailboxInv /\ [MailboxNext]_mailboxVars => [Register!Next]_Register!vars
  BY MailboxStepSimulates
<1> QED
  BY <1>1, <1>2, MailboxInvariant, PTL DEF MailboxSpec, RegisterSafety, Register!Spec

-----------------------------------------------------------------------------
(***************************************************************************)
(* The mailbox inside ServerScaling: every step there is one of its own.   *)
(***************************************************************************)

LEMMA StepsOfMailbox ==
  ASSUME pipe \in Seq(Sizes), [Next]_vars
  PROVE  [MailboxNext]_mailboxVars
<1>1. CASE ReadRequest
  <2>1. Head(pipe) \in Sizes
    BY <1>1, HeadTailProperties DEF ReadRequest
  <2> QED BY <1>1, <2>1 DEF ReadRequest, MailboxNext
<1>2. CASE SignalViewport \/ ApplyViewport
  BY <1>2 DEF SignalViewport, ApplyViewport, MailboxNext
<1>3. CASE ~(ReadRequest \/ SignalViewport \/ ApplyViewport)
  <2>1. UserStep \/ RenderIfNeeded => UNCHANGED mailboxVars
    BY DEF UserStep, Resize, ToggleScaling, RenderIfNeeded
  <2>2. HandlePost => UNCHANGED mailboxVars
    BY DEF HandlePost, ConnectionUp, ConnectionDown, ConsumeFrame, OpenRing
  <2>3. ClientStep \/ RingRefused \/ LinkBreaks => UNCHANGED mailboxVars
    BY DEF ClientStep, Connect, Accepted, StrayRequest, DeliverFrame, RingRefused, LinkBreaks
  <2>4. (\E s \in Sizes : PaintAfterResize(s)) \/ Repaint \/ RetryViewport => UNCHANGED mailboxVars
    BY DEF PaintAfterResize, Repaint, Paint, RetryViewport
  <2>5. UNCHANGED vars => UNCHANGED mailboxVars
    BY DEF vars
  <2> QED BY <1>3, <2>1, <2>2, <2>3, <2>4, <2>5 DEF Next
<1> QED BY <1>1, <1>2, <1>3

-----------------------------------------------------------------------------
(***************************************************************************)
(* Types.  Nobody offers a ring, hence nobody accepts one or posts a       *)
(* frame, before the view was painted.                                     *)
(***************************************************************************)

PaintedFirst ==
  /\ link \in {"answered", "open"} => content # 0
  /\ unsent => content # 0

ScalingTypes == TypeOK /\ MailboxInv /\ PaintedFirst

\* The parts of TypeOK, by who changes them.
WindowTypes ==
  /\ clientSize \in Clients /\ serverScaling \in BOOLEAN /\ connected \in BOOLEAN
  /\ requested \in Sizes \union {0} /\ shown \in Sizes \union {0}
  /\ needsRender \in BOOLEAN /\ presented \in Sizes \union {0}
ChannelTypes ==
  /\ posts \in Seq(Posts) /\ pipe \in Seq(Sizes)
  /\ link \in {"closed", "greeting", "answered", "open"}
BrowserTypes ==
  /\ content \in Sizes \union {0}
  /\ unsent \in BOOLEAN /\ resizeDue \in BOOLEAN /\ retryPending \in BOOLEAN
  /\ changes \in 0 .. MaxChanges
Types == WindowTypes /\ ChannelTypes /\ BrowserTypes

LEMMA TypesOfScaling == TypeOK <=> MailboxTypeOK /\ Types
BY DEF TypeOK, Types, WindowTypes, ChannelTypes, BrowserTypes

LEMMA WantedIsSize ==
  ASSUME NEW scaling \in BOOLEAN, NEW client \in Clients
  PROVE  Wanted(scaling, client) \in Sizes
BY ScalingAssumption DEF Wanted, Clients

LEMMA SendingKeepsTypes ==
  ASSUME NEW on \in BOOLEAN, NEW scaling \in BOOLEAN, NEW client \in Clients,
         NEW req \in Sizes \union {0}, pipe \in Seq(Sizes),
         SendScalingViewport(on, scaling, client, req)
  PROVE  requested' \in Sizes \union {0} /\ pipe' \in Seq(Sizes)
<1>1. Wanted(scaling, client) \in Sizes
  BY WantedIsSize
<1>2. Append(pipe, Wanted(scaling, client)) \in Seq(Sizes)
  BY <1>1, AppendProperties
<1> QED BY <1>1, <1>2 DEF SendScalingViewport

LEMMA PostsKeepTypes ==
  ASSUME posts \in Seq(Posts)
  PROVE  /\ Append(posts, Up) \in Seq(Posts) /\ Append(posts, Down) \in Seq(Posts)
         /\ \A s \in Sizes : Append(posts, Frame(s)) \in Seq(Posts)
         /\ posts # <<>> => Head(posts) \in Posts /\ Tail(posts) \in Seq(Posts)
<1>1. Up \in Posts /\ Down \in Posts /\ \A s \in Sizes : Frame(s) \in Posts
  BY DEF Posts
<1> QED BY <1>1, AppendProperties, HeadTailProperties

LEMMA WindowStepKeepsTypes ==
  ASSUME Types, PaintedFirst, UserStep \/ HandlePost \/ RenderIfNeeded
  PROVE  Types' /\ PaintedFirst'
<1>0. WindowTypes /\ ChannelTypes /\ BrowserTypes
  BY DEF Types
<1>1. MaxChanges \in Nat
  BY ScalingAssumption
<1>2. posts # <<>> => Head(posts) \in Posts /\ Tail(posts) \in Seq(Posts)
  BY <1>0, PostsKeepTypes DEF ChannelTypes
<1>3. ASSUME NEW c \in Clients, Resize(c) PROVE Types' /\ PaintedFirst'
  <2>1. requested' \in Sizes \union {0} /\ pipe' \in Seq(Sizes)
    <3>1. CASE serverScaling
      <4>1. SendScalingViewport(connected, TRUE, c, requested)
        BY <1>3, <3>1 DEF Resize
      <4> QED BY <1>0, <4>1, SendingKeepsTypes DEF WindowTypes, ChannelTypes
    <3>2. CASE ~serverScaling
      BY <1>0, <1>3, <3>2 DEF Resize, WindowTypes, ChannelTypes
    <3> QED BY <3>1, <3>2
  <2>2. WindowTypes'
    BY <1>0, <1>3, <2>1 DEF Resize, Render, WindowTypes
  <2>3. ChannelTypes'
    BY <1>0, <1>3, <2>1 DEF Resize, ChannelTypes
  <2>4. BrowserTypes' /\ PaintedFirst'
    BY <1>0, <1>1, <1>3 DEF Resize, browser, BrowserTypes, PaintedFirst
  <2> QED BY <2>2, <2>3, <2>4 DEF Types
<1>4. CASE ToggleScaling
  <2>1. requested' \in Sizes \union {0} /\ pipe' \in Seq(Sizes)
    <3>1. SendScalingViewport(connected, ~serverScaling, clientSize, 0)
      BY <1>4 DEF ToggleScaling
    <3>2. connected \in BOOLEAN /\ clientSize \in Clients /\ 0 \in Sizes \union {0}
          /\ pipe \in Seq(Sizes)
      BY <1>0 DEF WindowTypes, ChannelTypes
    <3> DEFINE b == ~serverScaling
    <3>3. b \in BOOLEAN /\ SendScalingViewport(connected, b, clientSize, 0)
      BY <3>1
    <3> HIDE DEF b
    <3> QED BY <3>2, <3>3, SendingKeepsTypes
  <2>2. WindowTypes'
    BY <1>0, <1>4, <2>1 DEF ToggleScaling, screen, WindowTypes
  <2>3. ChannelTypes'
    BY <1>0, <1>4, <2>1 DEF ToggleScaling, ChannelTypes
  <2>4. BrowserTypes' /\ PaintedFirst'
    BY <1>0, <1>1, <1>4 DEF ToggleScaling, browser, BrowserTypes, PaintedFirst
  <2> QED BY <2>2, <2>3, <2>4 DEF Types
<1>5. CASE ConnectionUp
  <2>1. requested' \in Sizes \union {0} /\ pipe' \in Seq(Sizes)
    <3>1. CASE serverScaling
      <4>1. SendScalingViewport(TRUE, TRUE, clientSize, requested)
        BY <1>5, <3>1 DEF ConnectionUp
      <4> QED BY <1>0, <4>1, SendingKeepsTypes DEF WindowTypes, ChannelTypes
    <3>2. CASE ~serverScaling
      BY <1>0, <1>5, <3>2 DEF ConnectionUp, WindowTypes, ChannelTypes
    <3> QED BY <3>1, <3>2
  <2>2. WindowTypes'
    BY <1>0, <1>5, <2>1 DEF ConnectionUp, screen, WindowTypes
  <2>3. ChannelTypes'
    BY <1>0, <1>2, <1>5, <2>1 DEF ConnectionUp, Posted, ChannelTypes
  <2>4. BrowserTypes' /\ PaintedFirst'
    BY <1>0, <1>5 DEF ConnectionUp, browser, BrowserTypes, PaintedFirst
  <2> QED BY <2>2, <2>3, <2>4 DEF Types
<1>6. CASE ConnectionDown
  <2>1. WindowTypes'
    BY <1>0, <1>6 DEF ConnectionDown, screen, WindowTypes
  <2>2. ChannelTypes'
    BY <1>0, <1>2, <1>6 DEF ConnectionDown, Posted, ChannelTypes
  <2>3. BrowserTypes' /\ PaintedFirst'
    BY <1>0, <1>6 DEF ConnectionDown, browser, BrowserTypes, PaintedFirst
  <2> QED BY <2>1, <2>2, <2>3 DEF Types
<1>7. CASE ConsumeFrame
  <2>1. Head(posts).size \in Sizes
    BY <1>2, <1>7 DEF ConsumeFrame, Posted, Posts, Up, Down, Frame
  <2>2. WindowTypes'
    BY <1>0, <1>7, <2>1 DEF ConsumeFrame, WindowTypes
  <2>3. ChannelTypes'
    BY <1>0, <1>2, <1>7 DEF ConsumeFrame, Posted, ChannelTypes
  <2>4. BrowserTypes' /\ PaintedFirst'
    BY <1>0, <1>7 DEF ConsumeFrame, browser, BrowserTypes, PaintedFirst
  <2> QED BY <2>2, <2>3, <2>4 DEF Types
<1>8. CASE OpenRing
  <2>1. WindowTypes' /\ ChannelTypes'
    BY <1>0, <1>8 DEF OpenRing, WithoutFrame, WindowTypes, ChannelTypes
  <2>2. BrowserTypes' /\ PaintedFirst'
    BY <1>0, <1>8 DEF OpenRing, RingOffered, browser, BrowserTypes, PaintedFirst
  <2> QED BY <2>1, <2>2 DEF Types
<1>9. CASE RenderIfNeeded
  <2>1. WindowTypes' /\ ChannelTypes'
    BY <1>0, <1>9 DEF RenderIfNeeded, Render, channel, WindowTypes, ChannelTypes
  <2>2. BrowserTypes' /\ PaintedFirst'
    BY <1>0, <1>9 DEF RenderIfNeeded, channel, browser, BrowserTypes, PaintedFirst
  <2> QED BY <2>1, <2>2 DEF Types
<1> QED BY <1>3, <1>4, <1>5, <1>6, <1>7, <1>8, <1>9 DEF UserStep, HandlePost

LEMMA LinkStepKeepsTypes ==
  ASSUME Types, PaintedFirst, ClientStep \/ RingRefused \/ LinkBreaks
  PROVE  Types' /\ PaintedFirst'
<1>0. WindowTypes /\ ChannelTypes /\ BrowserTypes
  BY DEF Types
<1>1. MaxChanges \in Nat
  BY ScalingAssumption
<1>2. /\ Append(posts, Up) \in Seq(Posts) /\ Append(posts, Down) \in Seq(Posts)
      /\ \A s \in Sizes : Append(posts, Frame(s)) \in Seq(Posts)
  BY <1>0, PostsKeepTypes DEF ChannelTypes
<1>3. <<>> \in Seq(Sizes)
  OBVIOUS
<1>4. CASE Connect
  BY <1>0, <1>4 DEF Connect, window, screen, browser, Types, WindowTypes, ChannelTypes,
                    BrowserTypes, PaintedFirst
<1>5. CASE Accepted
  <2>1. WindowTypes' /\ ChannelTypes'
    BY <1>0, <1>2, <1>5 DEF Accepted, window, screen, WindowTypes, ChannelTypes
  <2>2. BrowserTypes' /\ PaintedFirst'
    BY <1>0, <1>5 DEF Accepted, BrowserTypes, PaintedFirst
  <2> QED BY <2>1, <2>2 DEF Types
<1>6. CASE StrayRequest \/ RingRefused \/ LinkBreaks
  <2>1. Close /\ UNCHANGED browser
    BY <1>6 DEF StrayRequest, RingRefused, LinkBreaks
  <2>2. ChannelTypes'
    BY <1>2, <1>3, <2>1 DEF Close, ChannelTypes
  <2>3. WindowTypes'
    BY <1>0, <1>6 DEF StrayRequest, RingRefused, LinkBreaks, WithoutFrame, window, screen, WindowTypes
  <2>4. changes' \in 0 .. MaxChanges
    BY <1>0, <1>1, <1>6 DEF StrayRequest, RingRefused, LinkBreaks, BrowserTypes
  <2>5. BrowserTypes' /\ PaintedFirst'
    BY <1>0, <2>1, <2>4 DEF Close, browser, BrowserTypes, PaintedFirst
  <2> QED BY <2>2, <2>3, <2>5 DEF Types
<1>7. CASE DeliverFrame
  <2>1. content \in Sizes
    BY <1>0, <1>7 DEF DeliverFrame, PaintedFirst, BrowserTypes
  <2>2. WindowTypes' /\ ChannelTypes'
    BY <1>0, <1>2, <1>7, <2>1 DEF DeliverFrame, window, screen, WindowTypes, ChannelTypes
  <2>3. BrowserTypes' /\ PaintedFirst'
    BY <1>0, <1>7 DEF DeliverFrame, BrowserTypes, PaintedFirst
  <2> QED BY <2>2, <2>3 DEF Types
<1> QED BY <1>4, <1>5, <1>6, <1>7 DEF ClientStep

LEMMA BrowserStepKeepsTypes ==
  ASSUME Types, PaintedFirst, MailboxTypeOK,
         \/ ReadRequest \/ SignalViewport \/ ApplyViewport
         \/ (\E s \in Sizes : PaintAfterResize(s)) \/ Repaint \/ RetryViewport
         \/ UNCHANGED vars
  PROVE  Types' /\ PaintedFirst'
<1>0. WindowTypes /\ ChannelTypes /\ BrowserTypes
  BY DEF Types
<1>1. CASE ReadRequest
  <2>1. Tail(pipe) \in Seq(Sizes)
    BY <1>0, <1>1, HeadTailProperties DEF ReadRequest, ChannelTypes
  <2>2. WindowTypes' /\ ChannelTypes'
    BY <1>0, <1>1, <2>1 DEF ReadRequest, window, screen, WindowTypes, ChannelTypes
  <2>3. BrowserTypes' /\ PaintedFirst'
    BY <1>0, <1>1 DEF ReadRequest, browser, BrowserTypes, PaintedFirst
  <2> QED BY <2>2, <2>3 DEF Types
<1>2. CASE SignalViewport \/ UNCHANGED vars
  <2>1. UNCHANGED <<window, channel, browser, changes>>
    BY <1>2 DEF SignalViewport, vars
  <2> QED BY <1>0, <2>1 DEF window, screen, channel, browser, Types, WindowTypes, ChannelTypes,
                            BrowserTypes, PaintedFirst
<1>3. CASE ApplyViewport
  <2>1. WindowTypes' /\ ChannelTypes'
    BY <1>0, <1>3 DEF ApplyViewport, window, screen, channel, WindowTypes, ChannelTypes
  <2>2. resizeDue' \in BOOLEAN
    BY <1>0, <1>3 DEF ApplyViewport, BrowserTypes
  <2>3. UNCHANGED <<content, unsent, retryPending, changes, link>>
    BY <1>3 DEF ApplyViewport, channel
  <2>4. BrowserTypes'
    BY <1>0, <2>2, <2>3 DEF BrowserTypes
  <2>5. PaintedFirst'
    BY <2>3 DEF PaintedFirst
  <2> QED BY <2>1, <2>4, <2>5 DEF Types
<1>4. CASE (\E s \in Sizes : PaintAfterResize(s)) \/ Repaint
  <2>1. PICK s \in Sizes : Paint(s)
    BY <1>0, <1>4 DEF PaintAfterResize, Repaint, BrowserTypes
  <2>2. s # 0
    BY ViewportAssumption
  <2>3. WindowTypes' /\ ChannelTypes'
    BY <1>0, <2>1 DEF Paint, window, screen, channel, WindowTypes, ChannelTypes
  <2>4. retryPending' \in BOOLEAN
    BY <1>0, <2>1 DEF Paint, BrowserTypes
  <2>5. content' = s /\ unsent' = TRUE /\ resizeDue' = FALSE /\ changes' = changes
    BY <2>1 DEF Paint
  <2>6. BrowserTypes' /\ PaintedFirst'
    BY <1>0, <2>2, <2>4, <2>5 DEF BrowserTypes, PaintedFirst
  <2> QED BY <2>3, <2>6 DEF Types
<1>5. CASE RetryViewport
  <2>1. WindowTypes' /\ ChannelTypes'
    BY <1>0, <1>5 DEF RetryViewport, window, screen, channel, WindowTypes, ChannelTypes
  <2>2. resizeDue' \in BOOLEAN
    BY <1>0, <1>5 DEF RetryViewport, BrowserTypes
  <2>3. retryPending' = FALSE /\ UNCHANGED <<content, unsent, changes, link>>
    BY <1>5 DEF RetryViewport, channel
  <2>4. BrowserTypes' /\ PaintedFirst'
    BY <1>0, <2>2, <2>3 DEF BrowserTypes, PaintedFirst
  <2> QED BY <2>1, <2>4 DEF Types
<1> QED BY <1>1, <1>2, <1>3, <1>4, <1>5

LEMMA ScalingTypesHold == Spec => []ScalingTypes
<1>1. Init => ScalingTypes
  <2> SUFFICES ASSUME Init PROVE ScalingTypes
    OBVIOUS
  <2>1. MailboxInv
    BY MailboxInvInit DEF Init
  <2>2. MaxChanges \in Nat /\ <<>> \in Seq(Posts) /\ <<>> \in Seq(Sizes)
    BY ScalingAssumption
  <2>3. WindowTypes /\ ChannelTypes
    BY <2>2 DEF Init, WindowTypes, ChannelTypes
  <2>4. BrowserTypes
    <3>1. changes \in 0 .. MaxChanges
      BY <2>2 DEF Init
    <3> QED BY <3>1 DEF Init, BrowserTypes
  <2>5. PaintedFirst
    BY DEF Init, PaintedFirst
  <2> QED BY <2>1, <2>3, <2>4, <2>5, TypesOfScaling DEF ScalingTypes, Types, MailboxInv
<1>2. ScalingTypes /\ [Next]_vars => ScalingTypes'
  <2> SUFFICES ASSUME ScalingTypes, [Next]_vars PROVE ScalingTypes'
    OBVIOUS
  <2>1. MailboxTypeOK /\ Types /\ PaintedFirst /\ pipe \in Seq(Sizes)
    BY TypesOfScaling DEF ScalingTypes, Types, ChannelTypes
  <2>2. [MailboxNext]_mailboxVars
    BY <2>1, StepsOfMailbox
  <2>3. MailboxInv'
    BY <2>2, MailboxInvStep DEF ScalingTypes
  <2>4. Types' /\ PaintedFirst'
    BY <2>1, WindowStepKeepsTypes, LinkStepKeepsTypes, BrowserStepKeepsTypes DEF Next
  <2>5. TypeOK' <=> MailboxTypeOK' /\ Types'
    BY DEF TypeOK, Types, WindowTypes, ChannelTypes, BrowserTypes
  <2> QED BY <2>3, <2>4, <2>5 DEF ScalingTypes, MailboxInv
<1> QED BY <1>1, <1>2, PTL DEF Spec

\* Every variable of the system keeps its type; above all, no frame is posted
\* and no ring accepted before the view was painted.
THEOREM TypeCorrect == Spec => []TypeOK
<1>1. ScalingTypes => TypeOK
  BY DEF ScalingTypes
<1> QED BY <1>1, ScalingTypesHold, PTL

\* What the compositor, the pipe and Chromium do to the mailbox keeps to the
\* mailbox's own specification, and it stays sound among them.
THEOREM ScalingKeepsMailbox == Spec => MailboxSpec
<1>1. Init => MailboxInit
  BY DEF Init
<1>2. ScalingTypes /\ [Next]_vars => [MailboxNext]_mailboxVars
  BY StepsOfMailbox DEF ScalingTypes, TypeOK
<1> QED BY <1>1, <1>2, ScalingTypesHold, PTL DEF Spec, MailboxSpec

\* So among the compositor, the pipe and Chromium no size is forgotten in the
\* mailbox, and the browser only ever takes the size read last.
THEOREM MailboxServesScaling == Spec => []MailboxIsSound /\ RegisterSafety
BY ScalingKeepsMailbox, MailboxStaysSound, MailboxImplementsRegister, PTL

-----------------------------------------------------------------------------
(***************************************************************************)
(* The request.  While the link is not open, whatever the window believes  *)
(* of it belongs to an earlier connection, and a Down that will correct    *)
(* the belief is posted, behind every Up.  So none of it is left when the  *)
(* next connection opens.                                                  *)
(***************************************************************************)

DownAfter(i) == \E j \in DOMAIN posts : i <= j /\ posts[j] = Down

BeliefEnds ==
  link # "open" =>
    /\ connected \/ requested # 0 => \E j \in DOMAIN posts : posts[j] = Down
    /\ \A i \in DOMAIN posts : posts[i] = Up => DownAfter(i)

RequestInv == BeliefEnds /\ RequestIsNotStale

LEMMA KindsDiffer ==
  /\ Up # Down /\ \A s : Frame(s) # Up /\ Frame(s) # Down
  /\ \A p \in Posts : /\ p.type = "Up" <=> p = Up
                      /\ p.type = "Down" <=> p = Down
BY DEF Up, Down, Frame, Posts

\* What is posted once the first is handled, or one more.
LEMMA PostsWithoutHead ==
  ASSUME posts \in Seq(Posts), posts # <<>>, posts' = Tail(posts)
  PROVE  /\ Head(posts) = posts[1] /\ 1 \in DOMAIN posts
         /\ \A i \in DOMAIN posts' : i + 1 \in DOMAIN posts /\ posts'[i] = posts[i + 1]
         /\ \A i \in DOMAIN posts : i # 1 => i - 1 \in DOMAIN posts' /\ posts[i] = posts'[i - 1]
         /\ DOMAIN posts \subseteq Nat
OBVIOUS

LEMMA PostsWithOneMore ==
  ASSUME posts \in Seq(Posts), NEW p \in Posts, posts' = Append(posts, p)
  PROVE  /\ \A i \in DOMAIN posts : i \in DOMAIN posts' /\ posts'[i] = posts[i]
         /\ \A i \in DOMAIN posts' : (i \in DOMAIN posts /\ posts'[i] = posts[i])
                                     \/ (i = Len(posts) + 1 /\ posts'[i] = p)
         /\ Len(posts) + 1 \in DOMAIN posts' /\ posts'[Len(posts) + 1] = p
         /\ \A i \in DOMAIN posts' : i <= Len(posts) + 1
OBVIOUS

\* Handling anything but a Down keeps the Downs.
LEMMA HandlingKeepsDowns ==
  ASSUME posts \in Seq(Posts), posts # <<>>, posts' = Tail(posts), Head(posts) # Down
  PROVE  /\ (\E j \in DOMAIN posts' : posts'[j] = Down) <=> (\E j \in DOMAIN posts : posts[j] = Down)
         /\ (\A i \in DOMAIN posts : posts[i] = Up => DownAfter(i)) =>
              \A i \in DOMAIN posts' : posts'[i] = Up => DownAfter(i)'
<1>1. /\ Head(posts) = posts[1] /\ 1 \in DOMAIN posts
      /\ \A i \in DOMAIN posts' : i + 1 \in DOMAIN posts /\ posts'[i] = posts[i + 1]
      /\ \A i \in DOMAIN posts : i # 1 => i - 1 \in DOMAIN posts' /\ posts[i] = posts'[i - 1]
      /\ DOMAIN posts \subseteq Nat
  BY PostsWithoutHead
<1>2. (\E j \in DOMAIN posts' : posts'[j] = Down) <=> (\E j \in DOMAIN posts : posts[j] = Down)
  BY ZenonT(30), <1>1
<1>3. ASSUME \A i \in DOMAIN posts : posts[i] = Up => DownAfter(i),
             NEW i \in DOMAIN posts', posts'[i] = Up
      PROVE  DownAfter(i)'
  <2>1. i + 1 \in DOMAIN posts /\ posts[i + 1] = Up
    BY <1>1, <1>3
  <2>2. PICK j \in DOMAIN posts : i + 1 <= j /\ posts[j] = Down
    BY <1>3, <2>1 DEF DownAfter
  <2>3. j # 1
    BY <1>1, <2>2
  <2>4. j - 1 \in DOMAIN posts' /\ posts'[j - 1] = Down
    BY <1>1, <2>2, <2>3
  <2>5. i <= j - 1
    <3>1. i \in Nat /\ j \in Nat
      BY <1>1, <2>2 
    <3> QED BY <2>2, <3>1
  <2> QED BY <2>4, <2>5 DEF DownAfter
<1> QED BY <1>2, <1>3

\* Posting an Up or a frame, or nothing, keeps every Down.
LEMMA PostingKeepsDowns ==
  ASSUME posts \in Seq(Posts), posts' = posts \/ \E p \in Posts : posts' = Append(posts, p)
  PROVE  (\E j \in DOMAIN posts : posts[j] = Down) => \E j \in DOMAIN posts' : posts'[j] = Down
BY PostsWithOneMore

\* Closing corrects whatever the window believes.
LEMMA ClosingKeepsRequest ==
  ASSUME posts \in Seq(Posts), Close
  PROVE  RequestInv'
<1>1. link' = "closed" /\ posts' = Append(posts, Down) /\ Down \in Posts
  BY DEF Close, Posts
<1>2. /\ Len(posts) + 1 \in DOMAIN posts' /\ posts'[Len(posts) + 1] = Down
      /\ \A i \in DOMAIN posts' : i <= Len(posts) + 1
  BY <1>1, PostsWithOneMore
<1>3. BeliefEnds'
  BY <1>2 DEF BeliefEnds, DownAfter
<1> QED BY <1>1, <1>3 DEF RequestInv, RequestIsNotStale

\* LastSent after a send, after a reading, and when nothing is sent.
LEMMA LastSentAfter ==
  ASSUME pipe \in Seq(Sizes)
  PROVE  /\ \A s \in Sizes : pipe' = Append(pipe, s) => LastSent' = s
         /\ pipe # <<>> /\ pipe' = Tail(pipe) /\ stored' = Head(pipe) => LastSent' = LastSent
         /\ pipe' = pipe /\ stored' = stored => LastSent' = LastSent
<1>1. ASSUME NEW s \in Sizes, pipe' = Append(pipe, s) PROVE LastSent' = s
  BY <1>1 DEF LastSent
<1>2. ASSUME pipe # <<>>, pipe' = Tail(pipe), stored' = Head(pipe) PROVE LastSent' = LastSent
  <2>1. Head(pipe) = pipe[1] /\ Len(pipe) \in Nat /\ Len(pipe) > 0
    BY <1>2
  <2>2. CASE Len(pipe) = 1
    <3>1. Tail(pipe) = <<>>
      BY <1>2, <2>2
    <3> QED BY <1>2, <2>1, <2>2, <3>1 DEF LastSent
  <2>3. CASE Len(pipe) # 1
    <3>1. Len(Tail(pipe)) = Len(pipe) - 1 /\ Len(pipe) - 1 # 0
      BY <1>2, <2>1, <2>3
    <3>2. Tail(pipe) # <<>>
      BY <3>1
    <3>3. Tail(pipe)[Len(pipe) - 1] = pipe[Len(pipe)]
      <4>1. PICK n \in Nat : n = Len(pipe) /\ n - 1 \in 1 .. (n - 1) /\ (n - 1) + 1 = n
        BY <2>1, <2>3
      <4>2. \A i \in 1 .. (n - 1) : Tail(pipe)[i] = pipe[i + 1]
        BY <1>2, <4>1, HeadTailProperties
      <4> QED BY <4>1, <4>2
    <3>4. LastSent' = pipe'[Len(pipe')]
      <4>1. pipe' # <<>>
        BY <1>2, <3>2, Zenon
      <4> QED BY <4>1, Zenon DEF LastSent
    <3>5. pipe'[Len(pipe')] = pipe[Len(pipe)]
      BY <1>2, <3>1, <3>3, Zenon
    <3> QED BY <1>2, <3>4, <3>5 DEF LastSent
  <2> QED BY <2>2, <2>3
<1>3. pipe' = pipe /\ stored' = stored => LastSent' = LastSent
  BY DEF LastSent
<1> QED BY <1>1, <1>2, <1>3

\* What a send does to the request, wherever it is called from.
LEMMA SendingRemembers ==
  ASSUME ScalingTypes, NEW on \in BOOLEAN, NEW scaling \in BOOLEAN, NEW client \in Clients,
         NEW req, req \in {requested, 0}, stored' = stored,
         SendScalingViewport(on, scaling, client, req)
  PROVE  \/ on /\ requested' = LastSent'
         \/ requested' = req /\ LastSent' = LastSent
<1>1. pipe \in Seq(Sizes) /\ Wanted(scaling, client) \in Sizes
  BY WantedIsSize DEF ScalingTypes, TypeOK
<1> QED BY <1>1, LastSentAfter DEF SendScalingViewport

LEMMA WindowKeepsRequest ==
  ASSUME ScalingTypes, RequestInv, UserStep \/ HandlePost \/ RenderIfNeeded
  PROVE  RequestInv'
<1>0. /\ posts \in Seq(Posts) /\ pipe \in Seq(Sizes)
      /\ connected \in BOOLEAN /\ serverScaling \in BOOLEAN /\ clientSize \in Clients
  BY DEF ScalingTypes, TypeOK
<1>1. CASE UserStep
  <2>1. UNCHANGED <<posts, link, connected, stored>>
    BY <1>1 DEF UserStep, Resize, ToggleScaling, mailboxVars
  <2>2. \/ connected /\ requested' = LastSent'
        \/ requested' \in {requested, 0} /\ LastSent' = LastSent
    <3>1. ASSUME NEW c \in Clients, Resize(c)
          PROVE  \/ connected /\ requested' = LastSent'
                 \/ requested' = requested /\ LastSent' = LastSent
      <4>1. CASE serverScaling
        <5>1. SendScalingViewport(connected, TRUE, c, requested)
          BY <3>1, <4>1 DEF Resize
        <5> QED BY <1>0, <2>1, <5>1, SendingRemembers
      <4>2. CASE ~serverScaling
        BY <1>0, <2>1, <3>1, <4>2, LastSentAfter DEF Resize
      <4> QED BY <4>1, <4>2
    <3>2. ASSUME ToggleScaling
          PROVE  \/ connected /\ requested' = LastSent'
                 \/ requested' = 0 /\ LastSent' = LastSent
      <4> DEFINE b == ~serverScaling
      <4>1. b \in BOOLEAN /\ SendScalingViewport(connected, b, clientSize, 0)
        BY <3>2 DEF ToggleScaling
      <4> HIDE DEF b
      <4> QED BY <1>0, <2>1, <4>1, SendingRemembers
    <3> QED BY <1>1, <3>1, <3>2 DEF UserStep
  <2>3. BeliefEnds'
    BY <2>1, <2>2 DEF RequestInv, BeliefEnds, DownAfter
  <2>4. RequestIsNotStale'
    BY <2>1, <2>2 DEF RequestInv, RequestIsNotStale
  <2> QED BY <2>3, <2>4 DEF RequestInv
<1>2. CASE ConnectionUp
  <2>1. posts # <<>> /\ posts' = Tail(posts) /\ connected' = TRUE /\ UNCHANGED <<link, stored>>
    BY <1>2 DEF ConnectionUp, Posted, mailboxVars
  <2>2. Head(posts) \in Posts
    BY <1>0, <2>1, HeadTailProperties
  <2>3. Head(posts) = Up
    BY <1>2, <2>2, KindsDiffer DEF ConnectionUp, Posted
  <2>4. /\ (\E j \in DOMAIN posts' : posts'[j] = Down) <=> (\E j \in DOMAIN posts : posts[j] = Down)
        /\ (\A i \in DOMAIN posts : posts[i] = Up => DownAfter(i)) =>
             \A i \in DOMAIN posts' : posts'[i] = Up => DownAfter(i)'
    BY <1>0, <2>1, <2>3, KindsDiffer, HandlingKeepsDowns
  <2>5. \/ requested' = LastSent'
        \/ requested' = requested /\ LastSent' = LastSent
    <3>1. CASE serverScaling
      <4>1. SendScalingViewport(TRUE, TRUE, clientSize, requested)
        BY <1>2, <3>1 DEF ConnectionUp
      <4> QED BY <1>0, <2>1, <4>1, SendingRemembers
    <3>2. CASE ~serverScaling
      BY <1>0, <1>2, <2>1, <3>2, LastSentAfter DEF ConnectionUp
    <3> QED BY <3>1, <3>2
  <2>6. BeliefEnds'
    <3>1. ASSUME link # "open" PROVE \E j \in DOMAIN posts : posts[j] = Down
      <4>1. 1 \in DOMAIN posts /\ posts[1] = Up
        BY <1>0, <2>1, <2>3
      <4> QED BY <3>1, <4>1 DEF RequestInv, BeliefEnds, DownAfter
    <3> QED BY <2>1, <2>4, <3>1 DEF RequestInv, BeliefEnds
  <2>7. RequestIsNotStale'
    BY <2>1, <2>4, <2>5 DEF RequestInv, RequestIsNotStale
  <2> QED BY <2>6, <2>7 DEF RequestInv
<1>3. CASE ConnectionDown
  <2>1. posts # <<>> /\ posts' = Tail(posts) /\ connected' = FALSE /\ requested' = 0 /\ link' = link
    BY <1>3 DEF ConnectionDown, Posted
  <2>2. /\ \A i \in DOMAIN posts' : i + 1 \in DOMAIN posts /\ posts'[i] = posts[i + 1]
        /\ \A i \in DOMAIN posts : i # 1 => i - 1 \in DOMAIN posts' /\ posts[i] = posts'[i - 1]
        /\ DOMAIN posts \subseteq Nat /\ DOMAIN posts' \subseteq Nat \ {0}
    BY <1>0, <2>1
  <2>3. ASSUME \A i \in DOMAIN posts : posts[i] = Up => DownAfter(i),
               NEW i \in DOMAIN posts', posts'[i] = Up
        PROVE  DownAfter(i)'
    <3>1. i + 1 \in DOMAIN posts /\ posts[i + 1] = Up
      BY <2>2, <2>3
    <3>2. PICK j \in DOMAIN posts : i + 1 <= j /\ posts[j] = Down
      BY <2>3, <3>1 DEF DownAfter
    <3>3. i \in Nat \ {0} /\ j \in Nat
      BY <2>2
    <3>4. j # 1 /\ i <= j - 1
      BY <3>2, <3>3
    <3> QED BY <2>2, <3>2, <3>4 DEF DownAfter
  <2> QED BY <2>1, <2>3 DEF RequestInv, BeliefEnds, RequestIsNotStale
<1>4. CASE ConsumeFrame
  <2>1. posts # <<>> /\ posts' = Tail(posts) /\ Head(posts) # Down
        /\ UNCHANGED <<link, connected, requested, pipe, stored>>
    BY <1>4 DEF ConsumeFrame, Posted, mailboxVars, Down
  <2>2. /\ (\E j \in DOMAIN posts' : posts'[j] = Down) <=> (\E j \in DOMAIN posts : posts[j] = Down)
        /\ (\A i \in DOMAIN posts : posts[i] = Up => DownAfter(i)) =>
             \A i \in DOMAIN posts' : posts'[i] = Up => DownAfter(i)'
    BY <1>0, <2>1, HandlingKeepsDowns
  <2>3. LastSent' = LastSent
    BY <1>0, <2>1, LastSentAfter
  <2>4. BeliefEnds'
    BY <2>1, <2>2 DEF RequestInv, BeliefEnds
  <2>5. RequestIsNotStale'
    BY <2>1, <2>2, <2>3 DEF RequestInv, RequestIsNotStale
  <2> QED BY <2>4, <2>5 DEF RequestInv
<1>5. CASE OpenRing \/ RenderIfNeeded
  <2>1. UNCHANGED <<posts, connected, requested, pipe, stored>>
        /\ (link' = link \/ (link # "open" /\ link' # "open"))
    BY <1>5 DEF OpenRing, RingOffered, RenderIfNeeded, channel, mailboxVars
  <2> QED BY <2>1 DEF RequestInv, BeliefEnds, DownAfter, RequestIsNotStale, LastSent
<1> QED BY <1>1, <1>2, <1>3, <1>4, <1>5 DEF HandlePost

LEMMA OthersKeepRequest ==
  ASSUME ScalingTypes, RequestInv,
         \/ ClientStep \/ RingRefused \/ LinkBreaks
         \/ ReadRequest \/ SignalViewport \/ ApplyViewport
         \/ (\E s \in Sizes : PaintAfterResize(s)) \/ Repaint \/ RetryViewport
         \/ UNCHANGED vars
  PROVE  RequestInv'
<1>0. posts \in Seq(Posts) /\ pipe \in Seq(Sizes)
  BY DEF ScalingTypes, TypeOK
<1>1. CASE StrayRequest \/ RingRefused \/ LinkBreaks
  BY <1>0, <1>1, ClosingKeepsRequest DEF StrayRequest, RingRefused, LinkBreaks
<1>2. CASE Connect
  <2>1. UNCHANGED <<posts, connected, requested>> /\ link # "open" /\ link' # "open"
    BY <1>2 DEF Connect, window
  <2> QED BY <2>1 DEF RequestInv, BeliefEnds, DownAfter, RequestIsNotStale
<1>3. CASE Accepted
  <2>1. /\ link # "open" /\ link' = "open" /\ requested' = requested
        /\ posts' = Append(posts, Up) /\ Up \in Posts
    BY <1>3 DEF Accepted, window, Posts
  <2>2. requested # 0 => \E j \in DOMAIN posts' : posts'[j] = Down
    BY <1>0, <2>1, PostingKeepsDowns DEF RequestInv, BeliefEnds
  <2> QED BY <2>1, <2>2 DEF RequestInv, BeliefEnds, RequestIsNotStale
<1>4. CASE DeliverFrame
  <2>1. /\ link = "open" /\ UNCHANGED <<link, requested, pipe, stored>>
        /\ posts' = Append(posts, Frame(content)) /\ Frame(content) \in Posts
    BY <1>4 DEF DeliverFrame, window, mailboxVars, Posts, ScalingTypes, TypeOK, PaintedFirst
  <2>2. (\E j \in DOMAIN posts : posts[j] = Down) => \E j \in DOMAIN posts' : posts'[j] = Down
    BY <1>0, <2>1, PostingKeepsDowns
  <2>3. LastSent' = LastSent
    BY <1>0, <2>1, LastSentAfter
  <2> QED BY <2>1, <2>2, <2>3 DEF RequestInv, BeliefEnds, RequestIsNotStale
<1>5. CASE ReadRequest
  <2>1. /\ link = "open" /\ UNCHANGED <<posts, link, requested>>
        /\ pipe # <<>> /\ pipe' = Tail(pipe) /\ stored' = Head(pipe)
    BY <1>5 DEF ReadRequest, Store, window
  <2>2. LastSent' = LastSent
    BY <1>0, <2>1, LastSentAfter
  <2> QED BY <2>1, <2>2 DEF RequestInv, BeliefEnds, RequestIsNotStale
<1>6. CASE \/ SignalViewport \/ ApplyViewport
           \/ (\E s \in Sizes : PaintAfterResize(s)) \/ Repaint \/ RetryViewport
           \/ UNCHANGED vars
  <2>1. UNCHANGED <<posts, link, connected, requested, pipe, stored>>
    <3>1. SignalViewport \/ ApplyViewport => UNCHANGED <<posts, link, connected, requested, pipe, stored>>
      BY DEF SignalViewport, Signal, ApplyViewport, ApplyStep, Take, Clear, Recheck, Repost,
             window, channel
    <3>2. (\E s \in Sizes : PaintAfterResize(s)) \/ Repaint \/ RetryViewport \/ UNCHANGED vars
            => UNCHANGED <<posts, link, connected, requested, pipe, stored>>
      BY DEF PaintAfterResize, Repaint, Paint, RetryViewport, vars, window, channel, mailboxVars
    <3> QED BY <1>6, <3>1, <3>2
  <2> QED BY <2>1 DEF RequestInv, BeliefEnds, DownAfter, RequestIsNotStale, LastSent
<1> QED BY <1>1, <1>2, <1>3, <1>4, <1>5, <1>6 DEF ClientStep

\* SendScalingViewport may rely on the size it remembers: it is the last one
\* the producer was sent on this connection and will apply, through any number
\* of resizes, mode changes, refused rings and reconnections.
THEOREM RequestIsNeverStale == Spec => []RequestIsNotStale
<1>1. Init => RequestInv
  BY DEF Init, RequestInv, BeliefEnds, RequestIsNotStale
<1>2. ScalingTypes /\ RequestInv /\ [Next]_vars => RequestInv'
  BY WindowKeepsRequest, OthersKeepRequest DEF Next
<1>3. RequestInv => RequestIsNotStale
  BY DEF RequestInv
<1> QED BY <1>1, <1>2, <1>3, ScalingTypesHold, PTL DEF Spec

=============================================================================
