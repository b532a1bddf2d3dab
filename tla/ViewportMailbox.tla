---------------------------- MODULE ViewportMailbox ----------------------------
(***************************************************************************)
(* How the producer passes a viewport size from the pipe's reader thread   *)
(* (QueueViewerViewport) to the CEF UI thread (ApplyPendingViewerViewport):*)
(* one atomic that holds the newest size, 0 for none, and one flag that    *)
(* says a delayed UI task is on its way.  Every atomic access is a step.   *)
(*                                                                         *)
(* A width and height pair is one number.  Clearing the flag is a release  *)
(* store and the load that follows it an acquire load: the processor may   *)
(* perform the load while the store still waits in its store buffer.       *)
(* StoreLingers says whether it does; exchanges empty the buffer.          *)
(***************************************************************************)
EXTENDS Integers

CONSTANTS
  Sizes,        \* the sizes ParseViewportSize accepts
  InitialSize,  \* the configured view size
  StoreLingers  \* whether a store may be overtaken by a later load

ASSUME ViewportAssumption ==
  /\ Sizes \subseteq Nat \ {0}
  /\ InitialSize \in Sizes
  /\ StoreLingers \in BOOLEAN

VARIABLES
  pending,      \* pending_viewport_; 0 for none
  taskPending,  \* viewport_task_pending_, as other threads see it
  lingering,    \* the flag's clearing waits in the UI thread's store buffer
  tasks,        \* ApplyPendingViewerViewport tasks posted and not started
  reader,       \* where the reader thread is in QueueViewerViewport
  ui,           \* where the UI thread is in ApplyPendingViewerViewport
  view,         \* view_width_ and view_height_
  stored     \* history: the size stored last

mailboxVars ==
  <<pending, taskPending, lingering, tasks, reader, ui, view, stored>>

ReaderSteps == {"idle", "signalling"}
UISteps == {"idle", "applied", "cleared", "reposting"}

MailboxInit ==
  /\ pending = 0 /\ taskPending = FALSE /\ lingering = FALSE /\ tasks = 0
  /\ reader = "idle" /\ ui = "idle"
  /\ view = InitialSize /\ stored = InitialSize

-----------------------------------------------------------------------------
(***************************************************************************)
(* The reader thread: QueueViewerViewport.                                 *)
(***************************************************************************)

Fault_Store(s) ==
  /\ reader = "idle"
  /\ reader' = "signalling"
  /\ pending' = IF pending = 0 THEN s ELSE pending
  /\ stored' = s
  /\ UNCHANGED <<taskPending, lingering, tasks, ui, view>>
Store(s) ==
  /\ reader = "idle"
  /\ reader' = "signalling"
  /\ pending' = s
  /\ stored' = s
  /\ UNCHANGED <<taskPending, lingering, tasks, ui, view>>

\* viewport_task_pending_.exchange(true), and the task if it was false.
PostUnlessPending ==
  /\ taskPending' = TRUE
  /\ tasks' = IF taskPending THEN tasks ELSE tasks + 1

Signal ==
  /\ reader = "signalling"
  /\ reader' = "idle"
  /\ PostUnlessPending
  /\ UNCHANGED <<pending, lingering, ui, view, stored>>

-----------------------------------------------------------------------------
(***************************************************************************)
(* The UI thread: ApplyPendingViewerViewport.                              *)
(***************************************************************************)

\* The exchange with 0 and OnViewerViewport.
Take ==
  /\ ui = "idle" /\ tasks > 0 /\ ~lingering
  /\ ui' = "applied"
  /\ tasks' = tasks - 1
  /\ view' = IF pending = 0 THEN view ELSE pending
  /\ pending' = 0
  /\ UNCHANGED <<taskPending, lingering, reader, stored>>

Clear ==
  /\ ui = "applied"
  /\ ui' = "cleared"
  /\ IF StoreLingers
     THEN lingering' = TRUE /\ UNCHANGED taskPending
     ELSE taskPending' = FALSE /\ UNCHANGED lingering
  /\ UNCHANGED <<pending, tasks, reader, view, stored>>

Drain ==
  /\ lingering
  /\ lingering' = FALSE
  /\ taskPending' = FALSE
  /\ UNCHANGED <<pending, tasks, reader, ui, view, stored>>

\* The load of pending_viewport_ after the flag was cleared.
Recheck ==
  /\ ui = "cleared"
  /\ ui' = IF pending = 0 THEN "idle" ELSE "reposting"
  /\ UNCHANGED <<pending, taskPending, lingering, tasks, reader, view, stored>>

Fault_Repost ==
  /\ ui = "reposting" /\ ~lingering
  /\ ui' = "idle"
  /\ taskPending' = TRUE
  /\ tasks' = tasks + 1
  /\ UNCHANGED <<pending, lingering, reader, view, stored>>
Repost ==
  /\ ui = "reposting" /\ ~lingering
  /\ ui' = "idle"
  /\ PostUnlessPending
  /\ UNCHANGED <<pending, lingering, reader, view, stored>>

-----------------------------------------------------------------------------
ApplyStep == Take \/ Clear \/ Recheck \/ Repost

MailboxNext == (\E s \in Sizes : Store(s)) \/ Signal \/ ApplyStep \/ Drain

MailboxSpec == MailboxInit /\ [][MailboxNext]_mailboxVars

\* The reader finishes the call, the UI thread runs its tasks and the
\* processor empties its store buffer.
MailboxFairness ==
  /\ WF_mailboxVars(Signal)
  /\ WF_mailboxVars(ApplyStep)
  /\ WF_mailboxVars(Drain)
MailboxFairSpec == MailboxSpec /\ MailboxFairness

-----------------------------------------------------------------------------
(***************************************************************************)
(* Properties.                                                             *)
(***************************************************************************)

MailboxTypeOK ==
  /\ pending \in Sizes \union {0} /\ view \in Sizes /\ stored \in Sizes
  /\ taskPending \in BOOLEAN /\ lingering \in BOOLEAN
  /\ tasks \in Nat
  /\ reader \in ReaderSteps /\ ui \in UISteps

\* QueueViewerViewport and ApplyPendingViewerViewport never have two tasks
\* under way: a burst of sizes costs one resize per 33 milliseconds.
OneTask ==
  /\ tasks <= 1
  /\ tasks = 1 => taskPending /\ ui # "applied" /\ ~lingering

\* The flag is never left set with no task behind it, which would silence
\* every later request: it is set only while a task is posted or running, or
\* its clearing is on its way.
FlagNeverStuck == taskPending => tasks = 1 \/ ui = "applied" \/ lingering

\* No size is forgotten: while one is pending, a task is posted, or one of
\* the two threads is still about to look at the flag or at the size.
NoViewportForgotten ==
  pending # 0 /\ ~StoreLingers =>
    tasks = 1 \/ reader = "signalling" \/ ui \in {"applied", "cleared", "reposting"}

\* What the two threads' exchange of the flag has to keep, together.
MailboxIsSound == OneTask /\ FlagNeverStuck /\ NoViewportForgotten

\* Whenever the view changes it takes the size that was stored last, never
\* an older one; and it does so eventually when stores do not linger.
Register == INSTANCE ViewportRegister WITH asked <- stored, applied <- view
RegisterSafety == Register!Spec
RegisterSpec == Register!FairSpec

\* README.md: with server scaling "the viewer reports its surface size, the
\* headless browser resizes to match".
BrowserResizesToMatch ==
  \A s \in Sizes : stored = s ~> (view = s \/ stored # s)
=============================================================================
