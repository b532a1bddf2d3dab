----------------------------- MODULE LayoutControl -----------------------------
(***************************************************************************)
(* The layout's way from the page to the compositor's window: the page's   *)
(* helper (compositor-client.js), the one connection it keeps, the layout  *)
(* server's I/O thread, and the window.                                    *)
(*                                                                         *)
(* A layout is the number of changes the page has made to it.  Some are    *)
(* refused as a whole by the protocol's parser: too many viewports, a      *)
(* rectangle outside the output, an overlong label, ...                    *)
(***************************************************************************)
EXTENDS Integers, Sequences

CONSTANTS
  MaxChanges,  \* changes of the layout, by calls or by a reload of the page
  MaxBreaks,   \* connections that break for no reason of either end
  MaxWrites,   \* the bound of writes_
  Refused      \* layouts that ParseLayoutMessage refuses

ASSUME LayoutControlAssumption ==
  /\ MaxChanges \in Nat /\ MaxBreaks \in Nat
  /\ MaxWrites \in Nat \ {0}
  /\ Refused \subseteq Nat

Layouts == 0 .. MaxChanges
Snapshot == [revision : Nat \ {0}, layout : Layouts]

VARIABLES
  layout,          \* viewports of the page
  revision,        \* revision
  flushScheduled,  \* flushScheduled
  socket,          \* the page's socket; "waiting" in the server's backlog
  joined,          \* the page's socket is the session's, and both ends are up
  breaks,          \* breaks so far
  inbox,           \* what the session has to read
  session,         \* session_: none, in its handshake, or open
  closed,          \* closed_ of that session
  lastRevision,    \* last_revision_, or 0 if it has none
  writes,          \* length of writes_
  late,            \* a message that had been read when the session was closed
  aborted,         \* handlers of closed sessions that still have to run
  resets,          \* posted tasks that reset session_
  window,          \* layouts posted to the window
  displayed        \* layout of the renderer

pageVars == <<layout, revision, flushScheduled, socket, breaks>>
connectionVars == <<joined, inbox>>
sessionVars == <<session, closed, lastRevision, writes>>
handlerVars == <<late, aborted, resets>>
windowVars == <<window, displayed>>
vars == <<pageVars, connectionVars, sessionVars, handlerVars, windowVars>>

Init ==
  /\ layout = 0 /\ revision = 0 /\ flushScheduled = FALSE
  /\ socket = "waiting" /\ breaks = 0
  /\ joined = FALSE /\ inbox = <<>>
  /\ session = "none" /\ closed = FALSE /\ lastRevision = 0 /\ writes = 0
  /\ late = <<>> /\ aborted = 0 /\ resets = 0
  /\ window = <<>> /\ displayed = 0

-----------------------------------------------------------------------------
(***************************************************************************)
(* The page.                                                               *)
(***************************************************************************)

\* What was sent last may be lost with its connection.
Parted ==
  /\ joined' = FALSE
  /\ \E n \in 0 .. Len(inbox) : inbox' = SubSeq(inbox, 1, n)

\* setViewport, removeViewport and replaceAll.
ChangeLayout ==
  /\ layout < MaxChanges
  /\ layout' = layout + 1
  /\ flushScheduled' = TRUE
  /\ UNCHANGED <<revision, socket, breaks, connectionVars, sessionVars,
                 handlerVars, windowVars>>

\* The page is loaded anew and sets its viewports.
Reload ==
  /\ layout < MaxChanges
  /\ layout' = layout + 1
  /\ revision' = 0
  /\ flushScheduled' = TRUE
  /\ socket' = "waiting"
  /\ Parted
  /\ UNCHANGED <<breaks, sessionVars, handlerVars, windowVars>>

\* The animation frame: whatever the page has by now is sent, if it can be.
Flush ==
  /\ flushScheduled
  /\ flushScheduled' = FALSE
  /\ revision' = IF socket = "open" THEN revision + 1 ELSE revision
  /\ inbox' = IF socket = "open" /\ joined
              THEN Append(inbox, [revision |-> revision + 1, layout |-> layout])
              ELSE inbox
  /\ UNCHANGED <<layout, socket, breaks, joined, sessionVars, handlerVars, windowVars>>

SocketOpens ==
  /\ socket = "joined" /\ joined /\ session = "open"
  /\ socket' = "open"
  /\ flushScheduled' = TRUE
  /\ UNCHANGED <<layout, revision, breaks, connectionVars, sessionVars,
                 handlerVars, windowVars>>

SocketCloses ==
  /\ socket \in {"joined", "open"} /\ ~joined
  /\ socket' = "none"
  /\ UNCHANGED <<layout, revision, flushScheduled, breaks, connectionVars,
                 sessionVars, handlerVars, windowVars>>

Reconnect ==
  /\ socket = "none"
  /\ socket' = "waiting"
  /\ UNCHANGED <<layout, revision, flushScheduled, breaks, connectionVars,
                 sessionVars, handlerVars, windowVars>>

ConnectionBreaks ==
  /\ joined /\ breaks < MaxBreaks
  /\ breaks' = breaks + 1
  /\ Parted
  /\ UNCHANGED <<layout, revision, flushScheduled, socket, sessionVars,
                 handlerVars, windowVars>>

-----------------------------------------------------------------------------
(***************************************************************************)
(* The server's I/O thread: one action per completion handler.             *)
(***************************************************************************)

\* Close, with n handlers of the session outstanding, besides one that has
\* read what the sequence unread holds.
Fault_Close(n, unread) ==
  /\ closed' = TRUE
  /\ session' = "none"
  /\ aborted' = aborted + n
  /\ late' = unread
  /\ joined' = FALSE /\ inbox' = <<>>
  /\ UNCHANGED resets
Close(n, unread) ==
  /\ closed' = TRUE
  /\ resets' = resets + 1
  /\ aborted' = aborted + n
  /\ late' = unread
  /\ joined' = FALSE /\ inbox' = <<>>
  /\ UNCHANGED session

\* Close of a session that is closed already.
Fault_CloseAgain == resets' = resets + 1
CloseAgain == UNCHANGED resets

Serving(phase) == session = phase /\ ~closed

\* One client at a time: another one is turned away until session_ is reset.
AcceptRefused ==
  /\ socket = "waiting" /\ session # "none"
  /\ socket' = "joined"
  /\ UNCHANGED <<layout, revision, flushScheduled, breaks, connectionVars,
                 sessionVars, handlerVars, windowVars>>

\* A new session compares revisions with nothing that was before it.
Fault_AcceptNew ==
  /\ socket = "waiting" /\ session = "none"
  /\ socket' = "joined" /\ joined' = TRUE /\ inbox' = <<>>
  /\ session' = "handshake" /\ closed' = FALSE
  /\ writes' = 0
  /\ UNCHANGED <<layout, revision, flushScheduled, breaks, lastRevision,
                 handlerVars, windowVars>>
AcceptNew ==
  /\ socket = "waiting" /\ session = "none"
  /\ socket' = "joined" /\ joined' = TRUE /\ inbox' = <<>>
  /\ session' = "handshake" /\ closed' = FALSE
  /\ lastRevision' = 0 /\ writes' = 0
  /\ UNCHANGED <<layout, revision, flushScheduled, breaks, handlerVars, windowVars>>

\* The hello is queued as soon as the WebSocket is accepted.
HandshakeDone ==
  /\ Serving("handshake") /\ joined
  /\ session' = "open" /\ writes' = 1
  /\ UNCHANGED <<pageVars, connectionVars, closed, lastRevision, handlerVars, windowVars>>

HandshakeFails ==
  /\ Serving("handshake") /\ ~joined
  /\ Close(0, <<>>)
  /\ UNCHANGED <<pageVars, lastRevision, writes, windowVars>>

Accepted(snapshot) == snapshot.layout \notin Refused

\* The layout callback: what is new goes to the window.
Deliver(snapshot) ==
  IF Accepted(snapshot) /\ snapshot.revision > lastRevision
  THEN /\ lastRevision' = snapshot.revision
       /\ window' = Append(window, snapshot.layout)
  ELSE UNCHANGED <<lastRevision, window>>

Fault_QueueFull == writes > MaxWrites
QueueFull == writes >= MaxWrites

\* Every message is answered; a page that does not read is given up.
Read ==
  /\ Serving("open") /\ inbox # <<>>
  /\ Deliver(Head(inbox))
  /\ IF QueueFull
     THEN /\ Close(2, <<>>)
          /\ UNCHANGED writes
     ELSE /\ writes' = writes + 1
          /\ inbox' = Tail(inbox)
          /\ UNCHANGED <<joined, session, closed, handlerVars>>
  /\ UNCHANGED <<pageVars, displayed>>

ReadFails ==
  /\ Serving("open") /\ inbox = <<>> /\ ~joined
  /\ Close(IF writes > 0 THEN 1 ELSE 0, <<>>)
  /\ UNCHANGED <<pageVars, lastRevision, writes, windowVars>>

WriteDone ==
  /\ Serving("open") /\ writes > 0
  /\ writes' = writes - 1
  /\ UNCHANGED <<pageVars, connectionVars, session, closed, lastRevision,
                 handlerVars, windowVars>>

\* The read that is outstanding is aborted, unless it had been done.
WriteFails ==
  /\ Serving("open") /\ writes > 0 /\ ~joined
  /\ \E n \in {0, 1} : n <= Len(inbox) /\ Close(1, SubSeq(inbox, 1, n))
  /\ UNCHANGED <<pageVars, lastRevision, writes, windowVars>>

LateRead ==
  /\ late # <<>>
  /\ Deliver(Head(late))
  /\ late' = <<>>
  /\ UNCHANGED <<pageVars, connectionVars, session, closed, writes, aborted,
                 resets, displayed>>

HandlerAborted ==
  /\ aborted > 0
  /\ aborted' = aborted - 1
  /\ CloseAgain
  /\ UNCHANGED <<pageVars, connectionVars, sessionVars, late, windowVars>>

\* The task posted by the closed callback, after a read done before it.
ForgetSession ==
  /\ resets > 0 /\ late = <<>>
  /\ resets' = resets - 1
  /\ session' = "none"
  /\ UNCHANGED <<pageVars, connectionVars, closed, lastRevision, writes, late,
                 aborted, windowVars>>

-----------------------------------------------------------------------------
\* The window's kLayoutMessage.
ApplyLayout ==
  /\ window # <<>>
  /\ displayed' = Head(window)
  /\ window' = Tail(window)
  /\ UNCHANGED <<pageVars, connectionVars, sessionVars, handlerVars>>

-----------------------------------------------------------------------------
PageStep == Flush \/ SocketOpens \/ SocketCloses \/ Reconnect
Accept == AcceptRefused \/ AcceptNew
Handshake == HandshakeDone \/ HandshakeFails
Receive == Read \/ ReadFails
Closing == LateRead \/ HandlerAborted \/ ForgetSession
Write == WriteDone \/ WriteFails
Disturbance == ChangeLayout \/ Reload \/ ConnectionBreaks

Next ==
  \/ PageStep \/ Accept \/ Handshake \/ Receive \/ Write \/ Closing
  \/ ApplyLayout \/ Disturbance

Spec == Init /\ [][Next]_vars

\* The I/O thread runs each handler that has something to complete; the page
\* is visible, so its animation frames come, and its browser reads what the
\* server writes.
FairSpec ==
  /\ Spec
  /\ WF_vars(Flush) /\ WF_vars(SocketOpens) /\ WF_vars(SocketCloses \/ Reconnect)
  /\ WF_vars(Accept) /\ WF_vars(Handshake) /\ WF_vars(Receive) /\ WF_vars(Write)
  /\ WF_vars(LateRead) /\ WF_vars(HandlerAborted) /\ WF_vars(ForgetSession)
  /\ WF_vars(ApplyLayout)

-----------------------------------------------------------------------------
(***************************************************************************)
(* Properties.                                                             *)
(***************************************************************************)

TypeOK ==
  /\ layout \in Layouts /\ revision \in Nat /\ flushScheduled \in BOOLEAN
  /\ socket \in {"none", "waiting", "joined", "open"} /\ breaks \in 0 .. MaxBreaks
  /\ joined \in BOOLEAN /\ inbox \in Seq(Snapshot)
  /\ session \in {"none", "handshake", "open"} /\ closed \in BOOLEAN
  /\ lastRevision \in Nat /\ writes \in 0 .. MaxWrites
  /\ late \in Seq(Snapshot) /\ aborted \in Nat /\ resets \in Nat
  /\ window \in Seq(Layouts) /\ displayed \in Layouts

\* A task that resets session_ finds the session that posted it: handlers of
\* a closed session, which may run after another one was accepted, post none
\* that would forget the new client.
ResetFindsItsSession ==
  resets > 0 => resets = 1 /\ session # "none" /\ closed

\* The window never goes back to an earlier layout, over reloads, broken
\* connections and reads that complete late.
NeverBackwards == [][displayed' >= displayed]_displayed

\* When the page has stopped changing, the window shows its layout, unless
\* the layout is one the parser refuses: nothing is lost for good in the
\* coalescing of flushes, in a refused connection or in an overfull queue.
DisplayFollowsPage == <>[](layout \notin Refused => displayed = layout)
=============================================================================
