------------------------------- MODULE AgentLink -------------------------------
(***************************************************************************)
(* The agent's connection (WebSocketClient): the thread that connects,     *)
(* claims the route again and runs the io_context; the capture thread,     *)
(* which calls ClaimRoute and ReleaseAll; the console, which calls         *)
(* ReleaseAll; the sender thread's calls of SendEvents; and the receiver's *)
(* Session at the other end.                                               *)
(*                                                                         *)
(* None of these calls excludes another.  In the calls, and in Run up to   *)
(* the handlers, a step is one access of one atomic or one Enqueue, which  *)
(* holds the queue's mutex.  A handler is one step: a step of another      *)
(* thread between two of OnDisconnect's accesses has the effect it has     *)
(* before or after them all.                                               *)
(*                                                                         *)
(* There is one route, so route_id_ and claimed_route_ are booleans.       *)
(* Heartbeats keep the receiver's session alive and change nothing else:   *)
(* they and the receiver's replies are left out.  Atomic accesses are      *)
(* sequentially consistent here; ViewportMailbox is about weaker orders.   *)
(***************************************************************************)
EXTENDS Integers, Sequences

CONSTANTS
  MaxQueue,      \* 256 messages
  MaxCalls,      \* bound: calls of ClaimRoute, ReleaseAll and SendEvents
  MaxLosses,     \* bound: connections that break
  MaxSequence    \* bound: the numbers SendEvents takes

ASSUME AgentLinkAssumption ==
  MaxQueue \in Nat \ {0} /\ MaxCalls \in Nat /\ MaxLosses \in Nat
  /\ MaxSequence \in Nat \ {0}

VARIABLES
  claimed,     \* claimed_route_ # 0
  route,       \* route_id_ # 0
  sequence,    \* sequence_
  connected,   \* connected_
  queue,       \* queue_
  writing,     \* writing_
  writes,      \* the async_writes under way on the stream
  stopped,     \* the io_context is stopped
  stopping,    \* stopping_
  run,         \* where the connection's thread is in Run
  stale,       \* handlers of the last stream the io_context has still to run
  caller,      \* where the capture thread and the console are in their calls
  calls,       \* how many calls they and the sender have begun
  sender,      \* where the sender is in SendEvents
  addressed,   \* its batch has the route's id, and not 0
  number,      \* the sequence number it has taken
  up,          \* the connection is up
  losses,      \* how many have broken
  session,     \* the receiver has a session
  hello,       \* hello_received_
  served,      \* route_state_ is claimed
  expected,    \* the sequence number it expects
  routeLost,   \* history: the route was reset and stays claimed
  discarded,   \* history: ReleaseAll cleared a queue it did not send on
  crossed,     \* history: a claim and a release passed one another
  misnumbered  \* history: a batch took its number or address before the claim

atomics == <<claimed, route, sequence, connected>>
stream == <<writing, writes, stopped, run, stale>>
threads == <<stopping, caller, calls, sender, addressed, number>>
sending == <<sender, addressed, number>>
link == <<up, losses>>
receiver == <<session, hello, served, expected>>
history == <<routeLost, discarded, crossed, misnumbered>>
vars == <<atomics, queue, stream, threads, link, receiver, history>>

Msg(type) == [type |-> type, number |-> 0]
Batch(n) == [type |-> "Batch", number |-> n]
Messages == {Msg(t) : t \in {"Hello", "Claim", "Release", "Stray"}}
              \union {Batch(n) : n \in 1 .. MaxSequence}
RunSteps == {"away", "checked", "connecting", "greeting", "loading", "routing",
             "numbering", "claiming", "running", "over"}
Callers == {"capture", "console"}
CallerSteps == {"idle", "numbering", "storing", "asking", "announcing",
                "dropping", "releasing", "clearing"}
SenderSteps == {"idle", "connected", "routed", "loaded", "numbered"}

Init ==
  /\ claimed = FALSE /\ route = FALSE /\ sequence = 1 /\ connected = FALSE
  /\ queue = <<>> /\ writing = FALSE /\ writes = <<>>
  /\ stopped = FALSE /\ run = "away" /\ stale = {}
  /\ stopping = FALSE /\ caller = [t \in Callers |-> "idle"]
  /\ calls = 0 /\ sender = "idle" /\ addressed = FALSE /\ number = 0
  /\ up = FALSE /\ losses = 0
  /\ session = FALSE /\ hello = FALSE /\ served = FALSE /\ expected = 1
  /\ routeLost = FALSE /\ discarded = FALSE /\ crossed = FALSE /\ misnumbered = FALSE

-----------------------------------------------------------------------------
\* Enqueue: a full queue is cleared, and the route reset.
Fault_Full == Len(queue) > MaxQueue
Full == Len(queue) >= MaxQueue
Enqueue(m) ==
  /\ queue' = IF Full THEN <<>> ELSE Append(queue, m)
  /\ route' = (route /\ ~Full)
  /\ routeLost' = (routeLost \/ Full)

\* A claim is being numbered and sent, by the capture thread or by Run.
RunClaims == run \in {"routing", "numbering", "claiming"}
Claiming == caller["capture"] \in {"storing", "asking", "announcing"} \/ RunClaims

-----------------------------------------------------------------------------
(***************************************************************************)
(* ClaimRoute and ReleaseAll.                                              *)
(***************************************************************************)

Goes(t, from, to) ==
  /\ caller[t] = from
  /\ caller' = [caller EXCEPT ![t] = to]
  /\ calls' = IF from = "idle" THEN calls + 1 ELSE calls
MayCall == calls < MaxCalls /\ ~stopping

\* RouteChangedCallback, when the capture thread has bound a device.
ClaimRoute ==
  /\ MayCall
  /\ Goes("capture", "idle", "numbering")
  /\ route' = TRUE
  /\ UNCHANGED <<claimed, sequence, connected, queue, stream, stopping, sending,
                 link, receiver, history>>
StoreSequence ==
  /\ Goes("capture", "numbering", "storing")
  /\ sequence' = 1
  /\ UNCHANGED <<claimed, route, connected, queue, stream, stopping, sending,
                 link, receiver, history>>
StoreClaimed ==
  /\ Goes("capture", "storing", "asking")
  /\ claimed' = TRUE
  /\ routeLost' = ~route
  /\ discarded' = FALSE /\ crossed' = FALSE
  /\ misnumbered' = (sender = "numbered" \/ sequence # 1 \/ RunClaims)
  /\ UNCHANGED <<route, sequence, connected, queue, stream, stopping, sending,
                 link, receiver>>
AskConnected ==
  /\ Goes("capture", "asking", IF connected THEN "announcing" ELSE "idle")
  /\ UNCHANGED <<atomics, queue, stream, stopping, sending, link, receiver, history>>

\* A ReleaseAll has still to send its Release.
ReleaseDue ==
  \E t \in Callers : caller[t] = "releasing" \/ (caller[t] = "dropping" /\ route)

\* A claim that is queued now comes behind the Release of the ReleaseAll that
\* has taken the claim back.
ClaimsLate == ~claimed /\ ~ReleaseDue
SendClaim ==
  /\ Goes("capture", "announcing", "idle")
  /\ queue' = IF Full THEN <<>> ELSE Append(queue, Msg("Claim"))
  /\ route' = (route /\ ~Full)
  /\ routeLost' = (routeLost \/ ~route')
  /\ crossed' = (crossed \/ ClaimsLate)
  /\ UNCHANGED <<claimed, sequence, connected, stream, stopping, sending, link,
                 receiver, discarded, misnumbered>>

\* RouteChangedCallback, when the capture thread has lost the last routed
\* device or the console revokes all, and the capture thread's
\* EventCallback, when the queue of events overflows.  It may start between
\* any two steps of ClaimRoute or of the other thread's ReleaseAll.
ReleaseAll(t) ==
  /\ MayCall
  /\ Goes(t, "idle", "dropping")
  /\ claimed' = FALSE
  /\ misnumbered' = FALSE
  /\ UNCHANGED <<route, sequence, connected, queue, stream, stopping, sending,
                 link, receiver, routeLost, discarded, crossed>>

\* The route may have been claimed since.
DropRoute(t) ==
  /\ Goes(t, "dropping", IF route THEN "releasing" ELSE "clearing")
  /\ route' = FALSE
  /\ routeLost' = (routeLost \/ claimed)
  /\ UNCHANGED <<claimed, sequence, connected, queue, stream, stopping, sending,
                 link, receiver, discarded, crossed, misnumbered>>

\* A Release that is queued now comes behind the claim that has been made
\* since, and one that is not sent may clear that claim from the queue.
PassesClaim == claimed /\ ~Claiming
Fault_SendRelease(t) ==
  /\ Goes(t, "releasing", "idle")
  /\ queue' = <<>>
  /\ UNCHANGED <<atomics, stream, stopping, sending, link, receiver, history>>
SendRelease(t) ==
  /\ Goes(t, "releasing", "idle")
  /\ Enqueue(Msg("Release"))
  /\ discarded' = (discarded /\ claimed)
  /\ crossed' = ((crossed /\ claimed) \/ PassesClaim)
  /\ UNCHANGED <<claimed, sequence, connected, stream, stopping, sending, link,
                 receiver, misnumbered>>
ClearQueue(t) ==
  /\ Goes(t, "clearing", "idle")
  /\ queue' = <<>>
  /\ discarded' = (discarded \/ queue # <<>>)
  /\ crossed' = (crossed \/ (PassesClaim /\ queue # <<>>))
  /\ UNCHANGED <<atomics, stream, stopping, sending, link, receiver, routeLost, misnumbered>>

-----------------------------------------------------------------------------
(***************************************************************************)
(* SendEvents: its two checks, and the batch.                              *)
(***************************************************************************)

Sends(from, to) ==
  /\ sender = from /\ sender' = to
  /\ calls' = IF from = "idle" THEN calls + 1 ELSE calls
  /\ UNCHANGED <<claimed, route, connected, stream, stopping, caller, link, receiver>>

SendEvents ==
  /\ MayCall /\ connected
  /\ sequence <= MaxSequence
  /\ Sends("idle", "connected")
  /\ UNCHANGED <<sequence, queue, addressed, number, history>>
AskRoute ==
  /\ Sends("connected", IF route THEN "routed" ELSE "idle")
  /\ UNCHANGED <<sequence, queue, addressed, number, history>>
LoadRoute ==
  /\ Sends("routed", "loaded")
  /\ addressed' = route
  /\ UNCHANGED <<sequence, queue, number, history>>
TakeNumber ==
  /\ sequence <= MaxSequence
  /\ Sends("loaded", "numbered")
  /\ number' = sequence
  /\ sequence' = sequence + 1
  /\ misnumbered' = (misnumbered \/ (claimed /\ (Claiming \/ ~addressed)))
  /\ UNCHANGED <<queue, addressed, routeLost, discarded, crossed>>
EnqueueBatch ==
  /\ sender = "numbered" /\ sender' = "idle"
  /\ addressed' = FALSE /\ number' = 0
  /\ Enqueue(IF addressed THEN Batch(number) ELSE Msg("Stray"))
  /\ UNCHANGED <<claimed, sequence, connected, stream, stopping, caller, calls, link,
                 receiver, discarded, crossed, misnumbered>>

-----------------------------------------------------------------------------
(***************************************************************************)
(* Run.                                                                    *)
(***************************************************************************)

\* The loop's condition, at its head and after the back-off; the agent ends
\* with the loop, and closes its connection.
CheckStopping ==
  /\ run = "away"
  /\ run' = IF stopping THEN "over" ELSE "checked"
  /\ up' = (up /\ ~stopping)
  /\ UNCHANGED <<losses, atomics, queue, writing, writes, stopped, stale, threads,
                 receiver, history>>

\* ioc_.restart, and the new stream: the old one is destroyed, which closes
\* its connection and aborts what it had under way.
Restart ==
  /\ run = "checked"
  /\ run' = "connecting"
  /\ stopped' = FALSE
  /\ up' = FALSE
  /\ UNCHANGED <<losses, atomics, queue, writing, writes, stale, threads, receiver, history>>

\* Connection and handshake, which the receiver refuses while it has a
\* session; then SendHello.
Connect ==
  /\ run = "connecting" /\ ~session
  /\ run' = "greeting"
  /\ up' = TRUE /\ UNCHANGED losses
  /\ session' = TRUE /\ hello' = FALSE /\ served' = FALSE /\ expected' = 1
  /\ queue' = IF Full THEN <<>> ELSE Append(queue, Msg("Hello"))
  /\ route' = (route /\ ~Full)
  /\ routeLost' = Full /\ discarded' = FALSE /\ crossed' = FALSE
  /\ UNCHANGED <<claimed, sequence, connected, writing, writes, stopped, stale,
                 threads, misnumbered>>
StoreConnected ==
  /\ run = "greeting"
  /\ run' = "loading"
  /\ connected' = TRUE
  /\ UNCHANGED <<claimed, route, sequence, queue, writing, writes, stopped, stale,
                 threads, link, receiver, history>>
ConnectFails ==
  /\ run = "connecting"
  /\ run' = "away"
  /\ UNCHANGED <<atomics, queue, writing, writes, stopped, stale, threads, link,
                 receiver, history>>

LoadClaimed ==
  /\ run = "loading"
  /\ run' = IF claimed THEN "routing" ELSE "running"
  /\ UNCHANGED <<atomics, queue, writing, writes, stopped, stale, threads, link,
                 receiver, history>>
RestoreRoute ==
  /\ run = "routing"
  /\ run' = "numbering"
  /\ route' = TRUE
  /\ routeLost' = FALSE
  /\ UNCHANGED <<claimed, sequence, connected, queue, writing, writes, stopped,
                 stale, threads, link, receiver, discarded, crossed, misnumbered>>
Fault_RestartSequence ==
  /\ run = "numbering"
  /\ run' = "claiming"
  /\ UNCHANGED <<atomics, queue, writing, writes, stopped, stale, threads, link,
                 receiver, history>>
RestartSequence ==
  /\ run = "numbering"
  /\ run' = "claiming"
  /\ sequence' = 1
  /\ misnumbered' = (claimed /\ (sender = "numbered" \/ caller["capture"] # "idle"))
  /\ UNCHANGED <<claimed, route, connected, queue, writing, writes, stopped,
                 stale, threads, link, receiver, routeLost, discarded,
                 crossed>>
SendClaimAgain ==
  /\ run = "claiming"
  /\ run' = "running"
  /\ Enqueue(Msg("Claim"))
  /\ crossed' = (crossed \/ ClaimsLate)
  /\ UNCHANGED <<claimed, sequence, connected, writing, writes, stopped, stale,
                 threads, link, receiver, discarded, misnumbered>>

\* ioc_.run returns; connected_ and writing_ are reset.
RunEnds ==
  /\ run = "running" /\ stopped
  /\ run' = "away"
  /\ connected' = FALSE
  /\ writing' = FALSE
  /\ writes' = <<>>
  /\ stale' = stale \union (IF writes # <<>> THEN {"failed"} ELSE {})
  /\ UNCHANGED <<claimed, route, sequence, queue, stopped, threads, link,
                 receiver, history>>

-----------------------------------------------------------------------------
(***************************************************************************)
(* The io_context's handlers.                                              *)
(***************************************************************************)

Handles == run = "running" /\ ~stopped

\* OnDisconnect, by the handler of an operation on the stream: outstanding
\* are the handlers that will run with the next stream.
OnDisconnect(outstanding) ==
  IF connected
  THEN /\ connected' = FALSE
       /\ route' = FALSE
       /\ queue' = <<>>
       /\ stopped' = TRUE
       /\ stale' = outstanding
       /\ UNCHANGED <<claimed, sequence>>
  ELSE stale' = outstanding /\ UNCHANGED <<atomics, queue, stopped>>

StartWrite ==
  /\ Handles /\ connected /\ ~writing /\ queue # <<>>
  /\ writing' = TRUE
  /\ writes' = Append(writes, Head(queue))
  /\ queue' = Tail(queue)
  /\ UNCHANGED <<atomics, stopped, run, stale, threads, link, receiver, history>>
\* The connection is lost: a read fails, or a write does with the read under
\* way.  A write may have completed with its handler still to run.
ReadFails ==
  /\ Handles /\ ~up
  /\ \E outstanding \in IF writes = <<>> THEN {{}} ELSE {{"failed"}, {"written"}} :
       OnDisconnect(stale \union outstanding)
  /\ writes' = <<>>
  /\ UNCHANGED <<writing, run, threads, link, receiver, history>>
WriteFails ==
  /\ Handles /\ ~up /\ writes # <<>>
  /\ OnDisconnect(stale \union {"failed"})
  /\ writes' = Tail(writes)
  /\ writing' = FALSE
  /\ UNCHANGED <<run, threads, link, receiver, history>>

\* A handler of the last stream runs on this one, whose read is under way.
StaleFails ==
  /\ Handles /\ "failed" \in stale
  /\ OnDisconnect(stale)
  /\ UNCHANGED <<writing, writes, run, threads, link, receiver, history>>
StaleWritten ==
  /\ Handles /\ "written" \in stale
  /\ stale' = stale \ {"written"}
  /\ writing' = FALSE
  /\ UNCHANGED <<atomics, queue, writes, stopped, run, threads, link, receiver, history>>

-----------------------------------------------------------------------------
\* Stop, which main calls after its own ReleaseAll and when the other threads
\* have ended; the join ends with Run.
Stop ==
  /\ ~stopping /\ ~claimed /\ sender = "idle" /\ \A t \in Callers : caller[t] = "idle"
  /\ stopping' = TRUE
  /\ stopped' = TRUE
  /\ UNCHANGED <<atomics, queue, writing, writes, run, stale, caller, calls,
                 sending, link, receiver, history>>

\* The connection breaks, under what is being written.
LinkBreaks ==
  /\ up /\ losses < MaxLosses
  /\ up' = FALSE
  /\ losses' = losses + 1
  /\ UNCHANGED <<atomics, queue, stream, threads, receiver, history>>

-----------------------------------------------------------------------------
(***************************************************************************)
(* The receiver's Session.                                                 *)
(***************************************************************************)

\* The receiver processes a message, and the write completes.  The agent
\* never waits for an answer: a message that is longer on its way changes
\* nothing but the moment.
Receives(type) ==
  /\ Handles /\ up /\ writes # <<>> /\ Head(writes).type = type
  /\ writes' = Tail(writes)
  /\ writing' = FALSE
  /\ UNCHANGED <<atomics, queue, stopped, run, stale, threads, link, session, history>>
ReceiveHello ==
  /\ Receives("Hello")
  /\ hello' = TRUE
  /\ UNCHANGED <<served, expected>>
ReceiveClaim ==
  /\ Receives("Claim")
  /\ served' = hello
  /\ expected' = 1
  /\ UNCHANGED hello
ReceiveRelease ==
  /\ Receives("Release")
  /\ served' = FALSE
  /\ UNCHANGED <<hello, expected>>

\* A batch beyond the expected one resets the route, one before is ignored.
ReceiveBatch ==
  /\ Receives("Batch")
  /\ served' = (served /\ Head(writes).number <= expected)
  /\ expected' = IF served /\ Head(writes).number = expected THEN expected + 1 ELSE expected
  /\ UNCHANGED hello
\* A batch for route 0 matches no claim: it is refused, and the claim stays.
ReceiveStray ==
  /\ Receives("Stray")
  /\ UNCHANGED <<hello, served, expected>>

\* Session::Close, when its read fails.
SessionEnds ==
  /\ session /\ ~up
  /\ session' = FALSE
  /\ hello' = FALSE /\ served' = FALSE /\ expected' = 1
  /\ UNCHANGED <<atomics, queue, stream, threads, link, history>>

-----------------------------------------------------------------------------
Caller == ClaimRoute \/ \E t \in Callers : ReleaseAll(t)
ClaimStep == StoreSequence \/ StoreClaimed \/ AskConnected \/ SendClaim
ReleaseStep(t) == DropRoute(t) \/ SendRelease(t) \/ ClearQueue(t)
CallerStep == ClaimStep \/ \E t \in Callers : ReleaseStep(t)
Sender == SendEvents \/ AskRoute \/ LoadRoute \/ TakeNumber \/ EnqueueBatch
RunStep ==
  \/ CheckStopping \/ Restart \/ Connect \/ StoreConnected \/ LoadClaimed
  \/ RestoreRoute \/ RestartSequence \/ SendClaimAgain \/ RunEnds
Handler ==
  StartWrite \/ ReadFails \/ WriteFails \/ StaleFails \/ StaleWritten
ReceiverStep ==
  ReceiveHello \/ ReceiveClaim \/ ReceiveRelease \/ ReceiveBatch \/ ReceiveStray
    \/ SessionEnds

Next ==
  \/ Caller \/ CallerStep \/ Sender
  \/ RunStep \/ ConnectFails \/ Handler \/ Stop \/ LinkBreaks \/ ReceiverStep

Spec == Init /\ [][Next]_vars

\* The threads go on, but for the sender, which nothing waits for, and the
\* receiver reads what it is sent.
FairSpec ==
  /\ Spec
  /\ \A t \in Callers : WF_caller(ReleaseStep(t))
  /\ WF_stream(RunStep \/ Handler)
  /\ WF_<<session, writes>>(ReceiverStep)

-----------------------------------------------------------------------------
(***************************************************************************)
(* Properties.                                                             *)
(***************************************************************************)

TypeOK ==
  /\ claimed \in BOOLEAN /\ route \in BOOLEAN /\ connected \in BOOLEAN
  /\ sequence \in 1 .. MaxSequence + 1 /\ number \in 0 .. MaxSequence
  /\ queue \in Seq(Messages) /\ Len(queue) <= MaxQueue
  /\ writing \in BOOLEAN /\ writes \in Seq(Messages)
  /\ stopped \in BOOLEAN /\ stopping \in BOOLEAN
  /\ run \in RunSteps /\ caller \in [Callers -> CallerSteps]
  /\ calls \in 0 .. MaxCalls
  /\ sender \in SenderSteps /\ addressed \in BOOLEAN
  /\ stale \subseteq {"failed", "written"}
  /\ up \in BOOLEAN /\ losses \in 0 .. MaxLosses
  /\ session \in BOOLEAN /\ hello \in BOOLEAN /\ served \in BOOLEAN
  /\ expected \in 1 .. MaxSequence + 1

\* Nothing is under way between the callers and the receiver.  A sender that
\* has not taken its number has done nothing yet.
Drained ==
  /\ sender # "numbered" /\ \A t \in Callers : caller[t] = "idle"
  /\ run = "running" /\ connected /\ up
  /\ queue = <<>> /\ writes = <<>>

\* The agent and the receiver agree about the route.  A route the agent has
\* released is not served, unless route_id_ was reset or its release cleared
\* from a full queue (routeLost), a second ReleaseAll cleared the release from
\* the queue (discarded), or the claim, the capture thread's or Run's, was
\* queued behind the release that took it back (crossed).  A route it has
\* claimed is served, and the next batch has the number the receiver expects,
\* unless the Hello was cleared from the queue (~hello), route_id_ was reset
\* under the claim (routeLost), a batch took its number or its address from
\* before the claim (misnumbered), or an earlier ReleaseAll sent its release
\* behind the claim or cleared the claim from the queue (crossed).
RouteAgrees ==
  Drained =>
    /\ served => claimed \/ routeLost \/ discarded \/ crossed
    /\ claimed => \/ served /\ route /\ expected = sequence
                  \/ routeLost \/ ~hello \/ misnumbered \/ crossed

\* What main.cc promises of X, of unplugging and of the emergency chord: the
\* receiver gets to know of a release, through reconnections, late handlers
\* of earlier streams and the end of the agent, or a claim follows, with the
\* same three exceptions.
ReleaseReaches ==
  (served /\ ~claimed) ~>
    (~served \/ claimed \/ routeLost \/ discarded \/ crossed)
=============================================================================
