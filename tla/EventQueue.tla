------------------------------- MODULE EventQueue -------------------------------
(***************************************************************************)
(* The agent's event queue (EventQueue in event_queue.cc), between the     *)
(* capture thread that pushes routed events and the sender thread that     *)
(* takes them.  Every operation holds the queue's mutex, so each is one    *)
(* operator on the sequence of queued events.  Whether the oldest event is *)
(* older than max_age is left to the caller, who has no clock.             *)
(***************************************************************************)
EXTENDS Integers, Sequences

CONSTANT MaxEvents   \* limits_.max_events

ASSUME EventQueueAssumption == MaxEvents \in Nat \ {0}

\* The kinds of which adjacent events of one device are summed.
Motion == {"Move", "Wheel"}

\* CanCoalesce and Coalesce; the deltas of a motion are not modelled.
CanCoalesce(last, e) ==
  last.kind = e.kind /\ last.group = e.group /\ e.kind \in Motion
Merges(queue, e) == queue # <<>> /\ CanCoalesce(queue[Len(queue)], e)

\* Push is refused, and the queue cleared, when it is full or its head old.
Fault_Overloads(queue, e, old) == ~Merges(queue, e) /\ Len(queue) > MaxEvents
Overloads(queue, e, old) ==
  ~Merges(queue, e) /\ (Len(queue) >= MaxEvents \/ (queue # <<>> /\ old))

Fault_Pushed(queue, e, old) ==
  IF queue # <<>> /\ queue[Len(queue)].kind = e.kind THEN queue
  ELSE IF Overloads(queue, e, old) THEN <<>>
  ELSE Append(queue, e)
Pushed(queue, e, old) ==
  IF Merges(queue, e) THEN queue
  ELSE IF Overloads(queue, e, old) THEN <<>>
  ELSE Append(queue, e)
=============================================================================
