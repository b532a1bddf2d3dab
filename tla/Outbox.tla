--------------------------------- MODULE Outbox ---------------------------------
(***************************************************************************)
(* What the stream server's outgoing side promises about critical          *)
(* messages: while a session is open they reach the viewer in the order in *)
(* which they were accepted, none lost and none twice.  Closing a session  *)
(* may lose the newest of them, and a session opens with nothing owed.     *)
(***************************************************************************)
EXTENDS Integers, Sequences

CONSTANT Messages

VARIABLES
  open,   \* a session runs at both ends
  owed    \* critical messages accepted and not yet delivered

vars == <<open, owed>>

Init == open = FALSE /\ owed = <<>>

Open == ~open /\ owed = <<>> /\ open' = TRUE /\ UNCHANGED owed

Accept(m) == open /\ owed' = Append(owed, m) /\ UNCHANGED open

Deliver == owed # <<>> /\ owed' = Tail(owed) /\ UNCHANGED open

Close ==
  /\ open' = FALSE
  /\ \E n \in 0 .. Len(owed) : owed' = SubSeq(owed, 1, n)

Next == Open \/ (\E m \in Messages : Accept(m)) \/ Deliver \/ Close

Spec == Init /\ [][Next]_vars
=============================================================================
