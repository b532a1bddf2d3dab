------------------------------ MODULE FrameFeed ------------------------------
(***************************************************************************)
(* What the frame stream promises, with no ring, channel or session in it: *)
(* the viewer displays frames the producer has composed, may skip any of   *)
(* them (latest-frame coalescing), and never goes back to an older one     *)
(* except by starting over with nothing.                                   *)
(***************************************************************************)
EXTENDS Integers

VARIABLES
  composed,   \* identifier of the newest composed frame
  displayed   \* identifier of the frame on screen; 0 for none

vars == <<composed, displayed>>

Init == composed = 0 /\ displayed = 0

Compose ==
  /\ composed' = composed + 1
  /\ UNCHANGED displayed

Display ==
  /\ displayed' \in displayed + 1 .. composed
  /\ UNCHANGED composed

ViewerRestarts ==
  /\ displayed' = 0
  /\ UNCHANGED composed

Next == Compose \/ Display \/ ViewerRestarts

Spec == Init /\ [][Next]_vars
=============================================================================
