--------------------------- MODULE ViewportRegister ---------------------------
(***************************************************************************)
(* What viewport synchronisation promises: the browser's view takes the    *)
(* size that was asked for last, may skip sizes asked for in between, and  *)
(* does take it eventually.                                                *)
(***************************************************************************)
CONSTANTS Sizes, InitialSize

VARIABLES
  asked,    \* the size asked for last
  applied   \* the size of the view

vars == <<asked, applied>>

Init == asked = InitialSize /\ applied = InitialSize

Ask(s) == asked' = s /\ UNCHANGED applied

Apply == applied' = asked /\ UNCHANGED asked

Next == (\E s \in Sizes : Ask(s)) \/ Apply

Spec == Init /\ [][Next]_vars
FairSpec == Spec /\ WF_vars(Apply)
=============================================================================
