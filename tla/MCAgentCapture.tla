----------------------------- MODULE MCAgentCapture -----------------------------
(***************************************************************************)
(* An instance of AgentCapture: a keyboard and a mouse, each a group of    *)
(* its own on the USB bus.  The keyboard has the binding key and one more; *)
(* the two are the chord.                                                  *)
(***************************************************************************)
EXTENDS AgentCapture

CONSTANTS keyboard1, mouse1

MCDevices == {keyboard1, mouse1}
MCGroup == [d \in MCDevices |-> IF d = keyboard1 THEN 1 ELSE 2]
MCBaseCode == [k \in {"F8", "F12"} |-> IF k = "F8" THEN 66 ELSE 88]
MCChord == {{66}, {88}}
=============================================================================
