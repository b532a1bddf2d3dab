----------------------------- MODULE EmergencyChord -----------------------------
(***************************************************************************)
(* The chord that stops the agent (EmergencyChord): Ctrl+Alt+Shift+F12,    *)
(* every key held on one routed keyboard group.  Chord is the set of its   *)
(* members, each a set of base scan codes of which one suffices; the       *)
(* extended flag tells two held keys apart but not their base codes.  A    *)
(* group that is not in keyboards_ has the state OnKey gives it first.     *)
(***************************************************************************)
CONSTANTS
  BaseCode,   \* the base scan code of each key
  Chord       \* the members: Ctrl, Alt, either Shift, F12

NoKeyboard == [held |-> {}, latched |-> FALSE]

\* IsChordHeld and HasBaseScanCode.
IsChordHeld(held) == \A member \in Chord : \E k \in held : BaseCode[k] \in member

\* OnKey: the keyboard afterwards, and whether the stop is called for.
HeldAfter(keyboard, k, down) ==
  IF down THEN keyboard.held \union {k} ELSE keyboard.held \ {k}
OnKey(keyboard, k, down, routed) ==
  IF ~routed THEN NoKeyboard
  ELSE [held |-> HeldAfter(keyboard, k, down),
        latched |-> IsChordHeld(HeldAfter(keyboard, k, down))]
StopsAt(keyboard, k, down, routed) ==
  routed /\ ~keyboard.latched /\ IsChordHeld(HeldAfter(keyboard, k, down))
=============================================================================
