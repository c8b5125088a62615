--------------------------- MODULE HeatingPromise ---------------------------
(***************************************************************************)
(* What the heating mode promises, without polls, calls, files or          *)
(* restarts: normal is only ever learned from offsets a hand chose, only   *)
(* while normal is shown or being chosen, and the only other offsets the   *)
(* pump is given are the ones the modes stand for.                         *)
(***************************************************************************)
CONSTANTS
  Modes, Normal,
  HandOffsets,
  ModeOffset(_, _),   \* what the pump keeps when a mode is written
  Unknown             \* no normal offset learned yet

VARIABLES mode, normal, pump, meant

promise == <<mode, normal, pump, meant>>

Init ==
  /\ mode = Normal
  /\ normal = Unknown
  /\ pump \in HandOffsets
  /\ meant = {pump}

(* The offset is changed outside the select. *)
Hand ==
  /\ pump' \in HandOffsets
  /\ meant' = meant \union {pump'}
  /\ UNCHANGED <<mode, normal>>

(* In normal the offset changed by hand becomes the new normal.  Which of  *)
(* several changes has been seen yet is left open.                         *)
Learn ==
  /\ mode = Normal
  /\ normal' \in meant \union {Unknown}
  /\ UNCHANGED <<mode, pump, meant>>

(* A mode's offset is given to the pump. *)
Steer ==
  /\ normal # Unknown
  /\ \E m \in Modes : pump' = ModeOffset(m, normal)
  /\ UNCHANGED <<mode, normal, meant>>

(* The mode chosen is shown; only normal itself takes up the pump's offset.*)
Show ==
  /\ normal # Unknown
  /\ mode' \in Modes
  /\ IF mode' = Normal THEN normal' \in meant ELSE normal' = normal
  /\ UNCHANGED <<pump, meant>>

Next == Hand \/ Learn \/ Steer \/ Show

Spec == Init /\ [][Next]_promise
=============================================================================
