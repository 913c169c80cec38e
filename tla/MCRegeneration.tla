--------------------------- MODULE MCRegeneration ---------------------------
(***************************************************************************)
(* Regeneration on a lesson of two visible blocks, one with a warning, and *)
(* an empty rejected tray.                                                 *)
(***************************************************************************)
EXTENDS Regeneration

Generated(id, phase, warn) ==
  [id |-> id, phase |-> phase, content |-> id, warn |-> warn, flagged |-> FALSE,
   edited |-> FALSE, generated |-> TRUE]

OneVisiblePerPhase == [p \in Phases |-> 1]

TwoBlocks ==
  {[blocks |-> <<Generated(1, 1, TRUE), Generated(2, 2, FALSE)>>, rejected |-> <<>>,
    accepted |-> FALSE, focusSupported |-> TRUE]}
=============================================================================
