--------------------------- MODULE MCLessonReview ---------------------------
(***************************************************************************)
(* LessonReview on a lesson of three blocks, one visible block per phase:  *)
(* a warning, a flagged block and a reserve block; the rejected tray holds *)
(* an activity and a notice.                                               *)
(***************************************************************************)
EXTENDS LessonReview

Baked(id, phase, warn, flagged) ==
  [id |-> id, phase |-> phase, content |-> id, warn |-> warn, flagged |-> flagged,
   edited |-> FALSE, generated |-> TRUE]

OneVisiblePerPhase == [p \in Phases |-> 1]

SmallLessons ==
  {[blocks |-> <<Baked(1, 1, TRUE, FALSE), Baked(2, 2, FALSE, TRUE), Baked(3, 2, FALSE, FALSE)>>,
    rejected |-> <<[kind |-> "notice", content |-> 4], [kind |-> "activity", content |-> 5]>>,
    accepted |-> FALSE, focusSupported |-> supported] : supported \in BOOLEAN}
=============================================================================
