---------------------------- MODULE MCTeacherTab ----------------------------
(***************************************************************************)
(* TeacherTab between two lessons, which are alike. The bounds are in the  *)
(* configuration.                                                          *)
(***************************************************************************)
EXTENDS TeacherTab, TLC

Symmetry == Permutations(Lessons)
=============================================================================
