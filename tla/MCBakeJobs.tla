----------------------------- MODULE MCBakeJobs -----------------------------
(***************************************************************************)
(* BakeJobs on small instances. The configurations give the sets and the   *)
(* bounds; lessons, workers and tabs are interchangeable, so the safety    *)
(* runs use their permutations as symmetry.                                *)
(***************************************************************************)
EXTENDS BakeJobs, TLC

Symmetry == Permutations(Lessons) \cup Permutations(Workers) \cup Permutations(Clients)
=============================================================================
