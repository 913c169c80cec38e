------------------------ MODULE MCReviewAttestation ------------------------
(***************************************************************************)
(* ReviewAttestation with two requests that differ only in what the old    *)
(* key left out, and a third for a head that has no old row.               *)
(***************************************************************************)
EXTENDS ReviewAttestation, TLC
CONSTANTS h1, h2, b1, b2

MCInputs == {<<h1, b1>>, <<h1, b2>>, <<h2, b1>>}
Symmetry == Permutations(Procs) \cup Permutations(Tokens) \cup Permutations(Spare)
=============================================================================
