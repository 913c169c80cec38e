--------------------------- MODULE MCStaffAccess ---------------------------
(***************************************************************************)
(* StaffAccess with two teachers and two Google accounts, one of them on   *)
(* the allowlist for the second teacher, who may have come with it before. *)
(***************************************************************************)
EXTENDS StaffAccess, TLC

Symmetry == Permutations(Tabs) \cup Permutations(Proofs) \cup Permutations(Requests)
=============================================================================
