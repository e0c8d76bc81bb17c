------------------------------ MODULE MCFrontier ------------------------------
(* The instance of Frontier for TLC. *)
EXTENDS Frontier, TLC

\* Artifacts differ only in whether they are edited.
Symmetry == Permutations(Artifacts \ Edited)
=============================================================================
