------------------------------ MODULE MCReplayRun ------------------------------
(* Instances of ReplayRun for TLC. *)
EXTENDS ReplayRun, TLC

Symmetry == Permutations(Commits) \cup Permutations(Patches)
=============================================================================
