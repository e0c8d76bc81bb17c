----------------------------- MODULE MCPluginPool -----------------------------
(* Instances of PluginPool for TLC. *)
EXTENDS PluginPool

\* The caller of the pool numbers its requests: distinct ids.
DistinctIds == [r \in Requests |-> r]

Plain == {FALSE}
Memoized == {TRUE}
Both == BOOLEAN

Symmetry == Permutations(Callers) \cup Permutations(Workers)
=============================================================================
