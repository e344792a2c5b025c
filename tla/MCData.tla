------------------------------- MODULE MCData -------------------------------
(* Blocks of the pool and handle slots are interchangeable.                *)
EXTENDS DataNodes, TLC

Symmetry == Permutations(Node) \cup Permutations(Handle)

=============================================================================
