------------------------------- MODULE MCList -------------------------------
EXTENDS LinkedList, TLC

\* Node addresses are interchangeable
Symmetry == Permutations(Addr)
=============================================================================
