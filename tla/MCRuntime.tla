----------------------------- MODULE MCRuntime -----------------------------
EXTENDS Runtime, TLC

\* Instances, and addresses, are interchangeable.
Symmetry == Permutations(Guests \ {Compiler}) \cup Permutations(Addrs)
=============================================================================
