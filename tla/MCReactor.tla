------------------------------ MODULE MCReactor ------------------------------
EXTENDS Reactor
CONSTANTS p1, p2, p3
Symmetry == Permutations(Threads)
=============================================================================
