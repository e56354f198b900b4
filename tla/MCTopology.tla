----------------------------- MODULE MCTopology -----------------------------
\* Model-checking instance of Topology: the names are interchangeable.
EXTENDS Topology

NameSymmetry == Permutations(Names)
=============================================================================
