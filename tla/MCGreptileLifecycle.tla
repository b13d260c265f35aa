------------------------ MODULE MCGreptileLifecycle ------------------------
EXTENDS GreptileLifecycle
CONSTANTS s1, s2
MCSessions == {s1, s2}
Symmetry == Permutations(MCSessions)
=============================================================================
