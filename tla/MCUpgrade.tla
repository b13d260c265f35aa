------------------------------ MODULE MCUpgrade ------------------------------
EXTENDS Upgrade, TLC

CONSTANTS w1, w2

MCWork == {w1, w2}
MCSymmetry == Permutations(MCWork)
=============================================================================
