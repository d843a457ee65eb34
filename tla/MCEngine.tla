------------------------------ MODULE MCEngine ------------------------------
EXTENDS Engine, TLC

CONSTANTS k1, k2

OneKey == {k1}

TwoKeys == {k1, k2}

KeySymmetry == Permutations(TwoKeys)
=============================================================================
