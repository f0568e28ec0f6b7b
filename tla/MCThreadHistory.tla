-------------------------- MODULE MCThreadHistory --------------------------
EXTENDS ThreadHistory, TLC

CONSTANTS plain, strict

MCSettings == {plain, strict}
Symmetry == Permutations(MCSettings)
=============================================================================
