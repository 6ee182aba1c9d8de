------------------------------ MODULE MCArchFix ------------------------------
EXTENDS ArchFix, TLC
FixSymmetry == Permutations(Cards)
=============================================================================
