-------------------------- MODULE MCSkillExecutions --------------------------
EXTENDS SkillExecutions, TLC
RequestSymmetry == Permutations(Requests) \cup Permutations(Batches)
=============================================================================
