--------------------------- MODULE MCStagePipeline ---------------------------
EXTENDS StagePipeline, TLC
RequestSymmetry == Permutations(Requests \ Faulty)
=============================================================================
