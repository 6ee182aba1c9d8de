------------------------- MODULE MCArtifactVersions -------------------------
EXTENDS ArtifactVersions, TLC
RequestSymmetry == Permutations(Requests)
=============================================================================
