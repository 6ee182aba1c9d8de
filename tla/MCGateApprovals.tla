--------------------------- MODULE MCGateApprovals ---------------------------
EXTENDS GateApprovals, TLC
CallSymmetry == Permutations(Requests) \cup Permutations(Calls)
=============================================================================
