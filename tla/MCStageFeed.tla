----------------------------- MODULE MCStageFeed -----------------------------
(* Instances of StageFeed. *)
EXTENDS StageFeed
=============================================================================
