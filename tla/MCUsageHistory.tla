--------------------------- MODULE MCUsageHistory ----------------------------
(* The usage history with interchangeable records. *)
EXTENDS UsageHistory, TLC

Symmetry == Permutations(Records)
=============================================================================
