--------------------------- MODULE MCControlPlane ----------------------------
(* The control plane with interchangeable nodes and operators. *)
EXTENDS ControlPlane, TLC

Symmetry == Permutations(Nodes) \cup Permutations(Admins)
=============================================================================
