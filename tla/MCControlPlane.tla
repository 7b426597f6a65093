---------------------------- MODULE MCControlPlane ----------------------------
EXTENDS ControlPlane, TLC

(* No command and no scan is told from another. *)
Symmetry == Permutations(Commands) \cup Permutations(Scans)
=============================================================================
