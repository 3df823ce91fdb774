----------------------------- MODULE MCApproval -----------------------------
(* Instances of Approval for TLC. *)
EXTENDS Approval, TLC

Symmetry == Permutations(Specs)
=============================================================================
