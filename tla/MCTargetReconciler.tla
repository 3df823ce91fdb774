------------------------- MODULE MCTargetReconciler -------------------------
(***************************************************************************)
(* TargetReconciler for TLC.  Rule keys and audit identifiers are only     *)
(* compared for equality, so the safety runs may permute them.             *)
(***************************************************************************)
EXTENDS TargetReconciler, TLC

Symmetry == Permutations(Keys) \cup Permutations(AuditIDs)
=============================================================================
