----------------------------- MODULE MCAuditStore -----------------------------
(***************************************************************************)
(* Instances of AuditStore for TLC.                                        *)
(***************************************************************************)
EXTENDS AuditStore, TLC

Symmetry == Permutations(AuditIds) \cup Permutations(Singles) \cup Permutations(Batches)
================================================================================
