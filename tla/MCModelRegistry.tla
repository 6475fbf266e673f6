---------------------------- MODULE MCModelRegistry ----------------------------
(***************************************************************************)
(* Instances of ModelPortal for TLC.                                       *)
(***************************************************************************)
EXTENDS ModelPortal, TLC

Symmetry == Permutations(Requests) \cup Permutations(Names)
================================================================================
