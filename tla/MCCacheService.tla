---------------------------- MODULE MCCacheService ----------------------------
(***************************************************************************)
(* Instances of CacheService for TLC.                                      *)
(***************************************************************************)
EXTENDS CacheService, TLC

CONSTANTS p, q, far

\* p and q are alike, but less than a prompt is like itself; far is not.
MCScore ==
    [pair \in Prompts \X Prompts |->
        IF pair[1] = pair[2] THEN 10 ELSE IF far \in {pair[1], pair[2]} THEN 3 ELSE 9]

MCOneTTL == [t \in TaskTypes |-> 1]

Symmetry == Permutations(Lookups) \cup Permutations(Writes)
================================================================================
