---------------------------- MODULE MCCacheManager ----------------------------
(***************************************************************************)
(* Instances of CacheManager for TLC.  Tasks are interchangeable.          *)
(***************************************************************************)
EXTENDS CacheManager, TLC

CONSTANTS t1, t2, t3, k1, k2

TaskSymmetry == Permutations(Tasks)

=============================================================================
