------------------------------ MODULE MCBackfill ------------------------------
(***************************************************************************)
(* Instances of Backfill for TLC.                                          *)
(***************************************************************************)
EXTENDS Backfill, TLC

CONSTANTS j1, j2

JobSymmetry == Permutations(Jobs)

=============================================================================
