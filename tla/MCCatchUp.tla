------------------------------- MODULE MCCatchUp -------------------------------
(***************************************************************************)
(* Instances of CatchUp for TLC.                                           *)
(***************************************************************************)
EXTENDS CatchUp

CONSTANTS idx, stk, fut, day, minute

\* The table, and a universe that is empty.
AllOrNothing == {{idx, stk, fut}, {}}

=============================================================================
