----------------------------- MODULE MCTickPath -----------------------------
(***************************************************************************)
(* Instances of TickPath for TLC.                                          *)
(***************************************************************************)
EXTENDS TickPath

CONSTANTS s1, s2

=============================================================================
