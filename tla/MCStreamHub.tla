----------------------------- MODULE MCStreamHub -----------------------------
(***************************************************************************)
(* Instances of StreamHub for TLC.                                         *)
(***************************************************************************)
EXTENDS StreamHub

CONSTANTS c1, c2, s1, s2

=============================================================================
