------------------------------ MODULE MCUniverse ------------------------------
(***************************************************************************)
(* Instances of Universe: NSE's list trades one symbol for another, and    *)
(* one of them is synthetic; the script knows one that is on both lists.   *)
(***************************************************************************)
EXTENDS Universe

CONSTANTS a, b, c, d

MCLists == {{a, b}, {b, c}, {b, d}}

=============================================================================
