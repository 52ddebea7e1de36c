------------------------------ MODULE MCQuotePath -----------------------------
(***************************************************************************)
(* Instances of QuotePath: a day of 24 units, whose phases are longer than *)
(* the two units of the search's minute; three days of which some do not   *)
(* trade or end early.                                                     *)
(***************************************************************************)
EXTENDS QuotePath, TLC

CONSTANTS r1, r2

MCCalendars == {[closed |-> {}, half |-> {1}], [closed |-> {1}, half |-> {2}]}
Prices(ltps) == [ltp : ltps, lag : {0}, zoned : {TRUE}]
Rich == [ltp : {Missing, 0, 1000, 1002, 1010}, lag : {Missing, Unreadable, 0, 4, 9},
         zoned : BOOLEAN]

MCModes ==
    {[engine |-> "market", raws |-> Prices({Missing, 1000}), flights |-> 2, calls |-> 4,
      instants |-> {4, 6, 12, 15, 23, 34, 36, 37, 39, 60, 61}],
     [engine |-> "dual", raws |-> Prices({1000}), flights |-> 2, calls |-> 3,
      instants |-> {6, 12, 23, 36, 61}],
     [engine |-> "dual", raws |-> Rich, flights |-> 1, calls |-> 1, instants |-> {12}]}

RequestSymmetry == Permutations(Requests)

=============================================================================
