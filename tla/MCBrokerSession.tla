---------------------------- MODULE MCBrokerSession ---------------------------
(***************************************************************************)
(* Instances of BrokerSession: two workers, one of them with two requests. *)
(***************************************************************************)
EXTENDS BrokerSession

CONSTANTS w1, w2, r1, r2, r3

TwoHomes == [r \in Requests |-> IF r = r3 THEN w2 ELSE w1]

AngelOne(rs, fs, n) ==
    [broker |-> "angel_one", analytics |-> FALSE, calls |-> rs, faults |-> fs,
     max |-> n]
Upstox(rs, at) ==
    [broker |-> "upstox", analytics |-> at, calls |-> rs,
     faults |-> {"expiry"}, max |-> 1]

MCModes ==
    {AngelOne({r1, r2, r3}, {"expiry"}, 1),
     AngelOne({r1, r3}, Faults, 2),
     Upstox({r1}, FALSE), Upstox({r1, r2}, FALSE), Upstox({r1}, TRUE)}

=============================================================================
