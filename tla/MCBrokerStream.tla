---------------------------- MODULE MCBrokerStream ----------------------------
(***************************************************************************)
(* Instances of BrokerStream for TLC: a cap of 30 s against one of 60 s    *)
(* becomes 3 against 4.                                                    *)
(***************************************************************************)
EXTENDS BrokerStream, TLC

CONSTANTS a, b

Indian == {"angel_one", "upstox"}
Caps == [x \in Adapters |-> IF x \in Indian THEN 4 ELSE 3]
TokenSymmetry == Permutations(Instruments)

=============================================================================
