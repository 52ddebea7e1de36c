--------------------------- MODULE MCCircuitBreaker ---------------------------
(***************************************************************************)
(* Instances of CircuitBreaker for TLC.                                    *)
(***************************************************************************)
EXTENDS CircuitBreaker

CONSTANTS r1, r2, c1, c2, c3, m1

\* Every caller in one replica.
OneHome == [c \in Callers \cup Monitors |-> r1]

\* The first caller alone, the others, and the monitor, in the second replica.
TwoHomes == [c \in Callers \cup Monitors |-> IF c = c1 THEN r1 ELSE r2]

=============================================================================
