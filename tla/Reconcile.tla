------------------------------- MODULE Reconcile ------------------------------
(***************************************************************************)
(* src/engines/reconciliation_engine.py: how two observations of one quote, *)
(* from Angel One and from Upstox, become one.  An observation has a price  *)
(* (ltp) and a source timestamp (stamp); each may be missing, a timestamp   *)
(* may be unreadable, and it may name its time zone (zoned) or not.        *)
(***************************************************************************)
EXTENDS Integers

CONSTANTS
    Missing,         \* None: a value, or a whole observation
    Unreadable,      \* a timestamp that cannot be parsed
    StaleThreshold   \* _STALE_THRESHOLD_SEC

ASSUME ReconcileAssumption == /\ Missing \notin Int /\ Unreadable \notin Int
                              /\ Missing # Unreadable
                              /\ StaleThreshold \in Nat

Abs(n) == IF n < 0 THEN -n ELSE n

\* A stamp that names no zone is read as UTC: stamp is the instant read so.
Readable(obs) == obs.stamp \in Int

\* _timestamp_diff_ms exceeds the threshold; without two readable timestamps
\* there is no difference.
FarApart(a, b) ==
    Readable(a) /\ Readable(b) /\ Abs(a.stamp - b.stamp) > StaleThreshold

\* Without two prices, or if Angel One's is 0, there is no relative difference.
HasDiff(a, b) == a.ltp # Missing /\ b.ltp # Missing /\ a.ltp # 0

\* Mutant: prices are compared before timestamps.
PricesFirst(a, b) ==
    IF ~HasDiff(a, b) THEN "MISSING"
    ELSE IF Abs(a.ltp - b.ltp) * 200 < a.ltp THEN "MINOR_DIFFERENCE"
    ELSE "SIGNIFICANT_DIFFERENCE"

\* _classify_ltp_diff: 0.1 % and 0.5 %.
LtpClass(a, b) ==
    IF FarApart(a, b) THEN "STALE"
    ELSE IF ~HasDiff(a, b) THEN "MISSING"
    ELSE IF Abs(a.ltp - b.ltp) * 1000 < a.ltp THEN "MATCH"
    ELSE IF Abs(a.ltp - b.ltp) * 200 < a.ltp THEN "MINOR_DIFFERENCE"
    ELSE "SIGNIFICANT_DIFFERENCE"

\* _is_fresher: a missing timestamp is replaced by the time of receipt, which
\* both observations of a request share and which is UTC.  What cannot be
\* parsed is not fresher, nor is a time with a zone compared with one without.
Fresher(x, y, received) ==
    LET at(obs) == IF obs.stamp = Missing THEN received ELSE obs.stamp
        zoned(obs) == obs.stamp = Missing \/ obs.zoned
    IN /\ at(x) \in Int /\ at(y) \in Int
       /\ zoned(x) <=> zoned(y)
       /\ at(x) > at(y)

\* _select_canonical_quote: who provides the price.
Winner(a, b, received) ==
    CASE LtpClass(a, b) \in {"STALE", "MATCH", "MINOR_DIFFERENCE"} ->
             IF Fresher(b, a, received) THEN "upstox" ELSE "angel_one"
      [] OTHER -> "upstox"

\* reconcile_quote: a and b are observations, or Missing.
Canonical(a, b, received) ==
    CASE a = Missing /\ b = Missing -> [provider |-> "none", ltp |-> Missing]
      [] a = Missing /\ b # Missing -> [provider |-> "upstox", ltp |-> b.ltp]
      [] a # Missing /\ b = Missing -> [provider |-> "angel_one", ltp |-> a.ltp]
      [] OTHER -> LET w == Winner(a, b, received)
                  IN [provider |-> w,
                      ltp |-> IF w = "upstox" THEN b.ltp ELSE a.ltp]

=============================================================================
