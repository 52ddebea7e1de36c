----------------------------- MODULE MarketSession ----------------------------
(***************************************************************************)
(* src/engines/market_session.py: the phases of a trading day of the NSE    *)
(* and the search for the next change of phase.  Time is counted in units   *)
(* from midnight (IST) of day 0; a calendar says which days trade and which *)
(* of these are half days.                                                 *)
(***************************************************************************)
EXTENDS Integers, FiniteSetsExt

CONSTANTS
    Day,              \* length of a day
    Minute,           \* the step of the search
    PreOpenStart, PreOpenEnd, CallAuctionEnd, RegularEnd, PostMarketEnd,
    HalfRegularEnd, HalfPostMarketEnd,
    MaxDays           \* how many days the search looks ahead (8)

ASSUME SessionAssumption ==
    /\ {Day, Minute, MaxDays} \subseteq Nat \ {0}
    /\ {PreOpenStart, PreOpenEnd, CallAuctionEnd, RegularEnd, PostMarketEnd,
        HalfRegularEnd, HalfPostMarketEnd} \subseteq 1 .. Day - 1
    /\ PreOpenStart + Minute < PreOpenEnd
    /\ PreOpenEnd + Minute < CallAuctionEnd
    /\ CallAuctionEnd + Minute < HalfRegularEnd
    /\ HalfRegularEnd <= RegularEnd
    /\ RegularEnd + Minute < PostMarketEnd
    /\ HalfRegularEnd + Minute < HalfPostMarketEnd
    /\ PostMarketEnd + Minute <= Day /\ HalfPostMarketEnd + Minute <= Day
    /\ Day % Minute = 0

Phases == {"PRE_OPEN", "PRE_OPEN_CALL_AUCTION", "REGULAR", "POST_MARKET", "CLOSED"}

RegularEndOf(half) == IF half THEN HalfRegularEnd ELSE RegularEnd
PostEndOf(half) == IF half THEN HalfPostMarketEnd ELSE PostMarketEnd

\* Boundaries are inclusive at the start and exclusive at the end.
Classify(m, half) ==
    CASE m \in PreOpenStart .. PreOpenEnd - 1 -> "PRE_OPEN"
      [] m \in PreOpenEnd .. CallAuctionEnd - 1 -> "PRE_OPEN_CALL_AUCTION"
      [] m \in CallAuctionEnd .. RegularEndOf(half) - 1 -> "REGULAR"
      [] m \in RegularEndOf(half) .. PostEndOf(half) - 1 -> "POST_MARKET"
      [] OTHER -> "CLOSED"

\* A calendar is [closed |-> days without trading, half |-> half days].
Phase(cal, t) ==
    LET d == t \div Day
    IN IF d \in cal.closed THEN "CLOSED" ELSE Classify(t % Day, d \in cal.half)

\* The end of a phase on a day.
EndOf(phase, half) ==
    CASE phase = "CLOSED" -> PreOpenStart
      [] phase = "PRE_OPEN" -> PreOpenEnd
      [] phase = "PRE_OPEN_CALL_AUCTION" -> CallAuctionEnd
      [] phase = "REGULAR" -> RegularEndOf(half)
      [] phase = "POST_MARKET" -> PostEndOf(half)

\* Mutant: the boundaries of half days are forgotten.
SnapToFullDay(cal, candidate, phase) ==
    (candidate \div Day) * Day + EndOf(phase, FALSE)

\* The search oversteps a boundary by less than a minute; the boundary itself
\* is computed from the phase that was left.
Snap(cal, candidate, phase) ==
    LET d == candidate \div Day
        boundary == d * Day + EndOf(phase, d \in cal.half)
    IN IF boundary <= candidate - 2 * Minute THEN boundary + Day ELSE boundary

NextPhaseChange(cal, t) ==
    LET steps == MaxDays * (Day \div Minute)
        crossed == {k \in 1 .. steps : Phase(cal, t + k * Minute) # Phase(cal, t)}
    IN IF crossed = {} THEN t + (steps + 1) * Minute
                       ELSE Snap(cal, t + Min(crossed) * Minute, Phase(cal, t))

=============================================================================
