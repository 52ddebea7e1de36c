------------------------------- MODULE QuotePath ------------------------------
(***************************************************************************)
(* Live quotes of one instrument: MarketEngine.get_live_quote (Angel One,   *)
(* src/engines/market_engine.py) and DualProviderEngine.get_live_quote      *)
(* (Angel One and Upstox, src/engines/dual_provider_engine.py).            *)
(*                                                                         *)
(* Requests of one engine overlap at the awaits of their provider calls,   *)
(* the session moves on meanwhile, and a cache in memory answers outside   *)
(* the regular session.                                                    *)
(***************************************************************************)
EXTENDS MarketSession, Reconcile, FiniteSets

CONSTANTS
    Pending,    \* no answer yet
    Requests,   \* requests under way at a time
    Modes,      \* [engine, raws, flights, calls, instants]: an engine, what
                \* its providers may report, and the bounds of a behaviour:
                \* requests under way at a time and in all, and the moments
                \* at which something happens
    Calendars,  \* calendars a behaviour may have
    Second,     \* seconds in a unit of time
    MaxAge      \* _MAX_CACHED_QUOTE_AGE_SEC, in units

Values == {Missing} \cup Int
Quotes == [provider : {"none", "angel_one", "upstox"}, ltp : Values]
Entries == [quote : Quotes, ts : Nat, seen : Nat]
Observations ==
    [ltp : Values, stamp : Values \cup {Unreadable}, zoned : BOOLEAN, seen : Nat]

ASSUME QuoteAssumption ==
    /\ Pending \notin {Missing, Unreadable} /\ Missing \notin Entries
    /\ \A m \in Modes : \A raw \in m.raws :
          raw.ltp \in Values /\ raw.lag \in Values \cup {Unreadable} /\ raw.zoned \in BOOLEAN
    /\ \A m \in Modes : /\ m.engine \in {"market", "dual"}
                        /\ m.instants \subseteq Nat /\ m.instants # {}
                        /\ m.flights \in Nat /\ m.calls \in Nat
    /\ Second \in Nat \ {0} /\ MaxAge \in Nat

Providers(engine) == IF engine = "dual" THEN {"angel_one", "upstox"} ELSE {"angel_one"}
NoQuote == [provider |-> "none", ltp |-> Missing]

VARIABLES
    mode, cal,
    now,
    cache,   \* Missing, or [quote, ts, seen]: the quote, when its request
             \* began, when the provider that gave its price looked
    pc,      \* idle or fetching
    start,   \* when a request began, and found the session regular
    ans,     \* ans[r][p]: Pending, Missing after a failure, or what p said
    served,  \* the latest response
    good,    \* ghost: when the latest request with a price that completed began
    calls

vars == <<mode, cal, now, cache, pc, start, ans, served, good, calls>>

-----------------------------------------------------------------------------

Regular == Phase(cal, now) = "REGULAR"
Asked == Providers(mode.engine)
Waiting == [p \in {"angel_one", "upstox"} |-> Pending]

\* What the normalisers make of a report: the stamp is the provider's text.
Normalised(raw) ==
    [ltp |-> raw.ltp,
     stamp |-> IF raw.lag \in Int THEN now * Second - raw.lag ELSE raw.lag,
     zoned |-> raw.zoned,
     seen |-> now]

Init ==
    /\ mode \in Modes /\ cal \in Calendars
    /\ now = Min(mode.instants)
    /\ cache = Missing
    /\ pc = [r \in Requests |-> "idle"]
    /\ start = [r \in Requests |-> 0]
    /\ ans = [r \in Requests |-> Waiting]
    /\ served = Missing
    /\ good = Missing
    /\ calls = 0

\* The clock.
Advance ==
    /\ \E t \in mode.instants : now < t
    /\ now' = Min({t \in mode.instants : now < t})
    /\ UNCHANGED <<mode, cal, cache, pc, start, ans, served, good, calls>>

\* A response; where it comes from is kept for the properties.
Response(q, how, began) == [quote |-> q, how |-> how, began |-> began]

\* The cached quote, or an empty one.  The dual engine knows no age.
CachedOrEmpty(began) ==
    IF cache # Missing /\ (mode.engine = "dual" \/ began - cache.ts <= MaxAge)
      THEN Response(cache.quote, "cache", began)
      ELSE Response(NoQuote, "empty", began)

\* get_live_quote in the regular session asks the providers.
Begin(r) ==
    /\ pc[r] = "idle" /\ calls < mode.calls
    /\ Cardinality({x \in Requests : pc[x] # "idle"}) < mode.flights
    /\ Regular
    /\ calls' = calls + 1
    /\ pc' = [pc EXCEPT ![r] = "fetching"]
    /\ start' = [start EXCEPT ![r] = now]
    /\ UNCHANGED <<mode, cal, now, cache, ans, served, good>>

\* Outside the regular session it answers at once.
ServeClosed ==
    /\ ~Regular /\ calls < mode.calls
    /\ calls' = calls + 1
    /\ served' = CachedOrEmpty(now)
    /\ UNCHANGED <<mode, cal, now, cache, pc, start, ans, good>>

\* A provider answers, or fails, or knows no token for the instrument.
Answer(r, p) ==
    /\ pc[r] = "fetching" /\ p \in Asked /\ ans[r][p] = Pending
    /\ \E a \in {Missing} \cup {Normalised(raw) : raw \in mode.raws} :
          ans' = [ans EXCEPT ![r][p] = a]
    /\ UNCHANGED <<mode, cal, now, cache, pc, start, served, good, calls>>

Answered(r) == pc[r] = "fetching" /\ \A p \in Asked : ans[r][p] # Pending

Finish(r) ==
    /\ pc' = [pc EXCEPT ![r] = "idle"]
    /\ start' = [start EXCEPT ![r] = 0]
    /\ ans' = [ans EXCEPT ![r] = Waiting]
    /\ UNCHANGED <<mode, cal, now, calls>>

Entry(r, q) ==
    [quote |-> q, ts |-> start[r],
     seen |-> IF q.provider = "none" THEN start[r] ELSE ans[r][q.provider].seen]

Note(r, q) == good' = IF q.ltp = Missing THEN good ELSE start[r]

\* Mutant: what the provider did not supply replaces what it supplied before.
CompleteMarketBlindly(r) ==
    /\ mode.engine = "market" /\ Answered(r)
    /\ LET a == ans[r]["angel_one"]
           q == IF a = Missing THEN NoQuote
                ELSE [provider |-> "angel_one", ltp |-> a.ltp]
       IN /\ cache' = Entry(r, q)
          /\ served' = Response(q, "live", start[r])
          /\ Note(r, q)
    /\ Finish(r)

\* MarketEngine: without a price the normaliser refuses the quote, and the
\* cached one is served under the status REGULAR.
CompleteMarket(r) ==
    /\ mode.engine = "market" /\ Answered(r)
    /\ LET a == ans[r]["angel_one"]
       IN IF a = Missing \/ (a # Missing /\ a.ltp = Missing)
            THEN served' = CachedOrEmpty(start[r]) /\ UNCHANGED <<cache, good>>
            ELSE LET q == [provider |-> "angel_one", ltp |-> a.ltp]
                 IN /\ cache' = Entry(r, q)
                    /\ served' = Response(q, "live", start[r])
                    /\ Note(r, q)
    /\ Finish(r)

\* DualProviderEngine: the canonical quote is cached whatever is in it.
CompleteDual(r) ==
    /\ mode.engine = "dual" /\ Answered(r)
    /\ LET q == Canonical(ans[r]["angel_one"], ans[r]["upstox"], start[r] * Second)
       IN /\ cache' = Entry(r, q)
          /\ served' = Response(q, "live", start[r])
          /\ Note(r, q)
    /\ Finish(r)

Next == \/ Advance
        \/ ServeClosed
        \/ \E r \in Requests :
              \/ Begin(r)
              \/ \E p \in Asked : Answer(r, p)
              \/ CompleteMarket(r) \/ CompleteDual(r)

Spec == Init /\ [][Next]_vars

-----------------------------------------------------------------------------
(* Properties.                                                             *)

TypeOK ==
    /\ mode \in Modes /\ cal \in Calendars /\ now \in mode.instants
    /\ cache \in {Missing} \cup Entries
    /\ pc \in [Requests -> {"idle", "fetching"}]
    /\ start \in [Requests -> Nat]
    /\ ans \in [Requests -> [{"angel_one", "upstox"} -> {Pending, Missing} \cup Observations]]
    /\ served \in {Missing} \cup [quote : Quotes, how : {"cache", "empty", "live"}, began : Nat]
    /\ calls \in 0 .. mode.calls

\* The price in the cache was looked up in a regular session.  It does not
\* hold: a request that began in the session stores its answer when it comes,
\* and get_live_quote does not read the phase again.
PricesOfTheSession ==
    cache # Missing /\ cache.quote.ltp # Missing => Phase(cal, cache.seen) = "REGULAR"

\* Once a quote with a price has been acquired, no failure of the provider
\* makes MarketEngine forget it: within 24 hours it never answers empty.
LastGoodQuoteKept ==
    [][mode.engine = "market" /\ good # Missing /\ served' # served
         => (served'.began - good <= MaxAge => served'.quote.ltp # Missing)]_vars

\* The price of r comes from the provider whose readable timestamp is more
\* than StaleThreshold seconds older than the other's.
StalePrice(r) ==
    LET a == ans[r]["angel_one"]
        b == ans[r]["upstox"]
    IN /\ a # Missing /\ b # Missing /\ Readable(a) /\ Readable(b)
       /\ IF Canonical(a, b, start[r] * Second).provider = "upstox"
            THEN a.stamp - b.stamp > StaleThreshold
            ELSE b.stamp - a.stamp > StaleThreshold

\* "STALE: choose the fresher provider" (_select_canonical_quote).  It does
\* not hold of two timestamps of which one names its zone.
FresherPriceWins ==
    \A r \in Requests : mode.engine = "dual" /\ Answered(r) => ~StalePrice(r)

\* That is the only way to a stale price, and the price is then Angel One's:
\* whatever the prices, none of the other rules of selection lets an older
\* observation win over one that is more than StaleThreshold seconds fresher.
StaleOnlyUnzoned ==
    \A r \in Requests : mode.engine = "dual" /\ Answered(r) /\ StalePrice(r) =>
        LET a == ans[r]["angel_one"]
            b == ans[r]["upstox"]
        IN /\ a.zoned # b.zoned
           /\ Canonical(a, b, start[r] * Second).provider = "angel_one"

\* The search for the next change of phase finds the first one, over nights,
\* holidays and half days.
NextChangeIsFirst ==
    LET next == NextPhaseChange(cal, now)
    IN /\ now < next
       /\ Phase(cal, next) # Phase(cal, now)
       /\ \A t \in now .. next - 1 : Phase(cal, t) = Phase(cal, now)

=============================================================================
