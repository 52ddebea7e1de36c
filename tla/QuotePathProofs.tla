---------------------------- MODULE QuotePathProofs ----------------------------
(***************************************************************************)
(* What holds of live quotes for any requests, calendars, reports of the   *)
(* providers and thresholds.                                               *)
(***************************************************************************)
EXTENDS QuotePath, WellFoundedInduction, TLAPS

(* Every set of numbers has a least one.                                   *)

LessThan == {ss \in Nat \X Nat : ss[1] < ss[2]}

LEMMA LeastNumber ==
    ASSUME NEW S, S \subseteq Nat, S # {}
    PROVE  Min(S) \in S /\ \A n \in S : Min(S) <= n
<1>1. IsWellFoundedOn(LessThan, Nat)
  BY NatLessThanWellFounded DEF OpToRel, LessThan
<1>2. \E m \in S : \A n \in S : ~ (<<n, m>> \in LessThan)
  BY <1>1, WFMin
<1>3. ASSUME NEW m \in Nat, NEW n \in Nat, ~ (<<n, m>> \in LessThan) PROVE m <= n
  BY <1>3 DEF LessThan
<1>4. \E m \in S : \A n \in S : m <= n
  BY <1>2, <1>3
<1> QED
  BY <1>4 DEF Min

-----------------------------------------------------------------------------
(* The reconciliation, for any two observations.                           *)

Seen(a) == a \in {Missing} \cup Observations

\* Who gave the price was there.
LEMMA CanonicalProvider ==
    ASSUME NEW a, NEW b, NEW received
    PROVE  LET q == Canonical(a, b, received)
           IN  /\ q.provider \in {"none", "angel_one", "upstox"}
               /\ q.provider = "none" <=> a = Missing /\ b = Missing
               /\ q.provider = "angel_one" => a # Missing
               /\ q.provider = "upstox" => b # Missing
BY DEF Canonical, Winner

LEMMA CanonicalType ==
    ASSUME NEW a, NEW b, NEW received, Seen(a), Seen(b)
    PROVE  Canonical(a, b, received) \in Quotes
BY DEF Canonical, Winner, Seen, Quotes, Observations, Values

\* With two readable timestamps of one kind the price is not from the staler
\* one; otherwise, if it is, it is Angel One's.
LEMMA CanonicalFresh ==
    ASSUME NEW a, NEW b, NEW received, a # Missing, b # Missing,
           Readable(a), Readable(b),
           a.zoned \in BOOLEAN, b.zoned \in BOOLEAN
    PROVE  /\ Canonical(a, b, received).provider = "upstox" =>
                 a.stamp - b.stamp <= StaleThreshold
           /\ Canonical(a, b, received).provider # "upstox" =>
                 b.stamp - a.stamp <= StaleThreshold \/ a.zoned # b.zoned
           /\ Canonical(a, b, received).provider \in {"angel_one", "upstox"}
<1>1. /\ Canonical(a, b, received).provider = Winner(a, b, received)
      /\ Winner(a, b, received) \in {"angel_one", "upstox"}
  BY DEF Canonical, Winner
<1>2. /\ a.stamp \in Int /\ b.stamp \in Int /\ StaleThreshold \in Nat
      /\ a.stamp # Missing /\ b.stamp # Missing
  BY ReconcileAssumption DEF Readable
<1>3. CASE FarApart(a, b)
  <2>1. LtpClass(a, b) = "STALE"
    BY <1>3 DEF LtpClass
  <2>2. Fresher(b, a, received) <=> ((b.zoned <=> a.zoned) /\ b.stamp > a.stamp)
    BY <1>2 DEF Fresher
  <2>3. Winner(a, b, received) = IF Fresher(b, a, received) THEN "upstox" ELSE "angel_one"
    BY <2>1 DEF Winner
  <2>4. CASE Fresher(b, a, received)
    BY <1>1, <1>2, <2>2, <2>3, <2>4
  <2>5. CASE ~Fresher(b, a, received)
    <3>1. Winner(a, b, received) = "angel_one"
      BY <2>3, <2>5
    <3>2. CASE a.zoned # b.zoned
      BY <1>1, <3>1, <3>2
    <3>3. CASE a.zoned = b.zoned
      <4>1. ~(b.stamp > a.stamp)
        BY <2>2, <2>5, <3>3
      <4> QED
        BY <1>1, <1>2, <3>1, <4>1
    <3> QED
      BY <3>2, <3>3
  <2> QED
    BY <2>4, <2>5
<1>4. CASE ~FarApart(a, b)
  BY <1>1, <1>2, <1>4 DEF FarApart, Abs
<1> QED
  BY <1>3, <1>4

-----------------------------------------------------------------------------
(* Types.  The instants are the moments of Nat at which something happens. *)

Both == {"angel_one", "upstox"}

LEMMA ModeType ==
    ASSUME mode \in Modes
    PROVE  /\ mode.engine \in {"market", "dual"} /\ Asked \subseteq Both
           /\ mode.instants \subseteq Nat /\ mode.instants # {}
           /\ mode.calls \in Nat
BY QuoteAssumption DEF Asked, Providers, Both

LEMMA NormalisedType ==
    ASSUME TypeOK, NEW raw \in mode.raws
    PROVE  Normalised(raw) \in Observations
<1>1. /\ raw.ltp \in Values /\ raw.lag \in Values \cup {Unreadable} /\ raw.zoned \in BOOLEAN
      /\ Second \in Nat
  BY QuoteAssumption DEF TypeOK
<1>2. now \in Nat
  BY ModeType DEF TypeOK
<1>3. now * Second \in Int
  BY <1>1, <1>2
<1>4. (IF raw.lag \in Int THEN now * Second - raw.lag ELSE raw.lag) \in Values \cup {Unreadable}
  BY <1>1, <1>3 DEF Values
<1> QED
  BY <1>1, <1>2, <1>4 DEF Normalised, Observations, Values

\* The three ways to end a request.
LEMMA FinishTypes ==
    ASSUME TypeOK, NEW r \in Requests, Finish(r)
    PROVE  /\ pc' \in [Requests -> {"idle", "fetching"}]
           /\ start' \in [Requests -> Nat]
           /\ ans' \in [Requests -> [Both -> {Pending, Missing} \cup Observations]]
           /\ UNCHANGED <<mode, cal, now, calls>>
BY DEF TypeOK, Finish, Waiting, Both

LEMMA CachedType ==
    ASSUME TypeOK, NEW began \in Nat
    PROVE  CachedOrEmpty(began)
              \in [quote : Quotes, how : {"cache", "empty", "live"}, began : Nat]
<1>1. cache # Missing => cache.quote \in Quotes
  BY DEF TypeOK, Entries
<1>2. NoQuote \in Quotes
  BY DEF NoQuote, Quotes, Values
<1> QED
  BY <1>1, <1>2 DEF CachedOrEmpty, Response

LEMMA EntryType ==
    ASSUME TypeOK, NEW r \in Requests, NEW q \in Quotes,
           q.provider # "none" => ans[r][q.provider] \in Observations
    PROVE  Entry(r, q) \in Entries
<1>1. start[r] \in Nat
  BY DEF TypeOK
<1>2. q.provider # "none" => ans[r][q.provider].seen \in Nat
  BY DEF Observations
<1> QED
  BY <1>1, <1>2 DEF Entry, Entries

\* The quote of a request whose providers have all answered.
LEMMA AnswersType ==
    ASSUME TypeOK, NEW r \in Requests, Answered(r)
    PROVE  \A p \in Asked : ans[r][p] \in {Missing} \cup Observations
BY ModeType DEF TypeOK, Answered, Both

LEMMA MarketQuote ==
    ASSUME TypeOK, NEW r \in Requests, mode.engine = "market", Answered(r),
           ans[r]["angel_one"] # Missing
    PROVE  LET a == ans[r]["angel_one"]
           IN  /\ a \in Observations
               /\ [provider |-> "angel_one", ltp |-> a.ltp] \in Quotes
<1>1. "angel_one" \in Asked
  BY DEF Asked, Providers
<1>2. ans[r]["angel_one"] \in Observations
  BY <1>1, AnswersType
<1> QED
  BY <1>2 DEF Observations, Quotes

LEMMA DualQuote ==
    ASSUME TypeOK, NEW r \in Requests, mode.engine = "dual", Answered(r)
    PROVE  LET q == Canonical(ans[r]["angel_one"], ans[r]["upstox"], start[r] * Second)
           IN  /\ q \in Quotes
               /\ q.provider # "none" => /\ q.provider \in Asked
                                         /\ ans[r][q.provider] \in Observations
                                         /\ ans[r][q.provider] # Missing
<1> DEFINE a == ans[r]["angel_one"]
           b == ans[r]["upstox"]
           q == Canonical(a, b, start[r] * Second)
<1>1. Asked = {"angel_one", "upstox"}
  BY DEF Asked, Providers
<1>2. a \in {Missing} \cup Observations /\ b \in {Missing} \cup Observations
  BY <1>1, AnswersType
<1>3. q \in Quotes
  BY <1>2, CanonicalType DEF Seen
<1>4. /\ q.provider \in {"none", "angel_one", "upstox"}
      /\ q.provider = "angel_one" => a # Missing
      /\ q.provider = "upstox" => b # Missing
  BY CanonicalProvider
<1> HIDE DEF q
<1>5. q.provider # "none" => /\ q.provider \in Asked
                             /\ ans[r][q.provider] \in Observations
                             /\ ans[r][q.provider] # Missing
  BY <1>1, <1>2, <1>4
<1> QED
  BY <1>3, <1>5 DEF q

LEMMA CompleteTypes ==
    ASSUME TypeOK, NEW r \in Requests, CompleteMarket(r) \/ CompleteDual(r)
    PROVE  TypeOK'
<1>1. /\ pc' \in [Requests -> {"idle", "fetching"}]
      /\ start' \in [Requests -> Nat]
      /\ ans' \in [Requests -> [Both -> {Pending, Missing} \cup Observations]]
      /\ UNCHANGED <<mode, cal, now, calls>>
  BY FinishTypes DEF CompleteMarket, CompleteDual
<1>2. start[r] \in Nat
  BY DEF TypeOK
<1>3. /\ cache' \in {Missing} \cup Entries
      /\ served' \in {Missing} \cup [quote : Quotes, how : {"cache", "empty", "live"}, began : Nat]
  <2>1. ASSUME CompleteMarket(r), ans[r]["angel_one"] = Missing \/ ans[r]["angel_one"].ltp = Missing
        PROVE  cache' = cache /\ served' = CachedOrEmpty(start[r])
    BY <2>1 DEF CompleteMarket
  <2>2. ASSUME CompleteMarket(r), ~ (ans[r]["angel_one"] = Missing \/ ans[r]["angel_one"].ltp = Missing)
        PROVE  \E q \in Quotes : /\ cache' = Entry(r, q) /\ served' = Response(q, "live", start[r])
                                 /\ q.provider # "none" => ans[r][q.provider] \in Observations
    <3> DEFINE a == ans[r]["angel_one"]
               q == [provider |-> "angel_one", ltp |-> a.ltp]
    <3>1. q \in Quotes /\ a \in Observations
      BY <2>2, MarketQuote DEF CompleteMarket
    <3>2. cache' = Entry(r, q) /\ served' = Response(q, "live", start[r])
      BY <2>2 DEF CompleteMarket
    <3> QED
      BY <3>1, <3>2
  <2>3. ASSUME CompleteDual(r)
        PROVE  \E q \in Quotes : /\ cache' = Entry(r, q) /\ served' = Response(q, "live", start[r])
                                 /\ q.provider # "none" => ans[r][q.provider] \in Observations
    <3> DEFINE q == Canonical(ans[r]["angel_one"], ans[r]["upstox"], start[r] * Second)
    <3>1. q \in Quotes /\ (q.provider # "none" => ans[r][q.provider] \in Observations)
      BY <2>3, DualQuote DEF CompleteDual
    <3>2. cache' = Entry(r, q) /\ served' = Response(q, "live", start[r])
      BY <2>3 DEF CompleteDual
    <3> HIDE DEF q
    <3> QED
      BY <3>1, <3>2
  <2>4. ASSUME NEW q \in Quotes, cache' = Entry(r, q), served' = Response(q, "live", start[r]),
               q.provider # "none" => ans[r][q.provider] \in Observations
        PROVE  <1>3
    BY <1>2, <2>4, EntryType DEF Response
  <2>5. cache \in {Missing} \cup Entries
    BY DEF TypeOK
  <2> QED
    BY <1>2, <2>1, <2>2, <2>3, <2>4, <2>5, CachedType
<1> QED
  BY <1>1, <1>3 DEF TypeOK, Both

LEMMA TypeInit == Init => TypeOK
<1> SUFFICES ASSUME Init PROVE TypeOK
  OBVIOUS
<1>1. mode \in Modes /\ cal \in Calendars
  BY DEF Init
<1>2. now \in mode.instants
  BY <1>1, ModeType, LeastNumber DEF Init
<1>3. calls \in 0 .. mode.calls
  BY <1>1, ModeType DEF Init
<1> QED
  BY <1>1, <1>2, <1>3 DEF Init, TypeOK, Waiting

LEMMA TypeStep ==
    ASSUME TypeOK, [Next]_vars
    PROVE  TypeOK'
<1>0. now \in Nat /\ mode.calls \in Nat /\ mode.instants \subseteq Nat
  BY ModeType DEF TypeOK
<1>1. CASE Advance
  <2>1. now' \in {t \in mode.instants : now < t}
    BY <1>0, <1>1, LeastNumber DEF Advance
  <2> QED
    BY <1>1, <2>1 DEF Advance, TypeOK
<1>2. CASE ServeClosed
  <2>1. CachedOrEmpty(now) \in [quote : Quotes, how : {"cache", "empty", "live"}, began : Nat]
    BY <1>0, CachedType
  <2>2. calls' \in 0 .. mode.calls
    BY <1>0, <1>2 DEF ServeClosed, TypeOK
  <2> QED
    BY <1>2, <2>1, <2>2 DEF ServeClosed, TypeOK
<1>3. ASSUME NEW r \in Requests, Begin(r)
      PROVE  TypeOK'
  BY <1>0, <1>3 DEF Begin, TypeOK
<1>4. ASSUME NEW r \in Requests, NEW p \in Asked, Answer(r, p)
      PROVE  TypeOK'
  <2>1. PICK a \in {Missing} \cup {Normalised(raw) : raw \in mode.raws} :
           ans' = [ans EXCEPT ![r][p] = a]
    BY <1>4 DEF Answer
  <2>2. a \in {Missing} \cup Observations
    BY NormalisedType
  <2>3. p \in Both
    BY ModeType DEF TypeOK
  <2>4. ans' \in [Requests -> [Both -> {Pending, Missing} \cup Observations]]
    BY <2>1, <2>2, <2>3 DEF TypeOK, Both
  <2> QED
    BY <1>4, <2>4 DEF Answer, TypeOK, Both
<1>5. CASE UNCHANGED vars
  BY <1>5 DEF vars, TypeOK
<1> QED
  BY <1>1, <1>2, <1>3, <1>4, <1>5, CompleteTypes DEF Next

(* The cache, the requests and the responses hold what the code can store  *)
(* in them, for any reports of the providers.                              *)
THEOREM TypeCorrect == Spec => []TypeOK
<1>1. TypeOK /\ [Next]_vars => TypeOK'
  BY TypeStep
<1> QED
  BY <1>1, TypeInit, PTL DEF Spec

(* Of two observations with readable timestamps the dual engine serves the *)
(* price of one that is more than the threshold older than the other only  *)
(* if one timestamp names its zone and the other does not, and then Angel  *)
(* One's, whatever the prices and whenever the answers came: no other path *)
(* through _classify_ltp_diff and _select_canonical_quote ends there.      *)
THEOREM FresherAlwaysWins == Spec => []StaleOnlyUnzoned
<1>1. TypeOK => StaleOnlyUnzoned
  <2> SUFFICES ASSUME TypeOK, NEW r \in Requests,
                      mode.engine = "dual", Answered(r), StalePrice(r)
               PROVE  LET a == ans[r]["angel_one"]
                          b == ans[r]["upstox"]
                      IN /\ a.zoned # b.zoned
                         /\ Canonical(a, b, start[r] * Second).provider = "angel_one"
    BY DEF StaleOnlyUnzoned
  <2> DEFINE a == ans[r]["angel_one"]
             b == ans[r]["upstox"]
             p == Canonical(a, b, start[r] * Second).provider
  <2>1. Asked = {"angel_one", "upstox"}
    BY DEF Asked, Providers
  <2>2. /\ a # Missing /\ b # Missing /\ Readable(a) /\ Readable(b)
        /\ IF p = "upstox" THEN a.stamp - b.stamp > StaleThreshold
                           ELSE b.stamp - a.stamp > StaleThreshold
    BY DEF StalePrice
  <2>3. a \in Observations /\ b \in Observations
    BY <2>1, <2>2, AnswersType
  <2>4. a.zoned \in BOOLEAN /\ b.zoned \in BOOLEAN
    BY <2>3 DEF Observations
  <2>5. /\ a.stamp \in Int /\ b.stamp \in Int /\ StaleThreshold \in Nat
    BY <2>2, ReconcileAssumption DEF Readable
  <2>6. /\ p = "upstox" => a.stamp - b.stamp <= StaleThreshold
        /\ p # "upstox" => b.stamp - a.stamp <= StaleThreshold \/ a.zoned # b.zoned
        /\ p \in {"angel_one", "upstox"}
    BY <2>2, <2>4, CanonicalFresh
  <2> HIDE DEF a, b, p
  <2>7. p # "upstox"
    BY <2>2, <2>5, <2>6
  <2>8. ~(b.stamp - a.stamp <= StaleThreshold)
    BY <2>2, <2>5, <2>7
  <2>9. a.zoned # b.zoned /\ p = "angel_one"
    BY <2>6, <2>7, <2>8
  <2> QED
    BY <2>9 DEF a, b, p
<1> QED
  BY <1>1, TypeCorrect, PTL

-----------------------------------------------------------------------------
(* The last good quote of the market engine is the one in its cache.       *)

Kept ==
    mode.engine = "market" /\ good # Missing =>
        cache # Missing /\ cache.ts = good /\ cache.quote.ltp # Missing

GoodOK == TypeOK /\ good \in Nat \cup {Missing} /\ Kept

LEMMA CachedIsGood ==
    ASSUME GoodOK, mode.engine = "market", good # Missing, NEW began \in Nat,
           began - good <= MaxAge
    PROVE  CachedOrEmpty(began).quote.ltp # Missing
BY DEF GoodOK, Kept, CachedOrEmpty, Response

LEMMA MarketKeeps ==
    ASSUME GoodOK, NEW r \in Requests, CompleteMarket(r)
    PROVE  /\ GoodOK'
           /\ good # Missing =>
                 (served'.began - good <= MaxAge => served'.quote.ltp # Missing)
<1> DEFINE a == ans[r]["angel_one"]
           q == [provider |-> "angel_one", ltp |-> a.ltp]
<1>1. TypeOK /\ TypeOK' /\ mode.engine = "market" /\ mode' = mode /\ start[r] \in Nat
  BY CompleteTypes DEF GoodOK, TypeOK, CompleteMarket, Finish
<1>2. CASE a = Missing \/ a.ltp = Missing
  <2>1. UNCHANGED <<cache, good>> /\ served' = CachedOrEmpty(start[r])
    BY <1>2 DEF CompleteMarket
  <2>2. GoodOK'
    BY <1>1, <2>1 DEF GoodOK, Kept
  <2>3. served'.began = start[r]
    BY <2>1 DEF CachedOrEmpty, Response
  <2> QED
    BY <1>1, <2>1, <2>2, <2>3, CachedIsGood
<1>3. CASE ~(a = Missing \/ a.ltp = Missing)
  <2>1. cache' = Entry(r, q) /\ served' = Response(q, "live", start[r]) /\ good' = start[r]
    BY <1>3 DEF CompleteMarket, Note
  <2>2. q \in Quotes /\ a \in Observations
    BY <1>1, <1>3, MarketQuote DEF CompleteMarket
  <2>3. Entry(r, q) \in Entries
    BY <1>1, <2>2, EntryType
  <2>4. cache' # Missing /\ cache'.ts = good' /\ cache'.quote.ltp # Missing
    BY <1>3, <2>1, <2>3, QuoteAssumption DEF Entry
  <2>5. GoodOK'
    BY <1>1, <2>1, <2>4 DEF GoodOK, Kept
  <2>6. served'.quote.ltp # Missing
    BY <1>3, <2>1 DEF Response
  <2> QED
    BY <2>5, <2>6
<1> QED
  BY <1>2, <1>3

LEMMA GoodStep ==
    ASSUME GoodOK, [Next]_vars
    PROVE  /\ GoodOK'
           /\ mode.engine = "market" /\ good # Missing /\ served' # served =>
                 (served'.began - good <= MaxAge => served'.quote.ltp # Missing)
<1>0. TypeOK /\ TypeOK' /\ now \in Nat
  BY TypeStep, ModeType DEF GoodOK, TypeOK
<1>1. CASE ServeClosed
  <2>1. served' = CachedOrEmpty(now) /\ UNCHANGED <<mode, cache, good>>
    BY <1>1 DEF ServeClosed
  <2>2. served'.began = now
    BY <2>1 DEF CachedOrEmpty, Response
  <2>3. GoodOK'
    BY <1>0, <2>1 DEF GoodOK, Kept
  <2> QED
    BY <1>0, <2>1, <2>2, <2>3, CachedIsGood
<1>2. ASSUME \/ Advance
             \/ \E r \in Requests : Begin(r) \/ \E p \in Asked : Answer(r, p)
             \/ UNCHANGED vars
      PROVE  UNCHANGED <<mode, cache, good, served>>
  BY <1>2 DEF Advance, Begin, Answer, vars
<1>3. ASSUME NEW r \in Requests, CompleteDual(r)
      PROVE  mode.engine # "market" /\ mode' = mode /\ good' \in Nat \cup {Missing}
  <2>1. mode.engine = "dual" /\ mode' = mode /\ start[r] \in Nat
    BY <1>0, <1>3 DEF CompleteDual, Finish, TypeOK
  <2>2. good' = good \/ good' = start[r]
    BY <1>3 DEF CompleteDual, Note
  <2> QED
    BY <2>1, <2>2 DEF GoodOK
<1> QED
  BY <1>0, <1>1, <1>2, <1>3, MarketKeeps DEF Next, GoodOK, Kept

(* Once MarketEngine has completed a request with a price, it answers with *)
(* a price for 24 hours from the beginning of that request, whatever fails *)
(* and whatever requests overlap.                                          *)
THEOREM LastGoodQuoteStays == Spec => LastGoodQuoteKept
<1>1. Init => GoodOK
  BY TypeInit DEF Init, GoodOK, Kept
<1>2. GoodOK /\ [Next]_vars => GoodOK'
  BY GoodStep
<1>3. GoodOK /\ [Next]_vars =>
         [mode.engine = "market" /\ good # Missing /\ served' # served
            => (served'.began - good <= MaxAge => served'.quote.ltp # Missing)]_vars
  BY GoodStep
<1> QED
  BY <1>1, <1>2, <1>3, PTL DEF Spec, LastGoodQuoteKept

-----------------------------------------------------------------------------
(* The next change of phase.  A moment is a day and a time of it.          *)

LEMMA SessionNumbers ==
    /\ Day \in Nat /\ Minute \in Nat /\ MaxDays \in Nat
    /\ 0 < Minute /\ Minute < Day /\ 0 < MaxDays
    /\ {PreOpenStart, PreOpenEnd, CallAuctionEnd, RegularEnd, PostMarketEnd,
        HalfRegularEnd, HalfPostMarketEnd} \subseteq 1 .. Day - 1
    /\ PreOpenStart + Minute < PreOpenEnd
    /\ PreOpenEnd + Minute < CallAuctionEnd
    /\ \A half \in BOOLEAN :
          /\ RegularEndOf(half) \in 1 .. Day - 1 /\ PostEndOf(half) \in 1 .. Day - 1
          /\ CallAuctionEnd + Minute < RegularEndOf(half)
          /\ RegularEndOf(half) + Minute < PostEndOf(half)
          /\ PostEndOf(half) + Minute <= Day
BY SessionAssumption DEF RegularEndOf, PostEndOf

LEMMA DivisionFacts ==
    ASSUME NEW a \in Int, NEW b \in Nat, 0 < b
    PROVE  /\ a = (a \div b) * b + (a % b)
           /\ a % b \in 0 .. b - 1 /\ a \div b \in Int
           /\ 0 <= a => 0 <= a \div b
OBVIOUS

LEMMA DayAndTime ==
    ASSUME NEW d \in Int, NEW m \in 0 .. Day - 1
    PROVE  (d * Day + m) \div Day = d /\ (d * Day + m) % Day = m
BY SessionNumbers

LEMMA PhaseOnDay ==
    ASSUME NEW c, NEW d \in Int, NEW m \in 0 .. Day - 1
    PROVE  Phase(c, d * Day + m) = IF d \in c.closed THEN "CLOSED" ELSE Classify(m, d \in c.half)
BY DayAndTime DEF Phase

\* In a minute of a day there is at most one change, where its phase ends.
LEMMA ClassifyMinute ==
    ASSUME NEW half \in BOOLEAN, NEW m \in Nat, m + Minute <= Day - 1
    PROVE  LET p == Classify(m, half)
               b == EndOf(p, half)
           IN IF Classify(m + Minute, half) = p
                THEN \A n \in m .. m + Minute : Classify(n, half) = p
                ELSE /\ b \in m + 1 .. m + Minute
                     /\ \A n \in m .. b - 1 : Classify(n, half) = p
                     /\ Classify(b, half) # p
<1> DEFINE R == RegularEndOf(half)
           P == PostEndOf(half)
<1>1. /\ Day \in Nat /\ Minute \in Nat /\ 0 < Minute
      /\ PreOpenStart \in Nat /\ PreOpenEnd \in Nat /\ CallAuctionEnd \in Nat
      /\ R \in Nat /\ P \in Nat
      /\ PreOpenStart + Minute < PreOpenEnd
      /\ PreOpenEnd + Minute < CallAuctionEnd
      /\ CallAuctionEnd + Minute < R
      /\ R + Minute < P
      /\ P + Minute <= Day
  BY SessionNumbers
<1>2. \A n \in Int :
         Classify(n, half) =
            IF PreOpenStart <= n /\ n < PreOpenEnd THEN "PRE_OPEN"
            ELSE IF PreOpenEnd <= n /\ n < CallAuctionEnd THEN "PRE_OPEN_CALL_AUCTION"
            ELSE IF CallAuctionEnd <= n /\ n < R THEN "REGULAR"
            ELSE IF R <= n /\ n < P THEN "POST_MARKET" ELSE "CLOSED"
  BY <1>1 DEF Classify
<1>3. /\ EndOf("PRE_OPEN", half) = PreOpenEnd
      /\ EndOf("PRE_OPEN_CALL_AUCTION", half) = CallAuctionEnd
      /\ EndOf("REGULAR", half) = R
      /\ EndOf("POST_MARKET", half) = P
      /\ EndOf("CLOSED", half) = PreOpenStart
  BY DEF EndOf
<1> HIDE DEF R, P
<1>4. CASE PreOpenStart <= m /\ m < PreOpenEnd
  BY <1>1, <1>2, <1>3, <1>4
<1>5. CASE PreOpenEnd <= m /\ m < CallAuctionEnd
  BY <1>1, <1>2, <1>3, <1>5
<1>6. CASE CallAuctionEnd <= m /\ m < R
  BY <1>1, <1>2, <1>3, <1>6
<1>7. CASE R <= m /\ m < P
  BY <1>1, <1>2, <1>3, <1>7
<1>8. CASE P <= m \/ m < PreOpenStart
  BY <1>1, <1>2, <1>3, <1>8
<1> QED
  BY <1>1, <1>4, <1>5, <1>6, <1>7, <1>8

\* The end of a phase, as the search computes it, is the one of the day it
\* has reached.
LEMMA SnapOnDay ==
    ASSUME NEW c, NEW y, NEW p, NEW d, y \div Day = d,
           NEW b, b = d * Day + EndOf(p, d \in c.half)
    PROVE  Snap(c, y, p) = IF b <= y - 2 * Minute THEN b + Day ELSE b
BY DEF Snap

\* What the search relies on: x and the minute after it.
OneMinute(c, x) ==
    LET p == Phase(c, x)
        b == Snap(c, x + Minute, p)
    IN IF Phase(c, x + Minute) = p
         THEN \A y \in x .. x + Minute : Phase(c, y) = p
         ELSE /\ b \in x + 1 .. x + Minute
              /\ \A y \in x .. b - 1 : Phase(c, y) = p
              /\ Phase(c, b) # p

LEMMA SameInMinute ==
    ASSUME NEW c, NEW x \in Nat, NEW p, Phase(c, x) = p,
           \A y \in x .. x + Minute : Phase(c, y) = p
    PROVE  OneMinute(c, x)
<1>1. Phase(c, x + Minute) = p
  <2>1. x + Minute \in x .. x + Minute
    BY SessionNumbers
  <2> QED
    BY <2>1
<1> QED
  BY <1>1 DEF OneMinute

LEMMA MinuteInDay ==
    ASSUME NEW c, NEW d \in Nat, NEW m \in Nat, m + Minute <= Day - 1
    PROVE  OneMinute(c, d * Day + m)
<1> DEFINE x == d * Day + m
           p == Classify(m, d \in c.half)
           half == d \in c.half
           b == EndOf(p, half)
<1> SUFFICES OneMinute(c, x)
  OBVIOUS
<1>1. /\ Day \in Nat /\ Minute \in Nat /\ 0 < Minute /\ d * Day \in Nat /\ x \in Nat
  BY SessionNumbers
<1>2. \A n \in 0 .. Day - 1 :
         Phase(c, d * Day + n) = IF d \in c.closed THEN "CLOSED" ELSE Classify(n, half)
  BY PhaseOnDay
<1>3. \A y \in x .. x + Minute : y - d * Day \in m .. m + Minute /\ d * Day + (y - d * Day) = y
  BY <1>1
<1>4. x + Minute = d * Day + (m + Minute) /\ x + Minute \in Nat
  BY <1>1
<1>5. CASE d \in c.closed
  <2>1. \A y \in x .. x + Minute : Phase(c, y) = "CLOSED"
    BY <1>1, <1>2, <1>3, <1>5
  <2>2. Phase(c, x) = "CLOSED"
    BY <1>1, <2>1
  <2> HIDE DEF x
  <2> QED
    BY <1>1, <2>1, <2>2, SameInMinute
<1>6. CASE d \notin c.closed
  <2>1. \A n \in 0 .. Day - 1 : Phase(c, d * Day + n) = Classify(n, half)
    BY <1>2, <1>6
  <2>2. Phase(c, x) = p /\ Phase(c, x + Minute) = Classify(m + Minute, half)
    BY <1>1, <1>4, <2>1
  <2>3. half \in BOOLEAN
    OBVIOUS
  <2>4. (x + Minute) \div Day = d
    BY <1>1, <1>4, DayAndTime
  <2>5. p = Classify(m, half) /\ b = EndOf(p, half)
    OBVIOUS
  <2> DEFINE e == d * Day + b
             z == x + Minute
  <2>6. Snap(c, z, p) = IF e <= z - 2 * Minute THEN e + Day ELSE e
    <3>1. e = d * Day + EndOf(p, d \in c.half) /\ z \div Day = d
      BY <2>4
    <3> HIDE DEF p, z, e
    <3> QED
      BY <3>1, SnapOnDay
  <2> HIDE DEF half, p, b
  <2>7. IF Classify(m + Minute, half) = p
          THEN \A n \in m .. m + Minute : Classify(n, half) = p
          ELSE /\ b \in m + 1 .. m + Minute
               /\ \A n \in m .. b - 1 : Classify(n, half) = p
               /\ Classify(b, half) # p
    BY <2>3, <2>5, ClassifyMinute
  <2>8. CASE Classify(m + Minute, half) = p
    <3>1. \A y \in x .. x + Minute : Phase(c, y) = p
      <4> TAKE y \in x .. x + Minute
      <4> DEFINE n == y - d * Day
      <4>1. n \in m .. m + Minute /\ n \in 0 .. Day - 1 /\ d * Day + n = y
        BY <1>1, <1>3
      <4> QED
        BY <2>1, <2>7, <2>8, <4>1
    <3> HIDE DEF x
    <3> QED
      BY <1>1, <2>2, <3>1, SameInMinute
  <2>9. CASE Classify(m + Minute, half) # p
    <3>1. b \in m + 1 .. m + Minute /\ b \in 0 .. Day - 1
      BY <1>1, <2>7, <2>9
    <3>2. e \in x + 1 .. x + Minute
      BY <1>1, <3>1
    <3>3. Snap(c, x + Minute, p) = e
      <4>1. ~(e <= z - 2 * Minute)
        BY <1>1, <3>2
      <4> HIDE DEF e, x
      <4> QED
        BY <2>6, <4>1
    <3>4. \A y \in x .. e - 1 : Phase(c, y) = p
      <4> TAKE y \in x .. e - 1
      <4> DEFINE n == y - d * Day
      <4>1. n \in m .. b - 1 /\ n \in 0 .. Day - 1 /\ d * Day + n = y
        BY <1>1, <3>1
      <4> QED
        BY <2>1, <2>7, <2>9, <4>1
    <3>5. Phase(c, e) # p
      BY <2>1, <2>7, <2>9, <3>1
    <3>6. Phase(c, x + Minute) # p
      BY <2>2, <2>9
    <3>7. Phase(c, x) = p
      BY <2>2
    <3> HIDE DEF x, z, e
    <3> QED
      BY <3>2, <3>3, <3>4, <3>5, <3>6, <3>7 DEF OneMinute
  <2> QED
    BY <2>8, <2>9
<1> QED
  BY <1>5, <1>6

LEMMA MinuteOverMidnight ==
    ASSUME NEW c, NEW d \in Nat, NEW m \in 0 .. Day - 1, m + Minute >= Day
    PROVE  OneMinute(c, d * Day + m)
<1> DEFINE x == d * Day + m
           w == (d + 1) * Day
           last == m + Minute - Day
           half == (d + 1) \in c.half
<1> SUFFICES OneMinute(c, x)
  OBVIOUS
<1>1. /\ Day \in Nat /\ Minute \in Nat /\ 0 < Minute /\ Minute < Day
      /\ PreOpenStart \in Nat /\ PreOpenEnd \in Nat /\ PreOpenStart < Day
      /\ PreOpenStart + Minute < PreOpenEnd /\ PreOpenEnd < Day
  BY SessionNumbers
<1>2. w \in Nat /\ d * Day \in Nat /\ w = d * Day + Day /\ x + Minute = w + last
  BY <1>1
<1>3. last \in 0 .. Minute - 1 /\ last \in 0 .. Day - 1 /\ x < w
  BY <1>1, <1>2
<1>4. \A n \in 0 .. Day - 1 : n >= m => Phase(c, d * Day + n) = "CLOSED"
  <2>1. ASSUME NEW n \in 0 .. Day - 1, n >= m, NEW h \in BOOLEAN
        PROVE  Classify(n, h) = "CLOSED"
    <3>1. /\ RegularEndOf(h) \in Nat /\ PostEndOf(h) \in Nat /\ CallAuctionEnd \in Nat
          /\ PreOpenEnd + Minute < CallAuctionEnd
          /\ CallAuctionEnd + Minute < RegularEndOf(h)
          /\ RegularEndOf(h) + Minute < PostEndOf(h) /\ PostEndOf(h) + Minute <= Day
      BY SessionNumbers
    <3> QED
      BY <1>1, <2>1, <3>1 DEF Classify
  <2> TAKE n \in 0 .. Day - 1
  <2> HAVE n >= m
  <2>2. (d \in c.half) \in BOOLEAN
    OBVIOUS
  <2>3. Classify(n, d \in c.half) = "CLOSED"
    BY <2>1, <2>2
  <2> QED
    BY <2>3, PhaseOnDay
<1>5. \A y \in x .. w - 1 : Phase(c, y) = "CLOSED"
  <2> TAKE y \in x .. w - 1
  <2> DEFINE n == y - d * Day
  <2>1. n \in 0 .. Day - 1 /\ n >= m /\ d * Day + n = y
    BY <1>1, <1>2
  <2> QED
    BY <1>4, <2>1
<1>6. Phase(c, x) = "CLOSED"
  BY <1>2, <1>3, <1>5
<1>7. \A n \in 0 .. Day - 1 :
         Phase(c, w + n) = IF d + 1 \in c.closed THEN "CLOSED" ELSE Classify(n, half)
  BY PhaseOnDay
<1>8. \A n \in 0 .. Minute - 1 :
         Classify(n, half) = IF n < PreOpenStart THEN "CLOSED" ELSE "PRE_OPEN"
  <2>1. half \in BOOLEAN
    OBVIOUS
  <2> HIDE DEF half
  <2>2. /\ RegularEndOf(half) \in Nat /\ PostEndOf(half) \in Nat /\ CallAuctionEnd \in Nat
        /\ PreOpenEnd + Minute < CallAuctionEnd
        /\ CallAuctionEnd + Minute < RegularEndOf(half)
        /\ RegularEndOf(half) + Minute < PostEndOf(half)
    BY <2>1, SessionNumbers
  <2> QED
    BY <1>1, <2>2 DEF Classify
<1> HIDE DEF half, last, w
<1>9. \A y \in w .. w + last :
         Phase(c, y) = IF d + 1 \in c.closed \/ y < w + PreOpenStart THEN "CLOSED" ELSE "PRE_OPEN"
  <2> TAKE y \in w .. w + last
  <2> DEFINE n == y - w
  <2>1. n \in 0 .. Minute - 1 /\ n \in 0 .. Day - 1 /\ w + n = y
    BY <1>1, <1>2, <1>3
  <2>2. n < PreOpenStart <=> y < w + PreOpenStart
    BY <1>1, <1>2
  <2> HIDE DEF n
  <2> QED
    BY <1>7, <1>8, <2>1, <2>2
<1>10. CASE d + 1 \in c.closed \/ last < PreOpenStart
  <2>1. \A y \in x .. x + Minute : Phase(c, y) = "CLOSED"
    BY <1>1, <1>2, <1>3, <1>5, <1>9, <1>10
  <2>2. x + Minute \in x .. x + Minute
    BY <1>1, <1>2
  <2> QED
    BY <1>1, <1>2, <1>6, <2>1, <2>2, SameInMinute
<1>11. CASE ~(d + 1 \in c.closed \/ last < PreOpenStart)
  <2> DEFINE b == w + PreOpenStart
  <2>1. Phase(c, x + Minute) = "PRE_OPEN"
    BY <1>1, <1>2, <1>3, <1>9, <1>11
  <2>2. (x + Minute) \div Day = d + 1
    <3>1. (w + last) \div Day = d + 1
      BY <1>3, DayAndTime DEF w
    <3> QED
      BY <1>2, <3>1
  <2>3. EndOf("CLOSED", half) = PreOpenStart
    BY DEF EndOf
  <2> DEFINE z == x + Minute
  <2>4. Snap(c, z, "CLOSED") = IF b <= z - 2 * Minute THEN b + Day ELSE b
    <3>1. EndOf("CLOSED", d + 1 \in c.half) = PreOpenStart
      BY DEF EndOf
    <3> DEFINE f == d + 1
    <3>2. b = f * Day + EndOf("CLOSED", f \in c.half) /\ z \div Day = f
      BY <2>2, <3>1 DEF w
    <3> HIDE DEF b, f, z
    <3> QED
      BY <3>2, SnapOnDay
  <2>5. Snap(c, x + Minute, "CLOSED") = b
    <3>1. ~(b <= z - 2 * Minute)
      BY <1>1, <1>2, <1>3
    <3> HIDE DEF b, x
    <3> QED
      BY <2>4, <3>1
  <2>6. b \in x + 1 .. x + Minute
    BY <1>1, <1>2, <1>3, <1>11
  <2>7. \A y \in x .. b - 1 : Phase(c, y) = "CLOSED"
    BY <1>1, <1>2, <1>3, <1>5, <1>9, <1>11
  <2>8. Phase(c, b) = "PRE_OPEN"
    BY <1>1, <1>2, <1>3, <1>9, <1>11
  <2> QED
    <3>1. Phase(c, x + Minute) # "CLOSED"
      BY <2>1
    <3>2. Phase(c, b) # "CLOSED"
      BY <2>8
    <3> HIDE DEF b, x
    <3> QED
      BY <1>6, <2>5, <2>6, <2>7, <3>1, <3>2 DEF OneMinute
<1> QED
  BY <1>10, <1>11

LEMMA EveryMinute ==
    ASSUME NEW c, NEW x \in Nat
    PROVE  OneMinute(c, x)
<1> DEFINE d == x \div Day
           m == x % Day
<1>1. Day \in Nat /\ 0 < Day /\ Minute \in Nat
  BY SessionNumbers
<1>2. x = d * Day + m /\ d \in Nat /\ m \in 0 .. Day - 1
  BY <1>1, DivisionFacts
<1> HIDE DEF d, m
<1>3. OneMinute(c, d * Day + m)
  <2>1. CASE m + Minute <= Day - 1
    BY <1>2, <2>1, MinuteInDay
  <2>2. CASE m + Minute >= Day
    BY <1>2, <2>2, MinuteOverMidnight
  <2> QED
    BY <1>1, <1>2, <2>1, <2>2
<1> QED
  BY <1>2, <1>3

\* Without a change at its samples the search has passed none.
LEMMA NothingPassed ==
    ASSUME NEW c, NEW t \in Nat, NEW k \in Nat, NEW p,
           \A i \in 0 .. k : Phase(c, t + i * Minute) = p
    PROVE  \A y \in t .. t + k * Minute : Phase(c, y) = p
<1>1. Minute \in Nat /\ 0 < Minute /\ k * Minute \in Nat
  BY SessionNumbers
<1> TAKE y \in t .. t + k * Minute
<1> DEFINE i == (y - t) \div Minute
           r == (y - t) % Minute
<1>2. y - t \in Nat /\ y - t <= k * Minute
  BY <1>1
<1>3. y - t = i * Minute + r /\ i \in Nat /\ r \in 0 .. Minute - 1
  BY <1>1, <1>2, DivisionFacts
<1> HIDE DEF i, r
<1>4. i * Minute \in Nat /\ (i + 1) * Minute = i * Minute + Minute
  BY <1>1, <1>3
<1>5. i <= k
  BY <1>1, <1>2, <1>3
<1> DEFINE x == t + i * Minute
<1>6. x \in Nat /\ y \in x .. x + Minute /\ Phase(c, x) = p
  BY <1>1, <1>3, <1>4, <1>5
<1>7. CASE i < k
  <2>1. i + 1 \in 0 .. k /\ t + (i + 1) * Minute = x + Minute
    BY <1>1, <1>3, <1>4, <1>7
  <2>2. Phase(c, x + Minute) = p
    BY <2>1
  <2> HIDE DEF x
  <2> QED
    BY <1>6, <2>2, EveryMinute DEF OneMinute
<1>8. CASE i = k
  <2>1. y = x
    BY <1>1, <1>2, <1>3, <1>8
  <2> QED
    BY <1>6, <2>1
<1> QED
  BY <1>3, <1>5, <1>7, <1>8

Steps == MaxDays * (Day \div Minute)

\* The samples reach every minute of the days they span.
LEMMA SampleReaches ==
    ASSUME NEW n \in Nat, 0 < n, n + Minute <= MaxDays * Day
    PROVE  \E k \in 1 .. Steps : n <= k * Minute /\ k * Minute < n + Minute
<1> DEFINE i == (n - 1) \div Minute
           r == (n - 1) % Minute
           e == Day \div Minute
<1>1. /\ Minute \in Nat /\ 0 < Minute /\ Day \in Nat /\ MaxDays \in Nat
      /\ Day % Minute = 0
  BY SessionNumbers, SessionAssumption
<1>2. n - 1 = i * Minute + r /\ i \in Nat /\ r \in 0 .. Minute - 1
  BY <1>1, DivisionFacts
<1>3. Day = e * Minute /\ e \in Nat
  BY <1>1, DivisionFacts
<1> HIDE DEF i, r, e
<1>4. /\ i * Minute \in Nat /\ (i + 1) * Minute = i * Minute + Minute
      /\ MaxDays * Day = (MaxDays * e) * Minute /\ MaxDays * e \in Nat
  BY <1>1, <1>2, <1>3
<1>5. n <= (i + 1) * Minute /\ (i + 1) * Minute < n + Minute
  BY <1>1, <1>2, <1>4
<1>6. (i + 1) * Minute < (MaxDays * e) * Minute
  BY <1>1, <1>4, <1>5
<1>7. i + 1 <= MaxDays * e
  BY <1>1, <1>2, <1>4, <1>6
<1>8. i + 1 \in 1 .. Steps
  BY <1>2, <1>4, <1>7 DEF Steps, e
<1> QED
  BY <1>5, <1>8

\* The exchange opens within the days the search looks at.
OpensInTime ==
    \A c \in Calendars : \A d \in Nat : \E e \in d + 1 .. d + MaxDays - 1 : e \notin c.closed

\* A sample falls into the evening of a trading day, or into the morning of
\* the next one, so that the search finds a change.
LEMMA SearchFinds ==
    ASSUME OpensInTime, NEW c \in Calendars, NEW t \in Nat
    PROVE  \E k \in 1 .. Steps : Phase(c, t + k * Minute) # Phase(c, t)
<1> DEFINE d == t \div Day
           m == t % Day
<1>1. /\ Day \in Nat /\ Minute \in Nat /\ 0 < Minute /\ Minute < Day
      /\ MaxDays \in Nat /\ 0 < MaxDays
      /\ PreOpenStart \in Nat /\ PreOpenEnd \in Nat
      /\ PreOpenStart + Minute < PreOpenEnd /\ PreOpenEnd < Day
  BY SessionNumbers
<1>2. t = d * Day + m /\ d \in Nat /\ m \in 0 .. Day - 1
  BY <1>1, DivisionFacts
<1> HIDE DEF d, m
<1>3. Phase(c, t) = IF d \in c.closed THEN "CLOSED" ELSE Classify(m, d \in c.half)
  BY <1>2, PhaseOnDay
<1>4. CASE Phase(c, t) # "CLOSED"
  <2> DEFINE h == d \in c.half
             P == PostEndOf(h)
             R == RegularEndOf(h)
  <2>1. /\ P \in Nat /\ P + Minute <= Day /\ m < P /\ d \notin c.closed
        /\ \A n \in P .. P + Minute - 1 : Classify(n, d \in c.half) = "CLOSED"
    <3>0. h \in BOOLEAN
      OBVIOUS
    <3>3. d \notin c.closed /\ Classify(m, h) # "CLOSED"
      BY <1>3, <1>4
    <3> SUFFICES /\ P \in Nat /\ P + Minute <= Day /\ m < P
                 /\ \A n \in P .. P + Minute - 1 : Classify(n, h) = "CLOSED"
      BY <3>3
    <3> HIDE DEF h
    <3>1. /\ P \in Nat /\ R \in Nat /\ CallAuctionEnd \in Nat
          /\ PreOpenEnd + Minute < CallAuctionEnd /\ CallAuctionEnd + Minute < R
          /\ R + Minute < P /\ P + Minute <= Day
      BY <3>0, SessionNumbers
    <3>2. \A n \in Nat : P <= n => Classify(n, h) = "CLOSED"
      BY <1>1, <3>1 DEF Classify
    <3> HIDE DEF P
    <3>4. m < P
      BY <1>2, <3>1, <3>2, <3>3
    <3> QED
      BY <1>1, <3>1, <3>2, <3>4
  <2> HIDE DEF h, P
  <2>2. P - m \in Nat /\ 0 < P - m /\ P - m + Minute <= MaxDays * Day
    <3>1. MaxDays * Day >= Day
      BY <1>1
    <3> QED
      BY <1>1, <1>2, <2>1, <3>1
  <2>3. PICK k \in 1 .. Steps : P - m <= k * Minute /\ k * Minute < P - m + Minute
    BY <2>2, SampleReaches
  <2> DEFINE n == m + k * Minute
  <2>4. k * Minute \in Nat
    <3>1. k \in Int
      OBVIOUS
    <3> QED
      BY <1>1, <2>2, <2>3, <3>1
  <2>5. n \in P .. P + Minute - 1 /\ n \in 0 .. Day - 1 /\ t + k * Minute = d * Day + n
    BY <1>1, <1>2, <2>1, <2>3, <2>4
  <2>6. Phase(c, d * Day + n) = "CLOSED"
    BY <1>2, <2>1, <2>5, PhaseOnDay
  <2> QED
    BY <1>4, <2>5, <2>6
<1>5. CASE Phase(c, t) = "CLOSED"
  <2>1. PICK e \in d + 1 .. d + MaxDays - 1 : e \notin c.closed
    BY <1>2 DEF OpensInTime
  <2>2. e \in Nat /\ e * Day \in Nat /\ (d + 1) * Day <= e * Day
        /\ e * Day <= (d + MaxDays - 1) * Day
    BY <1>1, <1>2, <2>1
  <2>3. (d + 1) * Day = d * Day + Day /\ (d + MaxDays - 1) * Day = d * Day + MaxDays * Day - Day
        /\ d * Day \in Nat /\ MaxDays * Day \in Nat
    BY <1>1, <1>2
  <2> DEFINE q == e * Day + PreOpenStart - t
  <2>4. q \in Nat /\ 0 < q /\ q + Minute <= MaxDays * Day
    BY <1>1, <1>2, <2>2, <2>3
  <2>5. PICK k \in 1 .. Steps : q <= k * Minute /\ k * Minute < q + Minute
    BY <2>4, SampleReaches
  <2> DEFINE n == t + k * Minute - e * Day
  <2>6. k * Minute \in Int
    <3>1. k \in Int
      OBVIOUS
    <3> QED
      BY <1>1, <3>1
  <2>7. /\ n \in PreOpenStart .. PreOpenStart + Minute - 1 /\ n \in 0 .. Day - 1
        /\ t + k * Minute = e * Day + n
    BY <1>1, <2>2, <2>5, <2>6
  <2>8. Classify(n, e \in c.half) = "PRE_OPEN"
    <3>1. n \in PreOpenStart .. PreOpenEnd - 1
      BY <1>1, <2>7
    <3> HIDE DEF n
    <3>2. ASSUME NEW h \in BOOLEAN PROVE Classify(n, h) = "PRE_OPEN"
      <4>1. /\ RegularEndOf(h) \in Nat /\ PostEndOf(h) \in Nat /\ CallAuctionEnd \in Nat
            /\ PreOpenEnd + Minute < CallAuctionEnd
            /\ CallAuctionEnd + Minute < RegularEndOf(h)
            /\ RegularEndOf(h) + Minute < PostEndOf(h)
        BY SessionNumbers
      <4> QED
        BY <1>1, <3>1, <4>1 DEF Classify
    <3>3. (e \in c.half) \in BOOLEAN
      OBVIOUS
    <3> QED
      BY <3>2, <3>3
  <2>9. Phase(c, e * Day + n) = "PRE_OPEN"
    BY <2>1, <2>2, <2>7, <2>8, PhaseOnDay
  <2> QED
    BY <1>5, <2>7, <2>9
<1> QED
  BY <1>4, <1>5

LEMMA FirstChange ==
    ASSUME OpensInTime, NEW c \in Calendars, NEW t \in Nat
    PROVE  LET next == NextPhaseChange(c, t)
           IN  /\ t < next
               /\ Phase(c, next) # Phase(c, t)
               /\ \A y \in t .. next - 1 : Phase(c, y) = Phase(c, t)
<1> DEFINE p == Phase(c, t)
           crossed == {k \in 1 .. Steps : Phase(c, t + k * Minute) # p}
           k == Min(crossed)
<1>1. Minute \in Nat /\ 0 < Minute
  BY SessionNumbers
<1>2. crossed # {} /\ crossed \subseteq Nat
  BY SearchFinds
<1>3. k \in crossed /\ \A n \in crossed : k <= n
  BY <1>2, LeastNumber
<1>4. NextPhaseChange(c, t) = Snap(c, t + k * Minute, p)
  BY <1>2 DEF NextPhaseChange, Steps
<1>5. k \in 1 .. Steps /\ Phase(c, t + k * Minute) # p
  BY <1>3
<1> HIDE DEF k
<1>6. k \in Nat /\ 0 < k /\ Steps \in Int
  <2>1. Steps \in Int
    BY SessionNumbers, DivisionFacts DEF Steps
  <2> QED
    BY <1>5, <2>1
<1> DEFINE x == t + (k - 1) * Minute
<1>7. /\ x \in Nat /\ x + Minute = t + k * Minute /\ t <= x
      /\ (k - 1) * Minute \in Nat
  BY <1>1, <1>6
<1>8. \A i \in 0 .. k - 1 : Phase(c, t + i * Minute) = p
  <2> TAKE i \in 0 .. k - 1
  <2>1. CASE i = 0
    <3>1. t + i * Minute = t
      BY <1>1, <2>1
    <3> QED
      BY <3>1
  <2>2. CASE i # 0
    <3>1. i \in 1 .. Steps /\ ~(k <= i)
      BY <1>5, <1>6, <2>2
    <3> QED
      BY <1>3, <3>1
  <2> QED
    BY <2>1, <2>2
<1>9. \A y \in t .. x : Phase(c, y) = p
  <2> HIDE DEF p
  <2>1. k - 1 \in Nat
    BY <1>6
  <2> QED
    BY <1>8, <2>1, NothingPassed
<1>10. Phase(c, x) = p /\ Phase(c, x + Minute) # p
  BY <1>5, <1>7, <1>9
<1> HIDE DEF x, p
<1> DEFINE b == Snap(c, x + Minute, p)
<1>11. /\ b \in x + 1 .. x + Minute
       /\ \A y \in x .. b - 1 : Phase(c, y) = p
       /\ Phase(c, b) # p
  BY <1>7, <1>10, EveryMinute DEF OneMinute
<1>12. NextPhaseChange(c, t) = b
  BY <1>4, <1>7
<1> HIDE DEF b
<1>13. t < b /\ \A y \in t .. b - 1 : y \in t .. x \/ y \in x .. b - 1
  BY <1>1, <1>7, <1>11
<1> QED
  BY <1>9, <1>11, <1>12, <1>13 DEF p

(* The search of get_next_phase_change finds the first change of phase,    *)
(* whatever the holidays and half days, for phases longer than its step,   *)
(* if the exchange opens within the days it looks ahead: no boundary is    *)
(* overstepped, taken for that of another day, or given a day late.        *)
THEOREM NextChangeFound ==
    ASSUME OpensInTime
    PROVE  Spec => []NextChangeIsFirst
<1>1. TypeOK => NextChangeIsFirst
  <2> SUFFICES ASSUME TypeOK PROVE NextChangeIsFirst
    OBVIOUS
  <2>1. cal \in Calendars /\ now \in Nat
    BY ModeType DEF TypeOK
  <2> QED
    BY <2>1, FirstChange DEF NextChangeIsFirst
<1> QED
  BY <1>1, TypeCorrect, PTL

=============================================================================
