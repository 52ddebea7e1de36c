------------------------------- MODULE TickPath -------------------------------
(***************************************************************************)
(* The way of a live tick into the database: TickPersister.on_tick()       *)
(* (src/engines/tick_persister.py) hands it to the CandleBuilder           *)
(* (src/engines/candle_builder.py), whose finalised candles it upserts,    *)
(* and buffers it for a bulk insert by a task of its own.                  *)
(*                                                                         *)
(* One instrument and one interval; time counts windows of the interval.   *)
(* A tick is its window, its time in it and its price, or None: feeds      *)
(* without a last price are forwarded as well.  The receive loop of each   *)
(* broker stream awaits on_tick() for one tick after the other; the only   *)
(* awaits inside are the database calls.                                   *)
(***************************************************************************)
EXTENDS Integers, Sequences, FiniteSets, SequencesExt

CONSTANTS
    Streams,     \* broker streams that feed the persister
    Prices,
    Stamps,      \* exchange timestamps within a window
    MaxWindow,   \* bound: the last window of the model
    MaxTicks,    \* bound: how many ticks arrive
    MaxLate,     \* windows after which a tick is late (_MAX_LATE_TICK_SEC)
    MaxAhead,    \* windows the exchange's clock may be ahead
    BatchSize,   \* batch_size of the persister
    None

Windows == 0 .. MaxWindow

ASSUME PriceAssumption == Prices \subseteq Int /\ None \notin Prices
ASSUME BoundAssumption == MaxWindow \in Nat /\ MaxTicks \in Nat
ASSUME ClockAssumption == MaxLate \in Nat /\ MaxAhead \in Nat
ASSUME BatchAssumption == BatchSize \in Nat \ {0}

VARIABLES
    engine,     \* the persister was given a database engine
    now,        \* the window the local clock is in
    active,     \* _active[key]: the open candle, or None
    rows,       \* rows[w]: the candle table
    pc,         \* pc[s]: where the receive loop of s is
    tick,       \* tick[s]: the tick s is handling
    saving,     \* saving[s]: the candle s has finalised and is upserting
    buffer,     \* length of _tick_buffer
    spawned,    \* flush tasks that have not started
    writing,    \* bulk inserts under way: their sizes, and who waits for them
    received, persisted, dropped,   \* the persister's counters
    uncounted,  \* history: ticks it forgot without counting them
    phase,      \* of TickPersister.shutdown()
    closing,    \* the candle flush_all() has finalised and is upserting
    taken,      \* history: taken[w]: prices applied to a candle of w, in order
    spoiled,    \* history: windows of which an upsert failed or was refused,
                \* or stored a candle without a price
    met         \* history: windows touched while another handler was at them

candleVars == <<active, rows, taken, spoiled, met>>
countVars == <<persisted, dropped, uncounted>>
flushVars == <<buffer, spawned, writing, countVars>>
vars == <<engine, now, active, rows, pc, tick, saving, buffer, spawned, writing,
          received, persisted, dropped, uncounted, phase, closing, taken, spoiled, met>>

-----------------------------------------------------------------------------
(* CandleState, and its row.  The row keeps its open, and its high and low *)
(* only widen.                                                             *)

HighOf(a, b) == IF a > b THEN a ELSE b
LowOf(a, b) == IF a < b THEN a ELSE b

KeyOf(t) == <<t.at, t.price>>

\* A CandleState no tick was applied to (tick_count 0): its row has zeros.
Blank(w) == [win |-> w, open |-> 0, high |-> 0, low |-> 0, close |-> 0, seen |-> {}]

FirstOf(t) == [win |-> t.win, open |-> t.price, high |-> t.price,
               low |-> t.price, close |-> t.price, seen |-> {KeyOf(t)}]

\* apply_tick returns True: the tick has a price, and is no duplicate, that
\* is, the same time and price again.
Used(c, t) == t.price # None /\ KeyOf(t) \notin c.seen

Applied(c, t) ==
    IF ~Used(c, t) THEN c
    ELSE IF c.seen = {} THEN FirstOf(t)
    ELSE [c EXCEPT !.high = HighOf(@, t.price), !.low = LowOf(@, t.price),
                   !.close = t.price, !.seen = @ \cup {KeyOf(t)}]

\* The candle is made before the tick is looked at.
NewCandle(t) == Applied(Blank(t.win), t)

RowOf(c) == [open |-> c.open, high |-> c.high, low |-> c.low, close |-> c.close]

\* Mutant: the later candle replaces the row.
ReplacedRow(old, c) == RowOf(c)

MergedRow(old, c) ==
    IF old = None THEN RowOf(c)
    ELSE [open |-> old.open, high |-> HighOf(old.high, c.high),
          low |-> LowOf(old.low, c.low), close |-> c.close]

Spoil(c) == spoiled' = spoiled \cup {c.win}

\* Mutant: the look-ahead check is missing.
AnyUpsert(c) ==
    \/ rows' = [rows EXCEPT ![c.win] = MergedRow(@, c)] /\ UNCHANGED spoiled
    \/ UNCHANGED rows /\ Spoil(c)

\* _on_candle_finalised: without an engine there is nothing to do, a candle
\* whose window opens after it became available is refused, and a failing
\* upsert is only logged.  A candle without a price is stored like another.
Upsert(c) ==
    \/ /\ engine
       /\ c.win <= c.available
       /\ rows' = [rows EXCEPT ![c.win] = MergedRow(@, c)]
       /\ IF c.blank THEN Spoil(c) ELSE UNCHANGED spoiled
    \/ UNCHANGED rows /\ Spoil(c)

Finalised(c) == [win |-> c.win, open |-> c.open, high |-> c.high, low |-> c.low,
                 close |-> c.close, blank |-> c.seen = {}, available |-> now]

\* History: the price of a tick that was used.
Take(c, t) ==
    taken' = IF Used(c, t) THEN [taken EXCEPT ![t.win] = Append(@, t.price)] ELSE taken

-----------------------------------------------------------------------------
(* History: whose steps meet.  A handler is in an await with a candle of   *)
(* one window and a tick of another when a second one, or the shutdown,    *)
(* goes to the candle in memory.                                           *)

Handling == {s \in Streams : pc[s] # "idle"}

Touched ==
    (IF active = None THEN {} ELSE {active.win}) \cup {tick[s].win : s \in Handling}

Meet(windows) ==
    met' = IF Handling # {} \/ closing # None THEN met \cup Touched \cup windows ELSE met

-----------------------------------------------------------------------------
Init ==
    /\ engine \in BOOLEAN
    /\ now = 0
    /\ active = None
    /\ rows = [w \in Windows |-> None]
    /\ pc = [s \in Streams |-> "idle"]
    /\ tick = [s \in Streams |-> None]
    /\ saving = [s \in Streams |-> None]
    /\ buffer = 0 /\ spawned = 0 /\ writing = <<>>
    /\ received = 0 /\ persisted = 0 /\ dropped = 0 /\ uncounted = 0
    /\ phase = "running"
    /\ closing = None
    /\ taken = [w \in Windows |-> <<>>]
    /\ spoiled = {} /\ met = {}

\* The tick is buffered; a flush is spawned when the batch is full, or when
\* the interval has passed since the last one.
Buffer ==
    /\ buffer' = buffer + 1
    /\ \/ spawned' = spawned + 1
       \/ buffer + 1 < BatchSize /\ UNCHANGED spawned
    /\ UNCHANGED <<writing, countVars>>

\* Nothing in the server stops the streams before the shutdown.
Arriving(s, t) ==
    /\ phase # "stopped"
    /\ received < MaxTicks
    /\ pc[s] = "idle"
    /\ t.win <= now + MaxAhead
    /\ received' = received + 1

Late(t) == now - t.win > MaxLate

\* Ticks that need no new candle, or open the first, are handled at once.
OnTickLate(s, t) ==
    /\ Arriving(s, t)
    /\ Late(t)
    /\ Buffer
    /\ UNCHANGED <<candleVars, engine, now, pc, tick, saving, phase, closing>>

OnTickSame(s, t) ==
    /\ Arriving(s, t)
    /\ ~Late(t)
    /\ active # None => active.win = t.win
    /\ LET candle == IF active = None THEN Blank(t.win) ELSE active
       IN  active' = Applied(candle, t) /\ Take(candle, t)
    /\ Meet({t.win})
    /\ Buffer
    /\ UNCHANGED <<engine, now, rows, pc, tick, saving, phase, closing, spoiled>>

\* A tick of another window, later or earlier, finalises the candle, which
\* stays in _active while its upsert is awaited.
OnTickOther(s, t) ==
    /\ Arriving(s, t)
    /\ ~Late(t)
    /\ active # None /\ active.win # t.win
    /\ saving' = [saving EXCEPT ![s] = Finalised(active)]
    /\ tick' = [tick EXCEPT ![s] = t]
    /\ pc' = [pc EXCEPT ![s] = "saving"]
    /\ Meet({t.win})
    /\ UNCHANGED <<flushVars, engine, now, active, rows, phase, closing, taken, spoiled>>

Save(s) ==
    /\ phase # "stopped"
    /\ pc[s] = "saving"
    /\ Upsert(saving[s])
    /\ pc' = [pc EXCEPT ![s] = "saved"]
    /\ saving' = [saving EXCEPT ![s] = None]
    /\ UNCHANGED <<flushVars, engine, now, active, tick, received, phase, closing,
                   taken, met>>

\* Then the tick opens its own candle in the place of whatever is there.
Reopen(s) ==
    /\ phase # "stopped"
    /\ pc[s] = "saved"
    /\ active' = NewCandle(tick[s])
    /\ Take(Blank(tick[s].win), tick[s])
    /\ Buffer
    /\ tick' = [tick EXCEPT ![s] = None]
    /\ pc' = [pc EXCEPT ![s] = "idle"]
    /\ UNCHANGED <<engine, now, rows, saving, received, phase, closing, spoiled, met>>

\* disconnect() of the stream cancels its task in the await: the upsert is
\* rolled back, or done; the tick opens no candle and is not buffered.
Cancel(s) ==
    /\ phase # "stopped"
    /\ pc[s] # "idle"
    /\ uncounted' = uncounted + 1
    /\ tick' = [tick EXCEPT ![s] = None]
    /\ saving' = [saving EXCEPT ![s] = None]
    /\ pc' = [pc EXCEPT ![s] = "idle"]
    /\ UNCHANGED <<candleVars, engine, now, buffer, spawned, writing, received,
                   persisted, dropped, phase, closing>>

-----------------------------------------------------------------------------
(* _flush_ticks(): the buffer is swapped for an empty one, then written;   *)
(* without an engine it is just emptied.                                   *)

\* Mutant: the batch stays in the buffer while it is written.
SwapKeeping(by) ==
    /\ writing' = Append(writing, [size |-> buffer, by |-> by])
    /\ UNCHANGED <<buffer, uncounted>>

Swap(by) ==
    /\ IF buffer > 0 /\ engine
         THEN /\ writing' = Append(writing, [size |-> buffer, by |-> by])
              /\ UNCHANGED uncounted
         ELSE /\ uncounted' = uncounted + buffer
              /\ UNCHANGED writing
    /\ buffer' = 0

FlushStarts ==
    /\ phase # "stopped"
    /\ spawned > 0
    /\ spawned' = spawned - 1
    /\ Swap("task")
    /\ UNCHANGED <<candleVars, engine, now, pc, tick, saving, received, persisted, dropped,
                   phase, closing>>

\* Rows that cannot be made of a tick are left out; what is inserted is
\* counted, and if the insert fails the whole batch is.
Written(i) ==
    \E made \in 0 .. writing[i].size :
        \/ /\ persisted' = persisted + made
           /\ uncounted' = uncounted + (writing[i].size - made)
           /\ UNCHANGED dropped
        \/ /\ made > 0
           /\ dropped' = dropped + writing[i].size
           /\ UNCHANGED <<persisted, uncounted>>

FlushEnds(i) ==
    /\ phase # "stopped"
    /\ Written(i)
    /\ writing' = RemoveAt(writing, i)
    /\ phase' = IF writing[i].by = "shutdown" THEN "flushed" ELSE phase
    /\ UNCHANGED <<candleVars, engine, now, pc, tick, saving, buffer, spawned, received,
                   closing>>

(* shutdown(): flush, then flush_all(); tasks under way are not awaited.   *)

Shutdown ==
    /\ phase = "running"
    /\ Swap("shutdown")
    /\ phase' = IF buffer > 0 /\ engine THEN "flushing" ELSE "flushed"
    /\ UNCHANGED <<candleVars, engine, now, pc, tick, saving, spawned, received, persisted,
                   dropped, closing>>

\* A candle without a price is forgotten here.
CloseCandle ==
    /\ phase = "flushed"
    /\ IF active = None \/ (active # None /\ active.seen = {})
         THEN phase' = "stopped" /\ UNCHANGED closing
         ELSE phase' = "closing" /\ closing' = Finalised(active)
    /\ active' = None
    /\ Meet({})
    /\ UNCHANGED <<flushVars, engine, now, rows, pc, tick, saving, received, taken, spoiled>>

SaveLast ==
    /\ phase = "closing"
    /\ Upsert(closing)
    /\ closing' = None
    /\ phase' = "stopped"
    /\ UNCHANGED <<flushVars, engine, now, active, pc, tick, saving, received, taken, met>>

NextWindow ==
    /\ now < MaxWindow
    /\ now' = now + 1
    /\ UNCHANGED <<candleVars, flushVars, engine, pc, tick, saving, received, phase, closing>>

-----------------------------------------------------------------------------
Ticks == [win : Windows, at : Stamps, price : Prices \cup {None}]

StreamStep(s) ==
    \/ \E t \in Ticks : OnTickLate(s, t) \/ OnTickSame(s, t) \/ OnTickOther(s, t)
    \/ Save(s)
    \/ Reopen(s)
    \/ Cancel(s)

Next ==
    \/ \E s \in Streams : StreamStep(s)
    \/ FlushStarts
    \/ \E i \in DOMAIN writing : FlushEnds(i)
    \/ Shutdown \/ CloseCandle \/ SaveLast
    \/ NextWindow

Spec == Init /\ [][Next]_vars

-----------------------------------------------------------------------------
Values == Prices \cup {0}

Candle == [win : Windows, open : Values, high : Values, low : Values,
           close : Values, seen : SUBSET (Stamps \X Prices)]
Row == [open : Values, high : Values, low : Values, close : Values]
Closed == [win : Windows, open : Values, high : Values, low : Values,
           close : Values, blank : BOOLEAN, available : Windows]

ASSUME NoneAssumption == None \notin Candle \cup Row \cup Closed \cup Ticks

(* The variables hold what the code can store in them.                     *)
TypeOK ==
    /\ engine \in BOOLEAN
    /\ now \in Windows
    /\ active \in Candle \cup {None}
    /\ rows \in [Windows -> Row \cup {None}]
    /\ pc \in [Streams -> {"idle", "saving", "saved"}]
    /\ tick \in [Streams -> Ticks \cup {None}]
    /\ saving \in [Streams -> Closed \cup {None}]
    /\ buffer \in 0 .. MaxTicks /\ spawned \in 0 .. MaxTicks
    /\ writing \in Seq([size : 1 .. MaxTicks, by : {"task", "shutdown"}])
    /\ received \in 0 .. MaxTicks
    /\ persisted \in 0 .. MaxTicks /\ dropped \in 0 .. MaxTicks
    /\ uncounted \in 0 .. MaxTicks
    /\ phase \in {"running", "flushing", "flushed", "closing", "stopped"}
    /\ closing \in Closed \cup {None}
    /\ taken \in [Windows -> Seq(Prices)]
    /\ spoiled \subseteq Windows /\ met \subseteq Windows

\* Nothing of window w is in memory.
Settled(w) ==
    /\ active # None => active.win # w
    /\ closing # None => closing.win # w
    /\ \A s \in Streams : saving[s] # None => saving[s].win # w

\* The row is the OHLC of the prices, each of them, in the order they came.
ExactRow(row, prices) ==
    IF prices = <<>> THEN row = None
    ELSE /\ row # None
         /\ row.open = Head(prices) /\ row.close = Last(prices)
         /\ row.high \in ToSet(prices) /\ row.low \in ToSet(prices)
         /\ \A p \in ToSet(prices) : row.low <= p /\ p <= row.high

(* Whatever the streams, the shutdown and cancelled handlers do elsewhere, *)
(* a window that is no longer in memory has the row of the ticks of its    *)
(* own, however often late ticks closed and reopened it: unless an upsert  *)
(* of it failed or stored no price, or a handler came to it while another  *)
(* one was in its await, which is what loses ticks.                        *)
RowsExact ==
    \A w \in Windows \ (spoiled \cup met) :
        Settled(w) => ExactRow(rows[w], taken[w])

(* "open/high/low/close are the OHLCV for the CANDLE PERIOD only", for the *)
(* streams of the server together.                                         *)
RowsExactTogether ==
    \A w \in Windows \ spoiled : Settled(w) => ExactRow(rows[w], taken[w])

(* What a row holds are prices: a feed without one leaves none.            *)
RowsHoldPrices ==
    \A w \in Windows : rows[w] # None => {rows[w].low, rows[w].close} \subseteq Prices

(* No candle is stored before its window has begun by the local clock,     *)
(* even if ticks of a faster exchange clock have opened it.                *)
NoLookAhead == \A w \in Windows : rows[w] # None => w <= now

\* The ticks of the bulk inserts under way.
Inserting == UNION {{i} \X (1 .. writing[i].size) : i \in DOMAIN writing}
InFlight == Cardinality(Inserting)

\* The ticks the persister is done with.
Done == persisted + dropped + uncounted

(* No tick is counted twice, and none is missing but those the code counts *)
(* nowhere (no row could be made of it, there is no engine, its handler    *)
(* was cancelled): every other one is being handled, in the buffer, in an  *)
(* insert, persisted or dropped, whatever flush tasks the ticks and the    *)
(* shutdown start beside each other.                                       *)
TicksAccountedFor ==
    received = Cardinality(Handling) + buffer + InFlight + Done

=============================================================================
