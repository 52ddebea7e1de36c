-------------------------------- MODULE CatchUp --------------------------------
(***************************************************************************)
(* The worker that keeps the candles current                               *)
(* (src/worker_tasks/ohlcv_catchup.py, started by src/worker.py).  A loop  *)
(* wakes every minute and runs, when they are due, an end-of-day pass and  *)
(* an intraday pass over all instruments.  The jobs of a pass share one    *)
(* engine, at most Concurrency at a time; a job puts a wrapper that waits  *)
(* after each fetch around the engine's fetch, and takes it off at its end.*)
(* What a job does to the table is module Backfill.                        *)
(*                                                                         *)
(* Time counts hours, from midnight of day 0.  The loop sleeps for less    *)
(* than an hour, so it looks at the clock at least once between two ticks. *)
(***************************************************************************)
EXTENDS Naturals, FiniteSets

CONSTANTS
    Universes,    \* what fo_universe, or the static list, may hold
    Indices,      \* instruments without intraday candles
    EodIntervals, IntradayIntervals,
    Concurrency,
    HoursPerDay, EodHour,
    Every,        \* hours between two intraday passes
    BootHours,    \* hours the host may have been up at time 0
    PassHours,    \* assumption: a pass lasts no more ticks than this
    MaxTime,      \* bound: the last hour
    MaxDepth,     \* bound: wrappers around the fetch
    Never

Instruments == UNION Universes
Pairs == Instruments \X (EodIntervals \cup IntradayIntervals)
Times == 0 .. MaxTime

ASSUME InstrumentAssumption == IsFiniteSet(Pairs) /\ Indices \subseteq Instruments
ASSUME LoopAssumption ==
    /\ Concurrency \in Nat \ {0} /\ Every \in Nat \ {0} /\ BootHours \subseteq Nat
    /\ HoursPerDay \in Nat \ {0} /\ EodHour \in 0 .. HoursPerDay - 1
    /\ MaxTime \in Nat /\ MaxDepth \in Nat /\ Never \notin Nat
\* A pass that begins in the hour before the close, and the minute of sleep
\* after it, leave an hour of the day; and so do an end-of-day pass that lasts
\* past midnight and the intraday pass after it.
ASSUME PassAssumption ==
    /\ PassHours \in Nat
    /\ EodHour + PassHours < HoursPerDay /\ 2 * PassHours < HoursPerDay

VARIABLES
    time,
    boot,         \* time.monotonic() at time 0
    pc,           \* sleeping, in the pass "eod" or "intraday", or between them
    universe,     \* instruments of this cycle
    checkedAt,    \* now_ist and mono_now of this cycle
    dozedAt,      \* when the loop last began to sleep
    passStart,    \* when the pass began
    lastEod,      \* last_eod_date
    lastIntraday, \* last_intraday_ts
    job,          \* job[p]: none, waiting, inside the semaphore, or running
    saved,        \* saved[p]: wrappers of the job's _original_fetch
    depth,        \* wrappers around hist_engine._fetch_candles
    overlapped,   \* history: two jobs of this process have run at a time
    worker,       \* the process: running, idle (without the loop), or down
    served        \* history: today's end-of-day pass has begun, or there were
                  \* no instruments for it

clockVars == <<time, boot, universe, checkedAt, dozedAt, passStart, lastEod,
               lastIntraday, worker, served>>
engineVars == <<saved, depth, overlapped>>
catchUpVars == <<clockVars, pc, job, engineVars>>

-----------------------------------------------------------------------------

Day(h) == h \div HoursPerDay
HourOf(h) == h % HoursPerDay
Monotonic(h) == boot + h

Fresh ==
    /\ pc' = "sleeping"
    /\ universe' = {}
    /\ checkedAt' = Never /\ dozedAt' = Never /\ passStart' = Never
    /\ lastEod' = Never /\ lastIntraday' = 0
    /\ job' = [p \in Pairs |-> "none"]
    /\ saved' = [p \in Pairs |-> 0]
    /\ depth' = 0
    /\ overlapped' = FALSE

CatchUpInit ==
    /\ time = 0
    /\ boot \in BootHours
    /\ pc = "sleeping"
    /\ universe = {}
    /\ checkedAt = Never /\ dozedAt = Never /\ passStart = Never
    /\ lastEod = Never /\ lastIntraday = 0
    /\ job = [p \in Pairs |-> "none"]
    /\ saved = [p \in Pairs |-> 0]
    /\ depth = 0
    /\ overlapped = FALSE
    /\ worker \in {"running", "idle", "down"}
    /\ served = FALSE

(* Passes.                                                                 *)

Work(pass, instruments) ==
    IF pass = "eod" THEN instruments \X EodIntervals
                    ELSE (instruments \ Indices) \X IntradayIntervals

\* _run_pass: every pair waits for the semaphore.
BeginPass(pass, instruments) ==
    /\ pc' = pass
    /\ passStart' = time
    /\ job' = [p \in Pairs |-> IF p \in Work(pass, instruments) THEN "waiting" ELSE "none"]

In(states) == {p \in Pairs : job[p] \in states}
Running == In({"running"})

\* The semaphore, and the pause between two instruments.
Enter(p) ==
    /\ job[p] = "waiting"
    /\ Cardinality(In({"inside", "running"})) < Concurrency
    /\ job' = [job EXCEPT ![p] = "inside"]
    /\ UNCHANGED <<clockVars, pc, engineVars>>

\* _catchup_one: the wrapper goes around the fetch the job finds.
Wrap(p) ==
    /\ job[p] = "inside"
    /\ depth < MaxDepth
    /\ job' = [job EXCEPT ![p] = "running"]
    /\ saved' = [saved EXCEPT ![p] = depth]
    /\ depth' = depth + 1
    /\ overlapped' = (overlapped \/ Running # {})
    /\ UNCHANGED <<clockVars, pc>>

\* Mutant: a job that raises leaves its wrapper.
UnwrapAtSuccess(p) == depth' \in {saved[p], depth}

\* The fetch the job found is put back, in a finally.
Unwrap(p) == depth' = saved[p]

Finish(p) ==
    /\ job[p] = "running"
    /\ job' = [job EXCEPT ![p] = "none"]
    /\ saved' = [saved EXCEPT ![p] = 0]
    /\ Unwrap(p)
    /\ UNCHANGED <<clockVars, pc, overlapped>>

(* The loop.                                                               *)

EodDue ==
    /\ lastEod = Never \/ lastEod < Day(time)
    /\ HourOf(time) >= EodHour

\* No instruments: five minutes of sleep.
CheckInVain ==
    /\ {} \in Universes
    /\ universe' = {}
    /\ dozedAt' = time
    /\ served' = (served \/ HourOf(time) >= EodHour)
    /\ UNCHANGED <<pc, passStart, job>>

CheckEod ==
    \E u \in Universes \ {{}} :
        /\ universe' = u
        /\ UNCHANGED dozedAt
        /\ IF EodDue
           THEN /\ BeginPass("eod", u)
                /\ served' = TRUE
           ELSE /\ pc' = "between"
                /\ UNCHANGED <<passStart, job, served>>

Check ==
    /\ worker = "running"
    /\ pc = "sleeping"
    /\ checkedAt # time
    /\ checkedAt' = time
    /\ CheckInVain \/ CheckEod
    /\ UNCHANGED <<time, boot, worker, lastEod, lastIntraday, engineVars>>

\* Mutant: the date is read after the pass.
DateAfterPass == lastEod' = Day(time)

DateOfCheck == lastEod' = Day(checkedAt)

EndEod ==
    /\ pc = "eod"
    /\ In({"waiting", "inside", "running"}) = {}
    /\ DateOfCheck
    /\ pc' = "between"
    /\ passStart' = Never
    /\ UNCHANGED <<time, boot, universe, checkedAt, dozedAt, lastIntraday, worker, served,
                   job, engineVars>>

\* mono_now was read before the end-of-day pass.
IntradayDue == Monotonic(checkedAt) >= lastIntraday + Every

CheckIntraday ==
    /\ pc = "between"
    /\ IF IntradayDue
       THEN BeginPass("intraday", universe) /\ UNCHANGED dozedAt
       ELSE /\ pc' = "sleeping"
            /\ dozedAt' = time
            /\ UNCHANGED <<passStart, job>>
    /\ UNCHANGED <<time, boot, universe, checkedAt, lastEod, lastIntraday, worker,
                   served, engineVars>>

EndIntraday ==
    /\ pc = "intraday"
    /\ In({"waiting", "inside", "running"}) = {}
    /\ lastIntraday' = Monotonic(time)
    /\ pc' = "sleeping"
    /\ passStart' = Never
    /\ dozedAt' = time
    /\ UNCHANGED <<time, boot, universe, checkedAt, lastEod, worker, served, job,
                   engineVars>>

-----------------------------------------------------------------------------

\* An hour passes: the loop sleeps for the last of its minutes, a pass goes
\* on, or there is no loop.
Tick ==
    /\ time < MaxTime
    /\ \/ worker # "running"
       \/ pc = "sleeping" /\ dozedAt = time
       \/ pc \in {"eod", "intraday"} /\ time < passStart + PassHours
    /\ time' = time + 1
    /\ served' = (served /\ Day(time') = Day(time))
    /\ UNCHANGED <<boot, universe, checkedAt, dozedAt, passStart, lastEod, lastIntraday,
                   worker, pc, job, engineVars>>

\* SIGTERM: the task is cancelled, and with it the jobs.
Stop ==
    /\ worker # "down"
    /\ worker' = "down"
    /\ Fresh
    /\ UNCHANGED <<time, boot, served>>

\* Without PostgreSQL, Redis or an engine there is no loop, for good.
Start ==
    /\ worker = "down"
    /\ worker' \in {"running", "idle"}
    /\ Fresh
    /\ UNCHANGED <<time, boot, served>>

JobStep(p) == Enter(p) \/ Wrap(p) \/ Finish(p)

CatchUpNext ==
    \/ \E p \in Pairs : JobStep(p)
    \/ Check \/ EndEod \/ CheckIntraday \/ EndIntraday
    \/ Tick
    \/ Stop \/ Start

CatchUpSpec == CatchUpInit /\ [][CatchUpNext]_catchUpVars

-----------------------------------------------------------------------------
(* Whenever the worker runs at the end of a day, the day has had its       *)
(* end-of-day pass begun, wherever restarts, the intraday passes and       *)
(* passes that last past midnight fall, unless there were no instruments.  *)
EodEveryDay ==
    [][Day(time') # Day(time) /\ worker = "running" => served]_catchUpVars

(* As long as no two jobs of the process have run at the same time, the    *)
(* fetches of a job pause exactly once, and those of the engine not at     *)
(* all when none runs: whatever becomes of the jobs, no wrapper is lost    *)
(* and none stays.                                                         *)
PacedUnlessOverlapped == ~overlapped => depth = Cardinality(Running)

=============================================================================
