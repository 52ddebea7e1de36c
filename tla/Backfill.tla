------------------------------- MODULE Backfill -------------------------------
(***************************************************************************)
(* Resumable backfill of the candles of one instrument and interval        *)
(* (src/engines/historical_engine.py).  A job fetches its range in chunks, *)
(* upserts each chunk and moves a checkpoint in Redis, from which the next *)
(* job of the instrument resumes.  Jobs are started by the catch-up worker *)
(* (src/worker_tasks/ohlcv_catchup.py) and by requests of the API          *)
(* (src/api/india.py), and may run beside each other.                      *)
(*                                                                         *)
(* Time counts windows of the interval.  The provider has the candle of    *)
(* the current window too, as it stands: it is final once the window is    *)
(* over.  Candles that fail validation are left out of Trading.            *)
(***************************************************************************)
EXTENDS Integers

CONSTANTS
    Jobs,
    Trading,      \* windows the provider has a candle of
    MaxTime,      \* bound: the last window of the model
    ChunkSize,    \* max_chunk_days
    Starts,       \* from_ts of the jobs
    None,
    Faults        \* which faults may happen

FaultKinds == {"timeout", "error", "empty", "crash", "outage"}

Times == 0 .. MaxTime

ASSUME TimeAssumption == MaxTime \in Nat
ASSUME TradingAssumption == Trading \subseteq Times
ASSUME ChunkAssumption == ChunkSize \in Nat \ {0}
ASSUME StartAssumption == Starts \subseteq Times
ASSUME NoneAssumption == None \notin Times /\ None \notin {"partial", "final"}
ASSUME FaultAssumption == Faults \subseteq FaultKinds

VARIABLES
    now,         \* the window the clock is in
    rows,        \* rows[t]: the candle table: None, "partial" or "final"
    checkpoint,  \* the value under mds:backfill:checkpoint:..., or None
    redisUp,     \* Redis answers
    pc,          \* pc[j]: where job j is
    cur,         \* cur[j]: where the chunk of j starts
    upto,        \* upto[j]: to_ts
    asOf,        \* asOf[j]: when the provider answered for the chunk
    overlapped,  \* history: two jobs have run at the same time
    failed,      \* history: the windows a failed fetch was answered for
    unasked      \* history: the windows a job started after that were not
                 \* in the table then, or not final

jobVars == <<pc, cur, upto, asOf>>
vars == <<now, rows, checkpoint, redisUp, pc, cur, upto, asOf, overlapped, failed, unasked>>

-----------------------------------------------------------------------------
\* chunk_date_ranges: the next chunk ends here, and the one after it starts.
ChunkEnd(j) == IF cur[j] + ChunkSize < upto[j] THEN cur[j] + ChunkSize ELSE upto[j]

\* What the provider has of the chunk; its ranges include both ends.
Answer(j) == {t \in Trading : cur[j] <= t /\ t <= ChunkEnd(j) /\ t <= asOf[j]}

\* The first and the last window of S.
Ends(S) == {t \in S : (\A u \in S : t <= u) \/ (\A u \in S : u <= t)}

Version(j, t) == IF t < asOf[j] THEN "final" ELSE "partial"

GoTo(j, to) == pc' = [pc EXCEPT ![j] = to]

\* The job is over, and its local variables with it.
Leave(j) ==
    /\ GoTo(j, "idle")
    /\ cur' = [cur EXCEPT ![j] = 0]
    /\ upto' = [upto EXCEPT ![j] = 0]
    /\ asOf' = [asOf EXCEPT ![j] = 0]

NextChunk(j) ==
    IF ChunkEnd(j) < upto[j]
    THEN /\ GoTo(j, "fetching")
         /\ cur' = [cur EXCEPT ![j] = ChunkEnd(j)]
         /\ asOf' = [asOf EXCEPT ![j] = 0]
         /\ UNCHANGED upto
    ELSE Leave(j)

\* Mutant: a chunk that failed is skipped, and the job goes on.
BreakOn(j) == NextChunk(j)

\* The job stops at the chunk that failed; the next one resumes.
Break(j) == Leave(j)

-----------------------------------------------------------------------------
Init ==
    /\ now = 0
    /\ rows = [t \in Times |-> None]
    /\ checkpoint = None
    /\ redisUp = TRUE
    /\ pc = [j \in Jobs |-> "idle"]
    /\ cur = [j \in Jobs |-> 0]
    /\ upto = [j \in Jobs |-> 0]
    /\ asOf = [j \in Jobs |-> 0]
    /\ overlapped = FALSE
    /\ failed = {} /\ unasked = {}

\* run_backfill(from, now).
Begin(j, from) ==
    /\ pc[j] = "idle"
    /\ GoTo(j, "resuming")
    /\ cur' = [cur EXCEPT ![j] = from]
    /\ upto' = [upto EXCEPT ![j] = now + 1]
    /\ overlapped' = (overlapped \/ \E i \in Jobs : pc[i] # "idle")
    /\ unasked' = unasked \cup {t \in Trading : t < from /\ rows[t] # "final"}
    /\ UNCHANGED <<now, rows, redisUp, asOf, failed>>

Start(j, from) ==
    /\ Begin(j, from)
    /\ UNCHANGED checkpoint

\* A request with force clears the checkpoint first.
StartForced(j, from) ==
    /\ Begin(j, from)
    /\ checkpoint' = IF redisUp THEN None ELSE checkpoint

\* Mutant: the job resumes after the checkpoint.
ResumedAfter(from) ==
    IF redisUp /\ checkpoint # None /\ checkpoint >= from THEN checkpoint + 1 ELSE from

\* get_checkpoint: without an answer of Redis there is no checkpoint.
Resumed(from) ==
    IF redisUp /\ checkpoint # None /\ checkpoint > from THEN checkpoint ELSE from

Resume(j) ==
    /\ pc[j] = "resuming"
    /\ IF Resumed(cur[j]) < upto[j]
       THEN /\ GoTo(j, "fetching")
            /\ cur' = [cur EXCEPT ![j] = Resumed(@)]
            /\ UNCHANGED <<upto, asOf>>
       ELSE Leave(j)
    /\ UNCHANGED <<now, rows, checkpoint, redisUp, overlapped, failed, unasked>>

(* One chunk: fetch, upsert, checkpoint.                                   *)

Fetch(j) ==
    /\ pc[j] = "fetching"
    /\ asOf' = [asOf EXCEPT ![j] = now]
    /\ GoTo(j, "upserting")
    /\ UNCHANGED <<now, rows, checkpoint, redisUp, cur, upto, overlapped, failed, unasked>>

FetchTimesOut(j) ==
    /\ "timeout" \in Faults
    /\ pc[j] = "fetching"
    /\ Break(j)
    /\ UNCHANGED <<now, rows, checkpoint, redisUp, overlapped, failed, unasked>>

\* _fetch_candles answers every exception of the provider with no candles.
FetchFails(j) ==
    /\ "empty" \in Faults
    /\ pc[j] = "fetching"
    /\ NextChunk(j)
    /\ failed' = failed \cup {t \in Trading : cur[j] <= t /\ t <= ChunkEnd(j)}
    /\ UNCHANGED <<now, rows, checkpoint, redisUp, overlapped, unasked>>

UpsertNothing(j) ==
    /\ pc[j] = "upserting"
    /\ Answer(j) = {}
    /\ NextChunk(j)
    /\ UNCHANGED <<now, rows, checkpoint, redisUp, overlapped, failed, unasked>>

Upsert(j) ==
    /\ pc[j] = "upserting"
    /\ Answer(j) # {}
    /\ rows' = [t \in Times |-> IF t \in Answer(j) THEN Version(j, t) ELSE rows[t]]
    /\ GoTo(j, "marking")
    /\ UNCHANGED <<now, checkpoint, redisUp, cur, upto, asOf, overlapped, failed, unasked>>

\* The transaction is rolled back.
UpsertFails(j) ==
    /\ "error" \in Faults
    /\ pc[j] = "upserting"
    /\ Answer(j) # {}
    /\ Break(j)
    /\ UNCHANGED <<now, rows, checkpoint, redisUp, overlapped, failed, unasked>>

\* Mutant: the checkpoint is the end of the chunk.
MarkEnd(j) ==
    /\ pc[j] = "marking"
    /\ checkpoint' = IF redisUp THEN ChunkEnd(j) ELSE checkpoint
    /\ NextChunk(j)
    /\ UNCHANGED <<now, rows, redisUp, overlapped, failed, unasked>>

\* set_checkpoint: the time of the last candle of the list, newest or oldest
\* as the provider orders it; a failing SET is only logged.
Mark(j) ==
    /\ pc[j] = "marking"
    /\ IF redisUp THEN checkpoint' \in Ends(Answer(j)) ELSE UNCHANGED checkpoint
    /\ NextChunk(j)
    /\ UNCHANGED <<now, rows, redisUp, overlapped, failed, unasked>>

\* The process of the job dies.
Crash(j) ==
    /\ "crash" \in Faults
    /\ pc[j] # "idle"
    /\ Break(j)
    /\ UNCHANGED <<now, rows, checkpoint, redisUp, overlapped, failed, unasked>>

-----------------------------------------------------------------------------
NextWindow ==
    /\ now < MaxTime
    /\ now' = now + 1
    /\ UNCHANGED <<jobVars, rows, checkpoint, redisUp, overlapped, failed, unasked>>

RedisChanges ==
    /\ "outage" \in Faults
    /\ redisUp' = ~redisUp
    /\ UNCHANGED <<jobVars, now, rows, checkpoint, overlapped, failed, unasked>>

Chunk(j) ==
    \/ Fetch(j) \/ FetchTimesOut(j) \/ FetchFails(j)
    \/ UpsertNothing(j) \/ Upsert(j) \/ UpsertFails(j)
    \/ Mark(j)

JobStep(j) ==
    \/ \E from \in Starts : Start(j, from) \/ StartForced(j, from)
    \/ Resume(j) \/ Chunk(j) \/ Crash(j)

Next ==
    \/ \E j \in Jobs : JobStep(j)
    \/ NextWindow
    \/ RedisChanges

Spec == Init /\ [][Next]_vars

-----------------------------------------------------------------------------
(* The variables hold what the code can store in them.                     *)
TypeOK ==
    /\ now \in Times
    /\ rows \in [Times -> {None, "partial", "final"}]
    /\ checkpoint \in Trading \cup {None}
    /\ redisUp \in BOOLEAN
    /\ pc \in [Jobs -> {"idle", "resuming", "fetching", "upserting", "marking"}]
    /\ cur \in [Jobs -> 0 .. MaxTime + 1]
    /\ upto \in [Jobs -> 0 .. MaxTime + 1]
    /\ asOf \in [Jobs -> Times]
    /\ overlapped \in BOOLEAN
    /\ failed \subseteq Trading /\ unasked \subseteq Trading

Skipped(t) == checkpoint # None /\ t <= checkpoint

(* What the next job will not fetch, or has as its first candle, is in the *)
(* table, unless a failed fetch was taken for an empty answer or a job has *)
(* started after it: a backfill that was interrupted anywhere else, by a   *)
(* timeout, a failed upsert, an outage of Redis or a crash, and jobs that  *)
(* ran beside it, leave no hole below the checkpoint.                      *)
HolesExplained ==
    \A t \in Trading : Skipped(t) => rows[t] # None \/ t \in failed \cup unasked

(* The comment at the checkpoint of run_backfill and Requirement 10.2: a   *)
(* backfill resumes from the last candle it stored, so that what it skips  *)
(* is stored.                                                              *)
NoHole == \A t \in Trading : Skipped(t) => rows[t] # None

(* A candle that was fetched while its window was open is fetched again:   *)
(* below the checkpoint of jobs that ran one after the other every candle  *)
(* they asked for is final.                                                *)
FinalBelow ==
    ~overlapped =>
        \A t \in Trading \ (failed \cup unasked) :
            Skipped(t) /\ t < checkpoint => rows[t] = "final"

=============================================================================
