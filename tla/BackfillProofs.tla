---------------------------- MODULE BackfillProofs ----------------------------
(***************************************************************************)
(* Proofs about Backfill, for any jobs, wherever they start and however    *)
(* they overlap, any chunk size and any faults.                            *)
(***************************************************************************)
EXTENDS Backfill, TLAPS

Working == {"resuming", "fetching", "upserting", "marking"}

Excused == failed \cup unasked

Covered(t) == rows[t] # None \/ t \in Excused

(* Every candle before the chunk of a job, or before its start, is dealt   *)
(* with.                                                                   *)
Passed(j) == pc[j] \in Working => \A t \in Trading : t < cur[j] => Covered(t)

(* A chunk is answered when all its windows but its last have begun.       *)
AnsweredLate(j) == pc[j] \in {"upserting", "marking"} => upto[j] <= asOf[j] + 1

(* What a job is about to mark is in the table.                            *)
Stored(j) == pc[j] = "marking" => \A t \in Answer(j) : rows[t] # None

JobInv(j) == Passed(j) /\ AnsweredLate(j) /\ Stored(j) /\ upto[j] <= now + 1

IInv ==
    /\ TypeOK
    /\ HolesExplained
    /\ \A j \in Jobs : JobInv(j)

-----------------------------------------------------------------------------
LEMMA ChunkEndsInTime ==
    ASSUME TypeOK, NEW j \in Jobs
    PROVE  /\ ChunkEnd(j) \in 0 .. MaxTime + 1
           /\ ChunkEnd(j) <= upto[j]
           /\ Answer(j) \subseteq Trading
BY TimeAssumption, ChunkAssumption DEF TypeOK, Times, ChunkEnd, Answer

(* All times are numbers.                                                  *)
LEMMA TimesAreNumbers ==
    ASSUME TypeOK, NEW j \in Jobs, NEW t \in Trading
    PROVE  /\ t \in Nat /\ cur[j] \in Nat /\ asOf[j] \in Nat /\ now \in Nat
           /\ checkpoint \in Nat \cup {None}
<1>1. Trading \subseteq Nat
  BY TimeAssumption, TradingAssumption DEF Times
<1>2. cur[j] \in Nat /\ asOf[j] \in Nat /\ now \in Nat
  BY TimeAssumption DEF TypeOK, Times
<1>3. checkpoint \in Trading \cup {None}
  BY DEF TypeOK
<1> QED
  BY <1>1, <1>2, <1>3

(* The end of a job keeps the invariant, whatever ended it.                *)
LEMMA LeaveKeeps ==
    ASSUME IInv, NEW j \in Jobs, Leave(j),
           UNCHANGED <<now, rows, failed, unasked>>,
           TypeOK', HolesExplained'
    PROVE  IInv'
<1> SUFFICES ASSUME NEW i \in Jobs PROVE JobInv(i)'
  BY DEF IInv
<1>1. CASE i = j
  BY <1>1, TimeAssumption
     DEF IInv, TypeOK, Times, Leave, GoTo, JobInv, Passed, AnsweredLate, Stored, Working
<1>2. CASE i # j
  <2>1. UNCHANGED <<pc[i], cur[i], upto[i], asOf[i], now, rows, failed, unasked>>
    BY <1>2 DEF IInv, TypeOK, Leave, GoTo
  <2>2. Answer(i)' = Answer(i)
    BY <2>1 DEF Answer, ChunkEnd
  <2> QED
    BY <2>1, <2>2 DEF IInv, JobInv, Passed, AnsweredLate, Stored, Covered, Excused
<1> QED
  BY <1>1, <1>2

(* The step to the next chunk keeps it when the chunk is dealt with.       *)
LEMMA NextChunkKeeps ==
    ASSUME IInv, NEW j \in Jobs, NextChunk(j),
           UNCHANGED <<now, rows>>,
           failed \subseteq failed', unasked \subseteq unasked',
           TypeOK', HolesExplained',
           \A t \in Trading : t < ChunkEnd(j) => Covered(t)'
    PROVE  IInv'
<1> SUFFICES ASSUME NEW i \in Jobs PROVE JobInv(i)'
  BY DEF IInv
<1>1. CASE i = j /\ ChunkEnd(j) < upto[j]
  <2>1. /\ pc'[j] = "fetching"
        /\ cur'[j] = ChunkEnd(j)
        /\ upto'[j] = upto[j]
    BY <1>1 DEF IInv, TypeOK, NextChunk, GoTo
  <2> QED
    BY <1>1, <2>1 DEF IInv, JobInv, Passed, AnsweredLate, Stored
<1>2. CASE i = j /\ ~(ChunkEnd(j) < upto[j])
  BY <1>2, TimeAssumption
     DEF IInv, TypeOK, Times, NextChunk, Leave, GoTo, JobInv, Passed, AnsweredLate, Stored, Working
<1>3. CASE i # j
  <2>1. UNCHANGED <<pc[i], cur[i], upto[i], asOf[i], now, rows>>
    BY <1>3 DEF IInv, TypeOK, NextChunk, Leave, GoTo
  <2>2. Answer(i)' = Answer(i)
    BY <2>1 DEF Answer, ChunkEnd
  <2> QED
    BY <2>1, <2>2 DEF IInv, JobInv, Passed, AnsweredLate, Stored, Covered, Excused
<1> QED
  BY <1>1, <1>2, <1>3

-----------------------------------------------------------------------------
(* Below the end of a chunk that was answered every candle is in the answer *)
(* or was passed before.                                                   *)
LEMMA AnsweredChunk ==
    ASSUME IInv, NEW j \in Jobs, pc[j] \in {"upserting", "marking"},
           NEW t \in Trading, t < ChunkEnd(j), t \notin Answer(j)
    PROVE  Covered(t)
<1>1. t \in Nat /\ cur[j] \in Nat /\ asOf[j] \in Nat /\ upto[j] \in Nat
  BY TimeAssumption, TradingAssumption DEF IInv, TypeOK, Times
<1>2. ChunkEnd(j) \in Nat /\ ChunkEnd(j) <= upto[j]
  BY ChunkEndsInTime, TimeAssumption DEF IInv
<1>3. upto[j] <= asOf[j] + 1
  BY DEF IInv, JobInv, AnsweredLate
<1>4. t < cur[j]
  BY <1>1, <1>2, <1>3 DEF Answer
<1> QED
  BY <1>4 DEF IInv, JobInv, Passed, Working

LEMMA ChunkStepTypes ==
    ASSUME TypeOK, NEW j \in Jobs, Leave(j) \/ NextChunk(j)
    PROVE  /\ pc' \in [Jobs -> {"idle", "resuming", "fetching", "upserting", "marking"}]
           /\ cur' \in [Jobs -> 0 .. MaxTime + 1]
           /\ upto' \in [Jobs -> 0 .. MaxTime + 1]
           /\ asOf' \in [Jobs -> Times]
<1> USE TimeAssumption DEF TypeOK, Times
<1>1. ChunkEnd(j) \in 0 .. MaxTime + 1
  BY ChunkEndsInTime
<1>2. CASE Leave(j)
  BY <1>2 DEF Leave, GoTo
<1>3. CASE ChunkEnd(j) < upto[j] /\ NextChunk(j)
  <2>1. /\ pc' = [pc EXCEPT ![j] = "fetching"]
        /\ cur' = [cur EXCEPT ![j] = ChunkEnd(j)]
        /\ asOf' = [asOf EXCEPT ![j] = 0]
        /\ upto' = upto
    BY <1>3 DEF NextChunk, GoTo
  <2> QED
    BY <1>1, <2>1
<1> QED
  BY <1>2, <1>3 DEF NextChunk

LEMMA TypeStep ==
    ASSUME TypeOK, Next
    PROVE  TypeOK'
<1> USE TimeAssumption, TradingAssumption, ChunkAssumption, StartAssumption DEF TypeOK, Times
<1>2. ASSUME NEW j \in Jobs, NEW from \in Starts, Start(j, from) \/ StartForced(j, from)
      PROVE  TypeOK'
  <2>1. overlapped' \in BOOLEAN
    BY <1>2, Zenon DEF Start, StartForced, Begin
  <2>2. now + 1 \in 0 .. MaxTime + 1 /\ from \in 0 .. MaxTime + 1
    OBVIOUS
  <2>3. /\ pc' = [pc EXCEPT ![j] = "resuming"]
        /\ cur' = [cur EXCEPT ![j] = from]
        /\ upto' = [upto EXCEPT ![j] = now + 1]
        /\ unasked' \subseteq unasked \cup Trading
        /\ UNCHANGED <<now, rows, redisUp, asOf, failed>>
    BY <1>2 DEF Start, StartForced, Begin, GoTo
  <2>4. checkpoint' \in {checkpoint, None}
    BY <1>2 DEF Start, StartForced
  <2> QED
    BY <2>1, <2>2, <2>3, <2>4
<1>3. ASSUME NEW j \in Jobs, Resume(j)
      PROVE  TypeOK'
  <2>1. CASE Resumed(cur[j]) < upto[j]
    <3>1. Resumed(cur[j]) \in 0 .. MaxTime + 1
      BY DEF Resumed
    <3> QED
      BY <1>3, <2>1, <3>1 DEF Resume, GoTo
  <2>2. CASE ~(Resumed(cur[j]) < upto[j])
    BY ChunkStepTypes, <1>3, <2>2 DEF Resume
  <2> QED
    BY <2>1, <2>2
<1>4. ASSUME NEW j \in Jobs, Fetch(j)
      PROVE  TypeOK'
  BY <1>4 DEF Fetch, GoTo
<1>5. ASSUME NEW j \in Jobs,
             FetchTimesOut(j) \/ FetchFails(j) \/ UpsertNothing(j) \/ UpsertFails(j) \/ Crash(j)
      PROVE  TypeOK'
  BY ChunkStepTypes, <1>5 DEF FetchTimesOut, FetchFails, UpsertNothing, UpsertFails, Crash, Break
<1>6. ASSUME NEW j \in Jobs, Upsert(j)
      PROVE  TypeOK'
  BY <1>6 DEF Upsert, GoTo, Version
<1>7. ASSUME NEW j \in Jobs, Mark(j)
      PROVE  TypeOK'
  BY ChunkStepTypes, <1>7 DEF Mark, Ends, Answer
<1>8. NextWindow => TypeOK'
  BY DEF NextWindow, jobVars
<1>9. ASSUME RedisChanges PROVE TypeOK'
  <2>1. redisUp' \in BOOLEAN
    BY <1>9, Zenon DEF RedisChanges
  <2> QED
    BY <1>9, <2>1 DEF RedisChanges, jobVars
<1> QED
  BY <1>2, <1>3, <1>4, <1>5, <1>6, <1>7, <1>8, <1>9 DEF Next, JobStep, Chunk

-----------------------------------------------------------------------------
(* One lemma per kind of step.                                             *)

\* What the job will not ask for is in the table or remembered as unasked.
LEMMA StartKeeps ==
    ASSUME IInv, TypeOK', NEW j \in Jobs, NEW from \in Starts,
           Start(j, from) \/ StartForced(j, from)
    PROVE  IInv'
<1>1. /\ Begin(j, from) /\ checkpoint' \in {checkpoint, None}
      /\ UNCHANGED <<now, rows, failed>>
      /\ unasked' = unasked \cup {t \in Trading : t < from /\ rows[t] # "final"}
  BY DEF Start, StartForced, Begin
<1>2. HolesExplained'
  BY <1>1 DEF IInv, HolesExplained, Skipped
<1>3. \A t \in Trading : Covered(t) \/ t < from => Covered(t)'
  BY <1>1, NoneAssumption DEF Covered, Excused
<1>4. ASSUME NEW i \in Jobs PROVE JobInv(i)'
  <2>1. CASE i = j
    <3>1. pc'[j] = "resuming" /\ cur'[j] = from /\ upto'[j] = now + 1 /\ now' = now
      BY <1>1 DEF IInv, TypeOK, Begin, GoTo
    <3> QED
      BY <1>3, <2>1, <3>1 DEF IInv, TypeOK, Times, JobInv, Passed, AnsweredLate, Stored
  <2>2. CASE i # j
    <3>1. UNCHANGED <<pc[i], cur[i], upto[i], asOf[i], now, rows>>
      BY <1>1, <2>2 DEF IInv, TypeOK, Begin, GoTo
    <3>2. Answer(i)' = Answer(i)
      BY <3>1 DEF Answer, ChunkEnd
    <3> QED
      BY <1>3, <3>1, <3>2 DEF IInv, JobInv, Passed, AnsweredLate, Stored
  <2> QED
    BY <2>1, <2>2
<1> QED
  BY <1>2, <1>4 DEF IInv

\* A job resumes at its own start or at the checkpoint.
LEMMA ResumeKeeps ==
    ASSUME IInv, TypeOK', NEW j \in Jobs, Resume(j)
    PROVE  IInv'
<1>1. HolesExplained'
  BY DEF IInv, HolesExplained, Excused, Skipped, Resume
<1>2. CASE ~(Resumed(cur[j]) < upto[j])
  BY <1>1, <1>2, LeaveKeeps DEF Resume
<1>3. CASE Resumed(cur[j]) < upto[j]
  <2> SUFFICES ASSUME NEW i \in Jobs PROVE JobInv(i)'
    BY <1>1 DEF IInv
  <2>1. CASE i = j
    <3>1. pc'[j] = "fetching" /\ cur'[j] = Resumed(cur[j]) /\ UNCHANGED <<upto, now, rows, failed, unasked>>
      BY <1>3 DEF IInv, TypeOK, Resume, GoTo
    <3>2. ASSUME NEW t \in Trading, t < Resumed(cur[j]) PROVE Covered(t)
      <4>1. t \in Nat /\ cur[j] \in Nat /\ checkpoint \in Nat \cup {None}
        BY TimesAreNumbers DEF IInv
      <4>2. CASE t < cur[j]
        BY <4>2 DEF IInv, JobInv, Passed, Working, Resume
      <4>3. CASE cur[j] <= t
        <5>1. Skipped(t)
          BY <3>2, <4>1, <4>3, NoneAssumption DEF Resumed, Skipped
        <5> QED
          BY <5>1 DEF IInv, HolesExplained, Covered, Excused
      <4> QED
        BY <4>1, <4>2, <4>3
    <3> QED
      BY <2>1, <3>1, <3>2 DEF IInv, JobInv, Passed, AnsweredLate, Stored, Covered, Excused
  <2>2. CASE i # j
    <3>1. UNCHANGED <<pc[i], cur[i], upto[i], asOf[i], now, rows, failed, unasked>>
      BY <1>3, <2>2 DEF IInv, TypeOK, Resume, GoTo
    <3>2. Answer(i)' = Answer(i)
      BY <3>1 DEF Answer, ChunkEnd
    <3> QED
      BY <3>1, <3>2 DEF IInv, JobInv, Passed, AnsweredLate, Stored, Covered, Excused
  <2> QED
    BY <2>1, <2>2
<1> QED
  BY <1>2, <1>3

LEMMA FetchKeeps ==
    ASSUME IInv, TypeOK', NEW j \in Jobs, Fetch(j)
    PROVE  IInv'
<1>1. HolesExplained'
  BY DEF IInv, HolesExplained, Excused, Skipped, Fetch
<1>2. ASSUME NEW i \in Jobs PROVE JobInv(i)'
  <2>1. CASE i = j
    BY <2>1 DEF IInv, TypeOK, Fetch, GoTo, JobInv, Passed, AnsweredLate, Stored, Working, Covered, Excused
  <2>2. CASE i # j
    <3>1. UNCHANGED <<pc[i], cur[i], upto[i], asOf[i], now, rows, failed, unasked>>
      BY <2>2 DEF IInv, TypeOK, Fetch, GoTo
    <3>2. Answer(i)' = Answer(i)
      BY <3>1 DEF Answer, ChunkEnd
    <3> QED
      BY <3>1, <3>2 DEF IInv, JobInv, Passed, AnsweredLate, Stored, Covered, Excused
  <2> QED
    BY <2>1, <2>2
<1> QED
  BY <1>1, <1>2 DEF IInv

LEMMA StopKeeps ==
    ASSUME IInv, TypeOK', NEW j \in Jobs,
           FetchTimesOut(j) \/ UpsertFails(j) \/ Crash(j)
    PROVE  IInv'
<1>1. Leave(j) /\ UNCHANGED <<now, rows, failed, unasked, checkpoint>>
  BY DEF FetchTimesOut, UpsertFails, Crash, Break
<1>2. HolesExplained'
  BY <1>1 DEF IInv, HolesExplained, Excused, Skipped
<1> QED
  BY <1>1, <1>2, LeaveKeeps

\* The failed chunk is recorded, and the job goes on.
LEMMA FetchFailsKeeps ==
    ASSUME IInv, TypeOK', NEW j \in Jobs, FetchFails(j)
    PROVE  IInv'
<1>1. /\ NextChunk(j)
      /\ UNCHANGED <<now, rows, checkpoint>>
      /\ failed \subseteq failed' /\ UNCHANGED unasked
  BY DEF FetchFails
<1>2. HolesExplained'
  BY <1>1 DEF IInv, HolesExplained, Excused, Skipped
<1>3. ASSUME NEW t \in Trading, t < ChunkEnd(j) PROVE Covered(t)'
  <2>1. t \in Nat /\ cur[j] \in Nat /\ ChunkEnd(j) \in Nat
    BY TimeAssumption, TradingAssumption, ChunkEndsInTime DEF IInv, TypeOK, Times
  <2>2. CASE t < cur[j]
    BY <1>1, <2>2 DEF IInv, JobInv, Passed, Working, FetchFails, Covered, Excused
  <2>3. CASE cur[j] <= t
    BY <1>3, <2>1, <2>3 DEF FetchFails, Covered, Excused
  <2> QED
    BY <2>1, <2>2, <2>3
<1> QED
  BY <1>1, <1>2, <1>3, NextChunkKeeps

LEMMA UpsertNothingKeeps ==
    ASSUME IInv, TypeOK', NEW j \in Jobs, UpsertNothing(j)
    PROVE  IInv'
<1>1. NextChunk(j) /\ UNCHANGED <<now, rows, checkpoint, failed, unasked>>
  BY DEF UpsertNothing
<1>2. HolesExplained'
  BY <1>1 DEF IInv, HolesExplained, Excused, Skipped
<1>3. ASSUME NEW t \in Trading, t < ChunkEnd(j) PROVE Covered(t)'
  BY <1>1, <1>3, AnsweredChunk DEF UpsertNothing, Covered, Excused
<1> QED
  BY <1>1, <1>2, <1>3, NextChunkKeeps

\* The upsert only adds candles.
LEMMA UpsertKeeps ==
    ASSUME IInv, TypeOK', NEW j \in Jobs, Upsert(j)
    PROVE  IInv'
<1>1. \A t \in Times : rows[t] # None => rows'[t] # None
  BY NoneAssumption DEF Upsert, Version
<1>2. \A t \in Trading : Covered(t) => Covered(t)'
  BY <1>1, TradingAssumption DEF Covered, Excused, Upsert
<1>3. HolesExplained'
  BY <1>2 DEF IInv, HolesExplained, Skipped, Covered, Excused, Upsert
<1>4. ASSUME NEW i \in Jobs PROVE JobInv(i)'
  <2>1. UNCHANGED <<cur[i], upto[i], asOf[i], now>> /\ Answer(i)' = Answer(i)
    BY DEF Upsert, Answer, ChunkEnd
  <2>2. Answer(i) \subseteq Times
    BY TradingAssumption DEF Answer
  <2>3. CASE i = j
    <3>1. pc[j] = "upserting" /\ pc'[j] = "marking"
      BY DEF IInv, TypeOK, Upsert, GoTo
    <3>2. \A t \in Answer(j) : rows'[t] # None
      BY <2>2, <2>3, NoneAssumption DEF Upsert, Version
    <3> QED
      BY <1>2, <2>1, <2>3, <3>1, <3>2 DEF IInv, JobInv, Passed, AnsweredLate, Stored, Working
  <2>4. CASE i # j
    <3>1. pc'[i] = pc[i]
      BY <2>4 DEF IInv, TypeOK, Upsert, GoTo
    <3> QED
      BY <1>1, <1>2, <2>1, <2>2, <3>1 DEF IInv, JobInv, Passed, AnsweredLate, Stored
  <2> QED
    BY <2>3, <2>4
<1> QED
  BY <1>3, <1>4 DEF IInv

\* Wherever in the answer the checkpoint goes, what is before it is covered.
LEMMA MarkKeeps ==
    ASSUME IInv, TypeOK', NEW j \in Jobs, Mark(j)
    PROVE  IInv'
<1>1. NextChunk(j) /\ UNCHANGED <<now, rows, failed, unasked>> /\ pc[j] = "marking"
  BY DEF Mark
<1>2. checkpoint' \in Answer(j) \cup {checkpoint}
  BY DEF Mark, Ends
<1>3. ASSUME NEW t \in Answer(j) PROVE Covered(t)
  BY <1>1, <1>3 DEF IInv, JobInv, Stored, Covered, Excused
<1>4. HolesExplained'
  <2>1. CASE checkpoint' = checkpoint
    BY <1>1, <2>1 DEF IInv, HolesExplained, Excused, Skipped
  <2>2. CASE checkpoint' \in Answer(j)
    <3> SUFFICES ASSUME NEW t \in Trading, t <= checkpoint' PROVE Covered(t)
      BY <1>1 DEF HolesExplained, Skipped, Covered, Excused
    <3>1. /\ t \in Nat /\ cur[j] \in Nat /\ asOf[j] \in Nat
          /\ ChunkEnd(j) \in Nat /\ checkpoint' \in Nat
      BY <2>2, TimeAssumption, TradingAssumption, ChunkEndsInTime DEF IInv, TypeOK, Times
    <3>2. CASE t < cur[j]
      BY <1>1, <3>2 DEF IInv, JobInv, Passed, Working
    <3>3. CASE cur[j] <= t
      BY <1>3, <2>2, <3>1, <3>3 DEF Answer
    <3> QED
      BY <3>1, <3>2, <3>3
  <2> QED
    BY <1>2, <2>1, <2>2
<1>5. ASSUME NEW t \in Trading, t < ChunkEnd(j) PROVE Covered(t)'
  <2>1. Covered(t)
    BY <1>1, <1>3, <1>5, AnsweredChunk
  <2> QED
    BY <1>1, <2>1 DEF Covered, Excused
<1> QED
  BY <1>1, <1>4, <1>5, NextChunkKeeps

LEMMA EnvironmentKeeps ==
    ASSUME IInv, TypeOK', NextWindow \/ RedisChanges
    PROVE  IInv'
<1>1. UNCHANGED <<pc, cur, upto, asOf, rows, checkpoint, failed, unasked>> /\ now <= now'
  BY DEF IInv, TypeOK, Times, NextWindow, RedisChanges, jobVars
<1>2. HolesExplained'
  BY <1>1 DEF IInv, HolesExplained, Excused, Skipped
<1>3. ASSUME NEW i \in Jobs PROVE JobInv(i)'
  <2>1. Answer(i)' = Answer(i) /\ upto[i] <= now' + 1
    BY <1>1 DEF IInv, TypeOK, Times, JobInv, Answer, ChunkEnd
  <2> QED
    BY <1>1, <2>1 DEF IInv, TypeOK, Times, JobInv, Passed, AnsweredLate, Stored, Covered, Excused
<1> QED
  BY <1>2, <1>3 DEF IInv

-----------------------------------------------------------------------------
LEMMA TypeInit ==
    ASSUME Init
    PROVE  TypeOK
<1>1. 0 \in Times /\ 0 \in 0 .. MaxTime + 1
  BY TimeAssumption DEF Times
<1>2. /\ now \in Times
      /\ rows \in [Times -> {None, "partial", "final"}]
      /\ checkpoint \in Trading \cup {None}
      /\ failed \subseteq Trading /\ unasked \subseteq Trading
  BY <1>1 DEF Init
<1>3. redisUp \in BOOLEAN /\ overlapped \in BOOLEAN
  BY Zenon DEF Init
<1>4. /\ pc \in [Jobs -> {"idle", "resuming", "fetching", "upserting", "marking"}]
      /\ cur \in [Jobs -> 0 .. MaxTime + 1]
      /\ upto \in [Jobs -> 0 .. MaxTime + 1]
      /\ asOf \in [Jobs -> Times]
  BY <1>1 DEF Init
<1> QED
  BY <1>2, <1>3, <1>4 DEF TypeOK

(* Type correctness.                                                       *)
THEOREM TypeCorrect == Spec => []TypeOK
<1>1. Init => TypeOK
  BY TypeInit
<1>2. TypeOK /\ [Next]_vars => TypeOK'
  <2>1. TypeOK /\ UNCHANGED vars => TypeOK'
    BY DEF TypeOK, vars
  <2> QED
    BY <2>1, TypeStep
<1> QED
  BY <1>1, <1>2, PTL DEF Spec

LEMMA InitHolds == Init => IInv
<1> SUFFICES ASSUME Init PROVE IInv
  OBVIOUS
<1>1. TypeOK
  BY TypeInit
<1>2. HolesExplained
  BY DEF Init, HolesExplained, Excused, Skipped
<1>3. ASSUME NEW j \in Jobs PROVE JobInv(j)
  <2>1. now = 0 /\ pc[j] = "idle" /\ upto[j] = 0
    BY DEF Init
  <2>2. Passed(j) /\ AnsweredLate(j) /\ Stored(j)
    BY <2>1 DEF Passed, AnsweredLate, Stored, Working
  <2> QED
    BY <2>1, <2>2 DEF JobInv
<1> QED
  BY <1>1, <1>2, <1>3 DEF IInv

LEMMA StepHolds ==
    ASSUME IInv, [Next]_vars
    PROVE  IInv'
<1>1. CASE UNCHANGED vars
  BY <1>1
     DEF vars, IInv, TypeOK, HolesExplained, Skipped, JobInv, Passed, AnsweredLate,
         Stored, Covered, Excused, Answer, ChunkEnd
<1>2. CASE Next
  <2>1. TypeOK'
    BY <1>2, TypeStep DEF IInv
  <2> QED
    BY <1>2, <2>1, StartKeeps, ResumeKeeps, FetchKeeps, StopKeeps, FetchFailsKeeps,
       UpsertNothingKeeps, UpsertKeeps, MarkKeeps, EnvironmentKeeps
       DEF Next, JobStep, Chunk
<1> QED
  BY <1>1, <1>2

(* HolesExplained for every value of the constants: wherever the jobs      *)
(* start and however they overlap, a backfill loses no candle to a crash,  *)
(* a timeout, a failed upsert, an outage of Redis or a job beside it; only *)
(* a failed fetch taken for an empty answer, or a job that started after   *)
(* a candle that was missing then, lets the checkpoint pass one.           *)
THEOREM NoOtherHole == Spec => []HolesExplained
<1>1. Init => IInv
  BY InitHolds
<1>2. IInv /\ [Next]_vars => IInv'
  BY StepHolds
<1>3. IInv => HolesExplained
  BY DEF IInv
<1> QED
  BY <1>1, <1>2, <1>3, PTL DEF Spec

-----------------------------------------------------------------------------
(* Below the checkpoint every candle is final, as long as the jobs run one *)
(* after the other: a candle that an earlier job stored as final was final *)
(* before the job that runs was answered, so that its upsert, which knows  *)
(* nothing of what it replaces, puts no partial candle in its place.       *)

Final(t) == rows[t] = "final" \/ t \in Excused

AloneJob(j) ==
    /\ pc[j] \in Working => \A t \in Trading : t < cur[j] => Final(t)
    /\ pc[j] \in {"upserting", "marking"} =>
           /\ asOf[j] <= now
           /\ \A t \in Trading : rows[t] = "final" => t < asOf[j]
    /\ pc[j] = "marking" => \A t \in Answer(j) : t < asOf[j] => rows[t] = "final"

OneByOne == \A i, j \in Jobs : pc[i] # "idle" /\ pc[j] # "idle" => i = j

OverWhenFinal == \A t \in Trading : rows[t] = "final" => t < now

FinalToCheckpoint == \A t \in Trading : Skipped(t) /\ t < checkpoint => Final(t)

Alone ==
    ~overlapped =>
        /\ OneByOne
        /\ OverWhenFinal
        /\ FinalToCheckpoint
        /\ \A j \in Jobs : AloneJob(j)

\* Of a job that steps on, the others idle, only its own part is left to show.
LEMMA AloneStep ==
    ASSUME IInv, Alone, UNCHANGED overlapped, NEW j \in Jobs, pc[j] # "idle",
           \A i \in Jobs : i # j => pc'[i] = pc[i],
           ~overlapped => OverWhenFinal' /\ FinalToCheckpoint' /\ AloneJob(j)'
    PROVE  Alone'
<1> SUFFICES ASSUME ~overlapped PROVE Alone'
  BY DEF Alone
<1>1. \A i \in Jobs : i # j => pc[i] = "idle" /\ pc'[i] = "idle"
  BY DEF Alone, OneByOne
<1>2. OneByOne'
  BY <1>1 DEF OneByOne
<1>3. \A i \in Jobs : AloneJob(i)'
  BY <1>1 DEF AloneJob, Working
<1> QED
  BY <1>2, <1>3 DEF Alone

LEMMA AloneLeaves ==
    ASSUME IInv, Alone, NEW j \in Jobs, pc[j] # "idle", Leave(j),
           UNCHANGED <<now, rows, failed, unasked, checkpoint, overlapped>>
    PROVE  Alone'
<1>1. /\ pc'[j] = "idle"
      /\ \A i \in Jobs : i # j => pc'[i] = pc[i]
  BY DEF IInv, TypeOK, Leave, GoTo
<1>2. AloneJob(j)'
  BY <1>1 DEF AloneJob, Working
<1>3. ~overlapped => OverWhenFinal' /\ FinalToCheckpoint'
  BY DEF Alone, OverWhenFinal, FinalToCheckpoint, Skipped, Final, Excused
<1> QED
  BY <1>1, <1>2, <1>3, AloneStep

\* The next chunk starts where all is final, or the job is over.
LEMMA AloneGoesOn ==
    ASSUME IInv, Alone, NEW j \in Jobs, pc[j] # "idle", NextChunk(j),
           UNCHANGED <<now, rows, overlapped>>,
           ~overlapped => FinalToCheckpoint',
           ~overlapped /\ ChunkEnd(j) < upto[j] =>
               \A t \in Trading : t < ChunkEnd(j) => Final(t)'
    PROVE  Alone'
<1>1. \A i \in Jobs : i # j => pc'[i] = pc[i]
  BY DEF IInv, TypeOK, NextChunk, Leave, GoTo
<1>2. ~overlapped => OverWhenFinal'
  BY DEF Alone, OverWhenFinal
<1>3. ~overlapped => AloneJob(j)'
  <2>1. CASE ChunkEnd(j) < upto[j]
    <3>1. pc'[j] = "fetching" /\ cur'[j] = ChunkEnd(j)
      BY <2>1 DEF IInv, TypeOK, NextChunk, GoTo
    <3> QED
      BY <2>1, <3>1 DEF AloneJob
  <2>2. CASE ~(ChunkEnd(j) < upto[j])
    <3>1. pc'[j] = "idle"
      BY <2>2 DEF IInv, TypeOK, NextChunk, Leave, GoTo
    <3> QED
      BY <3>1 DEF AloneJob, Working
  <2> QED
    BY <2>1, <2>2
<1> QED
  BY <1>1, <1>2, <1>3, AloneStep

\* Up to the end of a chunk that is not the last, what the provider has of
\* it was over when the provider answered.
LEMMA AnsweredFinal ==
    ASSUME IInv, NEW j \in Jobs, pc[j] \in {"upserting", "marking"},
           NEW t \in Trading, cur[j] <= t, t < ChunkEnd(j), ChunkEnd(j) < upto[j]
    PROVE  t \in Answer(j) /\ t < asOf[j]
<1>1. t \in Nat /\ cur[j] \in Nat /\ asOf[j] \in Nat /\ upto[j] \in Nat /\ ChunkEnd(j) \in Nat
  BY TimeAssumption, TradingAssumption, ChunkEndsInTime DEF IInv, TypeOK, Times
<1>2. upto[j] <= asOf[j] + 1
  BY DEF IInv, JobInv, AnsweredLate
<1> QED
  BY <1>1, <1>2 DEF Answer

LEMMA AloneStarts ==
    ASSUME IInv, Alone, NEW j \in Jobs, NEW from \in Starts,
           Start(j, from) \/ StartForced(j, from)
    PROVE  Alone'
<1> SUFFICES ASSUME ~overlapped' PROVE Alone'
  BY DEF Alone
<1>1. /\ pc' = [pc EXCEPT ![j] = "resuming"] /\ cur' = [cur EXCEPT ![j] = from]
      /\ overlapped' = (overlapped \/ \E i \in Jobs : pc[i] # "idle")
      /\ UNCHANGED <<now, rows, failed>>
      /\ unasked' = unasked \cup {t \in Trading : t < from /\ rows[t] # "final"}
      /\ checkpoint' \in {checkpoint, None}
  BY DEF Start, StartForced, Begin, GoTo
<1>2. ~overlapped /\ \A i \in Jobs : pc[i] = "idle"
  BY <1>1
<1>3. \A i \in Jobs : pc'[i] = IF i = j THEN "resuming" ELSE "idle"
  BY <1>1, <1>2 DEF IInv, TypeOK
<1>4. \A t \in Trading : Final(t) \/ t < from => Final(t)'
  BY <1>1 DEF Final, Excused
<1>5. cur'[j] = from
  BY <1>1 DEF IInv, TypeOK
<1>6. OneByOne' /\ \A i \in Jobs : AloneJob(i)'
  BY <1>3, <1>4, <1>5 DEF OneByOne, AloneJob, Working
<1>7. OverWhenFinal' /\ FinalToCheckpoint'
  BY <1>1, <1>2, <1>4 DEF Alone, OverWhenFinal, FinalToCheckpoint, Skipped
<1> QED
  BY <1>6, <1>7 DEF Alone

LEMMA AloneResumes ==
    ASSUME IInv, Alone, NEW j \in Jobs, Resume(j)
    PROVE  Alone'
<1>1. CASE ~(Resumed(cur[j]) < upto[j])
  BY <1>1, AloneLeaves DEF Resume
<1>2. CASE Resumed(cur[j]) < upto[j]
  <2>1. /\ pc'[j] = "fetching" /\ cur'[j] = Resumed(cur[j])
        /\ \A i \in Jobs : i # j => pc'[i] = pc[i]
        /\ UNCHANGED <<now, rows, checkpoint, failed, unasked, overlapped>>
    BY <1>2 DEF IInv, TypeOK, Resume, GoTo
  <2>2. ASSUME ~overlapped, NEW t \in Trading, t < Resumed(cur[j]) PROVE Final(t)
    <3>1. t \in Nat /\ cur[j] \in Nat /\ checkpoint \in Nat \cup {None}
      BY TimesAreNumbers DEF IInv
    <3>2. CASE t < cur[j]
      BY <2>2, <3>2 DEF Alone, AloneJob, Working, Resume
    <3>3. CASE cur[j] <= t
      <4>1. Skipped(t) /\ t < checkpoint
        BY <2>2, <3>1, <3>3, NoneAssumption DEF Resumed, Skipped
      <4> QED
        BY <2>2, <4>1 DEF Alone, FinalToCheckpoint
    <3> QED
      BY <3>1, <3>2, <3>3
  <2>3. ~overlapped => AloneJob(j)'
    BY <2>1, <2>2 DEF AloneJob, Final, Excused
  <2>4. ~overlapped => OverWhenFinal' /\ FinalToCheckpoint'
    BY <2>1 DEF Alone, OverWhenFinal, FinalToCheckpoint, Skipped, Final, Excused
  <2> QED
    BY <2>1, <2>3, <2>4, AloneStep DEF Resume
<1> QED
  BY <1>1, <1>2

LEMMA AloneFetches ==
    ASSUME IInv, Alone, NEW j \in Jobs, Fetch(j)
    PROVE  Alone'
<1>1. /\ pc[j] = "fetching" /\ pc'[j] = "upserting" /\ asOf'[j] = now /\ now \in Int
      /\ \A i \in Jobs : i # j => pc'[i] = pc[i]
      /\ UNCHANGED <<now, rows, checkpoint, cur, failed, unasked, overlapped>>
  BY DEF IInv, TypeOK, Times, Fetch, GoTo
<1>2. ~overlapped => OverWhenFinal' /\ FinalToCheckpoint'
  BY <1>1 DEF Alone, OverWhenFinal, FinalToCheckpoint, Skipped, Final, Excused
<1>3. ~overlapped => AloneJob(j)'
  BY <1>1 DEF Alone, OverWhenFinal, AloneJob, Working, Final, Excused
<1> QED
  BY <1>1, <1>2, <1>3, AloneStep

LEMMA AloneFetchFails ==
    ASSUME IInv, Alone, NEW j \in Jobs, FetchFails(j)
    PROVE  Alone'
<1>1. /\ NextChunk(j) /\ pc[j] = "fetching"
      /\ UNCHANGED <<now, rows, checkpoint, unasked, overlapped>>
      /\ failed' = failed \cup {t \in Trading : cur[j] <= t /\ t <= ChunkEnd(j)}
  BY DEF FetchFails
<1>2. ~overlapped => FinalToCheckpoint'
  BY <1>1 DEF Alone, FinalToCheckpoint, Skipped, Final, Excused
<1>3. ASSUME ~overlapped, NEW t \in Trading, t < ChunkEnd(j) PROVE Final(t)'
  <2>1. t \in Nat /\ cur[j] \in Nat /\ ChunkEnd(j) \in Nat
    BY TimeAssumption, TradingAssumption, ChunkEndsInTime DEF IInv, TypeOK, Times
  <2>2. CASE t < cur[j]
    BY <1>1, <1>3, <2>2 DEF Alone, AloneJob, Working, Final, Excused
  <2>3. CASE cur[j] <= t
    BY <1>1, <1>3, <2>1, <2>3 DEF Final, Excused
  <2> QED
    BY <2>1, <2>2, <2>3
<1> QED
  BY <1>1, <1>2, <1>3, AloneGoesOn

LEMMA AloneUpsertsNothing ==
    ASSUME IInv, Alone, NEW j \in Jobs, UpsertNothing(j)
    PROVE  Alone'
<1>1. /\ NextChunk(j) /\ pc[j] = "upserting" /\ Answer(j) = {}
      /\ UNCHANGED <<now, rows, checkpoint, failed, unasked, overlapped>>
  BY DEF UpsertNothing
<1>2. ~overlapped => FinalToCheckpoint'
  BY <1>1 DEF Alone, FinalToCheckpoint, Skipped, Final, Excused
<1>3. ASSUME ~overlapped, ChunkEnd(j) < upto[j], NEW t \in Trading, t < ChunkEnd(j)
      PROVE  Final(t)'
  <2>1. t < cur[j]
    <3>1. t \in Nat /\ cur[j] \in Nat
      BY TimesAreNumbers DEF IInv
    <3> QED
      BY <1>1, <1>3, <3>1, AnsweredFinal
  <2> QED
    BY <1>1, <1>3, <2>1 DEF Alone, AloneJob, Working, Final, Excused
<1> QED
  BY <1>1, <1>2, <1>3, AloneGoesOn

\* The upsert makes candles final that were not, and leaves final what was.
LEMMA AloneUpserts ==
    ASSUME IInv, Alone, NEW j \in Jobs, Upsert(j)
    PROVE  Alone'
<1>1. /\ pc[j] = "upserting" /\ pc'[j] = "marking"
      /\ \A i \in Jobs : i # j => pc'[i] = pc[i]
      /\ rows' = [t \in Times |-> IF t \in Answer(j) THEN Version(j, t) ELSE rows[t]]
      /\ UNCHANGED <<now, checkpoint, cur, upto, asOf, failed, unasked, overlapped>>
  BY DEF IInv, TypeOK, Upsert, GoTo
<1>2. Answer(j)' = Answer(j) /\ Answer(j) \subseteq Times
  BY <1>1, TradingAssumption DEF Answer, ChunkEnd
<1>3. ASSUME ~overlapped, NEW t \in Trading, rows[t] = "final" PROVE rows'[t] = "final"
  BY <1>1, <1>3, TradingAssumption DEF Alone, AloneJob, Version
<1>4. ASSUME ~overlapped, NEW t \in Trading, rows'[t] = "final" PROVE t < asOf[j]
  BY <1>1, <1>4, TradingAssumption DEF Alone, AloneJob, Version
<1>5. ~overlapped => asOf[j] <= now
  BY <1>1 DEF Alone, AloneJob
<1>6. ~overlapped => OverWhenFinal'
  <2>1. \A t \in Trading : asOf[j] \in Nat /\ now \in Nat /\ t \in Nat
    BY TimesAreNumbers DEF IInv
  <2> QED
    BY <1>1, <1>4, <1>5, <2>1 DEF OverWhenFinal
<1>7. ~overlapped => FinalToCheckpoint'
  BY <1>1, <1>3 DEF Alone, FinalToCheckpoint, Skipped, Final, Excused
<1>8. \A t \in Answer(j) : t < asOf[j] => rows'[t] = "final"
  BY <1>1, <1>2 DEF Version
<1>9. ~overlapped => AloneJob(j)'
  BY <1>1, <1>2, <1>3, <1>4, <1>5, <1>8 DEF Alone, AloneJob, Working, Final, Excused
<1> QED
  BY <1>1, <1>6, <1>7, <1>9, AloneStep

LEMMA AloneMarks ==
    ASSUME IInv, Alone, NEW j \in Jobs, Mark(j)
    PROVE  Alone'
<1>1. /\ NextChunk(j) /\ pc[j] = "marking"
      /\ UNCHANGED <<now, rows, failed, unasked, overlapped>>
      /\ checkpoint' \in Answer(j) \cup {checkpoint}
  BY DEF Mark, Ends
<1>2. \A t \in Trading : t \in Nat
  BY TradingAssumption DEF Times
<1>3. cur[j] \in Nat /\ asOf[j] \in Nat /\ ChunkEnd(j) \in Nat
  BY TimeAssumption, ChunkEndsInTime DEF IInv, TypeOK, Times
<1>4. ASSUME ~overlapped, NEW t \in Trading,
             t < cur[j] \/ (t \in Answer(j) /\ t < asOf[j])
      PROVE  Final(t)
  BY <1>1, <1>4 DEF Alone, AloneJob, Working, Final, Excused
<1>5. ASSUME ~overlapped PROVE FinalToCheckpoint'
  <2>1. CASE checkpoint' = checkpoint
    BY <1>1, <1>5, <2>1 DEF Alone, FinalToCheckpoint, Skipped, Final, Excused
  <2>2. CASE checkpoint' \in Answer(j)
    <3>1. ASSUME NEW t \in Trading, t < checkpoint'
          PROVE  Final(t)
      <4>1. /\ checkpoint' \in Nat /\ checkpoint' <= asOf[j] /\ checkpoint' <= ChunkEnd(j)
        BY <1>2, <2>2 DEF Answer
      <4>2. t < cur[j] \/ (t \in Answer(j) /\ t < asOf[j])
        BY <1>2, <1>3, <3>1, <4>1 DEF Answer
      <4> QED
        BY <1>4, <1>5, <4>2
    <3> QED
      BY <1>1, <3>1 DEF FinalToCheckpoint, Final, Excused
  <2> QED
    BY <1>1, <2>1, <2>2
<1>6. ASSUME ~overlapped, ChunkEnd(j) < upto[j], NEW t \in Trading, t < ChunkEnd(j)
      PROVE  Final(t)'
  <2>1. t < cur[j] \/ (t \in Answer(j) /\ t < asOf[j])
    BY <1>1, <1>2, <1>3, <1>6, AnsweredFinal
  <2> QED
    BY <1>1, <1>4, <1>6, <2>1 DEF Final, Excused
<1> QED
  BY <1>1, <1>5, <1>6, AloneGoesOn

LEMMA AloneEnvironment ==
    ASSUME IInv, Alone, NextWindow \/ RedisChanges \/ UNCHANGED vars
    PROVE  Alone'
<1>1. /\ UNCHANGED <<pc, cur, upto, asOf, rows, checkpoint, failed, unasked, overlapped>>
      /\ now \in Int /\ now' \in Int /\ now <= now'
  BY DEF IInv, TypeOK, Times, NextWindow, RedisChanges, jobVars, vars
<1>2. \A j \in Jobs : asOf[j] \in Int
  BY DEF IInv, TypeOK, Times
<1>3. \A t \in Trading : t \in Int
  BY TradingAssumption DEF Times
<1>4. \A j \in Jobs : Answer(j)' = Answer(j)
  BY <1>1 DEF Answer, ChunkEnd
<1>5. ASSUME ~overlapped, NEW j \in Jobs PROVE AloneJob(j)'
  BY <1>1, <1>2, <1>4, <1>5 DEF Alone, AloneJob, Final, Excused
<1>6. ~overlapped => OverWhenFinal'
  BY <1>1, <1>3 DEF Alone, OverWhenFinal
<1>7. ~overlapped => OneByOne' /\ FinalToCheckpoint'
  BY <1>1 DEF Alone, OneByOne, FinalToCheckpoint, Skipped, Final, Excused
<1> QED
  BY <1>1, <1>5, <1>6, <1>7 DEF Alone

LEMMA AloneInit == Init => Alone
  BY NoneAssumption, TradingAssumption
     DEF Init, Alone, OneByOne, OverWhenFinal, FinalToCheckpoint, Skipped, AloneJob, Working

(* FinalBelow for every value of the constants: jobs that run one after    *)
(* the other, wherever they start, leave no candle they asked for partial  *)
(* below the checkpoint, whether they ended, timed out, failed or crashed. *)
THEOREM FinalBelowCheckpoint == Spec => []FinalBelow
<1>1. Init => IInv /\ Alone
  BY InitHolds, AloneInit
<1>2. IInv /\ Alone /\ [Next]_vars => (IInv /\ Alone)'
  <2> SUFFICES ASSUME IInv, Alone, [Next]_vars
               PROVE  (IInv /\ Alone)'
    OBVIOUS
  <2>1. IInv'
    BY StepHolds
  <2>2. ASSUME NEW j \in Jobs, FetchTimesOut(j) \/ UpsertFails(j) \/ Crash(j)
        PROVE  Alone'
    BY <2>2, AloneLeaves DEF FetchTimesOut, UpsertFails, Crash, Break
  <2>3. Alone'
    BY <2>2, AloneStarts, AloneResumes, AloneFetches, AloneFetchFails, AloneUpsertsNothing,
       AloneUpserts, AloneMarks, AloneEnvironment
       DEF Next, JobStep, Chunk
  <2> QED
    BY <2>1, <2>3
<1>3. Alone => FinalBelow
  BY DEF Alone, FinalToCheckpoint, FinalBelow, Final, Excused
<1> QED
  BY <1>1, <1>2, <1>3, PTL DEF Spec

=============================================================================
