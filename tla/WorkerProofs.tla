----------------------------- MODULE WorkerProofs ------------------------------
(***************************************************************************)
(* Proofs about what the worker process and the scripts keep current.      *)
(* Universe: every write takes a version above all that are stored; the    *)
(* properties follow from that.  CatchUp: what jobs that do not overlap    *)
(* leave of the shared engine, and that no day goes without its end-of-day *)
(* pass.                                                                   *)
(***************************************************************************)
EXTENDS Universe, CatchUp, FiniteSetTheorems, TLAPS

-----------------------------------------------------------------------------
(* Universe.                                                               *)

SnapTypes ==
    /\ Rows \subseteq Keys
    /\ \A k \in Rows : snaps[k] \in [version : Nat, active : BOOLEAN]

Distinct == \A k, q \in Rows : snaps[k].version = snaps[q].version => k = q

Top(k) == k \in Active /\ \A q \in Rows : snaps[q].version <= snaps[k].version

NewestIsActive == Rows = {} \/ \E k \in Rows : Top(k)

\* The version that the script is about to store is above all.
LoaderAhead ==
    /\ loader.at \in {"idle", "snapshot", "members", "crashed"}
    /\ loader.list \subseteq Symbols
    /\ loader.at = "snapshot" =>
          loader.version \in Nat /\ \A q \in Rows : snaps[q].version < loader.version

\* Members belong to stored snapshots that list them.
MembersListed ==
    \A s \in Symbols : members[s] # None =>
        members[s] \in Rows /\ s \in members[s]

\* The second transaction belongs to the newest snapshot, and it is done for
\* that of a script that has ended.
LoaderOfTop ==
    /\ loader.at = "members" =>
          /\ loader.list \in Rows
          /\ \A k \in Rows : Top(k) => k = loader.list
    /\ loader.at = "idle" =>
          \A k \in Rows : Top(k) => \A s \in k : members[s] = k

\* A version that a worker holds is, or was, that of its snapshot alone.
CachedIsPast ==
    cached # None =>
        /\ cached \in Headers
        /\ \A k \in Rows : snaps[k].version = cached.version => k = cached.key
        /\ \E k \in Rows : cached.version <= snaps[k].version

IInv == /\ SnapTypes /\ Distinct /\ NewestIsActive /\ LoaderAhead
        /\ MembersListed /\ LoaderOfTop /\ CachedIsPast

-----------------------------------------------------------------------------

LEMMA InitUniverse == Init => IInv
<1> SUFFICES ASSUME Init PROVE IInv
  OBVIOUS
<1>1. Rows = {}
  BY DEF Init, Rows
<1>2. SnapTypes /\ Distinct /\ NewestIsActive /\ CachedIsPast
  BY <1>1 DEF Init, SnapTypes, Distinct, NewestIsActive, CachedIsPast
<1>3. LoaderAhead /\ MembersListed /\ LoaderOfTop
  BY <1>1 DEF Init, LoaderAhead, MembersListed, LoaderOfTop, Finished
<1> QED BY <1>2, <1>3 DEF IInv

\* A write gives one row a version above all and leaves the other versions.
Raises(key, v) ==
    /\ key \in Keys /\ v \in Nat
    /\ \A q \in Rows : snaps[q].version < v
    /\ Rows' = Rows \cup {key}
    /\ snaps'[key] = [version |-> v, active |-> TRUE]
    /\ \A q \in Rows \ {key} : /\ snaps'[q] \in [version : Nat, active : BOOLEAN]
                               /\ snaps'[q].version = snaps[q].version

LEMMA RaisedRows ==
    ASSUME SnapTypes, Distinct, NEW key, NEW v, Raises(key, v)
    PROVE  /\ SnapTypes' /\ Distinct' /\ NewestIsActive'
           /\ Top(key)' /\ key \in Rows' /\ \A k \in Rows' : Top(k)' => k = key
<1> USE DEF Raises
<1>1. SnapTypes'
  <2>1. snaps'[key] \in [version : Nat, active : BOOLEAN]
    OBVIOUS
  <2>2. ASSUME NEW q \in Rows' PROVE snaps'[q] \in [version : Nat, active : BOOLEAN]
    BY <2>1, <2>2
  <2>3. Rows' \subseteq Keys
    BY DEF SnapTypes
  <2> QED BY <2>2, <2>3 DEF SnapTypes
<1>2. snaps'[key].version = v /\ snaps'[key].active = TRUE /\ key \in Rows'
  OBVIOUS
<1>3. \A q \in Rows' \ {key} : snaps'[q].version < v /\ snaps'[q].version \in Nat
  BY DEF SnapTypes
<1>4. Distinct'
  BY <1>2, <1>3 DEF SnapTypes, Distinct
<1>5. Top(key)'
  BY <1>2, <1>3 DEF Top, Active
<1>6. \A k \in Rows' : Top(k)' => k = key
  BY <1>2, <1>3 DEF Top
<1> QED BY <1>1, <1>2, <1>4, <1>5, <1>6 DEF NewestIsActive

LEMMA RaisedCached ==
    ASSUME SnapTypes, CachedIsPast, cached' = cached, NEW key, NEW v, Raises(key, v)
    PROVE  CachedIsPast'
<1> SUFFICES ASSUME cached # None PROVE CachedIsPast'
  BY DEF CachedIsPast
<1> USE DEF Raises
<1> PICK k \in Rows : cached.version <= snaps[k].version
  BY DEF CachedIsPast
<1>1. cached \in Headers /\ cached.version \in Nat
  BY DEF CachedIsPast, Headers
<1>2. snaps[k].version \in Nat /\ snaps[k].version < v
  BY DEF SnapTypes
<1>3. cached.version < v
  BY <1>1, <1>2
<1>4. snaps'[key].version = v /\ key \in Rows'
  OBVIOUS
<1>5. ASSUME NEW q \in Rows', snaps'[q].version = cached.version PROVE q = cached.key
  <2>1. q # key
    BY <1>1, <1>3, <1>4, <1>5
  <2> QED BY <1>5, <2>1 DEF CachedIsPast
<1> QED BY <1>1, <1>3, <1>4, <1>5 DEF CachedIsPast

\* What does not write leaves the rows as they are.
LEMMA SameRows ==
    ASSUME snaps' = snaps
    PROVE  /\ SnapTypes => SnapTypes'
           /\ Distinct => Distinct'
           /\ NewestIsActive => NewestIsActive'
           /\ Rows' = Rows
           /\ \A k : Top(k)' <=> Top(k)
BY DEF SnapTypes, Distinct, NewestIsActive, Top, Active, Rows

-----------------------------------------------------------------------------
(* The script.                                                             *)

LEMMA NewestStored ==
    ASSUME SnapTypes, NewestIsActive
    PROVE  MaxStored \in Nat /\ \A q \in Rows : snaps[q].version <= MaxStored
<1>1. CASE Rows = {}
  BY <1>1 DEF MaxStored
<1>2. CASE Rows # {}
  <2> DEFINE c == CHOOSE k \in Newest(Rows) : TRUE
  <2>1. Newest(Rows) # {}
    BY <1>2 DEF NewestIsActive, Newest, Top
  <2>2. c \in Newest(Rows)
    BY <2>1
  <2>3. MaxStored = snaps[c].version
    BY <1>2 DEF MaxStored
  <2> QED BY <2>2, <2>3 DEF Newest, SnapTypes
<1> QED BY <1>1, <1>2

LEMMA LoaderReadKeeps == ASSUME IInv, LoaderRead PROVE IInv'
<1> USE DEF IInv
<1>1. UNCHANGED <<snaps, members, cached>>
  BY DEF LoaderRead
<1> PICK nse \in Lists \cup {{}} :
        loader' = [at |-> "snapshot", list |-> Known \cup nse, version |-> MaxStored + 1]
  BY DEF LoaderRead
<1>2. Known \cup nse \subseteq Symbols
  BY UniverseAssumption
<1>3. MaxStored + 1 \in Nat /\ \A q \in Rows : snaps[q].version < MaxStored + 1
  BY NewestStored DEF SnapTypes
<1>4. LoaderAhead'
  BY <1>1, <1>2, <1>3, SameRows DEF LoaderAhead
<1> QED BY <1>1, <1>4, SameRows DEF MembersListed, LoaderOfTop, CachedIsPast

LEMMA SnapshotRaises ==
    ASSUME IInv, LoaderSnapshot
    PROVE  Raises(loader.list, loader.version)
<1>1. /\ loader.at = "snapshot"
      /\ snaps' = [k \in Rows \cup {loader.list} |->
                      IF k = loader.list THEN [version |-> loader.version, active |-> TRUE]
                      ELSE [snaps[k] EXCEPT !.active = FALSE]]
  BY DEF LoaderSnapshot
<1>2. loader.list \in Keys
  BY DEF IInv, LoaderAhead, Keys
<1> QED BY <1>1, <1>2 DEF Raises, Rows, IInv, LoaderAhead, SnapTypes

LEMMA LoaderSnapshotKeeps == ASSUME IInv, LoaderSnapshot PROVE IInv'
<1> DEFINE key == loader.list
<1> USE DEF IInv
<1>1. /\ loader.at = "snapshot" /\ UNCHANGED <<members, cached>>
      /\ loader' = [loader EXCEPT !.at = "members"]
  BY DEF LoaderSnapshot
<1>4. Raises(key, loader.version)
  BY SnapshotRaises
<1>5. /\ SnapTypes' /\ Distinct' /\ NewestIsActive' /\ key \in Rows'
      /\ \A k \in Rows' : Top(k)' => k = key
  BY <1>4, RaisedRows
<1>6. CachedIsPast'
  BY <1>1, <1>4, RaisedCached
<1>7. Rows \subseteq Rows'
  BY <1>4 DEF Raises
<1>8. loader'.at = "members" /\ loader'.list = loader.list
  BY <1>1 DEF LoaderAhead
<1>9. LoaderAhead' /\ MembersListed' /\ LoaderOfTop'
  BY <1>1, <1>5, <1>7, <1>8 DEF LoaderAhead, MembersListed, LoaderOfTop
<1> QED BY <1>5, <1>6, <1>9

LEMMA LoaderMembersKeeps == ASSUME IInv, LoaderMembers PROVE IInv'
<1> DEFINE key == loader.list
<1> USE DEF IInv
<1>1. /\ loader.at = "members" /\ loader' = Finished
      /\ UNCHANGED <<snaps, cached>>
      /\ members' = [s \in Symbols |-> IF s \in key THEN key ELSE members[s]]
  BY DEF LoaderMembers
<1>2. key \in Rows /\ key \subseteq Symbols
  BY <1>1 DEF LoaderOfTop, LoaderAhead
<1>3. MembersListed'
  BY <1>1, <1>2, SameRows DEF MembersListed
<1>4. LoaderOfTop'
  BY <1>1, <1>2, SameRows DEF LoaderOfTop, Finished
<1>5. LoaderAhead'
  BY <1>1 DEF LoaderAhead, Finished
<1> QED BY <1>1, <1>3, <1>4, <1>5, SameRows DEF CachedIsPast

LEMMA LoaderDiesKeeps == ASSUME IInv, LoaderDies PROVE IInv'
<1> USE DEF IInv
<1>1. /\ loader' = [loader EXCEPT !.at = "crashed"]
      /\ UNCHANGED <<snaps, members, cached>>
  BY DEF LoaderDies
<1>2. loader'.at = "crashed" /\ loader'.list = loader.list
  BY <1>1 DEF LoaderAhead
<1> QED BY <1>1, <1>2, SameRows DEF LoaderAhead, MembersListed, LoaderOfTop, CachedIsPast

-----------------------------------------------------------------------------
(* The API's worker.                                                       *)

LEMMA Newests ==
    ASSUME SnapTypes, NewestIsActive, NEW k \in Currents
    PROVE  /\ k = None => Rows = {}
           /\ k # None => Top(k) /\ k \in Rows
<1> USE DEF Currents
<1>1. CASE Rows = {}
  BY <1>1 DEF Active
<1>2. ASSUME NEW t \in Rows, Top(t) PROVE k \in Rows /\ Top(k)
  <2>1. t \in Active /\ k \in Newest(Active)
    BY <1>2 DEF Top
  <2>2. k \in Active /\ k \in Rows /\ snaps[t].version <= snaps[k].version
    BY <2>1 DEF Newest, Active
  <2>3. \A q \in Rows : snaps[q].version <= snaps[k].version
    BY <1>2, <2>2 DEF Top, SnapTypes
  <2> QED BY <2>2, <2>3 DEF Top
<1>3. k \in Rows => k # None
  BY NoneAssumption DEF SnapTypes
<1> QED BY <1>1, <1>2, <1>3 DEF NewestIsActive

LEMMA HeaderOfRow ==
    ASSUME SnapTypes, NEW k \in Rows
    PROVE  /\ Header(k) = [key |-> k, version |-> snaps[k].version]
           /\ Header(k) \in Headers /\ Header(k) # None
BY NoneAssumption DEF SnapTypes, Header, Headers

LEMMA WarmKeeps == ASSUME IInv, Warm \/ WorkerRestarts PROVE IInv'
<1> USE DEF IInv
<1>1. UNCHANGED <<snaps, members, loader>>
  BY DEF Warm, WorkerRestarts
<1>2. CachedIsPast'
  <2>1. CASE WorkerRestarts
    BY <2>1 DEF WorkerRestarts, CachedIsPast
  <2>2. CASE Warm
    <3> PICK k \in Currents : k # None /\ cached' = Header(k)
      BY <2>2 DEF Warm
    <3>1. k \in Rows
      BY Newests
    <3>2. /\ cached' = [key |-> k, version |-> snaps[k].version]
          /\ cached' \in Headers /\ snaps[k].version \in Nat
      BY <3>1, HeaderOfRow DEF SnapTypes
    <3>3. cached'.key = k /\ cached'.version = snaps[k].version
      BY <3>2
    <3>4. \A q \in Rows : snaps[q].version = snaps[k].version => q = k
      BY <3>1 DEF Distinct
    <3> QED BY <1>1, <3>1, <3>2, <3>3, <3>4, SameRows DEF CachedIsPast
  <2> QED BY <2>1, <2>2
<1> QED BY <1>1, <1>2, SameRows DEF LoaderAhead, MembersListed, LoaderOfTop

LEMMA NextUniverse == IInv /\ [Next]_vars => IInv'
<1> SUFFICES ASSUME IInv, [Next]_vars PROVE IInv'
  OBVIOUS
<1>1. CASE UNCHANGED vars
  BY <1>1, SameRows DEF vars, IInv, LoaderAhead, MembersListed, LoaderOfTop, CachedIsPast
<1> QED BY <1>1, LoaderReadKeeps, LoaderSnapshotKeeps, LoaderMembersKeeps, LoaderDiesKeeps,
           WarmKeeps DEF Next

-----------------------------------------------------------------------------
(* Theorems.                                                               *)

LEMMA CachedNotMixed == IInv => NeverMixed
<1> SUFFICES ASSUME IInv, cached # None, NEW s \in Constituents(cached.version)
             PROVE  s \in cached.key
  BY DEF NeverMixed
<1>1. s \in Symbols /\ members[s] \in Rows /\ snaps[members[s]].version = cached.version
  BY DEF Constituents
<1>2. members[s] # None /\ members[s] = cached.key
  BY <1>1, NoneAssumption DEF IInv, SnapTypes, CachedIsPast
<1> QED BY <1>1, <1>2 DEF IInv, MembersListed

(* An answer of the API never mixes two universes (_load_fno_constituents   *)
(* joins what the database holds now with a header of long ago): a version  *)
(* belongs to one snapshot for ever, although rows move to new versions.    *)
THEOREM AnswersNeverMixed == Spec => []NeverMixed
BY InitUniverse, NextUniverse, CachedNotMixed, PTL DEF Spec

LEMMA TopIsComplete == IInv => CurrentIsComplete
<1> SUFFICES ASSUME IInv, loader.at = "idle", NEW k \in Newest(Active)
             PROVE  Constituents(snaps[k].version) = k \ Synthetic
  BY DEF CurrentIsComplete
<1> USE DEF IInv
<1>1. k \in Rows /\ Active # {} /\ k \in Currents
  BY DEF Newest, Active, Currents
<1>2. Top(k) /\ k \subseteq Symbols
  BY <1>1, Newests, NoneAssumption DEF SnapTypes, Keys
<1>3. \A s \in k : members[s] = k
  BY <1>1, <1>2 DEF LoaderOfTop
<1>4. ASSUME NEW s \in Constituents(snaps[k].version) PROVE s \in k /\ s \notin Synthetic
  <2>1. /\ s \in Symbols \ Synthetic /\ members[s] \in Rows
        /\ snaps[members[s]].version = snaps[k].version
    BY DEF Constituents
  <2>2. members[s] = k /\ members[s] # None
    BY <1>1, <2>1, NoneAssumption DEF Distinct, SnapTypes
  <2> QED BY <2>1, <2>2 DEF MembersListed
<1> QED BY <1>1, <1>2, <1>3, <1>4 DEF Constituents

(* After a complete run of scripts/load_fno_universe.py the current         *)
(* snapshot has exactly the tradeable symbols of its list as constituents,  *)
(* whatever runs that died between the two transactions have left.          *)
THEOREM CompleteRunsAreComplete == Spec => []CurrentIsComplete
BY InitUniverse, NextUniverse, TopIsComplete, PTL DEF Spec

-----------------------------------------------------------------------------
(* Versions.                                                               *)

LEMMA TopIsCurrent ==
    ASSUME SnapTypes, NEW k \in Rows, Top(k)
    PROVE  CurrentVersion = snaps[k].version /\ CurrentVersion \in Nat
<1> DEFINE c == CHOOSE q \in Newest(Active) : TRUE
<1>1. k \in Active /\ k \in Newest(Active)
  BY DEF Top, Newest, Active
<1>2. c \in Newest(Active)
  BY <1>1
<1>3. c \in Rows /\ snaps[k].version <= snaps[c].version /\ snaps[c].version <= snaps[k].version
  BY <1>1, <1>2 DEF Newest, Active, Top
<1>4. snaps[c].version = snaps[k].version
  BY <1>3 DEF SnapTypes
<1>5. CurrentVersion = snaps[c].version
  BY <1>1 DEF CurrentVersion
<1> QED BY <1>4, <1>5 DEF SnapTypes

LEMMA RaisedVersion ==
    ASSUME SnapTypes, Distinct, NewestIsActive, NEW key, NEW v, Raises(key, v)
    PROVE  CurrentVersion' >= CurrentVersion
<1>1. SnapTypes' /\ Top(key)' /\ key \in Rows' /\ snaps'[key].version = v /\ v \in Nat
  BY RaisedRows DEF Raises
<1>2. CurrentVersion' = v
  <2>1. ASSUME SnapTypes', NEW k \in Rows', Top(k)' PROVE CurrentVersion' = snaps'[k].version
    <3> DEFINE c == CHOOSE q \in Newest(Active)' : TRUE
    <3>1. k \in Active' /\ k \in Newest(Active)'
      BY <2>1 DEF Top, Newest, Active
    <3>2. c \in Newest(Active)'
      BY <3>1
    <3>3. /\ c \in Rows' /\ snaps'[k].version <= snaps'[c].version
          /\ snaps'[c].version <= snaps'[k].version
      BY <2>1, <3>1, <3>2 DEF Newest, Active, Top
    <3>4. snaps'[c].version = snaps'[k].version
      BY <2>1, <3>3 DEF SnapTypes
    <3>5. CurrentVersion' = snaps'[c].version
      BY <3>1 DEF CurrentVersion
    <3> QED BY <3>4, <3>5
  <2> QED BY <1>1, <2>1
<1>3. CASE Rows = {}
  BY <1>1, <1>2, <1>3 DEF CurrentVersion, Active
<1>4. ASSUME NEW k \in Rows, Top(k) PROVE CurrentVersion < v
  BY <1>4, TopIsCurrent DEF Raises
<1>5. CASE \E k \in Rows : Top(k)
  BY <1>1, <1>2, <1>4, <1>5, TopIsCurrent
<1> QED BY <1>3, <1>5 DEF NewestIsActive

LEMMA SameVersion == ASSUME IInv, snaps' = snaps PROVE CurrentVersion' >= CurrentVersion
<1>1. CurrentVersion' = CurrentVersion
  BY DEF CurrentVersion, Active, Rows, Newest
<1>2. CurrentVersion \in Nat
  <2>1. CASE Rows = {}
    BY <2>1 DEF CurrentVersion, Active
  <2>2. CASE \E k \in Rows : Top(k)
    BY <2>2, TopIsCurrent DEF IInv
  <2> QED BY <2>1, <2>2 DEF IInv, NewestIsActive
<1> QED BY <1>1, <1>2

LEMMA StepNeverOlder ==
    IInv /\ [Next]_vars => [CurrentVersion' >= CurrentVersion]_vars
<1> SUFFICES ASSUME IInv, Next PROVE CurrentVersion' >= CurrentVersion
  OBVIOUS
<1>1. CASE LoaderSnapshot
  BY <1>1, SnapshotRaises, RaisedVersion DEF IInv
<1>2. CASE snaps' = snaps
  BY <1>2, SameVersion
<1> QED BY <1>1, <1>2 DEF Next, LoaderRead, LoaderMembers, LoaderDies, Warm, WorkerRestarts

(* The version of the current snapshot never goes back: a list that returns *)
(* is given a new version with its old row, above all that are stored       *)
(* (UPSERT_SNAPSHOT_SQL).                                                   *)
THEOREM VersionsOnlyGrow == Spec => CurrentNeverOlder
BY InitUniverse, NextUniverse, StepNeverOlder, PTL DEF Spec, CurrentNeverOlder

-----------------------------------------------------------------------------
(* CatchUp.                                                                *)

States == {"none", "waiting", "inside", "running"}

EngineTypes ==
    /\ job \in [Pairs -> States]
    /\ saved \in [Pairs -> Nat]
    /\ depth \in Nat
    /\ overlapped \in BOOLEAN

\* There are jobs only in a pass.
JobsInPass == pc \notin {"eod", "intraday"} => \A p \in Pairs : job[p] = "none"

\* Without an overlap the engine is bare, or has the wrapper of the one job
\* that runs and that found it bare.
Bare == Running = {} /\ depth = 0
Wrapped(p) == Running = {p} /\ depth = 1 /\ saved[p] = 0
AloneOrBare == ~overlapped => Bare \/ \E p \in Pairs : Wrapped(p)

EngineInv == EngineTypes /\ JobsInPass /\ AloneOrBare

-----------------------------------------------------------------------------

LEMMA FreshEngine == ASSUME Fresh PROVE EngineInv'
BY DEF Fresh, EngineInv, EngineTypes, JobsInPass, AloneOrBare, Bare, Running, In, States

LEMMA InitEngine == CatchUpInit => EngineInv
<1> SUFFICES ASSUME CatchUpInit PROVE EngineInv
  OBVIOUS
<1>1. EngineTypes
  BY DEF CatchUpInit, EngineTypes, States
<1>2. JobsInPass /\ Bare
  BY DEF CatchUpInit, JobsInPass, Bare, Running, In
<1> QED BY <1>1, <1>2 DEF EngineInv, AloneOrBare

\* A pass begins when the one before it is over.
LEMMA NewPass ==
    ASSUME EngineInv, NEW pass, NEW u, BeginPass(pass, u), pass \in {"eod", "intraday"},
           pc \notin {"eod", "intraday"}, UNCHANGED engineVars
    PROVE  EngineInv'
<1>1. EngineTypes' /\ JobsInPass'
  BY DEF EngineInv, EngineTypes, BeginPass, engineVars, States, JobsInPass
<1>2. Running = {} /\ Running' = {}
  BY DEF EngineInv, JobsInPass, BeginPass, Running, In
<1>3. AloneOrBare'
  BY <1>2 DEF EngineInv, AloneOrBare, Bare, Wrapped, engineVars
<1> QED BY <1>1, <1>3 DEF EngineInv

\* The jobs are those of before, and so is what they did to the engine.
LEMMA SameJobs ==
    ASSUME EngineInv, UNCHANGED <<job, engineVars>>,
           pc' \in {"eod", "intraday"} \/ pc' = pc \/ \A p \in Pairs : job[p] = "none"
    PROVE  EngineInv'
BY DEF EngineInv, EngineTypes, JobsInPass, AloneOrBare, Bare, Wrapped, Running, In, engineVars

LEMMA EnterKeeps == ASSUME EngineInv, NEW p \in Pairs, Enter(p) PROVE EngineInv'
<1> USE DEF Enter, EngineInv
<1>1. EngineTypes' /\ JobsInPass'
  BY DEF EngineTypes, JobsInPass, engineVars, States
<1>2. Running' = Running
  BY DEF EngineTypes, Running, In
<1>3. AloneOrBare'
  BY <1>2 DEF AloneOrBare, Bare, Wrapped, engineVars
<1> QED BY <1>1, <1>3

LEMMA WrapKeeps == ASSUME EngineInv, NEW p \in Pairs, Wrap(p) PROVE EngineInv'
<1> USE DEF Wrap, EngineInv
<1>1. EngineTypes' /\ JobsInPass'
  BY DEF EngineTypes, JobsInPass, States
<1>2. ASSUME ~overlapped' PROVE Wrapped(p)'
  <2>1. Running = {} /\ depth = 0
    BY <1>2 DEF AloneOrBare, Bare, Wrapped
  <2>2. Running' = {p}
    BY <2>1 DEF EngineTypes, Running, In
  <2> QED BY <2>1, <2>2 DEF Wrapped, EngineTypes
<1>3. AloneOrBare'
  BY <1>2 DEF AloneOrBare
<1> QED BY <1>1, <1>3

LEMMA FinishKeeps == ASSUME EngineInv, NEW p \in Pairs, Finish(p) PROVE EngineInv'
<1> USE DEF Finish, Unwrap, EngineInv
<1>1. EngineTypes' /\ JobsInPass'
  BY DEF EngineTypes, JobsInPass, States
<1>2. ASSUME ~overlapped' PROVE Bare'
  <2>1. Wrapped(p)
    BY <1>2 DEF AloneOrBare, Bare, Wrapped, Running, In
  <2>2. Running' = {}
    BY <2>1 DEF EngineTypes, Wrapped, Running, In
  <2> QED BY <2>1, <2>2 DEF Wrapped, Bare
<1>3. AloneOrBare'
  BY <1>2 DEF AloneOrBare
<1> QED BY <1>1, <1>3

LEMMA LoopKeeps ==
    ASSUME EngineInv, Check \/ EndEod \/ CheckIntraday \/ EndIntraday
    PROVE  EngineInv'
<1>1. CASE Check
  <2>1. CASE CheckInVain
    BY <1>1, <2>1, SameJobs DEF Check, CheckInVain
  <2>2. CASE CheckEod
    <3> PICK u \in Universes \ {{}} :
            IF EodDue THEN BeginPass("eod", u) ELSE pc' = "between" /\ UNCHANGED job
      BY <2>2 DEF CheckEod
    <3>1. CASE EodDue
      BY <1>1, <3>1, NewPass DEF Check
    <3>2. CASE ~EodDue
      BY <1>1, <3>2, SameJobs DEF Check, EngineInv, JobsInPass
    <3> QED BY <3>1, <3>2
  <2> QED BY <1>1, <2>1, <2>2 DEF Check
<1>2. CASE EndEod
  BY <1>2, SameJobs DEF EndEod, In, EngineInv, EngineTypes, States
<1>3. CASE CheckIntraday
  <2>1. CASE IntradayDue
    BY <1>3, <2>1, NewPass DEF CheckIntraday
  <2>2. CASE ~IntradayDue
    BY <1>3, <2>2, SameJobs DEF CheckIntraday, EngineInv, JobsInPass
  <2> QED BY <2>1, <2>2
<1>4. CASE EndIntraday
  BY <1>4, SameJobs DEF EndIntraday, In, EngineInv, EngineTypes, States
<1> QED BY <1>1, <1>2, <1>3, <1>4

LEMMA NextEngine == EngineInv /\ [CatchUpNext]_catchUpVars => EngineInv'
<1> SUFFICES ASSUME EngineInv, [CatchUpNext]_catchUpVars PROVE EngineInv'
  OBVIOUS
<1>1. CASE \E p \in Pairs : JobStep(p)
  BY <1>1, EnterKeeps, WrapKeeps, FinishKeeps DEF JobStep
<1>2. CASE Check \/ EndEod \/ CheckIntraday \/ EndIntraday
  BY <1>2, LoopKeeps
<1>3. CASE Tick
  BY <1>3, SameJobs DEF Tick
<1>4. CASE Stop \/ Start
  BY <1>4, FreshEngine DEF Stop, Start
<1>5. CASE UNCHANGED catchUpVars
  BY <1>5, SameJobs DEF catchUpVars
<1> QED BY <1>1, <1>2, <1>3, <1>4, <1>5 DEF CatchUpNext

LEMMA EnginePaced == EngineInv => PacedUnlessOverlapped
<1> SUFFICES ASSUME EngineInv, ~overlapped PROVE depth = Cardinality(Running)
  BY DEF PacedUnlessOverlapped
<1>1. CASE Bare
  BY <1>1, FS_EmptySet DEF Bare
<1>2. ASSUME NEW p \in Pairs, Wrapped(p) PROVE depth = Cardinality(Running)
  BY <1>2, FS_Singleton DEF Wrapped
<1> QED BY <1>1, <1>2 DEF EngineInv, AloneOrBare

(* As long as no two jobs of the process have run at the same time, the     *)
(* shared engine carries exactly the wrappers of the jobs that run          *)
(* (_catchup_one), for every universe, semaphore and order of stops: the    *)
(* saved fetch of a job that began alone is the bare one.                   *)
THEOREM Paced == CatchUpSpec => []PacedUnlessOverlapped
BY InitEngine, NextEngine, EnginePaced, PTL DEF CatchUpSpec

-----------------------------------------------------------------------------
(* Days and hours.                                                         *)

LEMMA Division ==
    ASSUME NEW t \in Nat, NEW n \in Nat \ {0}
    PROVE  t = (n * (t \div n)) + (t % n)
OBVIOUS

LEMMA Quotient ==
    ASSUME NEW t \in Nat, NEW n \in Nat \ {0}, NEW q \in Nat, NEW r \in 0 .. n - 1,
           t = n * q + r
    PROVE  t \div n = q /\ t % n = r
OBVIOUS

LEMMA LastOfDay ==
    ASSUME NEW t \in Nat, NEW n \in Nat \ {0}, t % n = n - 1
    PROVE  (t + 1) \div n = (t \div n) + 1 /\ (t + 1) % n = 0
<1> DEFINE q == t \div n
<1>1. q \in Nat
  OBVIOUS
<1>2. t = (n * q) + (n - 1)
  BY Division
<1>3. t + 1 = (n * (q + 1)) + 0
  BY <1>1, <1>2
<1>4. q + 1 \in Nat /\ 0 \in 0 .. n - 1 /\ t + 1 \in Nat
  BY <1>1
<1> HIDE DEF q
<1>5. (t + 1) \div n = q + 1 /\ (t + 1) % n = 0
  BY <1>3, <1>4, Quotient
<1> QED BY <1>5 DEF q

LEMMA WithinDay ==
    ASSUME NEW t \in Nat, NEW n \in Nat \ {0}, t % n # n - 1
    PROVE  (t + 1) \div n = t \div n /\ (t + 1) % n = (t % n) + 1
OBVIOUS

LEMMA NextHour ==
    ASSUME NEW t \in Nat
    PROVE  /\ Day(t) \in Nat /\ HourOf(t) \in 0 .. HoursPerDay - 1
           /\ Day(t + 1) \in Nat /\ HourOf(t + 1) \in 0 .. HoursPerDay - 1
           /\ \/ /\ HourOf(t) = HoursPerDay - 1
                 /\ Day(t + 1) = Day(t) + 1 /\ HourOf(t + 1) = 0
              \/ /\ HourOf(t) # HoursPerDay - 1
                 /\ Day(t + 1) = Day(t) /\ HourOf(t + 1) = HourOf(t) + 1
<1>1. HoursPerDay \in Nat \ {0}
  BY LoopAssumption
<1>2. \A u \in Nat : Day(u) \in Nat /\ HourOf(u) \in 0 .. HoursPerDay - 1
  BY <1>1 DEF Day, HourOf
<1>3. t + 1 \in Nat
  OBVIOUS
<1>4. HourOf(t) = HoursPerDay - 1 => Day(t + 1) = Day(t) + 1 /\ HourOf(t + 1) = 0
  BY <1>1, LastOfDay DEF Day, HourOf
<1>5. HourOf(t) # HoursPerDay - 1 => Day(t + 1) = Day(t) /\ HourOf(t + 1) = HourOf(t) + 1
  BY <1>1, WithinDay DEF Day, HourOf
<1> QED BY <1>2, <1>3, <1>4, <1>5

-----------------------------------------------------------------------------
(* The loop.                                                               *)

ClockTypes ==
    /\ time \in Nat
    /\ pc \in {"sleeping", "eod", "between", "intraday"}
    /\ passStart \in Nat \cup {Never} /\ dozedAt \in Nat \cup {Never}
    /\ checkedAt \in Nat \cup {Never} /\ lastEod \in Nat \cup {Never}
    /\ served \in BOOLEAN

\* A pass was taken note of only once its day was served.
NotedIsServed ==
    lastEod # Never => lastEod <= Day(time) /\ (lastEod = Day(time) => served)

\* Until the day is served, how late it can be ...
\* ... in an end-of-day pass: it is the pass of the day before.
LateInEod ==
    pc = "eod" =>
        /\ checkedAt \in Nat /\ passStart \in Nat
        /\ Day(checkedAt) <= Day(time) /\ (Day(checkedAt) = Day(time) => served)
        /\ passStart <= time /\ time <= passStart + PassHours
        /\ served \/ HourOf(time) < time - passStart

\* ... after it, or before the hour
LateBetween ==
    pc = "between" => served \/ HourOf(time) < EodHour \/ HourOf(time) < PassHours

\* ... in an intraday pass
LateInIntraday ==
    pc = "intraday" =>
        /\ passStart \in Nat /\ passStart <= time /\ time <= passStart + PassHours
        /\ \/ served
           \/ HourOf(time) < EodHour + (time - passStart)
           \/ HourOf(time) < PassHours + (time - passStart)

\* ... when the loop begins to sleep: an hour of the day is left.
LateAsleep ==
    /\ dozedAt # Never => dozedAt <= time
    /\ pc = "sleeping" /\ dozedAt = time => served \/ HourOf(time) < HoursPerDay - 1

NoLoop == worker # "running" => pc = "sleeping" /\ dozedAt = Never

LoopInv == /\ ClockTypes /\ NotedIsServed /\ LateInEod /\ LateBetween
        /\ LateInIntraday /\ LateAsleep /\ NoLoop

Parameters ==
    /\ HoursPerDay \in Nat \ {0} /\ EodHour \in 0 .. HoursPerDay - 1
    /\ PassHours \in Nat /\ EodHour + PassHours < HoursPerDay
    /\ 2 * PassHours < HoursPerDay /\ Never \notin Nat

LEMMA ParametersHold == Parameters
BY LoopAssumption, PassAssumption DEF Parameters

LEMMA HourOfNow ==
    ASSUME ClockTypes
    PROVE  Day(time) \in Nat /\ HourOf(time) \in 0 .. HoursPerDay - 1
BY NextHour DEF ClockTypes

LEMMA InitLoop == CatchUpInit => LoopInv
<1> SUFFICES ASSUME CatchUpInit PROVE LoopInv
  OBVIOUS
<1>1. ClockTypes
  BY DEF CatchUpInit, ClockTypes
<1>2. NotedIsServed /\ LateInEod /\ LateBetween /\ LateInIntraday
  BY DEF CatchUpInit, NotedIsServed, LateInEod, LateBetween, LateInIntraday
<1>3. LateAsleep /\ NoLoop
  BY ParametersHold DEF CatchUpInit, LateAsleep, NoLoop, Parameters
<1> QED BY <1>1, <1>2, <1>3 DEF LoopInv

LEMMA FreshLoop == ASSUME LoopInv, Fresh, time' = time, served' = served PROVE LoopInv'
<1>1. ClockTypes'
  BY DEF LoopInv, Fresh, ClockTypes
<1>2. NotedIsServed' /\ LateInEod' /\ LateBetween' /\ LateInIntraday'
  BY DEF Fresh, NotedIsServed, LateInEod, LateBetween, LateInIntraday
<1>3. LateAsleep' /\ NoLoop'
  BY ParametersHold DEF LoopInv, Fresh, ClockTypes, LateAsleep, NoLoop, Parameters
<1> QED BY <1>1, <1>2, <1>3 DEF LoopInv

LEMMA CheckLoop == ASSUME LoopInv, Check PROVE LoopInv'
<1> USE HourOfNow, ParametersHold DEF Parameters
<1>1. /\ ClockTypes /\ NotedIsServed /\ worker = "running" /\ worker' = worker
      /\ time' = time /\ lastEod' = lastEod /\ checkedAt' = time
  BY DEF LoopInv, Check
<1>2. CASE CheckInVain
  <2>1. /\ pc' = "sleeping" /\ passStart' = passStart /\ dozedAt' = time
        /\ served' = (served \/ HourOf(time) >= EodHour)
    BY <1>2 DEF Check, CheckInVain
  <2>2. served' \in BOOLEAN /\ (served => served')
    BY <1>1, <2>1 DEF ClockTypes
  <2>3. ClockTypes' /\ NotedIsServed'
    BY <1>1, <2>1, <2>2 DEF ClockTypes, NotedIsServed
  <2>4. served' \/ HourOf(time) < EodHour
    <3>1. HourOf(time) >= EodHour => served'
      BY <2>1, Zenon
    <3> QED BY <1>1, <3>1
  <2>5. LateAsleep'
    BY <1>1, <2>1, <2>4 DEF LateAsleep, ClockTypes
  <2> QED BY <1>1, <2>1, <2>3, <2>5
          DEF LoopInv, LateInEod, LateBetween, LateInIntraday, NoLoop
<1>3. CASE CheckEod
  <2>1. dozedAt' = dozedAt /\ LateAsleep
    BY <1>3 DEF CheckEod, LoopInv
  <2>2. CASE EodDue
    <3>1. pc' = "eod" /\ passStart' = time /\ served' = TRUE
      BY <1>3, <2>2 DEF CheckEod, BeginPass
    <3>2. ClockTypes' /\ NotedIsServed'
      BY <1>1, <2>1, <3>1 DEF ClockTypes, NotedIsServed
    <3>3. LateInEod'
      BY <1>1, <3>1 DEF ClockTypes, LateInEod
    <3> QED BY <1>1, <2>1, <3>1, <3>2, <3>3
            DEF LoopInv, LateBetween, LateInIntraday, LateAsleep, NoLoop
  <2>3. CASE ~EodDue
    <3>1. pc' = "between" /\ passStart' = passStart /\ served' = served
      BY <1>3, <2>3 DEF CheckEod
    <3>2. ClockTypes' /\ NotedIsServed'
      BY <1>1, <2>1, <3>1 DEF ClockTypes, NotedIsServed
    <3>3. served \/ HourOf(time) < EodHour
      BY <1>1, <2>3 DEF EodDue, ClockTypes, NotedIsServed
    <3> QED BY <1>1, <2>1, <3>1, <3>2, <3>3
            DEF LoopInv, LateInEod, LateBetween, LateInIntraday, LateAsleep, NoLoop
  <2> QED BY <2>2, <2>3
<1> QED BY <1>2, <1>3 DEF Check

LEMMA EndEodLoop == ASSUME LoopInv, EndEod PROVE LoopInv'
<1> USE HourOfNow, ParametersHold DEF Parameters
<1>1. /\ pc = "eod" /\ pc' = "between" /\ lastEod' = Day(checkedAt)
      /\ passStart' = Never /\ UNCHANGED <<time, checkedAt, dozedAt, worker, served>>
  BY DEF EndEod, DateOfCheck
<1>2. ClockTypes /\ LateInEod /\ LateAsleep /\ NoLoop
  BY DEF LoopInv
<1>3. Day(checkedAt) \in Nat
  BY <1>1, <1>2, NextHour DEF LateInEod
<1>4. ClockTypes'
  BY <1>1, <1>2, <1>3 DEF ClockTypes
<1>5. NotedIsServed' /\ LateBetween'
  BY <1>1, <1>2, <1>3 DEF NotedIsServed, LateInEod, LateBetween, ClockTypes
<1> QED BY <1>1, <1>2, <1>4, <1>5 DEF LoopInv, LateInEod, LateInIntraday, LateAsleep, NoLoop

LEMMA CheckIntradayLoop == ASSUME LoopInv, CheckIntraday PROVE LoopInv'
<1> USE HourOfNow, ParametersHold DEF Parameters
<1>1. /\ pc = "between"
      /\ UNCHANGED <<time, checkedAt, lastEod, worker, served>>
  BY DEF CheckIntraday
<1>2. ClockTypes /\ NotedIsServed /\ LateBetween /\ LateAsleep /\ NoLoop
  BY DEF LoopInv
<1>3. NotedIsServed' /\ worker = "running"
  BY <1>1, <1>2 DEF NotedIsServed, NoLoop
<1>4. CASE IntradayDue
  <2>1. pc' = "intraday" /\ passStart' = time /\ dozedAt' = dozedAt
    BY <1>4 DEF CheckIntraday, BeginPass
  <2>2. ClockTypes'
    BY <1>1, <1>2, <2>1 DEF ClockTypes
  <2>3. LateInIntraday'
    BY <1>1, <1>2, <2>1 DEF ClockTypes, LateBetween, LateInIntraday
  <2> QED BY <1>1, <1>2, <1>3, <2>1, <2>2, <2>3
          DEF LoopInv, LateInEod, LateBetween, LateAsleep, NoLoop
<1>5. CASE ~IntradayDue
  <2>1. pc' = "sleeping" /\ passStart' = passStart /\ dozedAt' = time
    BY <1>5 DEF CheckIntraday
  <2>2. ClockTypes'
    BY <1>1, <1>2, <2>1 DEF ClockTypes
  <2>3. LateAsleep'
    BY <1>1, <1>2, <2>1 DEF ClockTypes, LateBetween, LateAsleep
  <2> QED BY <1>1, <1>3, <2>1, <2>2, <2>3
          DEF LoopInv, LateInEod, LateBetween, LateInIntraday, NoLoop
<1> QED BY <1>4, <1>5

LEMMA EndIntradayLoop == ASSUME LoopInv, EndIntraday PROVE LoopInv'
<1> USE HourOfNow, ParametersHold DEF Parameters
<1>1. /\ pc = "intraday" /\ pc' = "sleeping" /\ passStart' = Never /\ dozedAt' = time
      /\ UNCHANGED <<time, checkedAt, lastEod, worker, served>>
  BY DEF EndIntraday
<1>2. ClockTypes /\ NotedIsServed /\ LateInIntraday /\ NoLoop
  BY DEF LoopInv
<1>3. ClockTypes' /\ NotedIsServed' /\ worker = "running"
  BY <1>1, <1>2 DEF ClockTypes, NotedIsServed, NoLoop
<1>4. LateAsleep'
  BY <1>1, <1>2 DEF ClockTypes, LateInIntraday, LateAsleep
<1> QED BY <1>1, <1>3, <1>4 DEF LoopInv, LateInEod, LateBetween, LateInIntraday, NoLoop

\* While the loop runs, a tick that ends a day finds it served.
LEMMA TickServed ==
    ASSUME LoopInv, Tick, Day(time') # Day(time), worker = "running"
    PROVE  served
<1> USE HourOfNow, ParametersHold DEF Parameters
<1>1. ClockTypes /\ LateInEod /\ LateInIntraday /\ LateAsleep
  BY DEF LoopInv
<1>2. HourOf(time) = HoursPerDay - 1
  BY <1>1, NextHour DEF Tick, ClockTypes
<1>3. CASE pc = "sleeping" /\ dozedAt = time
  BY <1>1, <1>2, <1>3 DEF LateAsleep
<1>4. CASE pc = "eod" /\ time < passStart + PassHours
  BY <1>1, <1>2, <1>4 DEF LateInEod, ClockTypes
<1>5. CASE pc = "intraday" /\ time < passStart + PassHours
  BY <1>1, <1>2, <1>5 DEF LateInIntraday, ClockTypes
<1> QED BY <1>3, <1>4, <1>5 DEF Tick

LEMMA TickLoop == ASSUME LoopInv, Tick PROVE LoopInv'
<1> USE HourOfNow, ParametersHold DEF Parameters
<1>1. /\ time' = time + 1 /\ served' = (served /\ Day(time') = Day(time))
      /\ UNCHANGED <<pc, checkedAt, dozedAt, passStart, lastEod, worker>>
  BY DEF Tick
<1>2. ClockTypes
  BY DEF LoopInv
<1>3. time' \in Nat /\ Day(time') \in Nat
  BY <1>1, <1>2, NextHour DEF ClockTypes
<1>4. \/ /\ Day(time') = Day(time) /\ served' = served
         /\ HourOf(time') = HourOf(time) + 1
      \/ Day(time') = Day(time) + 1 /\ served' = FALSE /\ HourOf(time') = 0
  <2>1. Day(time') = Day(time) => served' = served
    BY <1>1, <1>2, Zenon DEF ClockTypes
  <2>2. Day(time') # Day(time) => served' = FALSE
    BY <1>1, Zenon
  <2> QED BY <1>1, <1>2, <2>1, <2>2, NextHour DEF ClockTypes
<1>5. ClockTypes'
  BY <1>1, <1>2, <1>3, <1>4 DEF ClockTypes
<1>6. NotedIsServed'
  BY <1>1, <1>2, <1>3, <1>4 DEF LoopInv, ClockTypes, NotedIsServed
<1>7. LateAsleep' /\ NoLoop' /\ LateBetween'
  BY <1>1, <1>2, <1>3 DEF LoopInv, ClockTypes, LateAsleep, NoLoop, LateBetween, Tick
<1>8. pc \in {"eod", "intraday"} => passStart \in Nat /\ time < passStart + PassHours
  BY DEF LoopInv, Tick, NoLoop, LateInEod, LateInIntraday
<1>9. LateInEod'
  <2> SUFFICES ASSUME pc = "eod" PROVE LateInEod'
    BY <1>1 DEF LateInEod
  <2>1. Day(checkedAt) \in Nat
    BY NextHour DEF LoopInv, LateInEod
  <2> QED BY <1>1, <1>2, <1>3, <1>4, <1>8, <2>1 DEF LoopInv, LateInEod, ClockTypes
<1>10. LateInIntraday'
  BY <1>1, <1>2, <1>3, <1>4, <1>8 DEF LoopInv, LateInIntraday, ClockTypes
<1> QED BY <1>5, <1>6, <1>7, <1>9, <1>10 DEF LoopInv

\* Steps of jobs, and stuttering.
LEMMA SameLoop == ASSUME LoopInv, UNCHANGED <<clockVars, pc>> PROVE LoopInv'
BY DEF LoopInv, clockVars, ClockTypes, NotedIsServed, LateInEod, LateBetween,
       LateInIntraday, LateAsleep, NoLoop

LEMMA NextLoop == LoopInv /\ [CatchUpNext]_catchUpVars => LoopInv'
<1> SUFFICES ASSUME LoopInv, [CatchUpNext]_catchUpVars PROVE LoopInv'
  OBVIOUS
<1>1. CASE \E p \in Pairs : JobStep(p)
  BY <1>1, SameLoop DEF JobStep, Enter, Wrap, Finish
<1>2. CASE Stop \/ Start
  BY <1>2, FreshLoop DEF Stop, Start
<1>3. CASE UNCHANGED catchUpVars
  BY <1>3, SameLoop DEF catchUpVars
<1> QED BY <1>1, <1>2, <1>3, CheckLoop, EndEodLoop, CheckIntradayLoop, EndIntradayLoop,
           TickLoop DEF CatchUpNext

LEMMA DayEnds ==
    LoopInv /\ [CatchUpNext]_catchUpVars => [Day(time') # Day(time) /\ worker = "running" => served]_catchUpVars
<1> SUFFICES ASSUME LoopInv, CatchUpNext, Day(time') # Day(time), worker = "running" PROVE served
  BY DEF catchUpVars, clockVars
<1>1. Tick
  BY DEF CatchUpNext, JobStep, Enter, Wrap, Finish, clockVars, Check, EndEod, CheckIntraday,
         EndIntraday, Stop, Start
<1> QED BY <1>1, TickServed

(* No day at whose end the loop runs goes without its end-of-day pass, for  *)
(* every length of the day and of the passes that meets PassAssumption      *)
(* (run_ohlcv_catchup_worker): the date of the last pass is only noted      *)
(* when its day was served, and passes end early enough for one more look.  *)
THEOREM EveryDayServed == CatchUpSpec => EodEveryDay
BY InitLoop, NextLoop, DayEnds, PTL DEF CatchUpSpec, EodEveryDay

=============================================================================
