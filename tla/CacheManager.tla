----------------------------- MODULE CacheManager -----------------------------
(***************************************************************************)
(* The three-level cache of one process: L1, an LRU map in memory, L2,     *)
(* Redis, and L3, an optional pair of callbacks on PostgreSQL, in front of *)
(* the provider (src/cache/cache_manager.py, src/cache/l1_cache.py).       *)
(*                                                                         *)
(* The callers are tasks of one event loop.  A task runs on until it       *)
(* awaits Redis, PostgreSQL, the provider or the future of a fetch; the L1 *)
(* lock is never held across such an await, so it never makes a task wait. *)
(* What a tier holds is the version of the datum the provider had.         *)
(***************************************************************************)
EXTENDS Integers, Sequences, SequencesExt

CONSTANTS
    Tasks,        \* coroutines that call get() or invalidate()
    Keys,
    Capacity,     \* max_capacity of L1
    MaxVersion,   \* bound: how often the datum behind a key changes
    None,         \* nothing there
    Failed,       \* the outcome of a fetch whose provider call raised
    Lost,         \* a fetch whose leader was cancelled
    Faults        \* which faults may happen

FaultKinds == {"outage", "error", "cancel", "abandon"}

Versions == 0 .. MaxVersion
Outcomes == Versions \cup {Failed}

ASSUME CapacityAssumption == Capacity \in Nat \ {0}
ASSUME VersionAssumption == MaxVersion \in Nat
ASSUME FaultAssumption == Faults \subseteq FaultKinds
ASSUME ValueAssumption ==
    /\ None \notin Outcomes \cup Tasks \cup Keys \cup {Lost}
    /\ Failed \notin Versions
    /\ Lost \notin Tasks

VARIABLES
    l1,         \* sequence of [key, val], the least recently used first
    l2,         \* l2[k]: the value in Redis, or None
    l2Up,       \* Redis answers
    l3,         \* l3[k]: the value in PostgreSQL, or None
    hasL3,      \* l3_get_fn and l3_set_fn were given
    inFlight,   \* the keys of _in_flight
    refreshing, \* _refreshing: keys whose background refresh is scheduled
    pc,         \* pc[t]: where t is
    key,        \* key[t]: the key t works on
    val,        \* val[t]: the value t holds
    answer,     \* history: what the last fetch t was in gave it
    source      \* source[k]: the version the provider has

tiers == <<l1, l2, l2Up, l3, hasL3, source>>
vars == <<l1, l2, l2Up, l3, hasL3, inFlight, refreshing, pc, key, val, answer, source>>

-----------------------------------------------------------------------------
(* L1.                                                                     *)

Holds(k) == \E i \in DOMAIN l1 : l1[i].key = k
Place(k) == CHOOSE i \in DOMAIN l1 : l1[i].key = k
Without(k) == IF Holds(k) THEN RemoveAt(l1, Place(k)) ELSE l1
L1Value(k) == l1[Place(k)].val

\* get() of a key that is there makes it the most recently used.
Touched(k) == Append(Without(k), [key |-> k, val |-> L1Value(k)])

\* Mutant: a full cache takes one entry more.
L1WithOneMore(k, v) ==
    LET kept == IF ~Holds(k) /\ Len(l1) > Capacity THEN Tail(l1) ELSE Without(k)
    IN  Append(kept, [key |-> k, val |-> v])

\* set(): a new key pushes the least recently used out of a full cache.
L1With(k, v) ==
    LET kept == IF ~Holds(k) /\ Len(l1) >= Capacity THEN Tail(l1) ELSE Without(k)
    IN  Append(kept, [key |-> k, val |-> v])

-----------------------------------------------------------------------------
(* The leader of a fetch, between its provider call and its return.        *)
LeaderSteps == {"fetching", "fetched", "storing", "archiving"}
Leads(t) == pc[t] \in LeaderSteps
Waits(t) == pc[t] = "waiting"

GoTo(t, to) == pc' = [pc EXCEPT ![t] = to]
Hold(t, v) == val' = [val EXCEPT ![t] = v]

\* t returns, or raises, to its caller.
Return(t) ==
    /\ GoTo(t, "idle")
    /\ key' = [key EXCEPT ![t] = None]
    /\ Hold(t, None)

\* The leader t and the tasks that await its future.
Sharing(t) == {t} \cup {u \in Tasks : Waits(u) /\ key[u] = key[t]}

\* They all return; the tasks in told learn the outcome.
EndFetch(t, outcome, told) ==
    /\ answer' = [u \in Tasks |-> IF u \in told THEN outcome ELSE answer[u]]
    /\ pc' = [u \in Tasks |-> IF u \in Sharing(t) THEN "idle" ELSE pc[u]]
    /\ key' = [u \in Tasks |-> IF u \in Sharing(t) THEN None ELSE key[u]]
    /\ val' = [u \in Tasks |-> IF u \in Sharing(t) THEN None ELSE val[u]]

\* Mutant: a failed fetch wakes its waiters with nothing.
ResolveSilently(t, outcome) ==
    /\ inFlight' = inFlight \ {key[t]}
    /\ EndFetch(t, outcome, IF outcome = Failed THEN {t} ELSE Sharing(t))

\* Mutant: a failed fetch stays in _in_flight.
ResolveKeeping(t, outcome) ==
    /\ inFlight' = IF outcome = Failed THEN inFlight ELSE inFlight \ {key[t]}
    /\ EndFetch(t, outcome, Sharing(t))

\* The leader t settles the future and takes it out of _in_flight; every
\* waiter of the key wakes up with the outcome.
Resolve(t, outcome) ==
    /\ inFlight' = inFlight \ {key[t]}
    /\ EndFetch(t, outcome, Sharing(t))

-----------------------------------------------------------------------------
Init ==
    /\ l1 = <<>>
    /\ l2 = [k \in Keys |-> None]
    /\ l2Up = TRUE
    /\ l3 = [k \in Keys |-> None]
    /\ hasL3 \in BOOLEAN
    /\ inFlight = {}
    /\ refreshing = {}
    /\ pc = [t \in Tasks |-> "idle"]
    /\ key = [t \in Tasks |-> None]
    /\ val = [t \in Tasks |-> None]
    /\ answer = [t \in Tasks |-> None]
    /\ source = [k \in Keys |-> 0]

(* get(): L1.                                                              *)

GetL1Hit(t, k) ==
    /\ pc[t] = "idle"
    /\ Holds(k)
    /\ l1' = Touched(k)
    /\ answer' = [answer EXCEPT ![t] = None]
    /\ UNCHANGED <<l2, l2Up, l3, hasL3, inFlight, refreshing, pc, key, val, source>>

GetL1Miss(t, k) ==
    /\ pc[t] = "idle"
    /\ ~Holds(k)
    /\ GoTo(t, "asking")
    /\ key' = [key EXCEPT ![t] = k]
    /\ answer' = [answer EXCEPT ![t] = None]
    /\ UNCHANGED <<tiers, inFlight, refreshing, val>>

(* L2: the GET is served, and the task goes on some time later.            *)

L2Hit(t) ==
    /\ pc[t] = "asking"
    /\ l2Up /\ l2[key[t]] # None
    /\ Hold(t, l2[key[t]])
    /\ GoTo(t, "found")
    /\ UNCHANGED <<tiers, inFlight, refreshing, key, answer>>

L2Miss(t) ==
    /\ pc[t] = "asking"
    /\ ~l2Up \/ l2[key[t]] = None
    /\ GoTo(t, IF hasL3 THEN "asking L3" ELSE "uncached")
    /\ UNCHANGED <<tiers, inFlight, refreshing, key, val, answer>>

\* Stale-while-revalidate: unless a refresh of the key is scheduled, ask
\* for its remaining time to live.
AskTTL(t) ==
    /\ pc[t] = "found"
    /\ key[t] \notin refreshing
    /\ GoTo(t, "asking TTL")
    /\ UNCHANGED <<tiers, inFlight, refreshing, key, val, answer>>

\* The TTL is low or not; either way the value goes to L1 and is returned.
FillFromL2(t) ==
    /\ \/ pc[t] = "found" /\ key[t] \in refreshing /\ UNCHANGED refreshing
       \/ pc[t] = "asking TTL" /\ UNCHANGED refreshing
       \/ pc[t] = "asking TTL" /\ l2Up /\ refreshing' = refreshing \cup {key[t]}
    /\ l1' = L1With(key[t], val[t])
    /\ Return(t)
    /\ UNCHANGED <<l2, l2Up, l3, hasL3, inFlight, answer, source>>

\* _background_refresh: it only takes its key back.
BackgroundRefresh(k) ==
    /\ k \in refreshing
    /\ refreshing' = refreshing \ {k}
    /\ UNCHANGED <<tiers, inFlight, pc, key, val, answer>>

(* L3: a hit is written to L2, then to L1.                                 *)

L3Hit(t) ==
    /\ pc[t] = "asking L3"
    /\ l3[key[t]] # None
    /\ Hold(t, l3[key[t]])
    /\ GoTo(t, "restoring")
    /\ UNCHANGED <<tiers, inFlight, refreshing, key, answer>>

L3Miss(t) ==
    /\ pc[t] = "asking L3"
    /\ l3[key[t]] = None \/ "error" \in Faults
    /\ GoTo(t, "uncached")
    /\ UNCHANGED <<tiers, inFlight, refreshing, key, val, answer>>

RestoreL2(t) ==
    /\ pc[t] = "restoring"
    /\ l2' = IF l2Up THEN [l2 EXCEPT ![key[t]] = val[t]] ELSE l2
    /\ GoTo(t, "restored")
    /\ UNCHANGED <<l1, l2Up, l3, hasL3, inFlight, refreshing, key, val, answer, source>>

RestoreL1(t) ==
    /\ pc[t] = "restored"
    /\ l1' = L1With(key[t], val[t])
    /\ Return(t)
    /\ UNCHANGED <<l2, l2Up, l3, hasL3, inFlight, refreshing, answer, source>>

(* _fetch_with_coalescing(): join the fetch of the key, or lead one.       *)

Join(t) ==
    /\ pc[t] = "uncached"
    /\ key[t] \in inFlight
    /\ GoTo(t, "waiting")
    /\ UNCHANGED <<tiers, inFlight, refreshing, key, val, answer>>

\* Mutant: the lookup in _in_flight is forgotten.
LeadAlways(t) ==
    /\ pc[t] = "uncached"
    /\ inFlight' = inFlight \cup {key[t]}
    /\ GoTo(t, "fetching")
    /\ UNCHANGED <<tiers, refreshing, key, val, answer>>

Lead(t) ==
    /\ pc[t] = "uncached"
    /\ key[t] \notin inFlight
    /\ inFlight' = inFlight \cup {key[t]}
    /\ GoTo(t, "fetching")
    /\ UNCHANGED <<tiers, refreshing, key, val, answer>>

ProviderAnswers(t) ==
    /\ pc[t] = "fetching"
    /\ Hold(t, source[key[t]])
    /\ GoTo(t, "fetched")
    /\ UNCHANGED <<tiers, inFlight, refreshing, key, answer>>

ProviderRaises(t) ==
    /\ "error" \in Faults
    /\ pc[t] = "fetching"
    /\ Resolve(t, Failed)
    /\ UNCHANGED <<tiers, refreshing>>

\* Write-through: L2, unless Redis is down, then L1, then L3.
StoreL2(t) ==
    /\ pc[t] = "fetched"
    /\ l2' = IF l2Up THEN [l2 EXCEPT ![key[t]] = val[t]] ELSE l2
    /\ GoTo(t, "storing")
    /\ UNCHANGED <<l1, l2Up, l3, hasL3, inFlight, refreshing, key, val, answer, source>>

StoreL1(t) ==
    /\ pc[t] = "storing"
    /\ l1' = L1With(key[t], val[t])
    /\ IF hasL3
         THEN GoTo(t, "archiving") /\ UNCHANGED <<inFlight, key, val, answer>>
         ELSE Resolve(t, val[t])
    /\ UNCHANGED <<l2, l2Up, l3, hasL3, refreshing, source>>

\* A failing l3_set_fn is only logged.
StoreL3(t) ==
    /\ pc[t] = "archiving"
    /\ \/ l3' = [l3 EXCEPT ![key[t]] = val[t]]
       \/ "error" \in Faults /\ UNCHANGED l3
    /\ Resolve(t, val[t])
    /\ UNCHANGED <<l1, l2, l2Up, hasL3, refreshing, source>>

(* invalidate(): L1 at once, L2 when Redis serves the DEL; not L3.         *)

InvalidateL1(t, k) ==
    /\ pc[t] = "idle"
    /\ l1' = Without(k)
    /\ key' = [key EXCEPT ![t] = k]
    /\ answer' = [answer EXCEPT ![t] = None]
    /\ GoTo(t, "purging")
    /\ UNCHANGED <<l2, l2Up, l3, hasL3, inFlight, refreshing, val, source>>

InvalidateL2(t) ==
    /\ pc[t] = "purging"
    /\ l2' = IF l2Up THEN [l2 EXCEPT ![key[t]] = None] ELSE l2
    /\ Return(t)
    /\ UNCHANGED <<l1, l2Up, l3, hasL3, inFlight, refreshing, answer, source>>

\* The consumer goes away and its task is cancelled where it awaits: the
\* shield keeps the future of a waiter, but a leader never settles its own.
Cancel(t) ==
    /\ pc[t] # "idle"
    /\ IF Leads(t) THEN "abandon" \in Faults ELSE "cancel" \in Faults
    /\ Return(t)
    /\ UNCHANGED <<tiers, inFlight, refreshing, answer>>

-----------------------------------------------------------------------------
(* The environment.                                                        *)

Expire(k) ==
    /\ l2[k] # None
    /\ l2' = [l2 EXCEPT ![k] = None]
    /\ UNCHANGED <<l1, l2Up, l3, hasL3, inFlight, refreshing, pc, key, val, answer, source>>

RedisChanges ==
    /\ "outage" \in Faults
    /\ l2Up' = ~l2Up
    /\ UNCHANGED <<l1, l2, l3, hasL3, inFlight, refreshing, pc, key, val, answer, source>>

SourceChanges(k) ==
    /\ source[k] < MaxVersion
    /\ source' = [source EXCEPT ![k] = @ + 1]
    /\ UNCHANGED <<l1, l2, l2Up, l3, hasL3, inFlight, refreshing, pc, key, val, answer>>

-----------------------------------------------------------------------------
Lookup(t) ==
    \/ L2Hit(t) \/ L2Miss(t) \/ AskTTL(t) \/ FillFromL2(t)
    \/ L3Hit(t) \/ L3Miss(t) \/ RestoreL2(t) \/ RestoreL1(t)

Fetch(t) ==
    \/ Join(t) \/ Lead(t) \/ ProviderAnswers(t) \/ ProviderRaises(t)
    \/ StoreL2(t) \/ StoreL1(t) \/ StoreL3(t)

TaskStep(t) ==
    \/ \E k \in Keys : GetL1Hit(t, k) \/ GetL1Miss(t, k) \/ InvalidateL1(t, k)
    \/ Lookup(t) \/ Fetch(t) \/ InvalidateL2(t) \/ Cancel(t)

Environment ==
    \/ RedisChanges
    \/ \E k \in Keys : Expire(k) \/ SourceChanges(k) \/ BackgroundRefresh(k)

Next == (\E t \in Tasks : TaskStep(t)) \/ Environment

Spec == Init /\ [][Next]_vars

\* The event loop runs every task whose await is over, and Redis,
\* PostgreSQL and the provider answer or fail.
Fairness == \A t \in Tasks : WF_vars(Lookup(t) \/ Fetch(t) \/ InvalidateL2(t))

FairSpec == Spec /\ Fairness

-----------------------------------------------------------------------------
Entry == [key : Keys, val : Versions]
Steps == LeaderSteps \cup {"idle", "asking", "found", "asking TTL", "asking L3",
                           "restoring", "restored", "uncached", "waiting", "purging"}

(* The variables hold what the code can store in them; in particular L1    *)
(* never exceeds max_capacity and never holds a key twice.                 *)
TypeOK ==
    /\ l1 \in Seq(Entry) /\ Len(l1) <= Capacity
    /\ \A i, j \in DOMAIN l1 : l1[i].key = l1[j].key => i = j
    /\ l2 \in [Keys -> Versions \cup {None}] /\ l2Up \in BOOLEAN
    /\ l3 \in [Keys -> Versions \cup {None}] /\ hasL3 \in BOOLEAN
    /\ inFlight \subseteq Keys /\ refreshing \subseteq Keys
    /\ pc \in [Tasks -> Steps]
    /\ key \in [Tasks -> Keys \cup {None}]
    /\ val \in [Tasks -> Versions \cup {None}]
    /\ answer \in [Tasks -> Outcomes \cup {None}]
    /\ source \in [Keys -> Versions]

(* Two fetches of one key never run side by side: from the provider call   *)
(* to the return of its leader a key has one leader, and is in _in_flight. *)
OneFetchPerKey ==
    \A t \in Tasks : Leads(t) =>
        /\ key[t] \in inFlight
        /\ \A u \in Tasks : Leads(u) /\ key[u] = key[t] => u = t

LeaderOf(k) ==
    IF \E t \in Tasks : Leads(t) /\ key[t] = k
      THEN CHOOSE t \in Tasks : Leads(t) /\ key[t] = k
      ELSE IF k \in inFlight THEN Lost ELSE None

Promise == INSTANCE CoalescedFetch WITH
    leader <- [k \in Keys |-> LeaderOf(k)],
    waiters <- [k \in Keys |-> {t \in Tasks : Waits(t) /\ key[t] = k}]

(* The cache implements CoalescedFetch: whatever tiers, outages, evictions *)
(* and cancelled waiters do, a fetch gives its leader and everyone who     *)
(* waits for it the same value or the same exception.                      *)
Coalesces == Promise!Spec

(* Every get() and invalidate() comes to an end: nobody waits for a future *)
(* that its leader has already left.                                       *)
EveryGetEnds == \A t \in Tasks : pc[t] # "idle" ~> pc[t] = "idle"

(* Whoever waits for a fetch has a leader that will settle it: "If the     *)
(* provider call fails the exception is propagated to every waiter".       *)
WaitersAreServed ==
    \A t \in Tasks : Waits(t) => \E u \in Tasks : Leads(u) /\ key[u] = key[t]

=============================================================================
