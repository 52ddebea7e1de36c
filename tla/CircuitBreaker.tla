---------------------------- MODULE CircuitBreaker ----------------------------
(***************************************************************************)
(* The circuit breaker of one provider and capability                      *)
(* (src/providers/circuit_breaker.py).  Its state is one JSON value in     *)
(* Redis, shared by every replica of the service; each replica also keeps  *)
(* a copy in memory for when Redis does not answer, and an asyncio lock    *)
(* that orders the calls of that replica only.  Every GET and SET is an    *)
(* await, so a read and the write that follows it are separate steps.      *)
(*                                                                         *)
(* A caller follows the protocol of the integration tests: call(), then    *)
(* record_success() or record_failure(), or one of the record_* methods    *)
(* that leave the state alone (HTTP 429, market closed, unsupported).      *)
(***************************************************************************)
EXTENDS Integers, FiniteSets

CONSTANTS
    Replicas,          \* breaker instances that share the Redis key
    Callers,           \* tasks that call the provider through a breaker
    Monitors,          \* GET /v1/providers/health requests
    Home,              \* Home[c]: the replica the caller or monitor c runs in
    None,              \* no lock owner
    FailureThreshold,  \* failures that open the circuit
    RecoveryWindow,    \* time units an open circuit waits before a probe
    MaxLead,           \* bound: how far two hosts' clocks are apart
    Outcomes,          \* what a provider call may end in
    Faults             \* which faults of the environment may happen

OutcomeKinds == {"success", "failure", "neutral"}
FaultKinds == {"outage", "restart"}

ASSUME ThresholdAssumption == FailureThreshold \in Nat \ {0}
ASSUME WindowAssumption == RecoveryWindow \in Nat \ {0}
ASSUME LeadAssumption == MaxLead \in Nat
ASSUME HomeAssumption == Home \in [Callers \cup Monitors -> Replicas]
ASSUME NoneAssumption == None \notin Callers
ASSUME ChoiceAssumption == Outcomes \subseteq OutcomeKinds /\ Faults \subseteq FaultKinds

VARIABLES
    redis,      \* the value under mds:cb:{provider}:{capability}
    redisUp,    \* Redis answers
    ahead,      \* ahead[r]: lead of time.monotonic() of r's host
    mem,        \* mem[r]: the fallback copy of replica r (_mem)
    lock,       \* lock[r]: the caller that holds r's asyncio lock, or None
    pc,         \* pc[c]: where caller c is
    local,      \* local[c]: the state_dict c holds between its read and write
    polled,     \* polled[m]: the state_dict a health poll is about to write
    failures    \* history: failures recorded since it closed or was reset

breakerVars == <<redis, mem, lock, pc, local, polled>>
vars == <<redis, redisUp, ahead, mem, lock, pc, local, polled, failures>>

-----------------------------------------------------------------------------
(* The state_dict.  opened_at_ms is the monotonic clock of the host that   *)
(* opened the circuit, and is compared with that of the host that reads    *)
(* it.  A host counts from its boot: their clocks differ for good, and one *)
(* that reboots falls back.  So opened_at_ms is kept as the time since     *)
(* then, up to where every host has seen the window elapse, and the lead   *)
(* of the clock it was read from; failure_count up to the threshold, which *)
(* is all it is compared with.                                             *)

NoTime == -1            \* opened_at_ms is None

State == [state : {"CLOSED", "OPEN", "HALF_OPEN"},
          age : NoTime .. RecoveryWindow + MaxLead,
          base : 0 .. MaxLead,
          count : 0 .. FailureThreshold,
          probe : BOOLEAN]

\* Mutant: the default is the gateway's baseline for a provider never called.
UnknownDefault ==
    [state |-> "UNKNOWN", age |-> NoTime, base |-> 0, count |-> 0, probe |-> FALSE]

Default ==
    [state |-> "CLOSED", age |-> NoTime, base |-> 0, count |-> 0, probe |-> FALSE]

UpTo(bound, n) == IF n < bound THEN n ELSE bound

Aged(s) == IF s.age = NoTime THEN s
           ELSE [s EXCEPT !.age = UpTo(RecoveryWindow + s.base, s.age + 1)]

\* Mutant: opening the circuit forgets its time.
OpenedWithoutTime(r, s) ==
    [s EXCEPT !.state = "OPEN", !.age = NoTime, !.probe = FALSE]

Opened(r, s) ==
    [s EXCEPT !.state = "OPEN", !.age = 0, !.base = ahead[r], !.probe = FALSE]

\* _now_ms() of r's host less opened_at_ms.
Elapsed(r, s) == s.age + ahead[r] - s.base

WindowElapsed(r, s) ==
    s.state = "OPEN" /\ s.age # NoTime /\ Elapsed(r, s) >= RecoveryWindow

\* opened_at_ms stays, but nothing reads it before the circuit opens again.
HalfOpened(s) ==
    [s EXCEPT !.state = "HALF_OPEN", !.age = NoTime, !.base = 0, !.probe = FALSE]

Counted(s) == [s EXCEPT !.count = UpTo(FailureThreshold, s.count + 1)]

\* Redis answers with the value (an absent key reads as Default), or the
\* replica falls back to its own copy.
ReadState(r) == IF redisUp THEN redis ELSE mem[r]

WriteState(r, s) ==
    /\ mem' = [mem EXCEPT ![r] = s]
    /\ redis' = IF redisUp THEN s ELSE redis

Acquire(c) == lock[Home[c]] = None /\ lock' = [lock EXCEPT ![Home[c]] = c]
Release(c) == lock' = [lock EXCEPT ![Home[c]] = None]

GoTo(c, to) == pc' = [pc EXCEPT ![c] = to]
Forget(c) == local' = [local EXCEPT ![c] = Default]

-----------------------------------------------------------------------------
Init ==
    /\ redis = Default
    /\ redisUp = TRUE
    /\ ahead \in [Replicas -> 0 .. MaxLead]
    /\ mem = [r \in Replicas |-> Default]
    /\ lock = [r \in Replicas |-> None]
    /\ pc = [c \in Callers |-> "idle"]
    /\ local = [c \in Callers |-> Default]
    /\ polled = [m \in Monitors |-> Default]
    /\ failures = 0

(* call(): take the lock and read; then, still under the lock, decide.     *)

CallEnter(c) ==
    /\ pc[c] = "idle"
    /\ Acquire(c)
    /\ local' = [local EXCEPT ![c] = ReadState(Home[c])]
    /\ GoTo(c, "deciding")
    /\ UNCHANGED <<redis, redisUp, ahead, mem, polled, failures>>

CallAdvance(c) ==
    /\ pc[c] = "deciding"
    /\ WindowElapsed(Home[c], local[c])
    /\ local' = [local EXCEPT ![c] = HalfOpened(local[c])]
    /\ WriteState(Home[c], HalfOpened(local[c]))
    /\ UNCHANGED <<redisUp, ahead, lock, pc, polled, failures>>

CallReject(c) ==
    /\ pc[c] = "deciding"
    /\ \/ local[c].state = "OPEN" /\ ~WindowElapsed(Home[c], local[c])
       \/ local[c].state = "HALF_OPEN" /\ local[c].probe
    /\ Release(c)
    /\ GoTo(c, "idle")
    /\ Forget(c)
    /\ UNCHANGED <<redis, redisUp, ahead, mem, polled, failures>>

CallPass(c) ==
    /\ pc[c] = "deciding"
    /\ local[c].state = "CLOSED"
    /\ Release(c)
    /\ GoTo(c, "calling")
    /\ Forget(c)
    /\ UNCHANGED <<redis, redisUp, ahead, mem, polled, failures>>

CallClaim(c) ==
    /\ pc[c] = "deciding"
    /\ local[c].state = "HALF_OPEN"
    /\ ~local[c].probe
    /\ WriteState(Home[c], [local[c] EXCEPT !.probe = TRUE])
    /\ Release(c)
    /\ GoTo(c, "probing")
    /\ Forget(c)
    /\ UNCHANGED <<redisUp, ahead, polled, failures>>

(* The provider call itself, outside the lock.  It takes as long as it     *)
(* takes; a neutral outcome also stands for a cancelled call.              *)

Waiting(c) == pc[c] \in {"calling", "probing"}

ProviderSucceeds(c) ==
    /\ Waiting(c)
    /\ "success" \in Outcomes
    /\ GoTo(c, "succeeded")
    /\ UNCHANGED <<redis, redisUp, ahead, mem, lock, local, polled, failures>>

ProviderFails(c) ==
    /\ Waiting(c)
    /\ "failure" \in Outcomes
    /\ GoTo(c, "failed")
    /\ UNCHANGED <<redis, redisUp, ahead, mem, lock, local, polled, failures>>

\* Mutant: a 429 is recorded as a failure.
NeutralCounted(c) ==
    /\ Waiting(c)
    /\ "neutral" \in Outcomes
    /\ GoTo(c, "idle")
    /\ WriteState(Home[c], Opened(Home[c], ReadState(Home[c])))
    /\ UNCHANGED <<redisUp, ahead, lock, local, polled, failures>>

\* record_rate_limit, record_market_closed, record_unsupported_capability:
\* they log and leave the state as it is.
NeutralOutcome(c) ==
    /\ Waiting(c)
    /\ "neutral" \in Outcomes
    /\ GoTo(c, "idle")
    /\ UNCHANGED <<redis, redisUp, ahead, mem, lock, local, polled, failures>>

(* record_success() and record_failure(): read, then write, under the lock. *)

\* Mutant: the outcome is read without waiting for the lock.
RecordReadUnlocked(c) ==
    /\ \/ pc[c] = "succeeded" /\ GoTo(c, "closing")
       \/ pc[c] = "failed" /\ GoTo(c, "tripping")
    /\ local' = [local EXCEPT ![c] = ReadState(Home[c])]
    /\ UNCHANGED <<redis, redisUp, ahead, mem, lock, polled, failures>>

RecordRead(c) ==
    /\ \/ pc[c] = "succeeded" /\ GoTo(c, "closing")
       \/ pc[c] = "failed" /\ GoTo(c, "tripping")
    /\ Acquire(c)
    /\ local' = [local EXCEPT ![c] = ReadState(Home[c])]
    /\ UNCHANGED <<redis, redisUp, ahead, mem, polled, failures>>

SuccessWrite(c) ==
    /\ pc[c] = "closing"
    /\ IF local[c].state = "OPEN"
         THEN UNCHANGED <<redis, mem, failures>>
         ELSE WriteState(Home[c], Default) /\ failures' = 0
    /\ Release(c)
    /\ GoTo(c, "idle")
    /\ Forget(c)
    /\ UNCHANGED <<redisUp, ahead, polled>>

Trips(s) == s.state = "HALF_OPEN" \/ Counted(s).count >= FailureThreshold

\* An open circuit is written back as it was read when the caller gives a
\* reason (only last_failure_reason changes), and not written otherwise.
FailureWrite(c) ==
    /\ pc[c] = "tripping"
    /\ \/ /\ local[c].state = "OPEN"
          /\ \/ WriteState(Home[c], local[c])
             \/ UNCHANGED <<redis, mem>>
          /\ UNCHANGED failures
       \/ /\ local[c].state # "OPEN"
          /\ WriteState(Home[c], IF Trips(local[c])
                                   THEN Opened(Home[c], Counted(local[c]))
                                   ELSE Counted(local[c]))
          /\ failures' = IF Trips(local[c]) THEN 0 ELSE UpTo(FailureThreshold, failures + 1)
    /\ Release(c)
    /\ GoTo(c, "idle")
    /\ Forget(c)
    /\ UNCHANGED <<redisUp, ahead, polled>>

Reset(c) ==
    /\ pc[c] = "idle"
    /\ lock[Home[c]] = None
    /\ WriteState(Home[c], Default)
    /\ failures' = 0
    /\ UNCHANGED <<redisUp, ahead, lock, pc, local, polled>>

(* get_state() of the health endpoint: a breaker made for the request, so  *)
(* with a lock of its own, which get_state() does not take either.         *)

PollRead(m) ==
    /\ redisUp
    /\ WindowElapsed(Home[m], redis)
    /\ polled' = [polled EXCEPT ![m] = HalfOpened(redis)]
    /\ UNCHANGED <<redis, redisUp, ahead, mem, lock, pc, local, failures>>

PollWrite(m) ==
    /\ polled[m].state = "HALF_OPEN"
    /\ redis' = IF redisUp THEN polled[m] ELSE redis
    /\ polled' = [polled EXCEPT ![m] = Default]
    /\ UNCHANGED <<redisUp, ahead, mem, lock, pc, local, failures>>

-----------------------------------------------------------------------------
(* The environment.                                                        *)

Tick ==
    /\ redis' = Aged(redis)
    /\ mem' = [r \in Replicas |-> Aged(mem[r])]
    /\ local' = [c \in Callers |-> Aged(local[c])]
    /\ polled' = [m \in Monitors |-> Aged(polled[m])]
    /\ UNCHANGED <<redisUp, ahead, lock, pc, failures>>

RedisChanges ==
    /\ "outage" \in Faults
    /\ redisUp' = ~redisUp
    /\ UNCHANGED <<redis, ahead, mem, lock, pc, local, polled, failures>>

\* The process of replica r dies and starts again: its tasks, its lock and
\* its memory are gone, the Redis key stays.  If it is the host that went
\* down, its clock starts again too.
Restart(r) ==
    /\ "restart" \in Faults
    /\ mem' = [mem EXCEPT ![r] = Default]
    /\ lock' = [lock EXCEPT ![r] = None]
    /\ pc' = [c \in Callers |-> IF Home[c] = r THEN "idle" ELSE pc[c]]
    /\ local' = [c \in Callers |-> IF Home[c] = r THEN Default ELSE local[c]]
    /\ polled' = [m \in Monitors |-> IF Home[m] = r THEN Default ELSE polled[m]]
    /\ \E lead \in 0 .. ahead[r] : ahead' = [ahead EXCEPT ![r] = lead]
    /\ UNCHANGED <<redis, redisUp, failures>>

-----------------------------------------------------------------------------
Decide(c) == CallAdvance(c) \/ CallReject(c) \/ CallPass(c) \/ CallClaim(c)
ProviderAnswers(c) == ProviderSucceeds(c) \/ ProviderFails(c)
Settle(c) == SuccessWrite(c) \/ FailureWrite(c)

CallerStep(c) ==
    \/ CallEnter(c) \/ Decide(c)
    \/ ProviderAnswers(c) \/ NeutralOutcome(c)
    \/ RecordRead(c) \/ Settle(c)
    \/ Reset(c)

Environment ==
    \/ Tick
    \/ RedisChanges
    \/ \E r \in Replicas : Restart(r)

Next ==
    \/ \E c \in Callers : CallerStep(c)
    \/ \E m \in Monitors : PollRead(m) \/ PollWrite(m)
    \/ Environment

Spec == Init /\ [][Next]_vars

\* Time passes, calls end, code outside an await runs on, and asyncio.Lock
\* wakes its waiters in order, so nobody waits for it for ever.
Fairness ==
    /\ WF_vars(Tick)
    /\ \A c \in Callers :
         /\ SF_vars(CallEnter(c)) /\ WF_vars(Decide(c))
         /\ WF_vars(ProviderAnswers(c))
         /\ SF_vars(RecordRead(c)) /\ WF_vars(Settle(c))

FairSpec == Spec /\ Fairness

-----------------------------------------------------------------------------
(* The variables hold what the code can store in them.                     *)
TypeOK ==
    /\ redis \in State
    /\ redisUp \in BOOLEAN
    /\ ahead \in [Replicas -> 0 .. MaxLead]
    /\ mem \in [Replicas -> State]
    /\ lock \in [Replicas -> Callers \cup {None}]
    /\ pc \in [Callers -> {"idle", "deciding", "calling", "probing",
                           "succeeded", "closing", "failed", "tripping"}]
    /\ local \in [Callers -> State]
    /\ polled \in [Monitors -> State]
    /\ failures \in 0 .. FailureThreshold

Recoverable(s) == s.state = "OPEN" => s.age # NoTime

(* An open circuit has a time, in Redis and in every copy that may be      *)
(* written back over it: call() and get_state() advance an OPEN only when  *)
(* opened_at_ms is there.                                                  *)
OpenHasTime ==
    /\ Recoverable(redis)
    /\ \A r \in Replicas : Recoverable(mem[r])
    /\ \A c \in Callers : Recoverable(local[c])

(* The circuit never stays open for good while requests come: some replica *)
(* sees the window elapse, by whatever clock the circuit was opened, and   *)
(* what it writes is not lost to an older copy for ever; if Redis is       *)
(* reachable in the end and processes do not restart for ever.             *)
OpenIsLeft ==
    <>[]redisUp /\ <>[][\A r \in Replicas : ~Restart(r)]_vars
        => []<>(redis.state # "OPEN")

(* Only a recorded failure opens the circuit for the replicas that share   *)
(* it: no 429, market-closed answer, health poll, restart or outage does.  *)
OnlyFailuresOpen ==
    [][redis.state # "OPEN" /\ redis'.state = "OPEN"
         => \E c \in Callers : pc[c] = "tripping"]_vars

(* The shared counter is exact: while the circuit is closed it is the      *)
(* number of failures recorded since it closed or since the last success,  *)
(* below the threshold, so the failure that reaches the threshold is never *)
(* lost to a read-modify-write of another task.                            *)
ThresholdTrips ==
    redis.state = "CLOSED"
        => redis.count = failures /\ failures < FailureThreshold

StartsCall(c) == pc[c] = "deciding" /\ pc'[c] \in {"calling", "probing"}

(* No provider call starts while the circuit is open: whatever happened    *)
(* between the read of a call and its decision, the shared state does not  *)
(* say OPEN when it goes ahead.                                            *)
NoCallWhileOpen ==
    [][\A c \in Callers : StartsCall(c) => redis.state # "OPEN"]_vars

(* At most one probe is outstanding: "Exactly ONE probe request is allowed *)
(* in HALF_OPEN; all others are rejected until the probe resolves".        *)
OneProbe == Cardinality({c \in Callers : pc[c] = "probing"}) <= 1

(* "OPEN --(recovery_window elapsed)--> HALF_OPEN": no call is rejected by  *)
(* a circuit that has been open for longer.  It holds for replicas on one  *)
(* host, and TLC refutes it for hosts whose clocks differ.                 *)
OpenForWindow ==
    [][\A c \in Callers :
         CallReject(c) /\ local[c].state = "OPEN" => local[c].age < RecoveryWindow]_vars

(* Once the provider has failed for the last time, the circuit closes for  *)
(* good, whoever probes and polls.                                         *)
HealsWithProvider ==
    <>[][\A c \in Callers : ~ProviderFails(c)]_vars
        => <>[](redis.state = "CLOSED")

=============================================================================
