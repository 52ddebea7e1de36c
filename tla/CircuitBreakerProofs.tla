------------------------- MODULE CircuitBreakerProofs -------------------------
(***************************************************************************)
(* What holds of the circuit breaker for any number of replicas, callers   *)
(* and health polls, any threshold and window; and what holds of one       *)
(* replica whose Redis answers, where the asyncio lock orders everything.  *)
(***************************************************************************)
EXTENDS CircuitBreaker, TLAPS

USE ThresholdAssumption, WindowAssumption, LeadAssumption, HomeAssumption

(* What a read returns and what a write stores are states.                 *)
LEMMA StateOperators ==
    ASSUME TypeOK, NEW s \in State
    PROVE  /\ Default \in State
           /\ Aged(s) \in State
           /\ Aged(s).state = s.state
           /\ \A r \in Replicas : Opened(r, s) \in State
           /\ HalfOpened(s) \in State
           /\ Counted(s) \in State
           /\ [s EXCEPT !.probe = TRUE] \in State
  <1>1. Default \in State
    BY DEF Default, State, NoTime
  <1>2. Aged(s) \in State /\ Aged(s).state = s.state
    BY DEF Aged, State, NoTime, UpTo
  <1>3. ASSUME NEW r \in Replicas PROVE Opened(r, s) \in State
    <2>1. 0 \in NoTime .. RecoveryWindow + MaxLead /\ ahead[r] \in 0 .. MaxLead
      BY DEF NoTime, TypeOK
    <2>2. QED
      BY <2>1 DEF Opened, State
  <1>4. HalfOpened(s) \in State
    <2>1. NoTime \in NoTime .. RecoveryWindow + MaxLead /\ 0 \in 0 .. MaxLead
      BY DEF NoTime
    <2>2. QED
      BY <2>1 DEF HalfOpened, State
  <1>5. Counted(s) \in State
    BY DEF Counted, State, UpTo
  <1>6. [s EXCEPT !.probe = TRUE] \in State
    BY DEF State
  <1>7. QED
    BY <1>1, <1>2, <1>3, <1>4, <1>5, <1>6

LEMMA ReadIsState ==
    ASSUME TypeOK, NEW r \in Replicas
    PROVE  ReadState(r) \in State
  BY DEF TypeOK, ReadState

LEMMA WriteKeepsStates ==
    ASSUME TypeOK, NEW r \in Replicas, NEW s \in State, WriteState(r, s)
    PROVE  redis' \in State /\ mem' \in [Replicas -> State]
  BY DEF TypeOK, WriteState

(* Every variable keeps its type, whatever the replicas, the polls and     *)
(* the environment do.                                                     *)
THEOREM TypeCorrect == Spec => []TypeOK
  <1>1. Init => TypeOK
    <2> SUFFICES ASSUME Init PROVE TypeOK
      OBVIOUS
    <2>1. Default \in State
      BY DEF Default, State, NoTime
    <2>2. QED
      BY <2>1 DEF Init, TypeOK
  <1>2. TypeOK /\ [Next]_vars => TypeOK'
    <2> SUFFICES ASSUME TypeOK, [Next]_vars PROVE TypeOK'
      OBVIOUS
    <2>0. Default \in State
      BY DEF Default, State, NoTime
    <2>1. ASSUME NEW c \in Callers, CallEnter(c) PROVE TypeOK'
      <3>1. ReadState(Home[c]) \in State
        BY ReadIsState
      <3>2. QED
        BY <2>1, <3>1 DEF CallEnter, Acquire, GoTo, TypeOK
    <2>2. ASSUME NEW c \in Callers, CallAdvance(c) PROVE TypeOK'
      <3>1. local[c] \in State /\ Home[c] \in Replicas
        BY DEF TypeOK
      <3>2. HalfOpened(local[c]) \in State
        BY <3>1, StateOperators
      <3>3. redis' \in State /\ mem' \in [Replicas -> State]
        BY <2>2, <3>1, <3>2, WriteKeepsStates DEF CallAdvance
      <3>4. QED
        BY <2>2, <3>2, <3>3 DEF CallAdvance, TypeOK
    <2>3. ASSUME NEW c \in Callers, CallReject(c) PROVE TypeOK'
      BY <2>0, <2>3 DEF CallReject, Release, GoTo, Forget, TypeOK
    <2>4. ASSUME NEW c \in Callers, CallPass(c) PROVE TypeOK'
      BY <2>0, <2>4 DEF CallPass, Release, GoTo, Forget, TypeOK
    <2>5. ASSUME NEW c \in Callers, CallClaim(c) PROVE TypeOK'
      <3>1. local[c] \in State /\ Home[c] \in Replicas
        BY DEF TypeOK
      <3>2. [local[c] EXCEPT !.probe = TRUE] \in State
        BY <3>1, StateOperators
      <3>3. redis' \in State /\ mem' \in [Replicas -> State]
        BY <2>5, <3>1, <3>2, WriteKeepsStates DEF CallClaim
      <3>4. QED
        BY <2>0, <2>5, <3>3 DEF CallClaim, Release, GoTo, Forget, TypeOK
    <2>6. ASSUME NEW c \in Callers, ProviderAnswers(c) PROVE TypeOK'
      BY <2>6 DEF ProviderAnswers, ProviderSucceeds, ProviderFails, GoTo, TypeOK
    <2>7. ASSUME NEW c \in Callers, NeutralOutcome(c) PROVE TypeOK'
      BY <2>7 DEF NeutralOutcome, GoTo, TypeOK
    <2>8. ASSUME NEW c \in Callers, RecordRead(c) PROVE TypeOK'
      <3>1. ReadState(Home[c]) \in State
        BY ReadIsState
      <3>2. QED
        BY <2>8, <3>1 DEF RecordRead, Acquire, GoTo, TypeOK
    <2>9. ASSUME NEW c \in Callers, SuccessWrite(c) PROVE TypeOK'
      <3>1. redis' \in State /\ mem' \in [Replicas -> State]
        <4>1. CASE local[c].state = "OPEN"
          BY <2>9, <4>1 DEF SuccessWrite, TypeOK
        <4>2. CASE local[c].state # "OPEN"
          BY <2>0, <2>9, <4>2, WriteKeepsStates DEF SuccessWrite
        <4>3. QED
          BY <4>1, <4>2
      <3>2. failures' \in 0 .. FailureThreshold
        BY <2>9 DEF SuccessWrite, TypeOK
      <3>3. QED
        BY <2>0, <2>9, <3>1, <3>2 DEF SuccessWrite, Release, GoTo, Forget, TypeOK
    <2>10. ASSUME NEW c \in Callers, FailureWrite(c) PROVE TypeOK'
      <3>1. local[c] \in State /\ Home[c] \in Replicas
        BY DEF TypeOK
      <3>2. Counted(local[c]) \in State /\ Opened(Home[c], Counted(local[c])) \in State
        BY <3>1, StateOperators
      <3>3. redis' \in State /\ mem' \in [Replicas -> State]
        <4>1. CASE UNCHANGED <<redis, mem>>
          BY <4>1 DEF TypeOK
        <4>2. CASE WriteState(Home[c], local[c])
          BY <4>2, <3>1, WriteKeepsStates
        <4>3. CASE WriteState(Home[c], IF Trips(local[c])
                                         THEN Opened(Home[c], Counted(local[c]))
                                         ELSE Counted(local[c]))
          BY <4>3, <3>1, <3>2, WriteKeepsStates
        <4>4. QED
          BY <2>10, <4>1, <4>2, <4>3 DEF FailureWrite
      <3>4. failures' \in 0 .. FailureThreshold
        BY <2>10 DEF FailureWrite, UpTo, TypeOK
      <3>5. QED
        BY <2>0, <2>10, <3>3, <3>4 DEF FailureWrite, Release, GoTo, Forget, TypeOK
    <2>11. ASSUME NEW c \in Callers, Reset(c) PROVE TypeOK'
      <3>1. redis' \in State /\ mem' \in [Replicas -> State]
        BY <2>0, <2>11, WriteKeepsStates DEF Reset
      <3>2. QED
        BY <2>11, <3>1 DEF Reset, TypeOK
    <2>12. ASSUME NEW m \in Monitors, PollRead(m) PROVE TypeOK'
      <3>1. HalfOpened(redis) \in State
        BY StateOperators DEF TypeOK
      <3>2. QED
        BY <2>12, <3>1 DEF PollRead, TypeOK
    <2>13. ASSUME NEW m \in Monitors, PollWrite(m) PROVE TypeOK'
      BY <2>0, <2>13 DEF PollWrite, TypeOK
    <2>14. CASE Tick
      <3>1. \A s \in State : Aged(s) \in State
        BY StateOperators
      <3>2. QED
        BY <2>14, <3>1 DEF Tick, TypeOK
    <2>16. CASE RedisChanges
      BY <2>16 DEF RedisChanges, TypeOK
    <2>17. ASSUME NEW r \in Replicas, Restart(r) PROVE TypeOK'
      <3>1. \A lead \in 0 .. ahead[r] : lead \in 0 .. MaxLead
        BY <2>17 DEF TypeOK
      <3>2. ahead' \in [Replicas -> 0 .. MaxLead]
        BY <2>17, <3>1 DEF Restart, TypeOK
      <3>3. QED
        BY <2>0, <2>17, <3>2 DEF Restart, TypeOK
    <2>18. CASE UNCHANGED vars
      BY <2>18 DEF vars, TypeOK
    <2>19. QED
      BY <2>1, <2>2, <2>3, <2>4, <2>5, <2>6, <2>7, <2>8, <2>9, <2>10, <2>11,
         <2>12, <2>13, <2>14, <2>16, <2>17, <2>18
      DEF Next, CallerStep, Decide, Settle, Environment
  <1>3. QED
    BY <1>1, <1>2, PTL DEF Spec

-----------------------------------------------------------------------------
(* What the operators do to the circuit state and to opened_at_ms.         *)
LEMMA StateFields ==
    ASSUME NEW s \in State
    PROVE  /\ Aged(s).state = s.state
           /\ Recoverable(s) => Recoverable(Aged(s))
           /\ HalfOpened(s).state = "HALF_OPEN"
           /\ Recoverable(HalfOpened(s))
           /\ \A r : Opened(r, s).state = "OPEN" /\ Recoverable(Opened(r, s))
           /\ Counted(s).state = s.state
           /\ Recoverable(s) => Recoverable(Counted(s))
           /\ s.state = "HALF_OPEN" => Recoverable([s EXCEPT !.probe = TRUE])
           /\ [s EXCEPT !.probe = TRUE].state = s.state
           /\ Recoverable(Default) /\ Default.state = "CLOSED"
  <1>1. Aged(s).state = s.state /\ (Recoverable(s) => Recoverable(Aged(s)))
    BY DEF Aged, State, NoTime, UpTo, Recoverable
  <1>2. HalfOpened(s).state = "HALF_OPEN" /\ Recoverable(HalfOpened(s))
    BY DEF HalfOpened, State, Recoverable
  <1>3. ASSUME NEW r PROVE Opened(r, s).state = "OPEN" /\ Recoverable(Opened(r, s))
    BY DEF Opened, State, Recoverable, NoTime
  <1>4. Counted(s).state = s.state /\ (Recoverable(s) => Recoverable(Counted(s)))
    BY DEF Counted, State, Recoverable
  <1>5. /\ s.state = "HALF_OPEN" => Recoverable([s EXCEPT !.probe = TRUE])
        /\ [s EXCEPT !.probe = TRUE].state = s.state
    BY DEF State, Recoverable
  <1>6. Recoverable(Default) /\ Default.state = "CLOSED"
    BY DEF Default, Recoverable
  <1>7. QED
    BY <1>1, <1>2, <1>3, <1>4, <1>5, <1>6

(* What a replica writes is recoverable if what it stores is.              *)
LEMMA WriteKeepsRecoverable ==
    ASSUME TypeOK, OpenHasTime, NEW r \in Replicas,
           NEW s \in State, Recoverable(s), WriteState(r, s)
    PROVE  Recoverable(redis') /\ \A q \in Replicas : Recoverable(mem'[q])
  BY DEF TypeOK, OpenHasTime, WriteState

(* An open circuit, in Redis or in any copy of it, has the time it opened, *)
(* without which nobody would ever probe: for any number of replicas,      *)
(* polls and faults, whatever their clocks.                                *)
THEOREM OpenAlwaysTimed == Spec => []OpenHasTime
  <1>1. Init => OpenHasTime
    BY DEF Init, OpenHasTime, Recoverable, Default
  <1>2. TypeOK /\ OpenHasTime /\ [Next]_vars => OpenHasTime'
    <2> SUFFICES ASSUME TypeOK, OpenHasTime, [Next]_vars PROVE OpenHasTime'
      OBVIOUS
    <2> DEFINE Stored == /\ Recoverable(redis')
                         /\ \A r \in Replicas : Recoverable(mem'[r])
               Held == \A c \in Callers : Recoverable(local'[c])
    <2>0. /\ Recoverable(Default) /\ Default \in State
          /\ Stored /\ Held => OpenHasTime'
          /\ UNCHANGED <<redis, mem>> => Stored
          /\ UNCHANGED local => Held
      <3>1. Recoverable(Default) /\ Default \in State
        BY DEF Recoverable, Default, State, NoTime
      <3>2. Stored /\ Held => OpenHasTime'
        BY DEF OpenHasTime
      <3>3. /\ UNCHANGED <<redis, mem>> => Stored
            /\ UNCHANGED local => Held
        BY DEF OpenHasTime
      <3>4. QED
        BY <3>1, <3>2, <3>3
    <2>1. ASSUME NEW c \in Callers, NEW s, Recoverable(s),
                 local' = [local EXCEPT ![c] = s]
          PROVE  Held
      BY <2>1 DEF TypeOK, OpenHasTime
    <2>2. ASSUME NEW c \in Callers, CallEnter(c) PROVE OpenHasTime'
      <3>1. Recoverable(ReadState(Home[c]))
        BY DEF ReadState, OpenHasTime
      <3>2. QED
        BY <2>0, <2>1, <2>2, <3>1 DEF CallEnter
    <2>3. ASSUME NEW c \in Callers, CallAdvance(c) PROVE OpenHasTime'
      <3>1. local[c] \in State /\ Home[c] \in Replicas
        BY DEF TypeOK
      <3>2. HalfOpened(local[c]) \in State /\ Recoverable(HalfOpened(local[c]))
        BY <3>1, StateOperators, StateFields
      <3>3. Stored
        BY <2>3, <3>1, <3>2, WriteKeepsRecoverable DEF CallAdvance
      <3>4. Held
        BY <2>1, <2>3, <3>2 DEF CallAdvance
      <3>5. QED
        BY <2>0, <3>3, <3>4
    <2>4. ASSUME NEW c \in Callers,
                 CallReject(c) \/ CallPass(c)
          PROVE  OpenHasTime'
      BY <2>0, <2>1, <2>4 DEF CallReject, CallPass, Forget
    <2>5. ASSUME NEW c \in Callers, CallClaim(c) PROVE OpenHasTime'
      <3>1. local[c] \in State /\ Home[c] \in Replicas
        BY DEF TypeOK
      <3>2. /\ [local[c] EXCEPT !.probe = TRUE] \in State
            /\ Recoverable([local[c] EXCEPT !.probe = TRUE])
        BY <2>5, <3>1, StateOperators, StateFields DEF CallClaim
      <3>3. Stored
        BY <2>5, <3>1, <3>2, WriteKeepsRecoverable DEF CallClaim
      <3>4. QED
        BY <2>0, <2>1, <2>5, <3>3 DEF CallClaim, Forget
    <2>6. ASSUME NEW c \in Callers,
                 ProviderAnswers(c) \/ NeutralOutcome(c)
          PROVE  OpenHasTime'
      BY <2>0, <2>6 DEF ProviderAnswers, ProviderSucceeds, ProviderFails, NeutralOutcome
    <2>7. ASSUME NEW c \in Callers, RecordRead(c) PROVE OpenHasTime'
      <3>1. Recoverable(ReadState(Home[c]))
        BY DEF ReadState, OpenHasTime
      <3>2. QED
        BY <2>0, <2>1, <2>7, <3>1 DEF RecordRead
    <2>8. ASSUME NEW c \in Callers, SuccessWrite(c) PROVE OpenHasTime'
      <3>1. Stored
        <4>1. CASE UNCHANGED <<redis, mem>>
          BY <2>0, <4>1
        <4>2. CASE WriteState(Home[c], Default)
          BY <2>0, <4>2, WriteKeepsRecoverable
        <4>3. QED
          BY <2>8, <4>1, <4>2 DEF SuccessWrite
      <3>2. QED
        BY <2>0, <2>1, <2>8, <3>1 DEF SuccessWrite, Forget
    <2>9. ASSUME NEW c \in Callers, FailureWrite(c) PROVE OpenHasTime'
      <3>1. local[c] \in State /\ Home[c] \in Replicas /\ Recoverable(local[c])
        BY DEF TypeOK, OpenHasTime
      <3>2. /\ Counted(local[c]) \in State /\ Recoverable(Counted(local[c]))
            /\ Opened(Home[c], Counted(local[c])) \in State
            /\ Recoverable(Opened(Home[c], Counted(local[c])))
        BY <3>1, StateOperators, StateFields
      <3>3. Stored
        <4>1. CASE UNCHANGED <<redis, mem>>
          BY <2>0, <4>1
        <4>2. CASE WriteState(Home[c], local[c])
          BY <4>2, <3>1, WriteKeepsRecoverable
        <4>3. CASE WriteState(Home[c], IF Trips(local[c])
                                         THEN Opened(Home[c], Counted(local[c]))
                                         ELSE Counted(local[c]))
          BY <4>3, <3>1, <3>2, WriteKeepsRecoverable
        <4>4. QED
          BY <2>9, <4>1, <4>2, <4>3 DEF FailureWrite
      <3>4. QED
        BY <2>0, <2>1, <2>9, <3>3 DEF FailureWrite, Forget
    <2>10. ASSUME NEW c \in Callers, Reset(c) PROVE OpenHasTime'
      <3>1. Stored
        BY <2>0, <2>10, WriteKeepsRecoverable DEF Reset
      <3>2. QED
        BY <2>0, <2>10, <3>1 DEF Reset
    <2>11. ASSUME NEW m \in Monitors, PollRead(m) PROVE OpenHasTime'
      BY <2>0, <2>11 DEF PollRead
    <2>12. ASSUME NEW m \in Monitors, PollWrite(m) PROVE OpenHasTime'
      BY <2>12 DEF PollWrite, OpenHasTime, Recoverable
    <2>13. CASE Tick
      <3>1. \A s \in State : Recoverable(s) => Recoverable(Aged(s))
        BY StateFields
      <3>2. QED
        BY <2>13, <3>1 DEF Tick, TypeOK, OpenHasTime
    <2>14. CASE RedisChanges
      BY <2>0, <2>14 DEF RedisChanges
    <2>15. ASSUME NEW r \in Replicas, Restart(r) PROVE OpenHasTime'
      BY <2>0, <2>15 DEF Restart, OpenHasTime, TypeOK
    <2>16. CASE UNCHANGED vars
      BY <2>0, <2>16 DEF vars
    <2>17. QED
      BY <2>2, <2>3, <2>4, <2>5, <2>6, <2>7, <2>8, <2>9, <2>10, <2>11, <2>12,
         <2>13, <2>14, <2>15, <2>16
      DEF Next, CallerStep, Decide, Settle, Environment
  <1>3. QED
    BY <1>1, <1>2, TypeCorrect, PTL DEF Spec

-----------------------------------------------------------------------------
(* Nothing but a recorded failure opens the shared circuit.                *)
THEOREM OnlyFailuresTrip == Spec => OnlyFailuresOpen
  <1> DEFINE Opens == redis.state # "OPEN" /\ redis'.state = "OPEN"
             Tripping == \E c \in Callers : pc[c] = "tripping"
  <1>1. TypeOK /\ [Next]_vars => [Opens => Tripping]_vars
    <2> SUFFICES ASSUME TypeOK, Next, Opens PROVE Tripping
      OBVIOUS
    <2>1. ASSUME NEW c \in Callers, NEW s, WriteState(Home[c], s), s.state # "OPEN"
          PROVE  FALSE
      BY <2>1 DEF WriteState
    <2>2. ASSUME NEW c \in Callers, CallAdvance(c) PROVE FALSE
      <3>1. HalfOpened(local[c]).state # "OPEN"
        BY StateFields DEF TypeOK
      <3>2. QED
        BY <2>1, <2>2, <3>1 DEF CallAdvance
    <2>3. ASSUME NEW c \in Callers, CallClaim(c) PROVE FALSE
      <3>1. [local[c] EXCEPT !.probe = TRUE].state # "OPEN"
        BY <2>3, StateFields DEF CallClaim, TypeOK
      <3>2. QED
        BY <2>1, <2>3, <3>1 DEF CallClaim
    <2>4. ASSUME NEW c \in Callers, SuccessWrite(c) \/ Reset(c) PROVE FALSE
      <3>1. Default.state # "OPEN"
        BY DEF Default
      <3>2. QED
        BY <2>1, <2>4, <3>1 DEF SuccessWrite, Reset
    <2>5. ASSUME NEW c \in Callers, FailureWrite(c) PROVE Tripping
      BY <2>5 DEF FailureWrite
    <2>6. ASSUME NEW c \in Callers,
                 \/ CallEnter(c) \/ CallReject(c) \/ CallPass(c)
                 \/ ProviderAnswers(c) \/ NeutralOutcome(c) \/ RecordRead(c)
          PROVE  FALSE
      BY <2>6 DEF CallEnter, CallReject, CallPass, ProviderAnswers,
                  ProviderSucceeds, ProviderFails,
                  NeutralOutcome, RecordRead
    <2>7. ASSUME NEW m \in Monitors, PollRead(m) \/ PollWrite(m) PROVE FALSE
      BY <2>7 DEF PollRead, PollWrite
    <2>8. CASE Environment
      <3>1. ~Tick
        BY StateFields DEF Tick, TypeOK
      <3>2. QED
        BY <2>8, <3>1 DEF Environment, RedisChanges, Restart
    <2>9. QED
      BY <2>2, <2>3, <2>4, <2>5, <2>6, <2>7, <2>8
      DEF Next, CallerStep, Decide, Settle
  <1>2. QED
    BY <1>1, TypeCorrect, PTL DEF Spec, OnlyFailuresOpen

-----------------------------------------------------------------------------
(* One replica whose Redis answers.  Its lock covers the whole of every    *)
(* read-modify-write of its callers.  Health polls do not take the lock,   *)
(* but all they write is HALF_OPEN.                                        *)

OneReplica ==
    /\ \A c, d \in Callers : Home[c] = Home[d]
    /\ "outage" \notin Faults

InSection(c) == pc[c] \in {"deciding", "closing", "tripping"}

SoleOwner == \A c \in Callers : InSection(c) => lock[Home[c]] = c

FreshCopy ==
    redisUp /\ \A c \in Callers :
        InSection(c) => redis.state \in {local[c].state, "HALF_OPEN"}

LockInv == TypeOK /\ SoleOwner /\ FreshCopy

(* The lock's owner is the only caller between a read and its write, and   *)
(* the shared state is what it read, or half open.                         *)
LEMMA LockOrders == ASSUME OneReplica PROVE Spec => []LockInv
  <1>1. Init => SoleOwner /\ FreshCopy
    BY DEF Init, SoleOwner, FreshCopy, InSection
  <1>2. LockInv /\ [Next]_vars => (SoleOwner /\ FreshCopy)'
    <2> SUFFICES ASSUME LockInv, [Next]_vars PROVE SoleOwner' /\ FreshCopy'
      BY DEF LockInv
    <2> USE DEF LockInv, SoleOwner, FreshCopy, InSection, OneReplica
    <2>1. ASSUME NEW c \in Callers, CallEnter(c) PROVE SoleOwner' /\ FreshCopy'
      BY <2>1, NoneAssumption DEF CallEnter, Acquire, GoTo, ReadState, TypeOK
    <2>2. ASSUME NEW c \in Callers, InSection(c), lock' = lock, pc' = pc,
                 NEW s, redisUp' = redisUp, WriteState(Home[c], s),
                 local' = [local EXCEPT ![c] = s]
          PROVE  SoleOwner' /\ FreshCopy'
      BY <2>2 DEF WriteState, TypeOK
    <2>3. ASSUME NEW c \in Callers, CallAdvance(c) PROVE SoleOwner' /\ FreshCopy'
      BY <2>2, <2>3 DEF CallAdvance
    <2>4. ASSUME NEW c \in Callers, InSection(c), Release(c), redisUp' = redisUp,
                 NEW to \in {"idle", "calling", "probing"}, GoTo(c, to)
          PROVE  /\ \A d \in Callers : ~InSection(d)'
                 /\ SoleOwner' /\ FreshCopy'
      BY <2>4 DEF Release, GoTo, TypeOK
    <2>5. ASSUME NEW c \in Callers,
                 \/ CallReject(c) \/ CallPass(c) \/ CallClaim(c)
                 \/ SuccessWrite(c) \/ FailureWrite(c)
          PROVE  SoleOwner' /\ FreshCopy'
      BY <2>4, <2>5
      DEF CallReject, CallPass, CallClaim, SuccessWrite, FailureWrite
    <2>6. ASSUME NEW c \in Callers, ProviderAnswers(c) \/ NeutralOutcome(c)
          PROVE  SoleOwner' /\ FreshCopy'
      BY <2>6 DEF ProviderAnswers, ProviderSucceeds, ProviderFails, NeutralOutcome, GoTo, Waiting, TypeOK
    <2>7. ASSUME NEW c \in Callers, RecordRead(c) PROVE SoleOwner' /\ FreshCopy'
      BY <2>7, NoneAssumption DEF RecordRead, Acquire, GoTo, ReadState, TypeOK
    <2>8. ASSUME NEW c \in Callers, Reset(c) PROVE SoleOwner' /\ FreshCopy'
      BY <2>8, NoneAssumption DEF Reset, TypeOK
    <2>9. CASE Tick
      <3>1. \A s \in State : Aged(s).state = s.state
        BY StateOperators
      <3>2. QED
        BY <2>9, <3>1 DEF Tick, TypeOK
    <2>10. ASSUME NEW m \in Monitors, PollRead(m) \/ PollWrite(m)
           PROVE  SoleOwner' /\ FreshCopy'
      BY <2>10 DEF PollRead, PollWrite
    <2>11. ~RedisChanges
      BY DEF RedisChanges
    <2>12. ASSUME NEW r \in Replicas, Restart(r) PROVE SoleOwner' /\ FreshCopy'
      BY <2>12 DEF Restart, TypeOK
    <2>13. CASE UNCHANGED vars
      BY <2>13 DEF vars
    <2>14. QED
      BY <2>1, <2>3, <2>5, <2>6, <2>7, <2>8, <2>9, <2>10, <2>11, <2>12, <2>13
      DEF Next, CallerStep, Decide, Settle, Environment
  <1>3. QED
    BY <1>1, <1>2, TypeCorrect, PTL DEF Spec, LockInv

(* In one replica no provider call starts while the circuit is open.       *)
THEOREM OneReplicaFailsFast == ASSUME OneReplica PROVE Spec => NoCallWhileOpen
  <1>1. LockInv /\ [Next]_vars
          => [\A c \in Callers : StartsCall(c) => redis.state # "OPEN"]_vars
    <2> SUFFICES ASSUME LockInv, Next, NEW c \in Callers, StartsCall(c)
                 PROVE  redis.state # "OPEN"
      OBVIOUS
    <2>1. redis.state \in {local[c].state, "HALF_OPEN"}
      BY DEF LockInv, FreshCopy, InSection, StartsCall
    <2>2. CallPass(c) \/ CallClaim(c)
      <3>1. ASSUME NEW d \in Callers, CallerStep(d), ~CallPass(c), ~CallClaim(c)
            PROVE  FALSE
        BY <3>1
        DEF CallerStep, CallEnter, Decide, CallAdvance, CallReject, CallPass,
            CallClaim, ProviderAnswers, ProviderSucceeds, ProviderFails, Waiting, NeutralOutcome, RecordRead,
            Settle, SuccessWrite, FailureWrite, Reset, GoTo, StartsCall,
            LockInv, TypeOK
      <3>2. ASSUME NEW m \in Monitors, PollRead(m) \/ PollWrite(m)
            PROVE  FALSE
        BY <3>2 DEF PollRead, PollWrite, StartsCall, LockInv, TypeOK
      <3>3. ASSUME Environment PROVE FALSE
        BY <3>3 DEF Environment, Tick, RedisChanges, Restart,
                    StartsCall, LockInv, TypeOK
      <3>4. QED
        BY <3>1, <3>2, <3>3 DEF Next
    <2>3. QED
      BY <2>1, <2>2 DEF CallPass, CallClaim
  <1>2. QED
    BY <1>1, LockOrders, PTL DEF Spec, NoCallWhileOpen

(* A copy that says CLOSED holds the counter, even after a health poll has *)
(* put HALF_OPEN over what was read.                                       *)
HeldCount ==
    \A c \in Callers :
        InSection(c) /\ local[c].state = "CLOSED"
            => local[c].count = failures /\ failures < FailureThreshold

(* In one replica the shared counter misses no recorded failure, and the   *)
(* circuit is open once it has reached the threshold, whatever the health  *)
(* polls write in between.                                                 *)
THEOREM OneReplicaCountsExactly == ASSUME OneReplica PROVE Spec => []ThresholdTrips
  <1> DEFINE CountInv == ThresholdTrips /\ HeldCount
  <1>1. Init => CountInv
    BY DEF Init, ThresholdTrips, HeldCount, InSection, Default
  <1>2. LockInv /\ CountInv /\ [Next]_vars => CountInv'
    <2> SUFFICES ASSUME LockInv, ThresholdTrips, HeldCount, [Next]_vars
                 PROVE  ThresholdTrips' /\ HeldCount'
      OBVIOUS
    <2>0. ASSUME NEW c \in Callers, NEW d \in Callers, InSection(c), InSection(d)
          PROVE  c = d
      BY <2>0 DEF LockInv, SoleOwner, OneReplica
    <2>1. ASSUME NEW c \in Callers, NEW s, WriteState(Home[c], s),
                 s.state # "CLOSED"
          PROVE  ThresholdTrips'
      BY <2>1 DEF WriteState, LockInv, FreshCopy, ThresholdTrips
    <2>2. ASSUME NEW c \in Callers, InSection(c),
                 NEW to \in {"idle", "calling", "probing"}, GoTo(c, to)
          PROVE  HeldCount'
      <3>1. \A d \in Callers : ~InSection(d)'
        BY <2>0, <2>2 DEF GoTo, InSection, LockInv, TypeOK
      <3>2. QED
        BY <3>1 DEF HeldCount, InSection
    <2>3. ASSUME NEW c \in Callers, CallAdvance(c) PROVE ThresholdTrips' /\ HeldCount'
      <3>1. HalfOpened(local[c]).state # "CLOSED"
        BY StateFields DEF LockInv, TypeOK
      <3>2. ThresholdTrips'
        BY <2>1, <2>3, <3>1 DEF CallAdvance
      <3>3. HeldCount'
        BY <2>3, <3>1 DEF CallAdvance, HeldCount, InSection, LockInv, TypeOK
      <3>4. QED
        BY <3>2, <3>3
    <2>4. ASSUME NEW c \in Callers, CallClaim(c) PROVE ThresholdTrips' /\ HeldCount'
      <3>1. [local[c] EXCEPT !.probe = TRUE].state # "CLOSED"
        BY <2>4, StateFields DEF CallClaim, LockInv, TypeOK
      <3>2. ThresholdTrips'
        BY <2>1, <2>4, <3>1 DEF CallClaim
      <3>3. QED
        BY <2>2, <2>4, <3>2 DEF CallClaim, InSection
    <2>5. ASSUME NEW c \in Callers, WriteState(Home[c], Default), failures' = 0
          PROVE  ThresholdTrips'
      BY <2>5 DEF WriteState, LockInv, FreshCopy, ThresholdTrips, Default
    <2>6. ASSUME NEW c \in Callers, SuccessWrite(c) PROVE ThresholdTrips' /\ HeldCount'
      <3>1. ThresholdTrips'
        BY <2>5, <2>6 DEF SuccessWrite, ThresholdTrips
      <3>2. QED
        BY <2>2, <2>6, <3>1 DEF SuccessWrite, InSection
    <2>7. ASSUME NEW c \in Callers, Reset(c) PROVE ThresholdTrips' /\ HeldCount'
      <3>1. \A d \in Callers : ~InSection(d)
        BY <2>7, NoneAssumption DEF Reset, LockInv, SoleOwner, OneReplica
      <3>2. HeldCount'
        BY <2>7, <3>1 DEF Reset, HeldCount, InSection
      <3>3. QED
        BY <2>5, <2>7, <3>2 DEF Reset
    <2>8. ASSUME NEW c \in Callers, FailureWrite(c) PROVE ThresholdTrips' /\ HeldCount'
      <3>0. HeldCount'
        BY <2>2, <2>8 DEF FailureWrite, InSection
      <3>1. redisUp /\ InSection(c)
        BY <2>8 DEF FailureWrite, LockInv, FreshCopy, InSection
      <3>2. local[c] \in State /\ Home[c] \in Replicas /\ failures \in 0 .. FailureThreshold
        BY DEF LockInv, TypeOK
      <3>3. CASE local[c].state = "OPEN"
        <4>1. /\ WriteState(Home[c], local[c]) \/ UNCHANGED <<redis, mem>>
              /\ UNCHANGED failures
          BY <2>8, <3>3 DEF FailureWrite
        <4>2. CASE WriteState(Home[c], local[c])
          BY <2>1, <3>0, <3>3, <4>2
        <4>3. CASE UNCHANGED <<redis, mem>>
          BY <3>0, <4>1, <4>3 DEF ThresholdTrips
        <4>4. QED
          BY <4>1, <4>2, <4>3
      <3>4. CASE local[c].state # "OPEN" /\ Trips(local[c])
        <4>1. Opened(Home[c], Counted(local[c])).state = "OPEN"
          BY <3>2, StateFields DEF Opened, Counted, State
        <4>2. QED
          BY <2>1, <2>8, <3>0, <3>4, <4>1 DEF FailureWrite
      <3>5. CASE local[c].state # "OPEN" /\ ~Trips(local[c])
        <4>1. local[c].state = "CLOSED"
          BY <3>2, <3>5 DEF Trips, State
        <4>2. /\ redis' = Counted(local[c])
              /\ failures' = UpTo(FailureThreshold, failures + 1)
          BY <2>8, <3>1, <3>5 DEF FailureWrite, WriteState
        <4>3. Counted(local[c]).count = UpTo(FailureThreshold, local[c].count + 1)
          BY <3>2 DEF Counted, State
        <4>4. local[c].count = failures /\ failures < FailureThreshold
          BY <3>1, <4>1 DEF HeldCount
        <4>5. Counted(local[c]).count < FailureThreshold
          BY <3>2, <3>5, <4>3 DEF Trips, State, UpTo
        <4>6. QED
          BY <3>0, <4>2, <4>3, <4>4, <4>5 DEF ThresholdTrips
      <3>6. QED
        BY <3>3, <3>4, <3>5
    <2>9. ASSUME NEW c \in Callers, CallReject(c) \/ CallPass(c)
          PROVE  ThresholdTrips' /\ HeldCount'
      <3>1. HeldCount'
        BY <2>2, <2>9 DEF CallReject, CallPass, InSection
      <3>2. QED
        BY <2>9, <3>1 DEF CallReject, CallPass, ThresholdTrips
    <2>10. ASSUME NEW c \in Callers, CallEnter(c) \/ RecordRead(c)
           PROVE  ThresholdTrips' /\ HeldCount'
      <3>1. \A d \in Callers : ~InSection(d)
        BY <2>10, NoneAssumption
        DEF CallEnter, RecordRead, Acquire, LockInv, SoleOwner, OneReplica
      <3>2. local' = [local EXCEPT ![c] = redis] /\ UNCHANGED <<redis, failures>>
        BY <2>10 DEF CallEnter, RecordRead, ReadState, LockInv, FreshCopy
      <3>3. \A d \in Callers : InSection(d)' => d = c
        BY <2>10, <3>1 DEF CallEnter, RecordRead, GoTo, InSection, LockInv, TypeOK
      <3>4. QED
        BY <3>2, <3>3 DEF HeldCount, ThresholdTrips, LockInv, TypeOK
    <2>11. ASSUME NEW c \in Callers, ProviderAnswers(c) \/ NeutralOutcome(c)
           PROVE  ThresholdTrips' /\ HeldCount'
      <3>1. \A d \in Callers : InSection(d)' => InSection(d)
        BY <2>11 DEF ProviderAnswers, ProviderSucceeds, ProviderFails, NeutralOutcome,
                     Waiting, GoTo, InSection, LockInv, TypeOK
      <3>2. UNCHANGED <<redis, local, failures>>
        BY <2>11 DEF ProviderAnswers, ProviderSucceeds, ProviderFails, NeutralOutcome
      <3>3. QED
        BY <3>1, <3>2 DEF HeldCount, ThresholdTrips
    <2>12. ASSUME NEW m \in Monitors, PollRead(m) \/ PollWrite(m)
           PROVE  ThresholdTrips' /\ HeldCount'
      BY <2>12 DEF PollRead, PollWrite, ThresholdTrips, HeldCount, InSection,
                   LockInv, FreshCopy
    <2>13. CASE Tick
      <3>1. \A s \in State : Aged(s).state = s.state /\ Aged(s).count = s.count
        BY DEF Aged, State
      <3>2. QED
        BY <2>13, <3>1 DEF Tick, ThresholdTrips, HeldCount, InSection, LockInv, TypeOK
    <2>14. ASSUME NEW r \in Replicas, Restart(r) PROVE ThresholdTrips' /\ HeldCount'
      BY <2>14 DEF Restart, ThresholdTrips, HeldCount, InSection
    <2>15. CASE UNCHANGED vars
      BY <2>15 DEF vars, ThresholdTrips, HeldCount, InSection
    <2>16. ~RedisChanges
      BY DEF RedisChanges, OneReplica
    <2>17. QED
      BY <2>3, <2>4, <2>6, <2>7, <2>8, <2>9, <2>10, <2>11, <2>12, <2>13, <2>14,
         <2>15, <2>16
      DEF Next, CallerStep, Decide, Settle, Environment
  <1>3. QED
    BY <1>1, <1>2, LockOrders, PTL DEF Spec

=============================================================================
