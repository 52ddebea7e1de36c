-------------------------- MODULE CacheManagerProofs --------------------------
(***************************************************************************)
(* Proofs about CacheManager.                                              *)
(***************************************************************************)
EXTENDS CacheManager, SequenceTheorems, TLAPS

-----------------------------------------------------------------------------
(* L1 as a list without repeated keys.                                     *)

Distinct(s) == \A i, j \in DOMAIN s : s[i].key = s[j].key => i = j

L1OK(s) == s \in Seq(Entry) /\ Len(s) <= Capacity /\ Distinct(s)

\* RemoveAt(s, n) is s without its n-th element.
LEMMA RemoveAtProperties ==
    ASSUME NEW S, NEW s \in Seq(S), NEW n \in 1 .. Len(s)
    PROVE  /\ RemoveAt(s, n) \in Seq(S)
           /\ Len(RemoveAt(s, n)) = Len(s) - 1
           /\ \A i \in 1 .. Len(s) - 1 :
                 RemoveAt(s, n)[i] = IF i < n THEN s[i] ELSE s[i + 1]
<1> DEFINE a == SubSeq(s, 1, n - 1)
           b == SubSeq(s, n + 1, Len(s))
<1>1. /\ Len(s) \in Nat /\ n \in Nat /\ 1 <= n /\ n <= Len(s)
      /\ \A i \in 1 .. Len(s) : s[i] \in S
  BY LenProperties
<1>2. /\ a \in Seq(S) /\ Len(a) = n - 1
      /\ \A i \in 1 .. n - 1 : a[i] = s[i]
  BY <1>1, SubSeqProperties
<1>3. /\ b \in Seq(S) /\ Len(b) = Len(s) - n
      /\ \A i \in 1 .. Len(s) - n : b[i] = s[n + i]
  <2>1. \A i \in n + 1 .. Len(s) : s[i] \in S
    BY <1>1
  <2>2. /\ b \in Seq(S)
        /\ Len(b) = IF n + 1 <= Len(s) THEN Len(s) - (n + 1) + 1 ELSE 0
        /\ \A i \in 1 .. Len(s) - (n + 1) + 1 : b[i] = s[n + 1 + i - 1]
    BY <1>1, <2>1, SubSeqProperties
  <2> HIDE DEF b
  <2>3. Len(b) = Len(s) - n
    BY <1>1, <2>2
  <2>4. ASSUME NEW i \in 1 .. Len(s) - n
        PROVE  b[i] = s[n + i]
    <3>1. i \in 1 .. Len(s) - (n + 1) + 1 /\ n + 1 + i - 1 = n + i
      BY <1>1
    <3> QED
      BY <2>2, <3>1
  <2> QED
    BY <2>2, <2>3, <2>4
<1>4. RemoveAt(s, n) = a \o b
  BY DEF RemoveAt
<1> HIDE DEF a, b
<1>5. /\ a \o b \in Seq(S) /\ Len(a \o b) = Len(a) + Len(b)
      /\ \A i \in 1 .. Len(a) + Len(b) :
            (a \o b)[i] = IF i <= Len(a) THEN a[i] ELSE b[i - Len(a)]
  BY <1>2, <1>3, ConcatProperties
<1>6. Len(a) + Len(b) = Len(s) - 1
  BY <1>1, <1>2, <1>3
<1>7. ASSUME NEW i \in 1 .. Len(s) - 1
      PROVE  (a \o b)[i] = IF i < n THEN s[i] ELSE s[i + 1]
  <2>1. (a \o b)[i] = IF i <= Len(a) THEN a[i] ELSE b[i - Len(a)]
    BY <1>5, <1>6
  <2>2. CASE i < n
    <3>1. i <= Len(a) /\ i \in 1 .. n - 1
      BY <1>1, <1>2, <2>2
    <3> QED
      BY <1>2, <2>1, <2>2, <3>1
  <2>3. CASE ~(i < n)
    <3>1. ~(i <= Len(a)) /\ i - Len(a) \in 1 .. Len(s) - n /\ n + (i - Len(a)) = i + 1
      BY <1>1, <1>2, <2>3
    <3> QED
      BY <1>3, <2>1, <2>3, <3>1
  <2> QED
    BY <2>2, <2>3
<1> QED
  BY <1>4, <1>5, <1>6, <1>7

\* Taking out one entry keeps the list without repeated keys.
LEMMA RemoveAtDistinct ==
    ASSUME NEW s \in Seq(Entry), Distinct(s), NEW n \in DOMAIN s
    PROVE  /\ RemoveAt(s, n) \in Seq(Entry)
           /\ Len(RemoveAt(s, n)) = Len(s) - 1
           /\ Distinct(RemoveAt(s, n))
           /\ \A i \in DOMAIN RemoveAt(s, n) : RemoveAt(s, n)[i].key # s[n].key
<1> DEFINE r == RemoveAt(s, n)
<1>1. Len(s) \in Nat /\ DOMAIN s = 1 .. Len(s) /\ n \in 1 .. Len(s)
  BY LenProperties
<1>2. /\ r \in Seq(Entry) /\ Len(r) = Len(s) - 1
      /\ \A i \in 1 .. Len(s) - 1 : r[i] = IF i < n THEN s[i] ELSE s[i + 1]
  BY <1>1, RemoveAtProperties
<1>3. DOMAIN r = 1 .. Len(s) - 1
  BY <1>2, LenProperties
<1> HIDE DEF r
<1>4. Distinct(r)
  <2> SUFFICES ASSUME NEW i \in 1 .. Len(s) - 1, NEW j \in 1 .. Len(s) - 1,
                      r[i].key = r[j].key
               PROVE  i = j
    BY <1>3 DEF Distinct
  <2> DEFINE u == IF i < n THEN i ELSE i + 1
             v == IF j < n THEN j ELSE j + 1
  <2>1. u \in DOMAIN s /\ v \in DOMAIN s /\ r[i] = s[u] /\ r[j] = s[v]
    BY <1>1, <1>2
  <2>2. u = v
    BY <2>1 DEF Distinct
  <2> QED
    BY <2>2, <1>1
<1>5. ASSUME NEW i \in DOMAIN r
      PROVE  r[i].key # s[n].key
  <2> DEFINE u == IF i < n THEN i ELSE i + 1
  <2>1. u \in DOMAIN s /\ r[i] = s[u] /\ u # n
    BY <1>1, <1>2, <1>3
  <2> QED
    BY <2>1 DEF Distinct
<1> QED
  BY <1>2, <1>4, <1>5 DEF r

\* A key found in L1 is found at its place.
LEMMA PlaceFound ==
    ASSUME NEW k, Holds(k)
    PROVE  Place(k) \in DOMAIN l1 /\ l1[Place(k)].key = k
BY DEF Holds, Place

\* Without(k) is a list without repeated keys in which k has no entry.
LEMMA WithoutDistinct ==
    ASSUME L1OK(l1), NEW k
    PROVE  /\ Without(k) \in Seq(Entry) /\ Distinct(Without(k))
           /\ Len(Without(k)) <= Len(l1)
           /\ Holds(k) => Len(Without(k)) < Len(l1)
           /\ \A i \in DOMAIN Without(k) : Without(k)[i].key # k
<1>0. Len(l1) \in Nat
  BY LenProperties DEF L1OK
<1>1. CASE Holds(k)
  <2>1. Without(k) = RemoveAt(l1, Place(k))
    BY <1>1 DEF Without
  <2>2. Place(k) \in DOMAIN l1 /\ l1[Place(k)].key = k
    BY <1>1, PlaceFound
  <2>3. l1 \in Seq(Entry) /\ Distinct(l1)
    BY DEF L1OK
  <2>4. /\ RemoveAt(l1, Place(k)) \in Seq(Entry)
        /\ Len(RemoveAt(l1, Place(k))) = Len(l1) - 1
        /\ Distinct(RemoveAt(l1, Place(k)))
        /\ \A i \in DOMAIN RemoveAt(l1, Place(k)) : RemoveAt(l1, Place(k))[i].key # l1[Place(k)].key
    BY <2>2, <2>3, RemoveAtDistinct
  <2> QED
    BY <1>0, <2>1, <2>2, <2>4
<1>2. CASE ~Holds(k)
  BY <1>0, <1>2 DEF Without, L1OK, Holds
<1> QED
  BY <1>1, <1>2

\* An entry for a key that has none yet can be appended.
LEMMA AppendDistinct ==
    ASSUME NEW s \in Seq(Entry), Distinct(s), NEW e \in Entry,
           \A i \in DOMAIN s : s[i].key # e.key
    PROVE  /\ Append(s, e) \in Seq(Entry) /\ Distinct(Append(s, e))
           /\ Len(Append(s, e)) = Len(s) + 1
<1>1. /\ Append(s, e) \in Seq(Entry) /\ Len(Append(s, e)) = Len(s) + 1
      /\ \A i \in 1 .. Len(s) : Append(s, e)[i] = s[i]
      /\ Append(s, e)[Len(s) + 1] = e
  BY AppendProperties
<1>2. /\ Len(s) \in Nat /\ DOMAIN s = 1 .. Len(s)
      /\ DOMAIN Append(s, e) = 1 .. Len(s) + 1
  BY <1>1, LenProperties
<1> QED
  BY <1>1, <1>2 DEF Distinct

\* get() of a key in L1 keeps it a list within its capacity.
LEMMA TouchedOK ==
    ASSUME L1OK(l1), NEW k, Holds(k)
    PROVE  L1OK(Touched(k))
<1>1. Len(l1) \in Nat /\ \A i \in DOMAIN l1 : l1[i] \in Entry
  BY LenProperties DEF L1OK
<1>2. Place(k) \in DOMAIN l1 /\ l1[Place(k)].key = k
  BY PlaceFound
<1> DEFINE e == [key |-> k, val |-> L1Value(k)]
<1>3. e \in Entry /\ e.key = k
  BY <1>1, <1>2 DEF L1Value, Entry
<1>4. /\ Append(Without(k), e) \in Seq(Entry) /\ Distinct(Append(Without(k), e))
      /\ Len(Append(Without(k), e)) = Len(Without(k)) + 1
  <2> HIDE DEF e
  <2> QED
    BY <1>3, WithoutDistinct, AppendDistinct
<1>5. Len(Without(k)) \in Nat /\ Len(Without(k)) < Len(l1)
  BY WithoutDistinct, LenProperties
<1> QED
  BY <1>1, <1>4, <1>5, CapacityAssumption DEF L1OK, Touched

\* set() keeps L1 a list within its capacity.
LEMMA L1WithOK ==
    ASSUME L1OK(l1), NEW k \in Keys, NEW v \in Versions
    PROVE  L1OK(L1With(k, v))
<1> DEFINE full == ~Holds(k) /\ Len(l1) >= Capacity
           kept == IF full THEN Tail(l1) ELSE Without(k)
           e == [key |-> k, val |-> v]
<1>0. l1 \in Seq(Entry) /\ Len(l1) \in Nat /\ Len(l1) <= Capacity
      /\ DOMAIN l1 = 1 .. Len(l1) /\ Distinct(l1)
  BY LenProperties DEF L1OK
<1>1. /\ kept \in Seq(Entry) /\ Distinct(kept) /\ Len(kept) < Capacity
      /\ \A i \in DOMAIN kept : kept[i].key # k
  <2>1. CASE full
    <3>1. l1 # <<>>
      BY <2>1, <1>0, CapacityAssumption
    <3>2. /\ Tail(l1) \in Seq(Entry) /\ Len(Tail(l1)) = Len(l1) - 1
          /\ \A i \in 1 .. Len(Tail(l1)) : Tail(l1)[i] = l1[i + 1]
      BY <1>0, <3>1, HeadTailProperties
    <3>3. DOMAIN Tail(l1) = 1 .. Len(l1) - 1
      BY <3>2, LenProperties
    <3>4. Distinct(Tail(l1))
      BY <1>0, <3>2, <3>3 DEF Distinct
    <3>5. \A i \in DOMAIN Tail(l1) : Tail(l1)[i].key # k
      BY <2>1, <1>0, <3>2, <3>3 DEF Holds
    <3>6. kept = Tail(l1) /\ Len(l1) - 1 < Capacity
      BY <2>1, <1>0, CapacityAssumption
    <3> QED
      BY <3>2, <3>4, <3>5, <3>6
  <2>2. CASE ~full /\ Holds(k)
    <3>1. Len(Without(k)) \in Nat
      BY WithoutDistinct, LenProperties
    <3> QED
      BY <2>2, <1>0, <3>1, WithoutDistinct, CapacityAssumption
  <2>3. CASE ~full /\ ~Holds(k)
    <3>1. kept = l1
      BY <2>3 DEF Without
    <3>2. Len(l1) < Capacity
      BY <2>3, <1>0, CapacityAssumption
    <3> QED
      BY <2>3, <3>1, <3>2, <1>0 DEF Holds
  <2> QED
    BY <2>1, <2>2, <2>3
<1>2. e \in Entry /\ e.key = k
  BY DEF Entry
<1>3. L1With(k, v) = Append(kept, e)
  BY DEF L1With
<1>4. Len(kept) \in Nat
  BY <1>1, LenProperties
<1> HIDE DEF kept, e
<1>5. /\ Append(kept, e) \in Seq(Entry) /\ Distinct(Append(kept, e))
      /\ Len(Append(kept, e)) = Len(kept) + 1
  BY <1>1, <1>2, AppendDistinct
<1> QED
  BY <1>1, <1>3, <1>4, <1>5, CapacityAssumption DEF L1OK

-----------------------------------------------------------------------------
(* The inductive invariant.                                                *)

\* The steps in which a task holds a value for its key.
HoldingSteps == {"found", "asking TTL", "restoring", "restored",
                 "fetched", "storing", "archiving"}

TiersOK ==
    /\ L1OK(l1)
    /\ l2 \in [Keys -> Versions \cup {None}] /\ l2Up \in BOOLEAN
    /\ l3 \in [Keys -> Versions \cup {None}] /\ hasL3 \in BOOLEAN
    /\ source \in [Keys -> Versions]

TasksOK ==
    /\ inFlight \subseteq Keys /\ refreshing \subseteq Keys
    /\ pc \in [Tasks -> Steps]
    /\ key \in [Tasks -> Keys \cup {None}]
    /\ val \in [Tasks -> Versions \cup {None}]
    /\ answer \in [Tasks -> Outcomes \cup {None}]

\* A task that is under way works on a key, and holds a version of it
\* exactly where the code has one at hand.
AtWork ==
    \A t \in Tasks :
        /\ pc[t] # "idle" => key[t] \in Keys
        /\ pc[t] \in HoldingSteps => val[t] \in Versions

\* What is awaited is in _in_flight, what is led too, and by one task.
InFlightOK ==
    /\ \A t \in Tasks : Leads(t) \/ Waits(t) => key[t] \in inFlight
    /\ \A t, u \in Tasks : Leads(t) /\ Leads(u) /\ key[u] = key[t] => u = t

IInv == TiersOK /\ TasksOK /\ AtWork /\ InFlightOK

\* What the conjuncts of TypeOK say of L1 is L1OK.
LEMMA TypeSplit == TypeOK <=> TiersOK /\ TasksOK
BY DEF TypeOK, TiersOK, TasksOK, L1OK, Distinct

LEMMA InitOK == Init => IInv
<1> SUFFICES ASSUME Init
             PROVE  IInv
  OBVIOUS
<1>1. L1OK(<<>>)
  BY CapacityAssumption, EmptySeq DEF L1OK, Distinct
<1>2. TiersOK
  BY <1>1, VersionAssumption DEF Init, TiersOK, Versions
<1>3. TasksOK /\ AtWork /\ InFlightOK
  BY DEF Init, TasksOK, AtWork, InFlightOK, Steps, HoldingSteps, Leads, Waits, LeaderSteps
<1> QED
  BY <1>2, <1>3 DEF IInv

\* The tiers hold versions, whatever step is taken.
LEMMA TiersStep == IInv /\ [Next]_vars => TiersOK'
<1> SUFFICES ASSUME IInv, [Next]_vars
             PROVE  TiersOK'
  OBVIOUS
<1> USE DEF IInv
<1> DEFINE Rest == /\ l2' \in [Keys -> Versions \cup {None}] /\ l2Up' \in BOOLEAN
                   /\ l3' \in [Keys -> Versions \cup {None}] /\ hasL3' \in BOOLEAN
                   /\ source' \in [Keys -> Versions]
<1>0. L1OK(l1') /\ Rest => TiersOK'
  BY DEF TiersOK, L1OK, Distinct
<1>1. ASSUME UNCHANGED tiers
      PROVE  TiersOK'
  BY <1>1 DEF tiers, TiersOK, L1OK, Distinct
<1>2. ASSUME NEW k \in Keys, NEW v \in Versions, l1' = L1With(k, v)
      PROVE  L1OK(l1')
  BY <1>2, L1WithOK DEF TiersOK
<1>3. ASSUME NEW t \in Tasks, pc[t] # "idle"
      PROVE  key[t] \in Keys /\ (pc[t] \in HoldingSteps => val[t] \in Versions)
  BY <1>3 DEF AtWork
<1>4. CASE UNCHANGED vars
  BY <1>1, <1>4 DEF vars, tiers
<1>5. ASSUME NEW t \in Tasks, TaskStep(t)
      PROVE  TiersOK'
  <2>1. ASSUME NEW k \in Keys, GetL1Hit(t, k)
        PROVE  TiersOK'
    <3>1. L1OK(l1')
      BY <2>1, TouchedOK DEF GetL1Hit, TiersOK
    <3> QED
      BY <2>1, <3>1, <1>0 DEF GetL1Hit, TiersOK
  <2>2. ASSUME NEW k \in Keys, InvalidateL1(t, k)
        PROVE  TiersOK'
    <3>1. L1OK(l1')
      <4>1. /\ Without(k) \in Seq(Entry) /\ Distinct(Without(k))
            /\ Len(Without(k)) <= Len(l1)
        BY WithoutDistinct DEF TiersOK
      <4>2. Len(Without(k)) \in Nat /\ Len(l1) \in Nat
        BY <4>1, LenProperties DEF TiersOK, L1OK
      <4> QED
        BY <2>2, <4>1, <4>2, CapacityAssumption DEF InvalidateL1, TiersOK, L1OK
    <3> QED
      BY <2>2, <3>1, <1>0 DEF InvalidateL1, TiersOK
  <2>3. CASE FillFromL2(t)
    <3>1. L1OK(l1')
      BY <2>3, <1>2, <1>3 DEF FillFromL2, HoldingSteps
    <3> QED
      BY <2>3, <3>1, <1>0 DEF FillFromL2, TiersOK
  <2>4. CASE RestoreL2(t)
    BY <2>4, <1>0, <1>3 DEF RestoreL2, TiersOK, HoldingSteps
  <2>5. CASE RestoreL1(t)
    <3>1. L1OK(l1')
      BY <2>5, <1>2, <1>3 DEF RestoreL1, HoldingSteps
    <3> QED
      BY <2>5, <3>1, <1>0 DEF RestoreL1, TiersOK
  <2>6. CASE StoreL2(t)
    BY <2>6, <1>0, <1>3 DEF StoreL2, TiersOK, HoldingSteps
  <2>7. CASE StoreL1(t)
    <3>1. L1OK(l1')
      BY <2>7, <1>2, <1>3 DEF StoreL1, HoldingSteps
    <3> QED
      BY <2>7, <3>1, <1>0 DEF StoreL1, TiersOK
  <2>8. CASE StoreL3(t)
    BY <2>8, <1>0, <1>3 DEF StoreL3, TiersOK, HoldingSteps
  <2>9. CASE InvalidateL2(t)
    BY <2>9, <1>0, <1>3 DEF InvalidateL2, TiersOK
  <2>10. CASE (\E k \in Keys : GetL1Miss(t, k)) \/ L2Hit(t) \/ L2Miss(t) \/ AskTTL(t)
    BY <2>10, <1>1 DEF GetL1Miss, L2Hit, L2Miss, AskTTL
  <2>11. CASE L3Hit(t) \/ L3Miss(t) \/ Join(t) \/ Lead(t)
    BY <2>11, <1>1 DEF L3Hit, L3Miss, Join, Lead
  <2>12. CASE ProviderAnswers(t) \/ ProviderRaises(t) \/ Cancel(t)
    BY <2>12, <1>1 DEF ProviderAnswers, ProviderRaises, Cancel
  <2> QED
    BY <1>5, <2>1, <2>2, <2>3, <2>4, <2>5, <2>6, <2>7, <2>8, <2>9, <2>10, <2>11, <2>12
    DEF TaskStep, Lookup, Fetch
<1>6. CASE Environment
  <2>1. CASE RedisChanges
    BY <2>1, <1>0 DEF RedisChanges, TiersOK
  <2>2. ASSUME NEW k \in Keys, Expire(k)
        PROVE  TiersOK'
    BY <2>2, <1>0 DEF Expire, TiersOK
  <2>3. ASSUME NEW k \in Keys, SourceChanges(k)
        PROVE  TiersOK'
    <3>1. source[k] + 1 \in Versions
      BY <2>3, VersionAssumption DEF SourceChanges, TiersOK, Versions
    <3> QED
      BY <2>3, <3>1, <1>0 DEF SourceChanges, TiersOK
  <2>4. ASSUME NEW k \in Keys, BackgroundRefresh(k)
        PROVE  TiersOK'
    BY <2>4, <1>1 DEF BackgroundRefresh
  <2> QED
    BY <1>6, <2>1, <2>2, <2>3, <2>4 DEF Environment
<1> QED
  BY <1>4, <1>5, <1>6 DEF Next

\* The end of a fetch leaves nobody in it: its leader and its waiters are
\* idle, the other tasks stay where they are.
LEMMA ResolveStep ==
    ASSUME IInv, NEW t \in Tasks, Leads(t), NEW outcome \in Outcomes,
           Resolve(t, outcome), UNCHANGED refreshing
    PROVE  TasksOK' /\ AtWork' /\ InFlightOK'
<1> USE DEF IInv
<1> DEFINE S == Sharing(t)
<1>1. S \subseteq Tasks /\ t \in S /\ \A u \in Tasks : Waits(u) /\ key[u] = key[t] => u \in S
  BY DEF Sharing
<1>2. \A u \in Tasks :
          /\ u \in S => pc'[u] = "idle" /\ key'[u] = None /\ val'[u] = None
          /\ u \notin S => pc'[u] = pc[u] /\ key'[u] = key[u] /\ val'[u] = val[u]
  BY <1>1 DEF Resolve, EndFetch
<1>3. TasksOK'
  BY DEF Resolve, EndFetch, TasksOK, Steps
<1> HIDE DEF S
<1>4. AtWork'
  <2>1. ASSUME NEW u \in Tasks
        PROVE  /\ pc'[u] # "idle" => key'[u] \in Keys
               /\ pc'[u] \in HoldingSteps => val'[u] \in Versions
    <3>1. CASE u \in S
      BY <1>2, <3>1 DEF HoldingSteps
    <3>2. CASE u \notin S
      BY <1>2, <3>2 DEF AtWork
    <3> QED
      BY <3>1, <3>2
  <2> QED
    BY <2>1 DEF AtWork
<1>5. \A u \in Tasks : Leads(u)' \/ Waits(u)' =>
          u \notin S /\ pc'[u] = pc[u] /\ key'[u] = key[u]
  BY <1>2 DEF Leads, Waits, LeaderSteps
<1>6. \A u \in Tasks : Leads(u)' \/ Waits(u)' => key[u] # key[t]
  BY <1>1, <1>5 DEF InFlightOK, Leads, Waits
<1>7. InFlightOK'
  BY <1>5, <1>6 DEF InFlightOK, Resolve, Leads, Waits
<1> QED
  BY <1>3, <1>4, <1>7

\* No step breaks what the tasks rely on.
LEMMA TasksStep == IInv /\ [Next]_vars => TasksOK' /\ AtWork' /\ InFlightOK'
<1> SUFFICES ASSUME IInv, [Next]_vars
             PROVE  TasksOK' /\ AtWork' /\ InFlightOK'
  OBVIOUS
<1> DEFINE Goal == TasksOK' /\ AtWork' /\ InFlightOK'
<1> USE DEF IInv
<1>1. CASE UNCHANGED vars
  BY <1>1 DEF vars, TasksOK, AtWork, InFlightOK, Leads, Waits
<1>2. CASE Environment
  BY <1>2 DEF Environment, RedisChanges, Expire, SourceChanges, BackgroundRefresh,
              tiers, TasksOK, AtWork, InFlightOK, Leads, Waits
<1>3. ASSUME NEW t \in Tasks, TaskStep(t)
      PROVE  Goal
  <2> USE ValueAssumption DEF TasksOK, AtWork, InFlightOK, Leads, Waits, LeaderSteps,
                              HoldingSteps, Steps, GoTo, Hold, Return, tiers
  <2>1. ASSUME NEW k \in Keys, GetL1Hit(t, k)
        PROVE  Goal
    BY <2>1 DEF GetL1Hit
  <2>2. ASSUME NEW k \in Keys, GetL1Miss(t, k)
        PROVE  Goal
    BY <2>2 DEF GetL1Miss
  <2>3. ASSUME NEW k \in Keys, InvalidateL1(t, k)
        PROVE  Goal
    BY <2>3 DEF InvalidateL1
  <2>4. CASE L2Hit(t)
    BY <2>4 DEF L2Hit, TiersOK
  <2>5. CASE L2Miss(t)
    BY <2>5 DEF L2Miss
  <2>6. CASE AskTTL(t)
    BY <2>6 DEF AskTTL
  <2>7. CASE FillFromL2(t)
    BY <2>7 DEF FillFromL2
  <2>8. CASE L3Hit(t)
    BY <2>8 DEF L3Hit, TiersOK
  <2>9. CASE L3Miss(t)
    BY <2>9 DEF L3Miss
  <2>10. CASE RestoreL2(t)
    BY <2>10 DEF RestoreL2
  <2>11. CASE RestoreL1(t)
    BY <2>11 DEF RestoreL1
  <2>12. CASE Join(t)
    BY <2>12 DEF Join
  <2>13. CASE Lead(t)
    BY <2>13 DEF Lead
  <2>14. CASE ProviderAnswers(t)
    BY <2>14 DEF ProviderAnswers, TiersOK
  <2>15. CASE ProviderRaises(t)
    BY <2>15, ResolveStep DEF ProviderRaises, Outcomes
  <2>16. CASE StoreL2(t)
    BY <2>16 DEF StoreL2
  <2>17. CASE StoreL1(t)
    <3>1. CASE hasL3
      BY <2>17, <3>1 DEF StoreL1
    <3>2. CASE ~hasL3
      BY <2>17, <3>2, ResolveStep DEF StoreL1, Outcomes
    <3> QED
      BY <3>1, <3>2
  <2>18. CASE StoreL3(t)
    BY <2>18, ResolveStep DEF StoreL3, Outcomes
  <2>19. CASE InvalidateL2(t)
    BY <2>19 DEF InvalidateL2
  <2>20. CASE Cancel(t)
    BY <2>20 DEF Cancel
  <2> QED
    BY <1>3, <2>1, <2>2, <2>3, <2>4, <2>5, <2>6, <2>7, <2>8, <2>9, <2>10, <2>11,
       <2>12, <2>13, <2>14, <2>15, <2>16, <2>17, <2>18, <2>19, <2>20
    DEF TaskStep, Lookup, Fetch
<1> QED
  BY <1>1, <1>2, <1>3 DEF Next

LEMMA Inductive == Spec => []IInv
<1>1. IInv /\ [Next]_vars => IInv'
  BY TiersStep, TasksStep DEF IInv
<1> QED
  BY <1>1, InitOK, PTL DEF Spec

\* The cache, L1 with its capacity and its one entry per key included,
\* holds what the code can store in it, for every number of tasks and keys.
THEOREM TypeCorrect == Spec => []TypeOK
BY Inductive, TypeSplit, PTL DEF IInv

\* _fetch_with_coalescing() never lets two fetches of a key run side by
\* side, whatever the tiers answer and whoever is cancelled.
THEOREM NeverTwoFetches == Spec => []OneFetchPerKey
<1>1. IInv => OneFetchPerKey
  BY DEF IInv, InFlightOK, OneFetchPerKey
<1> QED
  BY <1>1, Inductive, PTL

-----------------------------------------------------------------------------
(* The cache implements CoalescedFetch.                                    *)

Leaders == [k \in Keys |-> LeaderOf(k)]
WaitersOf(k) == {t \in Tasks : Waits(t) /\ key[t] = k}
Waiters == [k \in Keys |-> WaitersOf(k)]

\* The choice in LeaderOf is determined: a key has one leader at most.
LeaderKnown ==
    \A k \in Keys :
        /\ \A t \in Tasks : Leads(t) /\ key[t] = k => LeaderOf(k) = t
        /\ (\A t \in Tasks : ~(Leads(t) /\ key[t] = k)) =>
               LeaderOf(k) = IF k \in inFlight THEN Lost ELSE None

LEMMA LeaderDetermined == IInv => LeaderKnown
<1> SUFFICES ASSUME IInv, NEW k \in Keys
             PROVE  /\ \A t \in Tasks : Leads(t) /\ key[t] = k => LeaderOf(k) = t
                    /\ (\A t \in Tasks : ~(Leads(t) /\ key[t] = k)) =>
                           LeaderOf(k) = IF k \in inFlight THEN Lost ELSE None
  BY DEF LeaderKnown
<1>1. ASSUME NEW t \in Tasks, Leads(t), key[t] = k
      PROVE  LeaderOf(k) = t
  <2>1. \A u \in Tasks : Leads(u) /\ key[u] = k => u = t
    BY <1>1 DEF IInv, InFlightOK
  <2>2. LeaderOf(k) = CHOOSE u \in Tasks : Leads(u) /\ key[u] = k
    BY <1>1 DEF LeaderOf
  <2> QED
    BY <1>1, <2>1, <2>2
<1>2. ASSUME \A t \in Tasks : ~(Leads(t) /\ key[t] = k)
      PROVE  LeaderOf(k) = IF k \in inFlight THEN Lost ELSE None
  BY <1>2 DEF LeaderOf
<1> QED
  BY <1>1, <1>2

\* The same in the next state.
LEMMA LeaderDeterminedNext == IInv' => LeaderKnown'
BY LeaderDetermined, PTL

\* The leader CoalescedFetch sees is a task exactly when a task leads, and
\* None exactly when the key is not in _in_flight.
LEMMA LeaderKinds ==
    ASSUME IInv, NEW k \in Keys
    PROVE  /\ LeaderOf(k) = None <=> k \notin inFlight
           /\ LeaderOf(k) \in Tasks => Leads(LeaderOf(k)) /\ key[LeaderOf(k)] = k
<1>1. LeaderKnown
  BY LeaderDetermined
<1>2. CASE \E t \in Tasks : Leads(t) /\ key[t] = k
  <2>1. PICK t \in Tasks : Leads(t) /\ key[t] = k
    BY <1>2
  <2>2. LeaderOf(k) = t /\ k \in inFlight
    BY <1>1, <2>1 DEF LeaderKnown, IInv, InFlightOK
  <2> QED
    BY <2>1, <2>2, ValueAssumption
<1>3. CASE \A t \in Tasks : ~(Leads(t) /\ key[t] = k)
  <2>1. LeaderOf(k) = IF k \in inFlight THEN Lost ELSE None
    BY <1>1, <1>3 DEF LeaderKnown
  <2> QED
    BY <2>1, ValueAssumption
<1> QED
  BY <1>2, <1>3

\* A task is busy for CoalescedFetch when it leads or waits.
LEMMA BusyTasks ==
    ASSUME IInv, NEW t \in Tasks
    PROVE  t \in Promise!Busy <=> Leads(t) \/ Waits(t)
<1>1. ASSUME t \in Promise!Busy
      PROVE  Leads(t) \/ Waits(t)
  <2>1. PICK k \in Keys : t = Leaders[k] \/ t \in Waiters[k]
    BY <1>1 DEF Promise!Busy, Leaders, Waiters, WaitersOf
  <2> QED
    BY <2>1, LeaderKinds DEF Leaders, Waiters, WaitersOf
<1>2. ASSUME Leads(t) \/ Waits(t)
      PROVE  t \in Promise!Busy
  <2>1. key[t] \in Keys
    BY <1>2 DEF IInv, InFlightOK, TasksOK
  <2>2. Leads(t) => LeaderOf(key[t]) = t
    BY <2>1, LeaderDetermined DEF LeaderKnown
  <2>3. \E k \in Keys : t = Leaders[k] \/ t \in Waiters[k]
    BY <1>2, <2>1, <2>2 DEF Leaders, Waiters, WaitersOf
  <2> QED
    BY <2>3 DEF Promise!Busy, Leaders, Waiters, WaitersOf
<1> QED
  BY <1>1, <1>2

\* Leaders and waiters stay while nobody starts, joins or leaves a fetch.
Undisturbed(u) ==
    /\ Leads(u)' <=> Leads(u)
    /\ Waits(u)' <=> Waits(u)
    /\ Leads(u) \/ Waits(u) => key'[u] = key[u]

\* For the key k task u is after the step what it was before.
SameFor(u, k) ==
    /\ (Leads(u) /\ key[u] = k)' <=> (Leads(u) /\ key[u] = k)
    /\ (Waits(u) /\ key[u] = k)' <=> (Waits(u) /\ key[u] = k)

LEMMA LeadersStay ==
    ASSUME IInv, IInv', NEW k \in Keys, (k \in inFlight)' <=> k \in inFlight,
           \A u \in Tasks : (Leads(u) /\ key[u] = k)' <=> (Leads(u) /\ key[u] = k)
    PROVE  LeaderOf(k)' = LeaderOf(k)
BY LeaderDetermined, LeaderDeterminedNext DEF LeaderKnown

LEMMA QuietStep ==
    ASSUME IInv, IInv', inFlight' = inFlight, \A u \in Tasks : Undisturbed(u)
    PROVE  Leaders' = Leaders /\ Waiters' = Waiters
<1>1. ASSUME NEW k \in Keys
      PROVE  LeaderOf(k)' = LeaderOf(k) /\ WaitersOf(k)' = WaitersOf(k)
  <2>1. \A u \in Tasks : SameFor(u, k)
    BY DEF Undisturbed, SameFor, Leads, Waits
  <2>2. LeaderOf(k)' = LeaderOf(k)
    BY <2>1, LeadersStay DEF SameFor
  <2>3. WaitersOf(k)' = WaitersOf(k)
    BY <2>1 DEF WaitersOf, SameFor
  <2> QED
    BY <2>2, <2>3
<1> QED
  BY <1>1 DEF Leaders, Waiters

\* A step of one task that neither leads nor waits, before or after it.
LEMMA OtherTask ==
    ASSUME IInv, NEW t \in Tasks, NEW to \in Steps, GoTo(t, to),
           pc[t] \in LeaderSteps <=> to \in LeaderSteps,
           pc[t] # "waiting", to # "waiting",
           NEW k, key' = [key EXCEPT ![t] = k],
           pc[t] \in LeaderSteps => k = key[t]
    PROVE  \A u \in Tasks : Undisturbed(u)
BY DEF IInv, TasksOK, GoTo, Undisturbed, Leads, Waits

\* Settling the future is Finish of CoalescedFetch.
LEMMA ResolveFinishes ==
    ASSUME IInv, IInv', NEW t \in Tasks, Leads(t), NEW outcome \in Outcomes,
           Resolve(t, outcome), NEW k, k = key[t]
    PROVE  Promise!Next
<1>1. k \in Keys /\ k \in inFlight
  BY DEF IInv, InFlightOK, TasksOK
<1>2. LeaderOf(k) = t
  BY <1>1, LeaderDetermined DEF LeaderKnown
<1>3. Sharing(t) \subseteq Tasks /\ t \in Sharing(t)
      /\ \A u \in Tasks : u \in Sharing(t) <=> u = t \/ (Waits(u) /\ key[u] = k)
  BY DEF Sharing
<1>4. \A u \in Tasks :
          /\ u \in Sharing(t) => pc'[u] = "idle"
          /\ u \notin Sharing(t) => pc'[u] = pc[u] /\ key'[u] = key[u]
  BY <1>3 DEF Resolve, EndFetch
<1>5. \A u \in Tasks : Leads(u)' \/ Waits(u)' => key'[u] # k
  <2>1. k \notin inFlight'
    BY DEF Resolve
  <2> QED
    BY <2>1 DEF IInv, InFlightOK
<1>6. \A u \in Tasks : u \in Sharing(t) => (Leads(u) \/ Waits(u)) /\ key[u] = k
  BY <1>3 DEF Sharing
<1>7. LeaderOf(k)' = None
  BY <1>1, <1>5, LeaderDeterminedNext DEF LeaderKnown, Resolve
<1>8. WaitersOf(k)' = {}
  BY <1>5 DEF WaitersOf
<1>9. ASSUME NEW m \in Keys, m # k
      PROVE  LeaderOf(m)' = LeaderOf(m) /\ WaitersOf(m)' = WaitersOf(m)
  <2>1. \A u \in Tasks : SameFor(u, m)
    <3> SUFFICES ASSUME NEW u \in Tasks
                 PROVE  SameFor(u, m)
      OBVIOUS
    <3>1. CASE u \in Sharing(t)
      BY <1>4, <1>6, <1>9, <3>1 DEF SameFor, Leads, Waits, LeaderSteps
    <3>2. CASE u \notin Sharing(t)
      BY <1>4, <3>2 DEF SameFor, Leads, Waits
    <3> QED
      BY <3>1, <3>2
  <2>2. (m \in inFlight)' <=> m \in inFlight
    BY <1>9 DEF Resolve
  <2>3. LeaderOf(m)' = LeaderOf(m)
    BY <2>1, <2>2, LeadersStay DEF SameFor
  <2>4. WaitersOf(m)' = WaitersOf(m)
    BY <2>1 DEF WaitersOf, SameFor
  <2> QED
    BY <2>3, <2>4
<1>10. Leaders' = [Leaders EXCEPT ![k] = None]
  BY <1>1, <1>7, <1>9 DEF Leaders
<1>11. Waiters' = [Waiters EXCEPT ![k] = {}]
  BY <1>1, <1>8, <1>9 DEF Waiters
<1>12. answer' = [u \in Tasks |-> IF u = Leaders[k] \/ u \in Waiters[k]
                                    THEN outcome ELSE answer[u]]
  <2>1. \A u \in Tasks : u \in Sharing(t) <=> u = Leaders[k] \/ u \in Waiters[k]
    BY <1>1, <1>2, <1>3 DEF Leaders, Waiters, WaitersOf
  <2>2. answer' = [u \in Tasks |-> IF u \in Sharing(t) THEN outcome ELSE answer[u]]
    BY DEF Resolve, EndFetch
  <2> QED
    BY <2>1, <2>2
<1>13. Leaders[k] \in Tasks
  BY <1>1, <1>2 DEF Leaders
<1>14. Promise!Finish(k, outcome)
  BY <1>10, <1>11, <1>12, <1>13 DEF Promise!Finish, Leaders, Waiters, WaitersOf
<1> QED
  BY <1>1, <1>14 DEF Promise!Next

\* A new leader: the key was not in _in_flight, so CoalescedFetch has none.
LEMMA LeadMaps ==
    ASSUME IInv, IInv', NEW t \in Tasks, Lead(t), NEW k, k = key[t]
    PROVE  Promise!Next
<1>1. k \in Keys /\ k \notin inFlight /\ ~Leads(t) /\ ~Waits(t)
  BY DEF Lead, IInv, AtWork, Leads, Waits, LeaderSteps
<1>2. /\ pc' = [pc EXCEPT ![t] = "fetching"] /\ key' = key /\ answer' = answer
      /\ inFlight' = inFlight \cup {k} /\ pc \in [Tasks -> Steps]
  BY DEF Lead, GoTo, tiers, IInv, TasksOK
<1>3. LeaderOf(k) = None
  BY <1>1, LeaderKinds
<1>4. LeaderOf(k)' = t
  BY <1>1, <1>2, LeaderDeterminedNext DEF LeaderKnown, Leads, LeaderSteps
<1>5. \A u \in Tasks : (Waits(u) /\ key[u] = k)' <=> Waits(u) /\ key[u] = k
  BY <1>1, <1>2 DEF Waits
<1>6. WaitersOf(k)' = WaitersOf(k)
  BY <1>5 DEF WaitersOf
<1>7. ASSUME NEW m \in Keys, m # k
      PROVE  LeaderOf(m)' = LeaderOf(m) /\ WaitersOf(m)' = WaitersOf(m)
  <2>1. \A u \in Tasks : SameFor(u, m)
    BY <1>1, <1>2, <1>7 DEF SameFor, Leads, Waits, LeaderSteps
  <2>2. LeaderOf(m)' = LeaderOf(m)
    BY <1>2, <1>7, <2>1, LeadersStay DEF SameFor
  <2> QED
    BY <2>1, <2>2 DEF WaitersOf, SameFor
<1>8. Leaders' = [Leaders EXCEPT ![k] = t] /\ Waiters' = Waiters /\ Leaders[k] = None
  BY <1>1, <1>3, <1>4, <1>6, <1>7 DEF Leaders, Waiters
<1>9. t \notin Promise!Busy
  BY <1>1, BusyTasks
<1>10. Promise!Lead(t, k)
  BY <1>2, <1>8, <1>9 DEF Promise!Lead, Leaders, Waiters, WaitersOf
<1> QED
  BY <1>1, <1>10 DEF Promise!Next

\* Whoever finds the key in _in_flight joins a fetch that has a leader, or
\* had one.
LEMMA JoinMaps ==
    ASSUME IInv, IInv', NEW t \in Tasks, Join(t), NEW k, k = key[t]
    PROVE  Promise!Next
<1>1. k \in Keys /\ k \in inFlight /\ ~Leads(t) /\ ~Waits(t)
  BY DEF Join, IInv, AtWork, Leads, Waits, LeaderSteps
<1>2. /\ pc' = [pc EXCEPT ![t] = "waiting"] /\ key' = key /\ answer' = answer
      /\ inFlight' = inFlight /\ pc \in [Tasks -> Steps]
  BY DEF Join, GoTo, tiers, IInv, TasksOK
<1>3. LeaderOf(k) # None
  BY <1>1, LeaderKinds
<1>4. \A u \in Tasks : Leads(u)' <=> Leads(u)
  BY <1>1, <1>2 DEF Leads, LeaderSteps
<1>5. \A m \in Keys : LeaderOf(m)' = LeaderOf(m)
  BY <1>2, <1>4, LeadersStay
<1>6. WaitersOf(k)' = WaitersOf(k) \cup {t}
  BY <1>1, <1>2 DEF WaitersOf, Waits
<1>7. \A m \in Keys : m # k => WaitersOf(m)' = WaitersOf(m)
  <2> SUFFICES ASSUME NEW m \in Keys, m # k
               PROVE  WaitersOf(m)' = WaitersOf(m)
    OBVIOUS
  <2>1. \A u \in Tasks : (Waits(u) /\ key[u] = m)' <=> Waits(u) /\ key[u] = m
    BY <1>1, <1>2 DEF Waits
  <2> QED
    BY <2>1 DEF WaitersOf
<1>8. /\ Leaders' = Leaders /\ Leaders[k] # None
      /\ Waiters' = [Waiters EXCEPT ![k] = Waiters[k] \cup {t}]
  BY <1>1, <1>3, <1>5, <1>6, <1>7 DEF Leaders, Waiters
<1>9. t \notin Promise!Busy
  BY <1>1, BusyTasks
<1>10. Promise!Join(t, k)
  BY <1>2, <1>8, <1>9 DEF Promise!Join, Leaders, Waiters, WaitersOf
<1> QED
  BY <1>1, <1>10 DEF Promise!Next

\* A cancelled task leaves the fetch it waits for, or loses the one it leads;
\* elsewhere nobody notices.
LEMMA CancelMaps ==
    ASSUME IInv, IInv', NEW t \in Tasks, Cancel(t), NEW k, k = key[t]
    PROVE  Promise!Next \/ (Leaders' = Leaders /\ Waiters' = Waiters /\ answer' = answer)
<1>1. /\ pc' = [pc EXCEPT ![t] = "idle"] /\ key' = [key EXCEPT ![t] = None]
      /\ answer' = answer /\ inFlight' = inFlight
      /\ pc \in [Tasks -> Steps] /\ key \in [Tasks -> Keys \cup {None}] /\ k \in Keys
  BY DEF Cancel, Return, GoTo, tiers, IInv, TasksOK, AtWork
<1>2. /\ \A u \in Tasks : u # t => Undisturbed(u)
      /\ ~Leads(t)' /\ ~Waits(t)'
  BY <1>1 DEF Undisturbed, Leads, Waits, LeaderSteps
<1>3. ASSUME NEW m \in Keys, m # k \/ ~Leads(t)
      PROVE  LeaderOf(m)' = LeaderOf(m)
  <2>1. \A u \in Tasks : (Leads(u) /\ key[u] = m)' <=> (Leads(u) /\ key[u] = m)
    BY <1>1, <1>2, <1>3 DEF Undisturbed
  <2> QED
    BY <1>1, <2>1, LeadersStay
<1>4. ASSUME NEW m \in Keys, m # k \/ ~Waits(t)
      PROVE  WaitersOf(m)' = WaitersOf(m)
  <2>1. \A u \in Tasks : (Waits(u) /\ key[u] = m)' <=> (Waits(u) /\ key[u] = m)
    BY <1>1, <1>2, <1>4 DEF Undisturbed
  <2> QED
    BY <2>1 DEF WaitersOf
<1>5. CASE Leads(t)
  <2>1. ~Waits(t)
    BY <1>5 DEF Leads, Waits, LeaderSteps
  <2>2. LeaderOf(k) = t
    BY <1>1, <1>5, LeaderDetermined DEF LeaderKnown
  <2>3. \A u \in Tasks : ~(Leads(u) /\ key[u] = k)'
    <3>1. \A u \in Tasks : u # t /\ Leads(u) => key[u] # k
      BY <1>5 DEF IInv, InFlightOK
    <3> QED
      BY <1>2, <3>1 DEF Undisturbed
  <2>4. LeaderOf(k)' = Lost
    <3>1. k \in inFlight'
      BY <1>1, <1>5 DEF IInv, InFlightOK
    <3> QED
      BY <1>1, <2>3, <3>1, LeaderDeterminedNext DEF LeaderKnown
  <2>5. /\ Leaders' = [Leaders EXCEPT ![k] = Lost] /\ Waiters' = Waiters
        /\ Leaders[k] \in Tasks
    BY <1>1, <1>3, <1>4, <2>1, <2>2, <2>4 DEF Leaders, Waiters
  <2>6. Promise!Lose(k)
    BY <1>1, <2>5 DEF Promise!Lose, Leaders, Waiters, WaitersOf
  <2> QED
    BY <1>1, <2>6 DEF Promise!Next
<1>6. CASE Waits(t)
  <2>1. ~Leads(t)
    BY <1>6 DEF Leads, Waits, LeaderSteps
  <2>2. WaitersOf(k)' = WaitersOf(k) \ {t} /\ t \in WaitersOf(k)
    BY <1>1, <1>2, <1>6 DEF WaitersOf, Undisturbed
  <2>3. /\ Leaders' = Leaders /\ t \in Waiters[k]
        /\ Waiters' = [Waiters EXCEPT ![k] = Waiters[k] \ {t}]
    BY <1>1, <1>3, <1>4, <2>1, <2>2 DEF Leaders, Waiters
  <2>4. Promise!Leave(t, k)
    BY <1>1, <2>3 DEF Promise!Leave, Leaders, Waiters, WaitersOf
  <2> QED
    BY <1>1, <2>4 DEF Promise!Next
<1>7. CASE ~Leads(t) /\ ~Waits(t)
  BY <1>1, <1>3, <1>4, <1>7 DEF Leaders, Waiters
<1> QED
  BY <1>5, <1>6, <1>7

\* Every step of the cache is a step of CoalescedFetch or goes unnoticed.
LEMMA StepMaps ==
    IInv /\ IInv' /\ [Next]_vars =>
        Promise!Next \/ (Leaders' = Leaders /\ Waiters' = Waiters /\ answer' = answer)
<1> SUFFICES ASSUME IInv, IInv', [Next]_vars
             PROVE  Promise!Next \/ (Leaders' = Leaders /\ Waiters' = Waiters /\ answer' = answer)
  OBVIOUS
<1> DEFINE Unnoticed == Leaders' = Leaders /\ Waiters' = Waiters /\ answer' = answer
<1>0. pc \in [Tasks -> Steps] /\ key \in [Tasks -> Keys \cup {None}]
  BY DEF IInv, TasksOK
<1>1. ASSUME UNCHANGED <<inFlight, pc, key, answer>>
      PROVE  Unnoticed
  BY <1>1, QuietStep DEF Undisturbed, Leads, Waits
<1>2. CASE UNCHANGED vars
  BY <1>1, <1>2 DEF vars
<1>3. CASE Environment
  BY <1>1, <1>3 DEF Environment, RedisChanges, Expire, SourceChanges, BackgroundRefresh, tiers
<1>4. ASSUME NEW t \in Tasks, TaskStep(t)
      PROVE  Promise!Next \/ Unnoticed
  <2>1. ASSUME NEW k \in Keys, GetL1Hit(t, k) \/ GetL1Miss(t, k) \/ InvalidateL1(t, k)
        PROVE  Promise!Next
    <3>1. /\ pc[t] = "idle" /\ inFlight' = inFlight
          /\ answer' = [answer EXCEPT ![t] = None]
          /\ \A u \in Tasks : u # t => pc'[u] = pc[u] /\ key'[u] = key[u]
          /\ pc'[t] \in {"idle", "asking", "purging"}
      BY <1>0, <2>1 DEF GetL1Hit, GetL1Miss, InvalidateL1, GoTo, tiers
    <3>2. \A u \in Tasks : Undisturbed(u)
      BY <3>1 DEF Undisturbed, Leads, Waits, LeaderSteps
    <3>3. Leaders' = Leaders /\ Waiters' = Waiters
      BY <3>1, <3>2, QuietStep
    <3>4. t \notin Promise!Busy
      BY <3>1, BusyTasks DEF Leads, Waits, LeaderSteps
    <3>5. Promise!Forget(t)
      BY <3>1, <3>3, <3>4 DEF Promise!Forget, Leaders, Waiters, WaitersOf
    <3> QED
      BY <3>5 DEF Promise!Next
  <2>2. ASSUME inFlight' = inFlight, answer' = answer, pc[t] \notin LeaderSteps \cup {"waiting"},
               \A u \in Tasks : u # t => pc'[u] = pc[u] /\ key'[u] = key[u],
               pc'[t] \notin LeaderSteps \cup {"waiting"}
        PROVE  Unnoticed
    <3>1. \A u \in Tasks : Undisturbed(u)
      BY <2>2 DEF Undisturbed, Leads, Waits
    <3> QED
      BY <2>2, <3>1, QuietStep
  <2>3. CASE Lookup(t) \/ InvalidateL2(t)
    <3>1. /\ inFlight' = inFlight /\ answer' = answer /\ pc[t] \notin LeaderSteps \cup {"waiting"}
          /\ pc'[t] \notin LeaderSteps \cup {"waiting"}
      BY <1>0, <2>3 DEF Lookup, L2Hit, L2Miss, AskTTL, FillFromL2, L3Hit, L3Miss, RestoreL2,
                  RestoreL1, InvalidateL2, GoTo, Return, tiers, LeaderSteps
    <3>2. \A u \in Tasks : u # t => pc'[u] = pc[u] /\ key'[u] = key[u]
      BY <1>0, <2>3 DEF Lookup, L2Hit, L2Miss, AskTTL, FillFromL2, L3Hit, L3Miss, RestoreL2,
                  RestoreL1, InvalidateL2, GoTo, Return, tiers
    <3> QED
      BY <2>2, <3>1, <3>2
  <2>4. ASSUME inFlight' = inFlight, answer' = answer, key' = key, Leads(t), Leads(t)',
               \A u \in Tasks : u # t => pc'[u] = pc[u]
        PROVE  Unnoticed
    <3>1. \A u \in Tasks : Undisturbed(u)
      BY <2>4 DEF Undisturbed, Leads, Waits, LeaderSteps
    <3> QED
      BY <2>4, <3>1, QuietStep
  <2>5. CASE ProviderAnswers(t) \/ StoreL2(t)
    BY <1>0, <2>4, <2>5 DEF ProviderAnswers, StoreL2, GoTo, tiers, Leads, LeaderSteps
  <2>6. CASE StoreL1(t)
    <3>1. Leads(t) /\ val[t] \in Outcomes
      BY <2>6 DEF StoreL1, Leads, LeaderSteps, IInv, AtWork, HoldingSteps, Outcomes
    <3>2. CASE hasL3
      BY <1>0, <2>4, <2>6, <3>1, <3>2 DEF StoreL1, GoTo, Leads, LeaderSteps
    <3>3. CASE ~hasL3
      BY <2>6, <3>1, <3>3, ResolveFinishes DEF StoreL1
    <3> QED
      BY <3>2, <3>3
  <2>7. CASE StoreL3(t)
    <3>1. Leads(t) /\ val[t] \in Outcomes
      BY <2>7 DEF StoreL3, Leads, LeaderSteps, IInv, AtWork, HoldingSteps, Outcomes
    <3> QED
      BY <2>7, <3>1, ResolveFinishes DEF StoreL3
  <2>8. CASE ProviderRaises(t)
    BY <2>8, ResolveFinishes DEF ProviderRaises, Leads, LeaderSteps, Outcomes
  <2>9. CASE Lead(t)
    BY <2>9, LeadMaps
  <2>10. CASE Join(t)
    BY <2>10, JoinMaps
  <2>11. CASE Cancel(t)
    BY <2>11, CancelMaps
  <2> QED
    BY <1>4, <2>1, <2>3, <2>5, <2>6, <2>7, <2>8, <2>9, <2>10, <2>11 DEF TaskStep, Fetch
<1> QED
  BY <1>2, <1>3, <1>4 DEF Next

\* For any number of callers, keys and faults, whatever the three tiers do:
\* get() implements CoalescedFetch, so a fetch of _fetch_with_coalescing()
\* gives its leader and all its waiters the same value or exception.
THEOREM Implements == Spec => Coalesces
<1>1. Init => Promise!Init
  BY ValueAssumption DEF Init, Promise!Init, LeaderOf, Leads, Waits, LeaderSteps
<1>2. IInv /\ IInv' /\ [Next]_vars => [Promise!Next]_(Promise!vars)
  BY StepMaps DEF Promise!vars, Leaders, Waiters, WaitersOf
<1> QED
  BY <1>1, <1>2, Inductive, PTL DEF Spec, Promise!Spec, Coalesces

=============================================================================
