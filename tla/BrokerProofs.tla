----------------------------- MODULE BrokerProofs ------------------------------
(***************************************************************************)
(* Proofs about the broker modules.  BrokerStream: for all four adapters   *)
(* and any number of calls and failures.  BrokerSession: logins do not     *)
(* overlap while nothing has gone wrong, for any number of workers and     *)
(* requests and whatever the broker expires meanwhile.                     *)
(***************************************************************************)
EXTENDS BrokerStream, BrokerSession, WellFoundedInduction, TLAPS

-----------------------------------------------------------------------------
(* BrokerStream.                                                           *)

StreamTypes ==
    /\ adapter \in {"angel_one", "upstox", "binance", "delta"}
    /\ running \in BOOLEAN /\ ws \in BOOLEAN /\ up \in BOOLEAN
    /\ loop \in {"none", "auth", "connecting", "receiving", "backoff", "done"}
    /\ op \in {"none", "unsubscribe", "disconnect"}
    /\ attempts \in Nat /\ sinceOpen \in Nat

\* Who is suspended in unsubscribe() belongs to a running adapter, who is in
\* disconnect() to one that is not.
CallsFit ==
    /\ op = "unsubscribe" => running
    /\ op = "disconnect" => ~running
    /\ op # "unsubscribe" => arg = {}

\* A loop that receives has a handle: subscribe() will not return early.
HasHandle == loop = "receiving" => ws

\* What is wanted is live, but for what an unsubscribe() is about to forget.
LiveOrLeaving == loop = "receiving" /\ up /\ running => want \ arg \subseteq live

\* What the loop counts has happened, and a connection that was cut off
\* without a close frame has not been counted yet.
Counted ==
    ResetsOnConnect(adapter) =>
        /\ attempts <= sinceOpen
        /\ loop = "receiving" /\ ~up /\ ended \in {"error", "silent"} /\ running =>
               attempts < sinceOpen

\* A connection that is open has not ended.
OpenOrEnded == loop = "receiving" /\ up => ended = "no"

StreamInv == /\ StreamTypes /\ CallsFit /\ HasHandle /\ LiveOrLeaving /\ Counted
        /\ OpenOrEnded /\ StoppedIsQuiet /\ EndsInARow

-----------------------------------------------------------------------------

LEMMA InitStream == StreamInit => StreamInv
<1> SUFFICES ASSUME StreamInit PROVE StreamInv
  OBVIOUS
<1>1. StreamTypes
  BY AdapterAssumption DEF StreamInit, StreamTypes
<1>2. CallsFit /\ HasHandle /\ LiveOrLeaving /\ Counted /\ OpenOrEnded
  BY DEF StreamInit, CallsFit, HasHandle, LiveOrLeaving, Counted, OpenOrEnded
<1>3. StoppedIsQuiet /\ EndsInARow
  BY DEF StreamInit, StoppedIsQuiet, EndsInARow
<1> QED BY <1>1, <1>2, <1>3 DEF StreamInv

LEMMA FirstStates == ASSUME NEW a PROVE First(a) \in {"auth", "connecting"}
BY DEF First

\* Calls that leave the loop, the handle and running alone.
LEMMA SubscriptionKeeps ==
    ASSUME StreamInv,
           UNCHANGED <<adapter, running, loop, ws, up, ended, attempts, sinceOpen>>,
           CallsFit', LiveOrLeaving',
           op' \in {"none", "unsubscribe"}, op \in {"none", "unsubscribe"}
    PROVE  StreamInv'
<1>1. StreamTypes' /\ HasHandle' /\ Counted' /\ OpenOrEnded' /\ EndsInARow'
  BY DEF StreamInv, StreamTypes, HasHandle, Counted, OpenOrEnded, EndsInARow
<1>2. StoppedIsQuiet'
  BY DEF StreamInv, StoppedIsQuiet, CallsFit
<1> QED BY <1>1, <1>2 DEF StreamInv

LEMMA SubscribeKeeps == ASSUME StreamInv, Subscribe \/ SubscribeMeanwhile PROVE StreamInv'
<1>1. /\ UNCHANGED <<adapter, running, loop, ws, up, ended, attempts, sinceOpen, op, arg>>
      /\ op \in {"none", "unsubscribe"}
      /\ \E S \in SUBSET Instruments : /\ want' = S
                                  /\ live' = IF ws /\ up THEN live \cup S ELSE live
  BY DEF Subscribe, SubscribeMeanwhile, Call
<1>2. CallsFit'
  BY <1>1 DEF StreamInv, CallsFit
<1>3. LiveOrLeaving'
  BY <1>1 DEF StreamInv, HasHandle, LiveOrLeaving
<1> QED BY <1>1, <1>2, <1>3, SubscriptionKeeps

LEMMA UnsubscribeKeeps ==
    ASSUME StreamInv, UnsubscribeInVain \/ UnsubscribeSend \/ UnsubscribeForget
    PROVE  StreamInv'
<1>1. CASE UnsubscribeInVain
  <2>1. /\ UNCHANGED <<adapter, running, loop, ws, up, ended, attempts, sinceOpen, op, arg>>
        /\ UNCHANGED <<want, live>> /\ op = "none"
    BY <1>1 DEF UnsubscribeInVain, Call
  <2>2. CallsFit' /\ LiveOrLeaving'
    BY <2>1 DEF StreamInv, CallsFit, LiveOrLeaving
  <2> QED BY <2>1, <2>2, SubscriptionKeeps
<1>2. CASE UnsubscribeSend
  <2>1. /\ UNCHANGED <<adapter, running, loop, ws, up, ended, attempts, sinceOpen, want>>
        /\ op = "none" /\ op' = "unsubscribe" /\ ws /\ live' = live \ arg'
    BY <1>2 DEF UnsubscribeSend, Call, Sends
  <2>2. running /\ arg = {}
    BY <2>1 DEF StreamInv, StreamTypes, StoppedIsQuiet, CallsFit
  <2>3. CallsFit' /\ LiveOrLeaving'
    BY <2>1, <2>2 DEF StreamInv, CallsFit, LiveOrLeaving
  <2> QED BY <2>1, <2>3, SubscriptionKeeps
<1>3. CASE UnsubscribeForget
  <2>1. /\ UNCHANGED <<adapter, running, loop, ws, up, ended, attempts, sinceOpen, live>>
        /\ op = "unsubscribe" /\ op' = "none" /\ arg' = {} /\ want' = want \ arg
    BY <1>3 DEF UnsubscribeForget
  <2>2. CallsFit' /\ LiveOrLeaving'
    BY <2>1 DEF StreamInv, CallsFit, LiveOrLeaving
  <2> QED BY <2>1, <2>2, SubscriptionKeeps
<1> QED BY <1>1, <1>2, <1>3

LEMMA ConnectKeeps == ASSUME StreamInv, Connect PROVE StreamInv'
<1>1. /\ op = "none" /\ op' = op /\ arg' = arg /\ running' = TRUE
      /\ loop' = First(adapter) /\ adapter' = adapter /\ ws' = ws /\ up' = up
      /\ attempts' = (IF adapter = "delta" THEN attempts ELSE 0) /\ sinceOpen' = 0
  BY DEF Connect, Call
<1>2. loop' \in {"auth", "connecting"}
  BY <1>1, FirstStates
<1>3. StreamTypes'
  BY <1>1, <1>2 DEF StreamInv, StreamTypes
<1>4. CallsFit' /\ HasHandle' /\ LiveOrLeaving' /\ Counted' /\ OpenOrEnded'
  BY <1>1, <1>2
     DEF StreamInv, CallsFit, HasHandle, LiveOrLeaving, Counted, OpenOrEnded, ResetsOnConnect
<1>5. StoppedIsQuiet' /\ EndsInARow'
  BY <1>1, <1>2 DEF StoppedIsQuiet, EndsInARow
<1> QED BY <1>3, <1>4, <1>5 DEF StreamInv

LEMMA DisconnectKeeps == ASSUME StreamInv, DisconnectBegin \/ DisconnectEnd PROVE StreamInv'
<1>1. CASE DisconnectBegin
  <2>1. /\ op = "none" /\ op' = "disconnect" /\ running' = FALSE
        /\ UNCHANGED <<adapter, loop, ws, attempts, sinceOpen, arg>>
        /\ up' = FALSE \/ UNCHANGED <<up, ended>>
    BY <1>1 DEF DisconnectBegin, Call
  <2>2. up' \in BOOLEAN
    BY <2>1 DEF StreamInv, StreamTypes
  <2>3. StreamTypes'
    BY <2>1, <2>2 DEF StreamInv, StreamTypes
  <2>4. CallsFit' /\ HasHandle' /\ LiveOrLeaving' /\ Counted' /\ StoppedIsQuiet' /\ EndsInARow'
    BY <2>1 DEF StreamInv, CallsFit, HasHandle, LiveOrLeaving, Counted, StoppedIsQuiet, EndsInARow
  <2>5. OpenOrEnded'
    BY <2>1 DEF StreamInv, OpenOrEnded
  <2> QED BY <2>3, <2>4, <2>5 DEF StreamInv
<1>2. CASE DisconnectEnd
  <2>1. /\ op = "disconnect" /\ op' = "none" /\ loop' = "done" /\ ws' = FALSE /\ up' = FALSE
        /\ UNCHANGED <<adapter, running, attempts, sinceOpen, arg>>
    BY <1>2 DEF DisconnectEnd
  <2>2. ~running
    BY <2>1 DEF StreamInv, CallsFit
  <2> QED BY <2>1, <2>2 DEF StreamInv, StreamTypes, CallsFit, HasHandle, LiveOrLeaving,
                            Counted, OpenOrEnded, StoppedIsQuiet, EndsInARow
<1> QED BY <1>1, <1>2

-----------------------------------------------------------------------------
(* The loop.                                                               *)

\* A step of a loop that is alive, and that is not in receiving afterwards.
LEMMA LoopKeeps ==
    ASSUME StreamInv, loop \notin {"none", "done"},
           UNCHANGED <<adapter, running, op, arg>>,
           ws' \in BOOLEAN, up' = up,
           loop' \in {"auth", "connecting", "backoff", "done"},
           attempts' \in Nat, sinceOpen' \in Nat,
           ResetsOnConnect(adapter) => attempts' <= sinceOpen',
           EndsInARow'
    PROVE  StreamInv'
<1>1. StreamTypes'
  BY DEF StreamInv, StreamTypes
<1>2. CallsFit' /\ HasHandle' /\ LiveOrLeaving' /\ Counted' /\ OpenOrEnded'
  BY DEF StreamInv, CallsFit, HasHandle, LiveOrLeaving, Counted, OpenOrEnded
<1>3. StoppedIsQuiet'
  BY DEF StreamInv, StoppedIsQuiet
<1> QED BY <1>1, <1>2, <1>3 DEF StreamInv

LEMMA ConnectedKeeps == ASSUME StreamInv, Connected PROVE StreamInv'
<1>1. /\ loop = "connecting" /\ loop' = "receiving" /\ ws' = TRUE /\ up' = TRUE
      /\ ended' = "no" /\ sinceOpen' = 0
      /\ attempts' = (IF ResetsOnConnect(adapter) THEN 0 ELSE attempts)
      /\ live' = want /\ UNCHANGED <<adapter, running, want, op, arg>>
  BY DEF Connected
<1>2. StreamTypes'
  BY <1>1 DEF StreamInv, StreamTypes
<1>3. CallsFit' /\ HasHandle' /\ LiveOrLeaving' /\ Counted' /\ OpenOrEnded'
  BY <1>1 DEF StreamInv, CallsFit, HasHandle, LiveOrLeaving, Counted, OpenOrEnded
<1>4. StoppedIsQuiet' /\ EndsInARow'
  BY <1>1 DEF StreamInv, StoppedIsQuiet, EndsInARow
<1> QED BY <1>2, <1>3, <1>4 DEF StreamInv

\* The except clause: the loop is stopped, has had enough, or waits.  What it
\* counts now has happened since the last connection.
LEMMA FailureCounts ==
    ASSUME StreamInv, OnFailure, loop \notin {"none", "done"}, UNCHANGED <<adapter, running>>,
           sinceOpen' \in Nat, sinceOpen <= sinceOpen',
           ResetsOnConnect(adapter) /\ running => attempts < sinceOpen'
    PROVE  /\ EndsInARow' /\ attempts' \in Nat /\ loop' \in {"backoff", "done"}
           /\ ResetsOnConnect(adapter) => attempts' <= sinceOpen'
<1>1. attempts \in Nat /\ sinceOpen \in Nat /\ (ResetsOnConnect(adapter) => attempts <= sinceOpen)
  BY DEF StreamInv, StreamTypes, Counted
<1>2. CASE ~running
  BY <1>1, <1>2 DEF OnFailure, EndsInARow
<1>3. CASE running
  <2>1. attempts' = attempts + 1
    BY <1>3 DEF OnFailure
  <2>2. CASE loop' = "backoff"
    BY <1>1, <1>3, <2>1, <2>2 DEF EndsInARow
  <2>3. CASE GivesUp(adapter) /\ attempts' > MaxReconnect /\ loop' = "done"
    BY <1>1, <1>3, <2>1, <2>3, CapAssumption DEF EndsInARow, LastAttempt, GivesUp
  <2>4. CASE /\ GivesUp(adapter) => attempts' <= MaxReconnect
             /\ attempts' - 1 >= FloatLimit /\ loop' = "done"
    <3>1. ~GivesUp(adapter) /\ attempts' > FloatLimit
      BY <1>1, <2>1, <2>4, CapAssumption
    <3> QED BY <1>1, <1>3, <2>1, <2>4, <3>1, CapAssumption DEF EndsInARow, LastAttempt, GivesUp
  <2> QED BY <1>3, <2>2, <2>3, <2>4 DEF OnFailure
<1> QED BY <1>2, <1>3

LEMMA FailureKeeps == ASSUME StreamInv, AttemptFails \/ LoopFails PROVE StreamInv'
<1>1. /\ loop \notin {"none", "done"} /\ OnFailure /\ ws' = ws
      /\ UNCHANGED <<adapter, running, up, op, arg>>
  BY DEF AttemptFails, LoopFails
<1>2. attempts \in Nat /\ sinceOpen \in Nat /\ ws \in BOOLEAN
  BY DEF StreamInv, StreamTypes
<1>3. /\ sinceOpen' \in Nat /\ sinceOpen <= sinceOpen'
      /\ ResetsOnConnect(adapter) /\ running => attempts < sinceOpen'
  <2>1. CASE AttemptFails
    BY <1>2, <2>1 DEF AttemptFails, Failure, StreamInv, Counted
  <2>2. CASE LoopFails
    BY <1>2, <2>2 DEF LoopFails, StreamInv, Counted
  <2> QED BY <2>1, <2>2
<1>4. /\ EndsInARow' /\ attempts' \in Nat /\ loop' \in {"backoff", "done"}
      /\ ResetsOnConnect(adapter) => attempts' <= sinceOpen'
  BY <1>1, <1>3, FailureCounts
<1> QED BY <1>1, <1>2, <1>3, <1>4, LoopKeeps

LEMMA LoopGoesOn == ASSUME StreamInv, UrlFetched \/ BackoffOver \/ LoopEndsInOrder PROVE StreamInv'
<1>1. /\ loop \notin {"none", "done"} /\ UNCHANGED <<adapter, running, up, op, arg, sinceOpen>>
      /\ ws' = ws \/ ws' = FALSE
  BY DEF UrlFetched, BackoffOver, LoopEndsInOrder
<1>2. loop' \in {"auth", "connecting", "done"} /\ (loop' = "done" => ~running)
  BY FirstStates DEF UrlFetched, BackoffOver, LoopEndsInOrder
<1>3. attempts' = attempts \/ (attempts' = 0 /\ ~ResetsOnConnect(adapter))
  BY DEF UrlFetched, BackoffOver, LoopEndsInOrder
<1>4. attempts' \in Nat /\ sinceOpen' \in Nat /\ (ResetsOnConnect(adapter) => attempts' <= sinceOpen')
  BY <1>1, <1>3 DEF StreamInv, StreamTypes, Counted
<1>5. EndsInARow' /\ ws' \in BOOLEAN
  BY <1>1, <1>2 DEF EndsInARow, StreamInv, StreamTypes
<1> QED BY <1>1, <1>2, <1>4, <1>5, LoopKeeps

\* The network: a connection is lost, and the loss is noticed.
LEMMA DropKeeps == ASSUME StreamInv, Drop PROVE StreamInv'
<1>1. /\ up' = FALSE /\ sinceOpen' = sinceOpen + 1
      /\ UNCHANGED <<adapter, running, loop, ws, attempts, op, arg>>
  BY DEF Drop, Failure
<1>2. StreamTypes' /\ Counted'
  <2>1. attempts \in Nat /\ sinceOpen \in Nat
    BY DEF StreamInv, StreamTypes
  <2>2. attempts' \in Nat /\ sinceOpen' \in Nat
    BY <1>1, <2>1
  <2>3. StreamTypes'
    BY <1>1, <2>2 DEF StreamInv, StreamTypes
  <2>4. ResetsOnConnect(adapter) => attempts < sinceOpen + 1
    BY <2>1 DEF StreamInv, Counted
  <2>5. ResetsOnConnect(adapter)' => attempts' <= sinceOpen' /\ attempts' < sinceOpen'
    BY <1>1, <2>1, <2>4
  <2>6. Counted'
    BY <2>5 DEF Counted
  <2> QED BY <2>3, <2>6
<1>3. EndsInARow'
  <2>1. LastAttempt(adapter) \in Nat /\ sinceOpen \in Nat
    BY CapAssumption DEF LastAttempt, StreamInv, StreamTypes
  <2> QED BY <1>1, <2>1 DEF StreamInv, EndsInARow
<1>4. CallsFit' /\ HasHandle' /\ LiveOrLeaving' /\ OpenOrEnded' /\ StoppedIsQuiet'
  BY <1>1 DEF StreamInv, CallsFit, HasHandle, LiveOrLeaving, OpenOrEnded, StoppedIsQuiet
<1> QED BY <1>2, <1>3, <1>4 DEF StreamInv

LEMMA NoticeKeeps == ASSUME StreamInv, Notice PROVE StreamInv'
<1>1. /\ loop = "receiving" /\ ~up /\ ended = "silent" /\ ended' = "error"
      /\ UNCHANGED <<adapter, running, loop, ws, up, attempts, sinceOpen, op, arg>>
  BY DEF Notice
<1> QED BY <1>1 DEF StreamInv, StreamTypes, CallsFit, HasHandle, LiveOrLeaving, Counted,
                    OpenOrEnded, StoppedIsQuiet, EndsInARow

LEMMA NextStream == StreamInv /\ [StreamNext]_streamVars => StreamInv'
<1> SUFFICES ASSUME StreamInv, [StreamNext]_streamVars PROVE StreamInv'
  OBVIOUS
<1>1. CASE UNCHANGED streamVars
  BY <1>1 DEF streamVars, StreamInv, StreamTypes, CallsFit, HasHandle, LiveOrLeaving, Counted,
              OpenOrEnded, StoppedIsQuiet, EndsInARow
<1> QED BY <1>1, SubscribeKeeps, UnsubscribeKeeps, ConnectKeeps, DisconnectKeeps,
           ConnectedKeeps, FailureKeeps, LoopGoesOn, DropKeeps, NoticeKeeps
           DEF StreamNext, LoopStep

-----------------------------------------------------------------------------
(* Theorems.                                                               *)

LEMMA Wanted == StreamInv => WantedIsLive
BY DEF StreamInv, CallsFit, LiveOrLeaving, WantedIsLive

(* What the adapter wants is streamed on every open connection, whichever   *)
(* calls fell into a lost connection, a backoff or a reconnection (the      *)
(* replay of the loop, after a subscribe() whose error was swallowed).      *)
THEOREM WantedAlwaysLive == StreamSpec => []WantedIsLive
BY InitStream, NextStream, Wanted, PTL DEF StreamSpec

(* When disconnect() or stop() has returned there is neither a socket nor a *)
(* handle nor a loop, even if a reconnection completed during its awaits.   *)
THEOREM StopsQuietly == StreamSpec => []StoppedIsQuiet
<1>1. StreamInv => StoppedIsQuiet
  BY DEF StreamInv
<1> QED BY InitStream, NextStream, <1>1, PTL DEF StreamSpec

(* A loop of Angel One, Upstox or Binance ends of its own only after more   *)
(* refusals and losses than its limit since the broker last accepted a      *)
(* connection, whatever the limit and whichever calls came in between.      *)
THEOREM EndsOnlyInARow == StreamSpec => []EndsInARow
<1>1. StreamInv => EndsInARow
  BY DEF StreamInv
<1> QED BY InitStream, NextStream, <1>1, PTL DEF StreamSpec

-----------------------------------------------------------------------------
(* The backoff.  That the powers of two are what their definition says is   *)
(* induction over numbers, made here with the least counterexample.        *)

LessThan == {ss \in Nat \X Nat : ss[1] < ss[2]}

LEMMA LeastNumber ==
    ASSUME NEW S, S \subseteq Nat, S # {}
    PROVE  \E m \in S : \A n \in S : m <= n
<1>1. IsWellFoundedOn(LessThan, Nat)
  BY NatLessThanWellFounded DEF OpToRel, LessThan
<1>2. \E m \in S : \A n \in S : ~ (<<n, m>> \in LessThan)
  BY <1>1, WFMin
<1>3. ASSUME NEW m \in Nat, NEW n \in Nat, ~ (<<n, m>> \in LessThan) PROVE m <= n
  BY <1>3 DEF LessThan
<1> QED BY <1>2, <1>3

\* The powers up to n.
Table(g, n) ==
    /\ g \in [0 .. n -> Nat] /\ g[0] = 1
    /\ \A i \in 1 .. n : g[i] = 2 * g[i - 1]

LEMMA TableExists == ASSUME NEW n \in Nat PROVE \E g : Table(g, n)
<1> DEFINE Without == {k \in Nat : ~ \E g : Table(g, k)}
<1> SUFFICES ASSUME Without # {} PROVE FALSE
  OBVIOUS
<1>1. PICK m \in Without : \A k \in Without : m <= k
  BY LeastNumber
<1>2. CASE m = 0
  <2> DEFINE g == [i \in 0 .. 0 |-> 1]
  <2>1. Table(g, 0)
    BY DEF Table
  <2> QED BY <1>1, <1>2, <2>1
<1>3. CASE m # 0
  <2>1. m \in Nat /\ m - 1 \in Nat /\ m - 1 \notin Without
    BY <1>1, <1>3
  <2>2. PICK g : Table(g, m - 1)
    BY <2>1
  <2> DEFINE h == [i \in 0 .. m |-> IF i = m THEN 2 * g[m - 1] ELSE g[i]]
  <2>3. /\ g \in [0 .. m - 1 -> Nat] /\ g[0] = 1
        /\ \A i \in 1 .. m - 1 : g[i] = 2 * g[i - 1]
    BY <2>2 DEF Table
  <2>4. h \in [0 .. m -> Nat]
    BY <2>1, <2>3
  <2>5. h[0] = 1 /\ h[m] = 2 * h[m - 1]
    BY <1>3, <2>1, <2>3
  <2>6. ASSUME NEW i \in 1 .. m PROVE h[i] = 2 * h[i - 1]
    <3>1. CASE i = m
      BY <2>5, <3>1
    <3>2. CASE i # m
      BY <2>1, <2>3, <3>2
    <3> QED BY <3>1, <3>2
  <2>7. Table(h, m)
    <3> HIDE DEF h
    <3> QED BY <2>4, <2>5, <2>6 DEF Table
  <2> QED BY <1>1, <2>7
<1> QED BY <1>2, <1>3

LEMMA TablesAgree ==
    ASSUME NEW m \in Nat, NEW n \in Nat, m <= n, NEW g, NEW h, Table(g, m), Table(h, n)
    PROVE  \A i \in 0 .. m : g[i] = h[i]
<1> DEFINE Apart == {i \in 0 .. m : g[i] # h[i]}
<1> SUFFICES ASSUME Apart # {} PROVE FALSE
  OBVIOUS
<1>1. PICK i \in Apart : \A j \in Apart : i <= j
  <2>1. Apart \subseteq Nat
    OBVIOUS
  <2> QED BY <2>1, LeastNumber
<1>2. i \in 0 .. m /\ i # 0
  BY <1>1 DEF Table
<1>3. i - 1 \in 0 .. m /\ i - 1 \notin Apart
  BY <1>1, <1>2
<1>4. g[i - 1] = h[i - 1]
  BY <1>3
<1>5. g[i] = 2 * g[i - 1] /\ h[i] = 2 * h[i - 1]
  BY <1>2 DEF Table
<1> QED BY <1>1, <1>4, <1>5

LEMMA PowerDoubles ==
    /\ Power[0] = 1
    /\ \A n \in Nat : Power[n + 1] = 2 * Power[n]
<1> DEFINE G(n) == CHOOSE g : Table(g, n)
           f == [n \in Nat |-> G(n)[n]]
<1>1. \A n \in Nat : Table(G(n), n)
  BY TableExists
<1>2. f[0] = 1
  BY <1>1 DEF Table
<1>3. ASSUME NEW n \in Nat, n # 0 PROVE f[n] = 2 * f[n - 1]
  <2>1. n - 1 \in Nat /\ n - 1 <= n /\ n - 1 \in 0 .. n - 1 /\ n \in 1 .. n
    BY <1>3
  <2>2. Table(G(n), n) /\ Table(G(n - 1), n - 1)
    BY <1>1, <2>1
  <2> HIDE DEF G
  <2>3. G(n)[n] = 2 * G(n)[n - 1]
    BY <2>1, <2>2 DEF Table
  <2>4. G(n - 1)[n - 1] = G(n)[n - 1]
    BY <2>1, <2>2, TablesAgree
  <2>5. f[n] = G(n)[n] /\ f[n - 1] = G(n - 1)[n - 1]
    BY <2>1
  <2> QED BY <2>3, <2>4, <2>5
<1>4. f = [n \in Nat |-> IF n = 0 THEN 1 ELSE 2 * f[n - 1]]
  <2>1. f = [n \in Nat |-> f[n]]
    OBVIOUS
  <2> HIDE DEF f
  <2>2. \A n \in Nat : f[n] = IF n = 0 THEN 1 ELSE 2 * f[n - 1]
    BY <1>2, <1>3
  <2>3. [n \in Nat |-> f[n]] = [n \in Nat |-> IF n = 0 THEN 1 ELSE 2 * f[n - 1]]
    BY <2>2
  <2> QED BY <2>1, <2>3, Zenon
<1> HIDE DEF f
<1>5. Power = [n \in Nat |-> IF n = 0 THEN 1 ELSE 2 * Power[n - 1]]
  BY <1>4 DEF Power
<1>6. \A n \in Nat : Power[n] = IF n = 0 THEN 1 ELSE 2 * Power[n - 1]
  BY <1>5
<1>7. Power[0] = 1
  BY <1>6
<1>8. ASSUME NEW n \in Nat PROVE Power[n + 1] = 2 * Power[n]
  <2>1. n + 1 \in Nat /\ n + 1 # 0 /\ (n + 1) - 1 = n
    OBVIOUS
  <2> QED BY <1>6, <2>1
<1> QED BY <1>7, <1>8

LEMMA PowerIsNat == \A n \in Nat : Power[n] \in Nat
<1> DEFINE Bad == {n \in Nat : Power[n] \notin Nat}
<1> SUFFICES ASSUME Bad # {} PROVE FALSE
  OBVIOUS
<1>1. PICK m \in Bad : \A n \in Bad : m <= n
  BY LeastNumber
<1>2. m # 0 /\ m \in Nat
  BY <1>1, PowerDoubles
<1>3. m - 1 \in Nat /\ m - 1 \notin Bad /\ (m - 1) + 1 = m
  BY <1>1, <1>2
<1>4. Power[m] = 2 * Power[m - 1] /\ Power[m - 1] \in Nat
  <2>1. Power[(m - 1) + 1] = 2 * Power[m - 1]
    BY <1>3, PowerDoubles
  <2> QED BY <1>3, <2>1
<1> QED BY <1>1, <1>4

\* The wait is a number up to the cap, and a further failure does not
\* shorten it.
LEMMA BackoffIsMonotone ==
    ASSUME NEW a \in Adapters, NEW n \in Nat
    PROVE  /\ Backoff(a, n + 1) <= BackoffMax[a]
           /\ n > 0 => Backoff(a, n + 1) >= Backoff(a, n)
<1>1. BackoffMax[a] \in Nat
  BY BackoffAssumption
<1>2. Power[n] \in Nat /\ (n + 1) - 1 = n
  BY PowerIsNat
<1>3. Backoff(a, n + 1) = IF Power[n] > BackoffMax[a] THEN BackoffMax[a] ELSE Power[n]
  BY <1>2 DEF Backoff
<1>4. CASE n > 0
  <2>1. n - 1 \in Nat /\ (n - 1) + 1 = n
    BY <1>4
  <2>2. Power[n - 1] \in Nat /\ Power[(n - 1) + 1] = 2 * Power[n - 1]
    BY <2>1, PowerIsNat, PowerDoubles
  <2>3. Power[n] = 2 * Power[n - 1]
    BY <2>1, <2>2
  <2>4. Backoff(a, n) = IF Power[n - 1] > BackoffMax[a] THEN BackoffMax[a] ELSE Power[n - 1]
    BY DEF Backoff
  <2> QED BY <1>1, <1>2, <1>3, <2>2, <2>3, <2>4
<1>5. CASE ~(n > 0)
  BY <1>1, <1>2, <1>3, <1>5
<1> QED BY <1>4, <1>5

LEMMA BackoffStep ==
    ASSUME StreamInv, adapter \in Adapters, [StreamNext]_streamVars,
           loop' = "backoff", loop # "backoff"
    PROVE  /\ delay' <= BackoffMax[adapter]
           /\ attempts > 0 => delay' >= Backoff(adapter, attempts)
<1>1. OnFailure
  <2>1. \/ AttemptFails \/ LoopFails
        \/ loop' = loop \/ loop' \in {"auth", "connecting", "receiving", "done"}
    <3>1. CASE UNCHANGED streamVars
      BY <3>1 DEF streamVars
    <3>2. CASE StreamNext
      BY <3>2, FirstStates
         DEF StreamNext, Connect, Subscribe, SubscribeMeanwhile, UnsubscribeInVain, UnsubscribeSend,
             UnsubscribeForget, DisconnectBegin, DisconnectEnd, Drop, Notice, LoopStep, UrlFetched, Connected,
             BackoffOver, LoopEndsInOrder
    <3> QED BY <3>1, <3>2
  <2> QED BY <2>1 DEF AttemptFails, LoopFails
<1>2. attempts \in Nat /\ attempts' = attempts + 1 /\ delay' = Backoff(adapter, attempts')
  BY <1>1 DEF OnFailure, StreamInv, StreamTypes
<1>3. delay' = Backoff(adapter, attempts + 1)
  BY <1>2
<1> QED BY <1>2, <1>3, BackoffIsMonotone

LEMMA AdapterStays == adapter \in Adapters /\ [StreamNext]_streamVars => adapter' \in Adapters
BY DEF StreamNext, streamVars, Connect, Subscribe, SubscribeMeanwhile, UnsubscribeInVain,
       UnsubscribeSend, UnsubscribeForget, DisconnectBegin, DisconnectEnd, AttemptFails, Drop, Notice,
       LoopStep, UrlFetched, Connected, BackoffOver, LoopEndsInOrder, LoopFails

(* Each wait before another attempt is at most the adapter's cap, and none   *)
(* is shorter than the one before it while failures follow one another (the  *)
(* min(base * 2 ** (attempts - 1), max) of the four loops).                  *)
THEOREM BackoffAlwaysGrows == StreamSpec => BackoffGrows
<1>1. StreamInit => StreamInv /\ adapter \in Adapters
  BY InitStream DEF StreamInit
<1>2. (StreamInv /\ adapter \in Adapters) /\ [StreamNext]_streamVars
         => (StreamInv /\ adapter \in Adapters)'
  BY NextStream, AdapterStays
<1>3. (StreamInv /\ adapter \in Adapters) /\ [StreamNext]_streamVars
         => [loop' = "backoff" /\ loop # "backoff" =>
               /\ delay' <= BackoffMax[adapter]
               /\ attempts > 0 => delay' >= Backoff(adapter, attempts)]_streamVars
  BY BackoffStep
<1> QED BY <1>1, <1>2, <1>3, PTL DEF StreamSpec, BackoffGrows

-----------------------------------------------------------------------------
(* Types.                                                                  *)

\* A loop that is alive may fail once more.
AliveBelowLast ==
    loop \notin {"none", "done"} /\ adapter # "delta" => attempts <= LastAttempt(adapter)

LastIsNat == LastAttempt(adapter) \in Nat

LEMMA LastAttemptType == LastIsNat
BY CapAssumption DEF LastIsNat, LastAttempt

LEMMA BackoffType == ASSUME NEW a \in Adapters, NEW n \in Nat PROVE Backoff(a, n + 1) \in Nat
<1>1. BackoffMax[a] \in Nat /\ (n + 1) - 1 = n /\ Power[n] \in Nat
  BY BackoffAssumption, PowerIsNat
<1>2. Backoff(a, n + 1) = IF Power[n] > BackoffMax[a] THEN BackoffMax[a] ELSE Power[n]
  BY <1>1 DEF Backoff
<1> QED BY <1>1, <1>2

\* What is published, and the history, apart from the other variables.
SideTypes == announced \in BOOLEAN /\ sinceOpen \in Nat

LEMMA SideStep ==
    ASSUME SideTypes, StreamNext
    PROVE  SideTypes'
<1>1. /\ announced' \in {announced, TRUE, FALSE}
      /\ sinceOpen' \in {sinceOpen, sinceOpen + 1, 0}
  BY DEF StreamNext, Connect, Subscribe, SubscribeMeanwhile, UnsubscribeInVain, UnsubscribeSend,
         UnsubscribeForget, DisconnectBegin, DisconnectEnd, AttemptFails, Drop, Notice, Failure,
         LoopStep, UrlFetched, Connected, BackoffOver, LoopEndsInOrder, LoopFails, OnFailure,
         Announce
<1>2. announced' \in BOOLEAN
  BY <1>1, Zenon DEF SideTypes
<1>3. sinceOpen' \in Nat
  BY <1>1 DEF SideTypes
<1> QED BY <1>2, <1>3 DEF SideTypes

\* The other variables.
LoopTypeOK ==
    /\ adapter \in Adapters
    /\ running \in BOOLEAN
    /\ loop \in {"none", "auth", "connecting", "receiving", "backoff", "done"}
    /\ ws \in BOOLEAN /\ up \in BOOLEAN
    /\ ended \in {"no", "clean", "error", "silent"}
    /\ attempts \in Nat /\ (adapter # "delta" => attempts <= LastAttempt(adapter) + 1)
    /\ delay \in Nat
    /\ want \subseteq Instruments /\ live \subseteq Instruments
    /\ op \in {"none", "unsubscribe", "disconnect"}
    /\ arg \subseteq Instruments
    /\ failures \in 0 .. MaxFailures /\ calls \in 0 .. MaxCalls

LEMMA CallTypes ==
    ASSUME LoopTypeOK, AliveBelowLast,
           Connect \/ Subscribe \/ SubscribeMeanwhile \/ UnsubscribeInVain \/ UnsubscribeSend
             \/ UnsubscribeForget \/ DisconnectBegin \/ DisconnectEnd
    PROVE  LoopTypeOK' /\ AliveBelowLast'
<1>1. CASE Connect
  <2>1. calls' \in 0 .. MaxCalls /\ attempts' \in Nat /\ loop' \in {"auth", "connecting"}
        /\ want' \subseteq Instruments /\ UNCHANGED adapter
        /\ (adapter # "delta" => attempts' = 0)
    BY <1>1, BoundAssumption, FirstStates DEF Connect, Call, LoopTypeOK
  <2>2. adapter # "delta" => attempts' <= LastAttempt(adapter)
    BY <2>1, LastAttemptType DEF LastIsNat
  <2> QED BY <1>1, <2>1, <2>2, LastAttemptType
          DEF Connect, LoopTypeOK, AliveBelowLast, LastIsNat
<1>2. CASE Subscribe \/ SubscribeMeanwhile \/ UnsubscribeInVain \/ UnsubscribeSend
  <2>1. /\ calls' \in 0 .. MaxCalls /\ want' \subseteq Instruments /\ live' \subseteq Instruments
        /\ arg' \subseteq Instruments /\ op' \in {"none", "unsubscribe", "disconnect"}
        /\ UNCHANGED <<adapter, running, loop, ws, up, ended, attempts, delay, failures>>
    BY <1>2, BoundAssumption
       DEF Subscribe, SubscribeMeanwhile, UnsubscribeInVain, UnsubscribeSend, Call, LoopTypeOK
  <2> QED BY <2>1 DEF LoopTypeOK, AliveBelowLast
<1>3. CASE UnsubscribeForget
  BY <1>3 DEF UnsubscribeForget, LoopTypeOK, AliveBelowLast
<1>4. CASE DisconnectBegin
  <2>1. calls' \in 0 .. MaxCalls
    BY <1>4, BoundAssumption DEF DisconnectBegin, Call, LoopTypeOK
  <2> QED BY <1>4, <2>1 DEF DisconnectBegin, LoopTypeOK, AliveBelowLast
<1>5. CASE DisconnectEnd
  BY <1>5 DEF DisconnectEnd, LoopTypeOK, AliveBelowLast
<1> QED BY <1>1, <1>2, <1>3, <1>4, <1>5

LEMMA FailureTypes ==
    ASSUME LoopTypeOK, AliveBelowLast, loop \notin {"none", "done"}, OnFailure, UNCHANGED adapter
    PROVE  /\ attempts' \in Nat /\ delay' \in Nat
           /\ loop' \in {"backoff", "done"}
           /\ adapter # "delta" => attempts' <= LastAttempt(adapter) + 1
           /\ AliveBelowLast'
<1>1. /\ attempts \in Nat /\ delay \in Nat /\ adapter \in Adapters
      /\ LastAttempt(adapter) \in Nat
      /\ adapter # "delta" => attempts <= LastAttempt(adapter)
  BY LastAttemptType DEF LoopTypeOK, AliveBelowLast, LastIsNat
<1>2. CASE ~running
  BY <1>1, <1>2 DEF OnFailure, AliveBelowLast
<1>3. CASE running
  <2>1. attempts' = attempts + 1 /\ attempts' \in Nat
    BY <1>1, <1>3 DEF OnFailure
  <2>2. Backoff(adapter, attempts') \in Nat
    BY <1>1, <2>1, BackoffType
  <2>3. /\ delay' \in Nat /\ loop' \in {"backoff", "done"}
    BY <1>1, <1>3, <2>2 DEF OnFailure
  <2>4. loop' = "backoff" => attempts' <= LastAttempt(adapter)
    <3>1. loop' = "backoff" =>
             (GivesUp(adapter) => attempts' <= MaxReconnect) /\ attempts' - 1 < FloatLimit
      BY <1>3 DEF OnFailure
    <3>2. MaxReconnect \in Nat /\ FloatLimit \in Nat
      BY CapAssumption
    <3> QED BY <1>1, <2>1, <3>1, <3>2 DEF LastAttempt
  <2> QED BY <1>1, <2>1, <2>3, <2>4 DEF AliveBelowLast
<1> QED BY <1>2, <1>3

LEMMA LoopTypes ==
    ASSUME LoopTypeOK, AliveBelowLast, AttemptFails \/ Drop \/ Notice \/ LoopStep
    PROVE  LoopTypeOK' /\ AliveBelowLast'
<1>1. CASE AttemptFails \/ LoopFails
  <2>1. /\ loop \notin {"none", "done"} /\ OnFailure /\ failures' \in 0 .. MaxFailures
        /\ UNCHANGED <<adapter, running, ws, up, ended, want, live, op, arg, calls>>
    BY <1>1, BoundAssumption DEF AttemptFails, LoopFails, Failure, LoopTypeOK
  <2>2. /\ attempts' \in Nat /\ delay' \in Nat
        /\ loop' \in {"backoff", "done"}
        /\ adapter # "delta" => attempts' <= LastAttempt(adapter) + 1
        /\ AliveBelowLast'
    BY <2>1, FailureTypes
  <2> QED BY <2>1, <2>2 DEF LoopTypeOK
<1>2. CASE Drop
  <2>1. failures' \in 0 .. MaxFailures
    BY <1>2, BoundAssumption DEF Drop, Failure, LoopTypeOK
  <2> QED BY <1>2, <2>1 DEF Drop, LoopTypeOK, AliveBelowLast
<1>3. CASE UrlFetched \/ Connected \/ BackoffOver \/ LoopEndsInOrder
  <2>1. /\ loop \notin {"none", "done"}
        /\ UNCHANGED <<adapter, running, want, op, arg, failures, calls>>
        /\ attempts' = attempts \/ attempts' = 0
        /\ delay' = delay \/ delay' = 0
        /\ live' = live \/ live' = want
        /\ loop' \in {"auth", "connecting", "receiving", "done"}
    BY <1>3, FirstStates DEF UrlFetched, Connected, BackoffOver, LoopEndsInOrder
  <2>2. ws' \in BOOLEAN /\ up' \in BOOLEAN /\ ended' \in {"no", "clean", "error", "silent"}
    BY <1>3 DEF UrlFetched, Connected, BackoffOver, LoopEndsInOrder, LoopTypeOK
  <2>3. /\ attempts' \in Nat /\ delay' \in Nat
        /\ adapter # "delta" => attempts' <= LastAttempt(adapter)
    BY <2>1, LastAttemptType DEF LoopTypeOK, AliveBelowLast, LastIsNat
  <2>4. adapter # "delta" => attempts' <= LastAttempt(adapter) + 1
    BY <2>3, LastAttemptType DEF LastIsNat
  <2> QED BY <2>1, <2>2, <2>3, <2>4 DEF LoopTypeOK, AliveBelowLast
<1>4. CASE Notice
  BY <1>4 DEF Notice, LoopTypeOK, AliveBelowLast
<1> QED BY <1>1, <1>2, <1>3, <1>4 DEF LoopStep

(* The variables of an adapter hold what the code stores in them, and the   *)
(* count of failures in a row never passes the one that ends the loop,      *)
(* whatever callers do (Delta's grows on from one start to the next).      *)
THEOREM StreamTypeCorrect == StreamSpec => []StreamTypeOK
<1>1. StreamInit => LoopTypeOK /\ AliveBelowLast
  <2> SUFFICES ASSUME StreamInit PROVE LoopTypeOK /\ AliveBelowLast
    OBVIOUS
  <2>1. attempts \in Nat /\ attempts <= LastAttempt(adapter) + 1
    BY LastAttemptType DEF StreamInit, LastIsNat
  <2>2. failures \in 0 .. MaxFailures /\ calls \in 0 .. MaxCalls /\ delay \in Nat
    BY BoundAssumption DEF StreamInit
  <2> QED BY <2>1, <2>2 DEF StreamInit, LoopTypeOK, AliveBelowLast
<1>2. LoopTypeOK /\ AliveBelowLast /\ [StreamNext]_streamVars
         => LoopTypeOK' /\ AliveBelowLast'
  <2>1. UNCHANGED streamVars /\ LoopTypeOK /\ AliveBelowLast => LoopTypeOK' /\ AliveBelowLast'
    BY DEF streamVars, LoopTypeOK, AliveBelowLast
  <2> QED BY <2>1, CallTypes, LoopTypes DEF StreamNext
<1>3. StreamInit => SideTypes
  <2>1. StreamInit => announced \in BOOLEAN
    BY Zenon DEF StreamInit
  <2>2. StreamInit => sinceOpen \in Nat
    BY DEF StreamInit
  <2> QED BY <2>1, <2>2 DEF SideTypes
<1>4. SideTypes /\ [StreamNext]_streamVars => SideTypes'
  BY SideStep DEF streamVars, SideTypes
<1>5. LoopTypeOK /\ SideTypes => StreamTypeOK
  BY DEF LoopTypeOK, SideTypes, StreamTypeOK
<1> QED BY <1>1, <1>2, <1>3, <1>4, <1>5, PTL DEF StreamSpec

-----------------------------------------------------------------------------
(* BrokerSession.                                                          *)

\* Where a request is inside its worker's asyncio lock.
Inside == {"load", "lock", "wait", "waited", "login", "store", "unlock", "exchange"}
Logging == {"login", "store", "unlock"}
Places == Inside \cup {"idle", "start", "throttle", "sent", "reauth", "refresh"}

SessionTypes ==
    /\ pc \in [Requests -> Places] /\ mine \in [Requests -> BOOLEAN]
    /\ token \in [Workers -> Tokens] /\ jwt \in Tokens
    /\ mutex \in [Workers -> Requests \cup {None}]
    /\ lock \in BOOLEAN

\* Inside means to hold the lock.
InsideHolds == \A r \in Requests : pc[r] \in Inside => mutex[Home[r]] = r

\* The lock in Redis is set by who logs in, and by nobody else.
MineLogs == \A r \in Requests : mine[r] <=> pc[r] \in Logging
LockIsHeld == lock <=> Held
OneHolder == \A q, r \in Requests : mine[q] /\ mine[r] => q = r

\* What is about to be stored exists; from then on, until no one is left who
\* waited for it, the JWT is in Redis.
Published ==
    \A r \in Requests : /\ pc[r] = "store" => token[Home[r]] # None
                        /\ pc[r] \in {"unlock", "waited"} => jwt # None

Calm == /\ SessionTypes /\ redisUp = TRUE /\ InsideHolds /\ MineLogs /\ LockIsHeld
        /\ OneHolder /\ Published

IInv == excused \in BOOLEAN /\ (~excused => Calm)

-----------------------------------------------------------------------------

LEMMA Constant ==
    /\ Home \in [Requests -> Workers] /\ None \notin Requests
    /\ "good" # None /\ "stale" # None
BY SessionAssumption

LEMMA InitSession == Init => IInv
<1> SUFFICES ASSUME Init PROVE IInv
  OBVIOUS
<1>1. /\ pc = [r \in Requests |-> "idle"] /\ mine = [r \in Requests |-> FALSE]
      /\ jwt = None /\ lock = FALSE /\ redisUp = TRUE /\ excused = FALSE
      /\ mutex = [w \in Workers |-> None]
      /\ token = [w \in Workers |-> IF mode.broker = "upstox" THEN "good" ELSE None]
  BY DEF Init
<1>2. SessionTypes
  BY <1>1 DEF SessionTypes, Places, Tokens
<1>3. InsideHolds /\ Published /\ MineLogs
  BY <1>1 DEF InsideHolds, Published, MineLogs, Inside, Logging
<1>4. LockIsHeld /\ OneHolder
  BY <1>1 DEF LockIsHeld, OneHolder, Held
<1> QED BY <1>1, <1>2, <1>3, <1>4 DEF IInv, Calm

\* How a step of r from pc[r] to l treats its worker's lock and token: it
\* leaves both alone, goes in, is in, or goes out.
Guarded(r, l) ==
    \/ mutex' = mutex /\ token' = token /\ (l \in Inside => pc[r] \in Inside)
    \/ Enter(r) /\ \E t \in Tokens : token' = token \/ SetToken(r, t)
    \/ mutex' = mutex /\ pc[r] \in Inside /\ \E t \in Tokens : SetToken(r, t)
    \/ /\ Leave(r) /\ pc[r] \in Inside /\ l \notin Inside
       /\ \E t \in Tokens : token' = token \/ SetToken(r, t)

\* Such a step takes nobody else's lock and nobody else's token.
LEMMA GuardedKeeps ==
    ASSUME SessionTypes, InsideHolds, NEW r \in Requests, NEW l \in Places, Guarded(r, l),
           pc' \in [Requests -> Places], pc'[r] = l,
           \A q \in Requests \ {r} : pc'[q] \in Inside <=> pc[q] \in Inside
    PROVE  /\ token' \in [Workers -> Tokens]
           /\ mutex' \in [Workers -> Requests \cup {None}]
           /\ InsideHolds'
           /\ \A q \in Requests \ {r} : pc[q] \in Inside => token'[Home[q]] = token[Home[q]]
<1> USE Constant DEF Guarded, Enter, Leave, SetToken
<1>1. Home[r] \in Workers /\ \A q \in Requests : Home[q] \in Workers
  OBVIOUS
<1>2. token' \in [Workers -> Tokens] /\ mutex' \in [Workers -> Requests \cup {None}]
  BY <1>1 DEF SessionTypes, Tokens
<1>3. ASSUME NEW q \in Requests \ {r}, pc[q] \in Inside
      PROVE  mutex'[Home[q]] = q /\ token'[Home[q]] = token[Home[q]]
  <2>1. mutex[Home[q]] = q
    BY <1>3 DEF InsideHolds
  <2>2. CASE mutex' = mutex /\ token' = token
    BY <2>1, <2>2
  <2>3. CASE Home[q] # Home[r]
    BY <1>1, <2>1, <2>3 DEF SessionTypes
  <2>4. CASE Home[q] = Home[r] /\ pc[r] \in Inside
    BY <1>3, <2>1, <2>4 DEF InsideHolds
  <2>5. CASE Home[q] = Home[r] /\ Enter(r)
    BY <2>1, <2>5
  <2> QED BY <2>2, <2>3, <2>4, <2>5
<1>4. l \in Inside => mutex'[Home[r]] = r
  BY <1>1 DEF SessionTypes, InsideHolds
<1>5. InsideHolds'
  BY <1>3, <1>4 DEF InsideHolds
<1> QED BY <1>2, <1>3, <1>5

\* A step of r outside of a login.
LEMMA MoveKeeps ==
    ASSUME Calm, NEW r \in Requests, NEW l \in Places \ (Logging \cup {"waited"}),
           pc[r] \notin Logging, pc' = [pc EXCEPT ![r] = l], Guarded(r, l),
           mine' = mine \/ mine' = [mine EXCEPT ![r] = FALSE],
           UNCHANGED <<jwt, lock, redisUp>>
    PROVE  Calm'
<1> USE DEF Calm
<1>1. /\ pc' \in [Requests -> Places] /\ pc'[r] = l
      /\ \A q \in Requests \ {r} : pc'[q] = pc[q]
  BY DEF SessionTypes
<1>2. /\ token' \in [Workers -> Tokens]
      /\ mutex' \in [Workers -> Requests \cup {None}] /\ InsideHolds'
      /\ \A q \in Requests \ {r} : pc[q] \in Inside => token'[Home[q]] = token[Home[q]]
  BY <1>1, GuardedKeeps
<1>3. mine' = mine
  BY DEF MineLogs, SessionTypes
<1>4. SessionTypes' /\ LockIsHeld' /\ OneHolder'
  BY <1>1, <1>2, <1>3 DEF SessionTypes, LockIsHeld, OneHolder, Held
<1>5. MineLogs'
  BY <1>1, <1>3 DEF MineLogs, Logging
<1>6. Published'
  BY <1>1, <1>2 DEF Published, Inside, Logging
<1> QED BY <1>2, <1>4, <1>5, <1>6

\* Where a request goes when it is authenticated.
LEMMA ResumeOutside == ASSUME NEW r PROVE Resume(r) \in {"start", "throttle"}
BY DEF Resume

LEMMA OutsideStep ==
    ASSUME Calm, NEW r \in Requests,
           \/ TokenInMemory(r) \/ NoTokenInMemory(r) \/ Begin(r) \/ Send(r)
           \/ AnswerUnauthorized(r) \/ AnswerAuthorized(r) \/ Discard(r)
           \/ SendUpstox(r) \/ Refresh(r)
    PROVE  Calm'
<1> USE DEF Goto, End, Places, Inside, Logging
<1>1. CASE TokenInMemory(r)
  <2>1. \E l \in {"idle", "throttle"} : pc' = [pc EXCEPT ![r] = l]
    BY <1>1 DEF TokenInMemory
  <2>2. /\ pc[r] = "start" /\ UNCHANGED <<token, mutex, jwt, lock, redisUp>>
        /\ mine' = mine \/ mine' = [mine EXCEPT ![r] = FALSE]
    BY <1>1 DEF TokenInMemory, Shared, Locals
  <2> QED BY <2>1, <2>2, MoveKeeps DEF Guarded
<1>2. CASE NoTokenInMemory(r)
  BY <1>2, MoveKeeps DEF NoTokenInMemory, Shared, Locals, Guarded, Tokens
<1>3. CASE Begin(r)
  BY <1>3, MoveKeeps DEF Begin, Shared, Locals, Guarded
<1>4. CASE Send(r)
  BY <1>4, MoveKeeps DEF Send, Shared, Guarded
<1>5. CASE AnswerUnauthorized(r)
  <2>1. \E l \in {"reauth", "refresh", "idle"} : pc' = [pc EXCEPT ![r] = l]
    BY <1>5 DEF AnswerUnauthorized
  <2>2. /\ pc[r] = "sent" /\ UNCHANGED <<token, mutex, jwt, lock, redisUp>>
        /\ mine' = mine \/ mine' = [mine EXCEPT ![r] = FALSE]
    BY <1>5 DEF AnswerUnauthorized, Shared
  <2> QED BY <2>1, <2>2, MoveKeeps DEF Guarded
<1>6. CASE AnswerAuthorized(r)
  BY <1>6, MoveKeeps DEF AnswerAuthorized, Shared, Guarded
<1>7. CASE Discard(r)
  BY <1>7, MoveKeeps DEF Discard, Shared, Locals, Guarded, Tokens
<1>8. CASE SendUpstox(r)
  BY <1>8, MoveKeeps DEF SendUpstox, Shared, Guarded
<1>9. CASE Refresh(r)
  <2>1. CASE static # None
    BY <1>9, <2>1, MoveKeeps DEF Refresh, Shared, Guarded
  <2>2. CASE static = None
    BY <1>9, <2>2, MoveKeeps DEF Refresh, Shared, Guarded, Tokens
  <2> QED BY <2>1, <2>2
<1> QED BY <1>1, <1>2, <1>3, <1>4, <1>5, <1>6, <1>7, <1>8, <1>9

\* Leaving the lock with a token.
LEMMA AuthenticatedStep ==
    ASSUME Calm, NEW r \in Requests, pc[r] \in Inside \ Logging, Authenticated(r),
           NEW t \in Tokens, SetToken(r, t), UNCHANGED Shared
    PROVE  Calm'
<1>1. \E l \in {"start", "throttle", "idle"} : pc' = [pc EXCEPT ![r] = l]
  BY ResumeOutside DEF Authenticated, EndsWith, End, Goto
<1>2. /\ Leave(r) /\ UNCHANGED <<jwt, lock, redisUp>>
      /\ mine' = mine \/ mine' = [mine EXCEPT ![r] = FALSE]
  BY DEF Authenticated, EndsWith, End, Shared
<1> QED BY <1>1, <1>2, MoveKeeps DEF Guarded, Places, Inside, Logging

LEMMA InsideStep ==
    ASSUME Calm, NEW r \in Requests,
           LoadFirst(r) \/ PollHit(r) \/ ExchangeRefused(r)
    PROVE  Calm'
<1> USE DEF Places, Inside, Logging
<1>1. CASE LoadFirst(r)
  <2>1. CASE redisUp /\ jwt # None
    BY <1>1, <2>1, AuthenticatedStep DEF LoadFirst, Calm, SessionTypes
  <2>2. CASE ~(redisUp /\ jwt # None)
    BY <1>1, <2>2, MoveKeeps DEF LoadFirst, Goto, Shared, Locals, Guarded
  <2> QED BY <2>1, <2>2
<1>2. CASE PollHit(r)
  BY <1>2, AuthenticatedStep DEF PollHit, Calm, SessionTypes
<1>3. CASE ExchangeRefused(r)
  BY <1>3, MoveKeeps DEF ExchangeRefused, EndsWith, End, Goto, Shared, Guarded, Tokens
<1> QED BY <1>1, <1>2, <1>3

-----------------------------------------------------------------------------
(* A login.                                                                *)

\* The lock is free: nobody logs in, and whoever takes it is the first.
LEMMA SetLockKeeps == ASSUME Calm, NEW r \in Requests, SetLock(r) PROVE Calm'
<1> USE DEF Calm
<1>1. /\ pc[r] = "lock" /\ UNCHANGED <<token, jwt, redisUp, mutex>>
      /\ redisUp = TRUE
  BY DEF SetLock
<1>2. CASE lock
  BY <1>1, <1>2, MoveKeeps DEF SetLock, Goto, Guarded, Places, Inside, Logging
<1>3. CASE ~lock
  <2>1. /\ pc' = [pc EXCEPT ![r] = "login"] /\ mine' = [mine EXCEPT ![r] = TRUE]
        /\ lock' = TRUE
    BY <1>1, <1>3 DEF SetLock, Goto
  <2>2. \A q \in Requests : mine[q] = FALSE
    BY <1>3 DEF LockIsHeld, Held, SessionTypes
  <2>3. SessionTypes' /\ InsideHolds'
    BY <1>1, <2>1 DEF SessionTypes, InsideHolds, Places, Inside
  <2>4. MineLogs' /\ LockIsHeld' /\ OneHolder'
    BY <1>1, <2>1, <2>2 DEF SessionTypes, MineLogs, LockIsHeld, OneHolder, Held, Logging
  <2>5. Published'
    BY <1>1, <2>1 DEF SessionTypes, Published
  <2> QED BY <1>1, <2>3, <2>4, <2>5
<1> QED BY <1>2, <1>3

LEMMA LoginKeeps == ASSUME Calm, NEW r \in Requests, LoginGranted(r) PROVE Calm'
<1> USE DEF Calm
<1>1. /\ pc[r] = "login" /\ pc' = [pc EXCEPT ![r] = "store"] /\ SetToken(r, "good")
      /\ UNCHANGED <<jwt, lock, redisUp, mutex, mine>>
  BY DEF LoginGranted, Goto, Locals
<1>2. /\ pc' \in [Requests -> Places] /\ pc'[r] = "store"
      /\ \A q \in Requests \ {r} : pc'[q] = pc[q]
  BY <1>1 DEF SessionTypes, Places, Inside
<1>3. Guarded(r, "store")
  BY <1>1 DEF Guarded, Inside, Tokens
<1>4. /\ token' \in [Workers -> Tokens]
      /\ mutex' \in [Workers -> Requests \cup {None}] /\ InsideHolds'
      /\ \A q \in Requests \ {r} : pc[q] \in Inside => token'[Home[q]] = token[Home[q]]
  BY <1>2, <1>3, GuardedKeeps DEF Places, Inside
<1>5. token'[Home[r]] = "good"
  BY <1>1, Constant DEF SetToken, SessionTypes
<1>6. SessionTypes' /\ LockIsHeld' /\ OneHolder'
  BY <1>1, <1>2, <1>4 DEF SessionTypes, LockIsHeld, OneHolder, Held
<1>7. MineLogs'
  BY <1>1, <1>2 DEF MineLogs, Logging
<1>8. Published'
  BY <1>1, <1>2, <1>4, <1>5, Constant DEF Published, Inside
<1> QED BY <1>1, <1>4, <1>6, <1>7, <1>8

LEMMA StoreKeeps == ASSUME Calm, NEW r \in Requests, StoreToken(r) PROVE Calm'
<1> USE DEF Calm
<1>1. /\ pc[r] = "store" /\ pc' = [pc EXCEPT ![r] = "unlock"] /\ jwt' = token[Home[r]]
      /\ UNCHANGED <<token, lock, redisUp, mutex, mine>>
  BY DEF StoreToken, Goto, Locals
<1>2. jwt' \in Tokens /\ jwt' # None
  BY <1>1, Constant DEF Published, SessionTypes
<1>3. SessionTypes' /\ InsideHolds'
  BY <1>1, <1>2 DEF SessionTypes, InsideHolds, Places, Inside
<1>4. MineLogs' /\ LockIsHeld' /\ OneHolder'
  BY <1>1 DEF SessionTypes, MineLogs, LockIsHeld, OneHolder, Held, Logging
<1>5. Published'
  BY <1>1, <1>2 DEF SessionTypes, Published
<1> QED BY <1>1, <1>3, <1>4, <1>5

\* Who waited for the lock finds the token that was published before.
LEMMA ReleaseKeeps == ASSUME Calm, NEW r \in Requests, ReleaseLock(r) PROVE Calm'
<1> USE DEF Calm
<1>1. pc[r] = "unlock" /\ mine[r] /\ jwt # None /\ r \in Requests
  BY DEF ReleaseLock, MineLogs, Logging, Published
<1>2. /\ lock' = FALSE /\ Leave(r) /\ mine' = [mine EXCEPT ![r] = FALSE]
      /\ UNCHANGED <<token, jwt, redisUp>>
  BY <1>1 DEF ReleaseLock
<1>3. \E l \in {"idle", "start", "throttle"} : pc' = [Unlocked EXCEPT ![r] = l]
  BY <1>1, ResumeOutside DEF ReleaseLock
<1> PICK l \in {"idle", "start", "throttle"} : pc' = [Unlocked EXCEPT ![r] = l]
  BY <1>3
<1>4. /\ pc' \in [Requests -> Places] /\ pc'[r] = l
      /\ \A q \in Requests \ {r} :
            pc'[q] = IF pc[q] = "wait" THEN "waited" ELSE pc[q]
  BY DEF SessionTypes, Unlocked, Places, Inside
<1>5. /\ \A q \in Requests \ {r} : pc'[q] \in Inside <=> pc[q] \in Inside
      /\ \A q \in Requests \ {r} : pc'[q] \in Logging <=> pc[q] \in Logging
      /\ l \notin Inside /\ l \notin Logging /\ l \in Places
  BY <1>4 DEF Inside, Logging, Places
<1>6. Guarded(r, l)
  BY <1>1, <1>2, <1>5 DEF Guarded, Inside, Tokens
<1>7. mutex' \in [Workers -> Requests \cup {None}] /\ InsideHolds'
  BY <1>4, <1>5, <1>6, GuardedKeeps
<1>8. \A q \in Requests : mine'[q] = FALSE
  BY <1>1, <1>2 DEF OneHolder, SessionTypes
<1>9. SessionTypes' /\ OneHolder'
  BY <1>2, <1>4, <1>7, <1>8 DEF SessionTypes, OneHolder
<1>10. MineLogs' /\ LockIsHeld'
  BY <1>2, <1>4, <1>5, <1>8, <1>1 DEF MineLogs, LockIsHeld, Held, OneHolder
<1>11. Published'
  BY <1>1, <1>2, <1>4 DEF Published
<1> QED BY <1>2, <1>7, <1>9, <1>10, <1>11

-----------------------------------------------------------------------------
(* The world.                                                              *)

LEMMA ExpireKeeps == ASSUME Calm, Expire \/ JwtForgotten \/ CodeRenewed PROVE Calm'
<1> USE DEF Calm
<1>1. UNCHANGED <<pc, mine, mutex, lock, redisUp>>
  BY DEF Expire, JwtForgotten, CodeRenewed
<1>2. /\ token' \in [Workers -> Tokens]
      /\ \A w \in Workers : token[w] # None => token'[w] # None
  BY Constant DEF Expire, JwtForgotten, CodeRenewed, Expired, Tokens, SessionTypes
<1>3. /\ jwt' \in Tokens
      /\ (\E r \in Requests : pc[r] \in {"unlock", "waited"}) /\ jwt # None => jwt' # None
  BY Constant DEF Expire, JwtForgotten, CodeRenewed, Expired, Tokens, SessionTypes
<1>4. SessionTypes' /\ InsideHolds' /\ MineLogs' /\ LockIsHeld' /\ OneHolder'
  BY <1>1, <1>2, <1>3
     DEF SessionTypes, InsideHolds, MineLogs, LockIsHeld, OneHolder, Held
<1>5. Published'
  BY <1>1, <1>2, <1>3, Constant DEF Published
<1> QED BY <1>1, <1>4, <1>5

\* A lock runs out: that of somebody who logs in is a fault.
LEMMA LockExpiryExcused == ASSUME Calm, LockExpires PROVE excused' = TRUE
BY DEF Calm, LockExpires, LockIsHeld

LEMMA NextSession == IInv /\ [Next]_vars => IInv'
<1> SUFFICES ASSUME IInv, [Next]_vars PROVE IInv'
  OBVIOUS
<1>1. CASE UNCHANGED vars
  BY <1>1 DEF vars, IInv, Calm, SessionTypes, InsideHolds, MineLogs, LockIsHeld, OneHolder,
              Published, Held
<1>2. ASSUME NEW r \in Requests, Step(r) \/ Begin(r) PROVE IInv'
  <2>1. CASE LoginRefused(r)
    BY <2>1 DEF LoginRefused, IInv
  <2>2. CASE GiveUp(r)
    <3>1. excused' = excused
      BY <2>2 DEF GiveUp
    <3>2. ~Calm
      BY <2>2 DEF GiveUp, Calm, Published
    <3> QED BY <3>1, <3>2 DEF IInv
  <2>3. CASE ~LoginRefused(r) /\ ~GiveUp(r)
    <3>1. excused' = excused
      BY <1>2, <2>3 DEF Step, TokenInMemory, NoTokenInMemory, LoadFirst, SetLock, PollHit,
         LoginGranted, StoreToken, ReleaseLock, Send, AnswerAuthorized, AnswerUnauthorized,
         Discard, SendUpstox, Refresh, ExchangeRefused, Begin
    <3>2. Calm => Calm'
      BY <1>2, <2>3, OutsideStep, InsideStep, SetLockKeeps, LoginKeeps, StoreKeeps,
         ReleaseKeeps DEF Step
    <3> QED BY <3>1, <3>2 DEF IInv
  <2> QED BY <2>1, <2>2, <2>3
<1>3. CASE Expire \/ JwtForgotten \/ CodeRenewed
  <2>1. excused' = excused
    BY <1>3 DEF Expire, JwtForgotten, CodeRenewed
  <2> QED BY <1>3, <2>1, ExpireKeeps DEF IInv
<1>4. CASE LockExpires
  <2>1. excused' = excused \/ excused' = TRUE
    BY <1>4 DEF LockExpires
  <2> QED BY <1>4, <2>1, LockExpiryExcused DEF IInv
<1>5. CASE RedisFails \/ \E w \in Workers : Crash(w)
  BY <1>5 DEF RedisFails, Crash, IInv
<1>6. CASE RedisReturns
  <2>1. excused' = excused /\ ~Calm
    BY <1>6 DEF RedisReturns, Calm
  <2> QED BY <2>1 DEF IInv
<1> QED BY <1>1, <1>2, <1>3, <1>4, <1>5, <1>6 DEF Next

LEMMA CalmIsOne == IInv => OneLogin
BY DEF IInv, Calm, MineLogs, OneHolder, OneLogin, LoggingIn, Logging

(* Until Redis, a login or a process has failed no two logins of the        *)
(* account are under way (authenticate): who waits outlasts the lock and    *)
(* finds the token that was stored before the lock was deleted.             *)
THEOREM LoginsDoNotOverlap == Spec => []OneLogin
BY InitSession, NextSession, CalmIsOne, PTL DEF Spec

=============================================================================
