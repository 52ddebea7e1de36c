----------------------------- MODULE BrokerStream -----------------------------
(***************************************************************************)
(* The WebSocket adapters of src/providers/streams/: AngelOneStreamAdapter, *)
(* UpstoxStreamAdapter, BinanceStreamAdapter and DeltaStreamAdapter.       *)
(*                                                                         *)
(* Each keeps one connection to its broker in a background task (the loop) *)
(* that connects, asks for what is wanted, pumps messages and, when the    *)
(* connection fails, waits and tries again.  The four differ in the        *)
(* operators of the first section.  Callers run on the same event loop and *)
(* meet the loop at its awaits; the broker accepts, refuses and drops      *)
(* connections.                                                            *)
(***************************************************************************)
EXTENDS Integers, FiniteSets

CONSTANTS
    Adapters,     \* the adapters of the instance; a behaviour has one
    Instruments,  \* what one can subscribe to
    MaxReconnect, \* _MAX_RECONNECT_ATTEMPTS
    FloatLimit,   \* smallest n for which 1.0 * 2 ** n raises OverflowError
    BackoffMax,   \* BackoffMax[a]: _BACKOFF_MAX_SEC of adapter a
    EventBus,     \* was the adapter given an event_bus?
    MaxFailures,  \* bound: failed attempts and dropped connections
    MaxCalls      \* bound: calls of the callers

ASSUME AdapterAssumption ==
    Adapters \subseteq {"angel_one", "upstox", "binance", "delta"}
ASSUME CapAssumption == /\ MaxReconnect \in Nat \ {0}
                        /\ FloatLimit \in Nat
                        /\ MaxReconnect < FloatLimit
ASSUME BackoffAssumption == BackoffMax \in [Adapters -> Nat \ {0}]
ASSUME BusAssumption == EventBus \in BOOLEAN
ASSUME BoundAssumption == MaxFailures \in Nat /\ MaxCalls \in Nat

VARIABLES
    adapter,    \* which of the four this is
    running,    \* _running
    loop,       \* where the background task is
    ws,         \* is _ws set?  It stays set when its connection has ended
    up,         \* is the latest connection open?
    ended,      \* how it ended: with a close frame ("clean"), with an error,
                \* or so that nobody here has noticed yet ("silent")
    attempts,   \* _reconnect_attempts
    delay,      \* the backoff the loop sleeps for
    want,       \* _token_groups, _subscribed_keys or _symbols
    live,       \* what the broker streams on the latest connection
    op,         \* the call that is suspended at its await
    arg,        \* its instruments
    announced,  \* has this start published connection_failed?
    sinceOpen,  \* history: attempts refused and connections lost since the
                \* broker last accepted one, or since the start
    failures, calls

loopVars == <<loop, ws, up, ended, attempts, delay, live, announced, sinceOpen>>
streamVars == <<adapter, running, loop, ws, up, ended, attempts, delay, want, live,
          op, arg, announced, sinceOpen, failures, calls>>

-----------------------------------------------------------------------------
(* How the adapters differ.                                                *)

\* Angel One and Upstox stop after _MAX_RECONNECT_ATTEMPTS failures in a row.
GivesUp(a) == a \in {"angel_one", "upstox"}

\* Only they have subscribe() and unsubscribe(); the others ask for the
\* instruments they were started with.
HasSubscribe(a) == a \in {"angel_one", "upstox"}

\* Upstox fetches a one-time URL before every attempt.
NeedsUrl(a) == a = "upstox"

\* Delta keeps counting until a connection has ended in order.
ResetsOnConnect(a) == a # "delta"

\* Delta clears _ws when a connection has ended in order.
ClearsHandle(a) == a = "delta"

\* Upstox, Delta and Binance ping their broker; Angel One sends nothing.
Pings(a) == a # "angel_one"

\* Binance cancels its tasks before it closes the socket.
ClosesLast(a) == a = "binance"

\* 2 ** n
Power[n \in Nat] == IF n = 0 THEN 1 ELSE 2 * Power[n - 1]

\* Mutant: the wait starts again at every attempt.
BackoffConstant(a, n) == IF n > 1 THEN 1 ELSE BackoffMax[a]

\* min(_BACKOFF_BASE_SEC * 2 ** (attempts - 1), _BACKOFF_MAX_SEC)
Backoff(a, n) == LET d == Power[n - 1]
                 IN IF d > BackoffMax[a] THEN BackoffMax[a] ELSE d

First(a) == IF NeedsUrl(a) THEN "auth" ELSE "connecting"

-----------------------------------------------------------------------------

\* The failure in a row after which the loop ends.  connect() resets the
\* count of all but Delta, which goes on where a loop before it ended.
LastAttempt(a) == IF GivesUp(a) THEN MaxReconnect ELSE FloatLimit

StreamTypeOK ==
    /\ adapter \in Adapters
    /\ running \in BOOLEAN
    /\ loop \in {"none", "auth", "connecting", "receiving", "backoff", "done"}
    /\ ws \in BOOLEAN /\ up \in BOOLEAN
    /\ ended \in {"no", "clean", "error", "silent"}
    /\ attempts \in Nat /\ (adapter # "delta" => attempts <= LastAttempt(adapter) + 1)
    /\ delay \in Nat
    /\ want \subseteq Instruments /\ live \subseteq Instruments
    /\ op \in {"none", "unsubscribe", "disconnect"}
    /\ arg \subseteq Instruments
    /\ announced \in BOOLEAN
    /\ sinceOpen \in Nat
    /\ failures \in 0 .. MaxFailures /\ calls \in 0 .. MaxCalls

StreamInit ==
    /\ adapter \in Adapters
    /\ running = FALSE /\ loop = "none"
    /\ ws = FALSE /\ up = FALSE /\ ended = "no"
    /\ attempts = 0 /\ delay = 0
    /\ want = {} /\ live = {}
    /\ op = "none" /\ arg = {}
    /\ announced = FALSE /\ sinceOpen = 0
    /\ failures = 0 /\ calls = 0

Call == op = "none" /\ calls < MaxCalls /\ calls' = calls + 1
Failure ==
    /\ failures < MaxFailures
    /\ failures' = failures + 1
    /\ sinceOpen' = sinceOpen + 1

\* send() raises nothing: the connection is open, or seems to be.
Sends == ws /\ (up \/ ended = "silent")

-----------------------------------------------------------------------------
(* Calls.                                                                  *)

\* connect(), start(): callers do not start an adapter whose loop is alive.
\* Angel One and Upstox keep the subscriptions of before.
Connect ==
    /\ Call
    /\ loop \in {"none", "done"}
    /\ adapter = "delta" => ~running
    /\ running' = TRUE
    /\ loop' = First(adapter)
    /\ attempts' = IF adapter = "delta" THEN attempts ELSE 0
    /\ announced' = FALSE /\ sinceOpen' = 0
    /\ IF HasSubscribe(adapter)
         THEN want' = want
         ELSE \E S \in SUBSET Instruments \ {{}} : want' = S
    /\ UNCHANGED <<adapter, ws, up, ended, delay, live, op, arg, failures>>

\* subscribe() replaces what is wanted and, on a socket, asks for it; an
\* error of send() is swallowed.
Subscribe ==
    /\ Call
    /\ HasSubscribe(adapter)
    /\ \E S \in SUBSET Instruments :
          /\ want' = S
          /\ live' = IF ws /\ up THEN live \cup S ELSE live
    /\ UNCHANGED <<adapter, running, loop, ws, up, ended, attempts, delay, op,
                   arg, announced, sinceOpen, failures>>

\* unsubscribe() without a socket returns at once, and an error of send() is
\* swallowed: neither changes what is wanted.
UnsubscribeInVain ==
    /\ Call
    /\ HasSubscribe(adapter)
    /\ ~Sends
    /\ UNCHANGED <<adapter, running, loop, ws, up, ended, attempts, delay,
                   want, live, op, arg, announced, sinceOpen, failures>>

\* Otherwise it forgets the instruments after the await.
UnsubscribeSend ==
    /\ Call
    /\ HasSubscribe(adapter)
    /\ Sends
    /\ op' = "unsubscribe"
    /\ arg' \in SUBSET Instruments \ {{}}
    /\ live' = live \ arg'
    /\ UNCHANGED <<adapter, running, loop, ws, up, ended, attempts, delay,
                   want, announced, sinceOpen, failures>>

UnsubscribeForget ==
    /\ op = "unsubscribe"
    /\ want' = want \ arg
    /\ op' = "none" /\ arg' = {}
    /\ UNCHANGED <<adapter, running, loop, ws, up, ended, attempts, delay,
                   live, announced, sinceOpen, failures, calls>>

\* Another subscribe() while unsubscribe() is suspended in send().
SubscribeMeanwhile ==
    /\ op = "unsubscribe" /\ calls < MaxCalls /\ calls' = calls + 1
    /\ \E S \in SUBSET Instruments :
          /\ want' = S
          /\ live' = IF ws /\ up THEN live \cup S ELSE live
    /\ UNCHANGED <<adapter, running, loop, ws, up, ended, attempts, delay, op,
                   arg, announced, sinceOpen, failures>>

\* disconnect(), stop(): the loop still runs while the socket closes (or,
\* for Binance, while the heartbeat task is cancelled).
DisconnectBegin ==
    /\ Call
    /\ running
    /\ running' = FALSE
    /\ op' = "disconnect"
    /\ IF ws /\ up /\ ~ClosesLast(adapter)
         THEN up' = FALSE /\ ended' = "clean"
         ELSE UNCHANGED <<up, ended>>
    /\ UNCHANGED <<adapter, loop, ws, attempts, delay, want, live, arg,
                   announced, sinceOpen, failures>>

\* Mutant: the task is left to notice that _running is FALSE.
DisconnectUncancelled ==
    /\ op = "disconnect"
    /\ ws' = FALSE
    /\ op' = "none"
    /\ UNCHANGED <<adapter, running, loop, up, ended, attempts, delay, want,
                   live, arg, announced, sinceOpen, failures, calls>>

\* Then the task is cancelled, and awaited; a connection it holds is closed
\* by its async with.
DisconnectEnd ==
    /\ op = "disconnect"
    /\ loop' = "done"
    /\ ws' = FALSE /\ up' = FALSE
    /\ ended' = IF up THEN "clean" ELSE ended
    /\ op' = "none"
    /\ UNCHANGED <<adapter, running, attempts, delay, want, live, arg,
                   announced, sinceOpen, failures, calls>>

-----------------------------------------------------------------------------
(* The background task.                                                    *)

UrlFetched ==
    /\ loop = "auth"
    /\ loop' = "connecting"
    /\ UNCHANGED <<adapter, running, ws, up, ended, attempts, delay, want,
                   live, op, arg, announced, sinceOpen, failures, calls>>

\* Mutant: only the first connection asks for what is wanted.
ConnectedSilently ==
    /\ loop = "connecting"
    /\ loop' = "receiving"
    /\ ws' = TRUE /\ up' = TRUE /\ ended' = "no"
    /\ attempts' = IF ResetsOnConnect(adapter) THEN 0 ELSE attempts
    /\ live' = IF ws THEN {} ELSE want
    /\ sinceOpen' = 0
    /\ UNCHANGED <<adapter, running, delay, want, op, arg, announced, failures,
                   calls>>

\* Mutant: a connection does not end the row of failures.
ConnectedCounting ==
    /\ loop = "connecting"
    /\ loop' = "receiving"
    /\ ws' = TRUE /\ up' = TRUE /\ ended' = "no"
    /\ live' = want
    /\ sinceOpen' = 0
    /\ UNCHANGED <<adapter, running, attempts, delay, want, op, arg, announced,
                   failures, calls>>

\* The new connection has streamed nothing yet; what is wanted is asked for
\* before anything is received.
Connected ==
    /\ loop = "connecting"
    /\ loop' = "receiving"
    /\ ws' = TRUE /\ up' = TRUE /\ ended' = "no"
    /\ attempts' = IF ResetsOnConnect(adapter) THEN 0 ELSE attempts
    /\ live' = want
    /\ sinceOpen' = 0
    /\ UNCHANGED <<adapter, running, delay, want, op, arg, announced, failures,
                   calls>>

\* _handle_exhaustion: without an event bus nothing is published, and an
\* error of the bus is swallowed.
Announce == announced' \in IF EventBus THEN {TRUE, announced} ELSE {announced}

\* The except clause of the loop: stop, give up, or wait.  2 ** n is an int
\* of any size, but a float cannot hold it for n >= FloatLimit: the
\* OverflowError leaves the loop, and nothing awaits the task.
OnFailure ==
    IF ~running
      THEN loop' = "done" /\ UNCHANGED <<attempts, delay, announced>>
      ELSE /\ attempts' = attempts + 1
           /\ \/ /\ GivesUp(adapter) /\ attempts' > MaxReconnect
                 /\ loop' = "done"
                 /\ Announce
                 /\ UNCHANGED delay
              \/ /\ GivesUp(adapter) => attempts' <= MaxReconnect
                 /\ attempts' - 1 >= FloatLimit
                 /\ loop' = "done"
                 /\ UNCHANGED <<delay, announced>>
              \/ /\ GivesUp(adapter) => attempts' <= MaxReconnect
                 /\ attempts' - 1 < FloatLimit
                 /\ loop' = "backoff"
                 /\ delay' = Backoff(adapter, attempts')
                 /\ UNCHANGED announced

\* The URL cannot be fetched, or the broker refuses the connection.
AttemptFails ==
    /\ loop \in {"auth", "connecting"}
    /\ Failure
    /\ OnFailure
    /\ UNCHANGED <<adapter, running, ws, up, ended, want, live, op, arg, calls>>

BackoffOver ==
    /\ loop = "backoff"
    /\ loop' = IF running THEN First(adapter) ELSE "done"
    /\ delay' = 0
    /\ UNCHANGED <<adapter, running, ws, up, ended, attempts, want, live, op,
                   arg, announced, sinceOpen, failures, calls>>

\* The broker or the network ends the connection: with a close frame, with an
\* error, or without a word.
Drop ==
    /\ up
    /\ Failure
    /\ up' = FALSE
    /\ ended' \in {"clean", "error", "silent"}
    /\ UNCHANGED <<adapter, running, loop, ws, attempts, delay, want, live,
                   op, arg, announced, calls>>

\* A ping is not answered, or what was sent is not acknowledged in time.
Notice ==
    /\ loop = "receiving" /\ ~up /\ ended = "silent"
    /\ ended' = "error"
    /\ UNCHANGED <<adapter, running, loop, ws, up, attempts, delay, want, live,
                   op, arg, announced, sinceOpen, failures, calls>>


\* async for ends when the connection was closed in order: the loop goes
\* round without a pause.
LoopEndsInOrder ==
    /\ loop = "receiving" /\ ~up /\ ended = "clean"
    /\ loop' = IF running THEN First(adapter) ELSE "done"
    /\ ws' = IF ClearsHandle(adapter) THEN FALSE ELSE ws
    /\ attempts' = IF ResetsOnConnect(adapter) THEN attempts ELSE 0
    /\ UNCHANGED <<adapter, running, up, ended, delay, want, live, op, arg,
                   announced, sinceOpen, failures, calls>>

LoopFails ==
    /\ loop = "receiving" /\ ~up /\ ended = "error"
    /\ OnFailure
    /\ UNCHANGED <<adapter, running, ws, up, ended, want, live, op, arg,
                   sinceOpen, failures, calls>>

LoopStep == UrlFetched \/ Connected \/ BackoffOver \/ LoopEndsInOrder \/ LoopFails

StreamNext ==
    \/ Connect \/ Subscribe \/ SubscribeMeanwhile
    \/ UnsubscribeInVain \/ UnsubscribeSend \/ UnsubscribeForget
    \/ DisconnectBegin \/ DisconnectEnd
    \/ AttemptFails \/ Drop \/ Notice
    \/ LoopStep

\* The event loop runs every task that is ready, timers fire, and a broker
\* that is asked often enough answers: failures are bounded by MaxFailures.
\* A dead connection is noticed by those who ping; Angel One may notice one
\* after a subscribe() on it.
StreamFairness ==
    /\ WF_streamVars(LoopStep)
    /\ WF_streamVars(UnsubscribeForget \/ DisconnectEnd)
    /\ WF_streamVars(Pings(adapter) /\ Notice)

StreamSpec == StreamInit /\ [][StreamNext]_streamVars /\ StreamFairness

-----------------------------------------------------------------------------
(* Properties.                                                             *)

\* Whatever calls fell into a lost connection, a backoff or a reconnection:
\* on an open connection the broker streams everything the adapter wants
\* (subscribe() swallows the error of a dead socket and relies on the replay).
WantedIsLive ==
    loop = "receiving" /\ up /\ running /\ op = "none" => want \subseteq live

\* When disconnect() or stop() has returned no socket is open, no handle is
\* left and the task is over, even if a reconnection completed during it.
StoppedIsQuiet ==
    ~running /\ op = "none" => ~ws /\ ~up /\ loop \in {"none", "done"}

\* A loop that has ended although nobody stopped it has been refused or cut
\* off more often than its limit since the broker last accepted a connection:
\* failures with connections between them, whatever calls came in between,
\* end no loop.  Delta is left out: it counts them together.
EndsInARow ==
    running /\ loop = "done" /\ ResetsOnConnect(adapter) =>
        sinceOpen > LastAttempt(adapter)

\* The docstring of publish_connection_failed: it is called after all
\* reconnect attempts are exhausted.
GivingUpIsAnnounced == running /\ loop = "done" /\ GivesUp(adapter) => announced

\* The wait before an attempt never shrinks while failures follow one
\* another, and never exceeds the adapter's cap.
BackoffGrows ==
    [][loop' = "backoff" /\ loop # "backoff" =>
          /\ delay' <= BackoffMax[adapter]
          /\ attempts > 0 => delay' >= Backoff(adapter, attempts)]_streamVars

Streaming == loop = "receiving" /\ up
GaveUp == loop = "done" /\ GivesUp(adapter) /\ sinceOpen > MaxReconnect

\* The backoff outgrew a float, or a lost connection need not be noticed.
Overflown == attempts > FloatLimit
Deaf == ended = "silent" /\ ~Pings(adapter)

\* The reconnect policies of the module docs: an adapter that is running
\* streams again, or has given up after more failures than it allows, or is
\* stopped.
AlwaysBack == running ~> Streaming \/ GaveUp \/ ~running


=============================================================================
