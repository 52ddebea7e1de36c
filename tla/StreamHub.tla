------------------------------ MODULE StreamHub ------------------------------
(***************************************************************************)
(* The WebSocket tick stream: the ConnectionManager, and for every         *)
(* connection the handler of WS /v1/stream/ticks and its heartbeat task    *)
(* (src/api/streaming.py), with the symbol set of the StreamingEngine they *)
(* keep up to date (src/engines/streaming_engine.py).                      *)
(*                                                                         *)
(* The manager's lock is never held across an await, so each method takes  *)
(* effect in one step; but each ends in an awaited log call, so what the   *)
(* handler does with its result is a later step.  A connection id is a     *)
(* fresh uuid4 and never used twice.                                       *)
(***************************************************************************)
EXTENDS Integers, FiniteSets, FiniteSetsExt

CONSTANTS
    Conns,          \* connection ids
    Symbols,
    MaxSubscribed,  \* _MAX_SUBSCRIBED_SYMBOLS, of all connections together
    MaxMissed       \* _MAX_MISSED_HEARTBEATS

ASSUME SymbolAssumption == IsFiniteSet(Symbols)
ASSUME MaxSubscribedAssumption == MaxSubscribed \in Nat
ASSUME MaxMissedAssumption == MaxMissed \in Nat \ {0}

VARIABLES
    connections, \* _connections: the registered ids
    subs,        \* subs[c]: _subscriptions[c], {} when c is not a key
    symSubs,     \* symSubs[s]: _symbol_subscribers[s], {} when not a key
    engine,      \* _subscribed_symbols of the StreamingEngine
    pc,          \* pc[c]: where the handler of c is
    pending,     \* pending[c]: symbols the handler is about to forward
    link,        \* link[c]: the client's side of the connection
    beat         \* beat[c]: missed heartbeats, or what the task does else

vars == <<connections, subs, symSubs, engine, pc, pending, link, beat>>

Stopped == -1      \* the heartbeat task has returned or was cancelled
Closing == -2      \* it has unregistered the connection and will close it

-----------------------------------------------------------------------------
(* ConnectionManager.                                                      *)

\* The sum of the lengths of all subscription sets.
Subscriptions == {p \in Conns \X Symbols : p[2] \in subs[p[1]]}
Total == Cardinality(Subscriptions)

\* Mutant: the limit is taken for one connection.
FreeForOne(c) == MaxSubscribed - Cardinality(subs[c])

\* How many more symbols the limit allows c, subscribe()'s current_total.
Free(c) == MaxSubscribed - Total

Least(m, n) == IF m < n THEN m ELSE n

\* The lists subscribe() may accept of a request: what c has already, and as
\* many of the others, first come first served, as the limit allows.
Acceptable(c, request) ==
    LET fresh == request \ subs[c]
        room == Least(Cardinality(fresh), IF Free(c) > 0 THEN Free(c) ELSE 0)
    IN  {(request \cap subs[c]) \cup new : new \in kSubset(room, fresh)}

Register(c, symbols) ==
    /\ subs' = [subs EXCEPT ![c] = @ \cup symbols]
    /\ symSubs' = [s \in Symbols |-> IF s \in symbols
                                       THEN symSubs[s] \cup {c} ELSE symSubs[s]]

Unregister(c, symbols) ==
    /\ subs' = [subs EXCEPT ![c] = @ \ symbols]
    /\ symSubs' = [s \in Symbols |-> IF s \in symbols
                                       THEN symSubs[s] \ {c} ELSE symSubs[s]]

\* Mutant: disconnect() leaves the subscriptions where they are.
DisconnectSocketOnly(c) ==
    /\ connections' = connections \ {c}
    /\ UNCHANGED <<subs, symSubs>>

\* Mutant: disconnect() forgets the index by symbol.
DisconnectHalf(c) ==
    /\ connections' = connections \ {c}
    /\ subs' = [subs EXCEPT ![c] = {}]
    /\ UNCHANGED symSubs

Disconnect(c) ==
    /\ connections' = connections \ {c}
    /\ Unregister(c, subs[c])

-----------------------------------------------------------------------------
Init ==
    /\ connections = {}
    /\ subs = [c \in Conns |-> {}]
    /\ symSubs = [s \in Symbols |-> {}]
    /\ engine = {}
    /\ pc = [c \in Conns |-> "new"]
    /\ pending = [c \in Conns |-> {}]
    /\ link = [c \in Conns |-> "open"]
    /\ beat = [c \in Conns |-> Stopped]

GoTo(c, to) == pc' = [pc EXCEPT ![c] = to]

Accept(c) ==
    /\ pc[c] = "new"
    /\ connections' = connections \cup {c}
    /\ GoTo(c, "receiving")
    /\ beat' = [beat EXCEPT ![c] = 0]
    /\ UNCHANGED <<subs, symSubs, engine, pending, link>>

\* Messages that were queued are handled after the connection has closed, or
\* after the heartbeat task has released it: subscribe() makes the set anew.
\* A request for nothing changes nothing and is not answered.
Subscribe(c) ==
    /\ pc[c] = "receiving"
    /\ \E request \in SUBSET Symbols \ {{}} : \E accepted \in Acceptable(c, request) :
         /\ Register(c, accepted)
         /\ pending' = [pending EXCEPT ![c] = accepted]
    /\ GoTo(c, "subscribing")
    /\ UNCHANGED <<connections, engine, link, beat>>

\* The handler then answers; a send to a dead client raises and ends it.
Answer(c) ==
    /\ GoTo(c, IF link[c] = "open" THEN "receiving" ELSE "failed")
    /\ pending' = [pending EXCEPT ![c] = {}]

ForwardSubscribe(c) ==
    /\ pc[c] = "subscribing"
    /\ engine' = engine \cup pending[c]
    /\ Answer(c)
    /\ UNCHANGED <<connections, subs, symSubs, link, beat>>

Unsubscribe(c) ==
    /\ pc[c] = "receiving"
    /\ \E request \in SUBSET Symbols :
         /\ Unregister(c, request \cap subs[c])
         /\ pending' = [pending EXCEPT ![c] = request \cap subs[c]]
    /\ GoTo(c, "unsubscribing")
    /\ UNCHANGED <<connections, engine, link, beat>>

\* Mutant: the other subscribers of the symbol are not looked at.
ForwardAnyUnsubscribe(c) ==
    /\ pc[c] = "unsubscribing"
    /\ engine' = engine \ pending[c]
    /\ Answer(c)
    /\ UNCHANGED <<connections, subs, symSubs, link, beat>>

ForwardUnsubscribe(c) ==
    /\ pc[c] = "unsubscribing"
    /\ engine' = engine \ {s \in pending[c] : symSubs[s] = {}}
    /\ Answer(c)
    /\ UNCHANGED <<connections, subs, symSubs, link, beat>>

\* A message the handler raises on, such as an action that is no string.
Malformed(c) ==
    /\ pc[c] = "receiving"
    /\ GoTo(c, "failed")
    /\ UNCHANGED <<connections, subs, symSubs, engine, pending, link, beat>>

\* The finally block cancels both tasks.  Its "with asyncio.timeout(5.0)" is
\* an asynchronous context manager in a plain with statement: it raises
\* TypeError, and manager.disconnect() is not reached.
Finally(c) ==
    /\ \/ pc[c] = "failed"
       \/ pc[c] = "receiving" /\ link[c] = "closed"
    /\ GoTo(c, "ended")
    /\ beat' = [beat EXCEPT ![c] = Stopped]
    /\ UNCHANGED <<connections, subs, symSubs, engine, pending, link>>

-----------------------------------------------------------------------------
(* The heartbeat task.                                                     *)

Beating(c) == beat[c] >= 0

BeatAnswered(c) ==
    /\ Beating(c) /\ link[c] = "open"
    /\ beat' = [beat EXCEPT ![c] = 0]
    /\ UNCHANGED <<connections, subs, symSubs, engine, pc, pending, link>>

\* Mutant: the last missed heartbeat is not acted on.
BeatMissedOnly(c) ==
    /\ Beating(c) /\ link[c] # "open"
    /\ beat' = [beat EXCEPT ![c] = Least(MaxMissed, @ + 1)]
    /\ UNCHANGED <<connections, subs, symSubs, engine, pc, pending, link>>

BeatMissed(c) ==
    /\ Beating(c) /\ link[c] # "open"
    /\ IF beat[c] + 1 >= MaxMissed
         THEN Disconnect(c) /\ beat' = [beat EXCEPT ![c] = Closing]
         ELSE /\ beat' = [beat EXCEPT ![c] = @ + 1]
              /\ UNCHANGED <<connections, subs, symSubs>>
    /\ UNCHANGED <<engine, pc, pending, link>>

\* websocket.close() makes the handler's receive raise, or fails itself.
BeatClose(c) ==
    /\ beat[c] = Closing
    /\ \/ link' = [link EXCEPT ![c] = "closed"]
       \/ UNCHANGED link
    /\ beat' = [beat EXCEPT ![c] = Stopped]
    /\ UNCHANGED <<connections, subs, symSubs, engine, pc, pending>>

-----------------------------------------------------------------------------
(* Clients, and the ticks the engine publishes.                            *)

\* A client closes the connection, or vanishes, and its death is noticed
\* later or never.
ClientLeaves(c) ==
    /\ pc[c] \notin {"new", "ended"}
    /\ \/ link[c] # "closed" /\ link' = [link EXCEPT ![c] = "closed"]
       \/ link[c] = "open" /\ link' = [link EXCEPT ![c] = "broken"]
    /\ UNCHANGED <<connections, subs, symSubs, engine, pc, pending, beat>>

PublishTick(s) ==
    /\ engine' = engine \cup {s}
    /\ UNCHANGED <<connections, subs, symSubs, pc, pending, link, beat>>

-----------------------------------------------------------------------------
Handle(c) ==
    \/ Accept(c) \/ Subscribe(c) \/ Unsubscribe(c) \/ Malformed(c)
    \/ ForwardSubscribe(c) \/ ForwardUnsubscribe(c) \/ Finally(c)

Heartbeat(c) == BeatAnswered(c) \/ BeatMissed(c) \/ BeatClose(c)

Next ==
    \/ \E c \in Conns : Handle(c) \/ Heartbeat(c) \/ ClientLeaves(c)
    \/ \E s \in Symbols : PublishTick(s)

Spec == Init /\ [][Next]_vars

\* The event loop runs every task whose await is over; heartbeats are timed.
Fairness ==
    \A c \in Conns :
        /\ WF_vars(ForwardSubscribe(c) \/ ForwardUnsubscribe(c) \/ Finally(c))
        /\ WF_vars(Heartbeat(c))

FairSpec == Spec /\ Fairness

-----------------------------------------------------------------------------
(* The variables hold what the code can store in them.                     *)
TypeOK ==
    /\ connections \subseteq Conns
    /\ subs \in [Conns -> SUBSET Symbols]
    /\ symSubs \in [Symbols -> SUBSET Conns]
    /\ engine \subseteq Symbols
    /\ pc \in [Conns -> {"new", "receiving", "subscribing", "unsubscribing",
                         "failed", "ended"}]
    /\ pending \in [Conns -> SUBSET Symbols]
    /\ link \in [Conns -> {"open", "broken", "closed"}]
    /\ beat \in [Conns -> Closing .. MaxMissed - 1]

(* The two indexes of the manager say the same, whichever of subscribe(),  *)
(* unsubscribe() and the heartbeat's disconnect() came last.               *)
IndexesAgree == \A c \in Conns, s \in Symbols : c \in symSubs[s] <=> s \in subs[c]

(* All connections together, closed ones included, stay within the limit.  *)
WithinLimit == Total <= MaxSubscribed

(* What the heartbeat task has released stays released while the handler   *)
(* serves its connection: only the last message it takes, of which it      *)
(* cannot tell the client, may subscribe again.                            *)
GhostsAreLate ==
    \A c \in Conns : c \notin connections /\ subs[c] # {}
                        => pc[c] \in {"subscribing", "failed", "ended"}

(* "Unregister a connection and remove all its subscriptions", after a     *)
(* heartbeat expiry too: a connection that is not registered has none.     *)
NoGhostSubscription == \A c \in Conns : c \notin connections => subs[c] = {}

(* A symbol somebody is subscribed to, and was forwarded for, is active in *)
(* the StreamingEngine: an unsubscription of one connection never takes    *)
(* the symbol from another one.                                            *)
EngineCovers ==
    \A c \in Conns : pc[c] # "subscribing" => subs[c] \subseteq engine

(* A client that has silently gone is released by the heartbeat task,      *)
(* unless its handler ends first.                                          *)
HeartbeatReleases ==
    \A c \in Conns : link[c] = "broken" /\ c \in connections
                        ~> c \notin connections \/ pc[c] = "ended"

(* "On connection close: unsubscribe all symbols within 5 seconds;         *)
(* decrement active-connection count."                                     *)
ClosedIsReleased ==
    \A c \in Conns : pc[c] = "ended" => c \notin connections /\ subs[c] = {}

=============================================================================
