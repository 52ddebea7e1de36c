--------------------------- MODULE StreamHubProofs ---------------------------
(***************************************************************************)
(* What holds of the tick stream for any set of connections and symbols,   *)
(* any limit and any number of heartbeats that may be missed.              *)
(***************************************************************************)
EXTENDS StreamHub, FiniteSetTheorems, TLAPS

USE MaxMissedAssumption

(* subscribe() accepts nothing that was not asked for.                     *)
LEMMA AcceptedWasRequested ==
    ASSUME NEW c \in Conns, NEW request \in SUBSET Symbols,
           NEW accepted \in Acceptable(c, request)
    PROVE  accepted \in SUBSET Symbols
  BY DEF Acceptable, kSubset

(* Both indexes are written together, so they keep their types and agree.  *)
LEMMA RegisterKeepsIndexes ==
    ASSUME TypeOK, IndexesAgree, NEW c \in Conns, NEW S \in SUBSET Symbols,
           Register(c, S)
    PROVE  /\ subs' \in [Conns -> SUBSET Symbols]
           /\ symSubs' \in [Symbols -> SUBSET Conns]
           /\ IndexesAgree'
  BY DEF TypeOK, IndexesAgree, Register

LEMMA UnregisterKeepsIndexes ==
    ASSUME TypeOK, IndexesAgree, NEW c \in Conns, NEW S \in SUBSET Symbols,
           Unregister(c, S)
    PROVE  /\ subs' \in [Conns -> SUBSET Symbols]
           /\ symSubs' \in [Symbols -> SUBSET Conns]
           /\ IndexesAgree'
  BY DEF TypeOK, IndexesAgree, Unregister

(* The subscriptions and the two indexes over every step.                  *)
LEMMA IndexStep ==
    ASSUME TypeOK, IndexesAgree, [Next]_vars
    PROVE  /\ subs' \in [Conns -> SUBSET Symbols]
           /\ symSubs' \in [Symbols -> SUBSET Conns]
           /\ IndexesAgree'
  <1> DEFINE Kept == UNCHANGED <<subs, symSubs>>
  <1>1. CASE Kept
    BY <1>1 DEF TypeOK, IndexesAgree
  <1>2. CASE ~Kept
    <2>1. \E c \in Conns : Subscribe(c) \/ Unsubscribe(c) \/ BeatMissed(c)
      BY <1>2 DEF Next, vars, Handle, Heartbeat, Accept, Malformed, Finally,
                  ForwardSubscribe, ForwardUnsubscribe, BeatAnswered, BeatClose,
                  ClientLeaves, PublishTick
    <2>2. PICK c \in Conns : Subscribe(c) \/ Unsubscribe(c) \/ BeatMissed(c)
      BY <2>1
    <2>3. CASE Subscribe(c)
      <3>1. PICK request \in SUBSET Symbols \ {{}} :
              \E accepted \in Acceptable(c, request) : Register(c, accepted)
        BY <2>3 DEF Subscribe
      <3>2. QED
        BY <3>1, AcceptedWasRequested, RegisterKeepsIndexes
    <2>4. CASE Unsubscribe(c)
      <3>1. PICK request \in SUBSET Symbols : Unregister(c, request \cap subs[c])
        BY <2>4 DEF Unsubscribe
      <3>2. QED
        BY <3>1, UnregisterKeepsIndexes
    <2>5. CASE BeatMissed(c)
      <3>1. Unregister(c, subs[c])
        BY <1>2, <2>5 DEF BeatMissed, Disconnect
      <3>2. subs[c] \in SUBSET Symbols
        BY DEF TypeOK
      <3>3. QED
        BY <3>1, <3>2, UnregisterKeepsIndexes
    <2>6. QED
      BY <2>2, <2>3, <2>4, <2>5
  <1>3. QED
    BY <1>1, <1>2

(* What the handler is about to forward are symbols.                       *)
LEMMA PendingStep ==
    ASSUME TypeOK, [Next]_vars
    PROVE  pending' \in [Conns -> SUBSET Symbols]
  <1>1. CASE UNCHANGED pending
    BY <1>1 DEF TypeOK
  <1>2. CASE \E c \in Conns : Subscribe(c)
    <2>1. PICK c \in Conns, request \in SUBSET Symbols \ {{}} :
            \E accepted \in Acceptable(c, request) :
              pending' = [pending EXCEPT ![c] = accepted]
      BY <1>2 DEF Subscribe
    <2>2. QED
      BY <2>1, AcceptedWasRequested DEF TypeOK
  <1>3. CASE \E c \in Conns : Unsubscribe(c)
    BY <1>3 DEF Unsubscribe, TypeOK
  <1>4. CASE \E c \in Conns : ForwardSubscribe(c) \/ ForwardUnsubscribe(c)
    BY <1>4 DEF ForwardSubscribe, ForwardUnsubscribe, Answer, TypeOK
  <1>5. QED
    BY <1>1, <1>2, <1>3, <1>4
       DEF Next, vars, Handle, Heartbeat, Accept, Malformed, Finally, BeatAnswered,
           BeatMissed, BeatClose, ClientLeaves, PublishTick

LEMMA ControlStep ==
    ASSUME TypeOK, [Next]_vars
    PROVE  /\ connections' \subseteq Conns
           /\ engine' \subseteq Symbols
           /\ pc' \in [Conns -> {"new", "receiving", "subscribing", "unsubscribing",
                                 "failed", "ended"}]
           /\ link' \in [Conns -> {"open", "broken", "closed"}]
           /\ beat' \in [Conns -> Closing .. MaxMissed - 1]
  <1> USE DEF TypeOK, GoTo
  <1>1. CASE UNCHANGED vars
    BY <1>1 DEF vars
  <1>2. ASSUME NEW c \in Conns, Handle(c)
        PROVE  /\ connections' \subseteq Conns
               /\ engine' \subseteq Symbols
               /\ pc' \in [Conns -> {"new", "receiving", "subscribing",
                                     "unsubscribing", "failed", "ended"}]
               /\ link' = link
               /\ beat' \in [Conns -> Closing .. MaxMissed - 1]
    <2> Stopped \in Closing .. MaxMissed - 1 /\ 0 \in Closing .. MaxMissed - 1
      BY DEF Stopped, Closing
    <2>1. CASE Accept(c) \/ Finally(c)
      BY <2>1 DEF Accept, Finally
    <2>2. CASE Subscribe(c) \/ Unsubscribe(c) \/ Malformed(c)
      BY <2>2 DEF Subscribe, Unsubscribe, Malformed
    <2>3. CASE ForwardSubscribe(c) \/ ForwardUnsubscribe(c)
      BY <2>3 DEF ForwardSubscribe, ForwardUnsubscribe, Answer
    <2>4. QED
      BY <1>2, <2>1, <2>2, <2>3 DEF Handle
  <1>3. ASSUME NEW c \in Conns, Heartbeat(c)
        PROVE  /\ connections' \subseteq Conns
               /\ UNCHANGED <<engine, pc>>
               /\ link' \in [Conns -> {"open", "broken", "closed"}]
               /\ beat' \in [Conns -> Closing .. MaxMissed - 1]
    <2> Stopped \in Closing .. MaxMissed - 1 /\ 0 \in Closing .. MaxMissed - 1
        /\ Closing \in Closing .. MaxMissed - 1
      BY DEF Stopped, Closing
    <2>1. CASE BeatAnswered(c) \/ BeatClose(c)
      BY <2>1 DEF BeatAnswered, BeatClose
    <2>2. CASE BeatMissed(c)
      <3>1. beat[c] + 1 < MaxMissed => beat[c] + 1 \in Closing .. MaxMissed - 1
        BY <2>2 DEF BeatMissed, Beating, Closing
      <3>2. QED
        BY <2>2, <3>1 DEF BeatMissed, Disconnect
    <2>3. QED
      BY <1>3, <2>1, <2>2 DEF Heartbeat
  <1>4. ASSUME NEW c \in Conns, ClientLeaves(c)
        PROVE  /\ UNCHANGED <<connections, engine, pc, beat>>
               /\ link' \in [Conns -> {"open", "broken", "closed"}]
    BY <1>4 DEF ClientLeaves
  <1>5. ASSUME NEW s \in Symbols, PublishTick(s)
        PROVE  /\ UNCHANGED <<connections, pc, link, beat>>
               /\ engine' \subseteq Symbols
    BY <1>5 DEF PublishTick
  <1>6. QED
    BY <1>1, <1>2, <1>3, <1>4, <1>5 DEF Next

(* Every variable keeps its type, and the two indexes of the manager agree *)
(* whatever the handlers and heartbeat tasks of all connections do.        *)
THEOREM IndexesAlwaysAgree == Spec => [](TypeOK /\ IndexesAgree)
  <1>1. Init => TypeOK /\ IndexesAgree
    BY DEF Init, TypeOK, IndexesAgree, Stopped, Closing
  <1>2. TypeOK /\ IndexesAgree /\ [Next]_vars => TypeOK' /\ IndexesAgree'
    BY IndexStep, PendingStep, ControlStep DEF TypeOK
  <1>3. QED
    BY <1>1, <1>2, PTL DEF Spec

-----------------------------------------------------------------------------
(* A client whose end of the connection is open is registered: only missed *)
(* heartbeats unregister it, and sends to it do not fail.  So the handler  *)
(* that subscribes for a released connection fails when it answers.        *)
OpenIsRegistered ==
    \A c \in Conns : pc[c] # "new" /\ link[c] = "open" => c \in connections

Released == OpenIsRegistered /\ GhostsAreLate

LEMMA ReleasedStep ==
    ASSUME TypeOK, Released, [Next]_vars
    PROVE  Released'
  <1> USE DEF TypeOK, Released, OpenIsRegistered, GhostsAreLate, GoTo
  <1>1. CASE UNCHANGED vars
    BY <1>1 DEF vars
  <1>2. ASSUME NEW c \in Conns, Handle(c) PROVE Released'
    <2>1. CASE Accept(c)
      BY <2>1 DEF Accept
    <2>2. CASE Subscribe(c)
      <3>1. \A d \in Conns : d # c => subs'[d] = subs[d]
        BY <2>2 DEF Subscribe, Register
      <3>2. pc'[c] = "subscribing"
        BY <2>2 DEF Subscribe
      <3>3. QED
        BY <2>2, <3>1, <3>2 DEF Subscribe
    <2>3. CASE Unsubscribe(c)
      <3>1. \A d \in Conns : subs'[d] \subseteq subs[d]
        BY <2>3 DEF Unsubscribe, Unregister
      <3>2. c \notin connections => subs[c] = {}
        BY <2>3 DEF Unsubscribe
      <3>3. QED
        BY <2>3, <3>1, <3>2 DEF Unsubscribe
    <2>4. CASE Malformed(c) \/ Finally(c)
      BY <2>4 DEF Malformed, Finally
    <2>5. CASE ForwardSubscribe(c) \/ ForwardUnsubscribe(c)
      BY <2>5 DEF ForwardSubscribe, ForwardUnsubscribe, Answer
    <2>6. QED
      BY <1>2, <2>1, <2>2, <2>3, <2>4, <2>5 DEF Handle
  <1>3. ASSUME NEW c \in Conns, Heartbeat(c) PROVE Released'
    <2>1. CASE BeatAnswered(c) \/ BeatClose(c)
      BY <2>1 DEF BeatAnswered, BeatClose
    <2>2. CASE BeatMissed(c)
      <3>1. link[c] # "open" /\ UNCHANGED <<pc, link>>
        BY <2>2 DEF BeatMissed
      <3>2. CASE UNCHANGED <<connections, subs>>
        BY <3>1, <3>2
      <3>3. CASE Disconnect(c)
        BY <3>1, <3>3 DEF Disconnect, Unregister
      <3>4. QED
        BY <2>2, <3>2, <3>3 DEF BeatMissed
    <2>3. QED
      BY <1>3, <2>1, <2>2 DEF Heartbeat
  <1>4. ASSUME NEW c \in Conns, ClientLeaves(c) PROVE Released'
    BY <1>4 DEF ClientLeaves
  <1>5. ASSUME NEW s \in Symbols, PublishTick(s) PROVE Released'
    BY <1>5 DEF PublishTick
  <1>6. QED
    BY <1>1, <1>2, <1>3, <1>4, <1>5 DEF Next

(* However the handler is interleaved with the heartbeat task, a released  *)
(* connection is subscribed again by the last message of its handler only. *)
THEOREM OnlyLateGhosts == Spec => []GhostsAreLate
  <1>1. Init => Released
    BY DEF Init, Released, OpenIsRegistered, GhostsAreLate
  <1>2. TypeOK /\ Released /\ [Next]_vars => Released'
    BY ReleasedStep
  <1>3. Released => GhostsAreLate
    BY DEF Released
  <1>4. QED
    BY <1>1, <1>2, <1>3, IndexesAlwaysAgree, PTL DEF Spec

-----------------------------------------------------------------------------
(* What is subscribed to and not active in the engine is on its way: the   *)
(* handler that subscribed it has yet to forward it.                       *)
Due(c) == IF pc[c] = "subscribing" THEN pending[c] ELSE {}

Forwarded == \A c \in Conns : subs[c] \ Due(c) \subseteq engine

LEMMA ForwardedStep ==
    ASSUME TypeOK, IndexesAgree, Forwarded, [Next]_vars
    PROVE  Forwarded'
  <1> USE DEF TypeOK, Forwarded, Due, GoTo
  <1>1. CASE UNCHANGED vars
    BY <1>1 DEF vars
  <1>2. ASSUME NEW c \in Conns, Handle(c) PROVE Forwarded'
    <2>1. CASE Accept(c) \/ Malformed(c) \/ Finally(c)
      BY <2>1 DEF Accept, Malformed, Finally
    <2>2. CASE Subscribe(c)
      <3>1. PICK request \in SUBSET Symbols \ {{}} :
              \E accepted \in Acceptable(c, request) :
                 /\ Register(c, accepted)
                 /\ pending' = [pending EXCEPT ![c] = accepted]
        BY <2>2 DEF Subscribe
      <3>2. subs[c] \subseteq engine
        BY <2>2 DEF Subscribe
      <3>3. pc' = [pc EXCEPT ![c] = "subscribing"] /\ UNCHANGED engine
        BY <2>2 DEF Subscribe
      <3>4. QED
        BY <3>1, <3>2, <3>3 DEF Register
    <2>3. CASE Unsubscribe(c)
      <3>1. \A d \in Conns : subs'[d] \subseteq subs[d]
        BY <2>3 DEF Unsubscribe, Unregister
      <3>2. QED
        BY <2>3, <3>1 DEF Unsubscribe
    <2>4. CASE ForwardSubscribe(c)
      BY <2>4 DEF ForwardSubscribe, Answer
    <2>5. CASE ForwardUnsubscribe(c)
      <3>1. ASSUME NEW d \in Conns, NEW s \in subs[d]
            PROVE  symSubs[s] # {}
        BY <3>1 DEF IndexesAgree
      <3>2. engine' = engine \ {s \in pending[c] : symSubs[s] = {}}
        BY <2>5 DEF ForwardUnsubscribe
      <3>3. \A d \in Conns : subs[d] \cap engine \subseteq engine'
        BY <3>1, <3>2
      <3>4. QED
        BY <2>5, <3>3 DEF ForwardUnsubscribe, Answer
    <2>6. QED
      BY <1>2, <2>1, <2>2, <2>3, <2>4, <2>5 DEF Handle
  <1>3. ASSUME NEW c \in Conns, Heartbeat(c) PROVE Forwarded'
    <2>1. \A d \in Conns : subs'[d] \subseteq subs[d]
      BY <1>3 DEF Heartbeat, BeatAnswered, BeatMissed, BeatClose, Disconnect, Unregister
    <2>2. UNCHANGED <<engine, pc, pending>>
      BY <1>3 DEF Heartbeat, BeatAnswered, BeatMissed, BeatClose
    <2>3. QED
      BY <2>1, <2>2
  <1>4. ASSUME NEW c \in Conns, ClientLeaves(c) PROVE Forwarded'
    BY <1>4 DEF ClientLeaves
  <1>5. ASSUME NEW s \in Symbols, PublishTick(s) PROVE Forwarded'
    BY <1>5 DEF PublishTick
  <1>6. QED
    BY <1>1, <1>2, <1>3, <1>4, <1>5 DEF Next

(* A symbol somebody is subscribed to stays active in the engine, whoever  *)
(* else unsubscribes from it and however the two steps of the handlers     *)
(* interleave.                                                             *)
THEOREM EngineAlwaysCovers == Spec => []EngineCovers
  <1>1. Init => Forwarded
    BY DEF Init, Forwarded
  <1>2. TypeOK /\ IndexesAgree /\ Forwarded /\ [Next]_vars => Forwarded'
    BY ForwardedStep
  <1>3. Forwarded => EngineCovers
    BY DEF Forwarded, Due, EngineCovers
  <1>4. QED
    BY <1>1, <1>2, <1>3, IndexesAlwaysAgree, PTL DEF Spec

-----------------------------------------------------------------------------
(* The limit.  The subscriptions are a finite set at any time, although    *)
(* there is no bound on the connections; what a subscribe() accepts and    *)
(* did not have is no more than the room that the others leave.            *)
Limited == IsFiniteSet(Subscriptions) /\ Total <= MaxSubscribed

(* As many pairs as there are new symbols join the subscriptions.          *)
LEMMA NewPairs ==
    ASSUME NEW c, NEW S, IsFiniteSet(S)
    PROVE  IsFiniteSet({c} \X S) /\ Cardinality({c} \X S) = Cardinality(S)
  <1>1. IsFiniteSet({c}) /\ Cardinality({c}) = 1
    BY FS_Singleton
  <1>2. Cardinality(S) \in Nat
    BY FS_CardinalityType
  <1>3. IsFiniteSet({c} \X S) /\ Cardinality({c} \X S) = Cardinality({c}) * Cardinality(S)
    BY <1>1, FS_Product
  <1>4. QED
    BY <1>1, <1>2, <1>3

LEMMA SubscribeKeepsLimit ==
    ASSUME TypeOK, Limited, NEW c \in Conns, NEW request \in SUBSET Symbols,
           NEW accepted \in Acceptable(c, request), Register(c, accepted)
    PROVE  Limited'
  <1> DEFINE fresh == request \ subs[c]
             room == Least(Cardinality(fresh), IF Free(c) > 0 THEN Free(c) ELSE 0)
  <1>1. PICK new \in kSubset(room, fresh) : accepted = (request \cap subs[c]) \cup new
    BY DEF Acceptable
  <1>2. new \subseteq fresh /\ Cardinality(new) = room
    BY <1>1 DEF kSubset
  <1>3. /\ IsFiniteSet(fresh) /\ Cardinality(fresh) \in Nat
        /\ IsFiniteSet(new) /\ Cardinality(new) \in Nat
    BY <1>2, SymbolAssumption, FS_Subset, FS_CardinalityType
  <1> HIDE DEF fresh, room
  <1>4. Total \in Nat
    BY FS_CardinalityType DEF Limited, Total
  <1>5. Total + Cardinality(new) <= MaxSubscribed
    <2>1. room <= MaxSubscribed - Total
      BY <1>3, <1>4, MaxSubscribedAssumption DEF room, Least, Free, Limited
    <2>2. QED
      BY <1>2, <1>3, <1>4, <2>1, MaxSubscribedAssumption
  <1>6. Subscriptions' = Subscriptions \cup ({c} \X new)
    <2>1. subs' = [subs EXCEPT ![c] = subs[c] \cup new]
      BY <1>1 DEF Register, TypeOK
    <2>2. new \subseteq Symbols
      BY <1>2 DEF fresh
    <2>3. ASSUME NEW p \in Conns \X Symbols
          PROVE  p[2] \in subs'[p[1]] <=> p[2] \in subs[p[1]] \/ p \in {c} \X new
      BY <2>1 DEF TypeOK
    <2>4. QED
      BY <2>2, <2>3 DEF Subscriptions
  <1>7. Subscriptions \cap ({c} \X new) = {}
    BY <1>2 DEF Subscriptions, fresh
  <1>8. IsFiniteSet({c} \X new) /\ Cardinality({c} \X new) = Cardinality(new)
    BY <1>3, NewPairs
  <1>9. /\ IsFiniteSet(Subscriptions')
        /\ Cardinality(Subscriptions') = Cardinality(Subscriptions) + Cardinality(new)
                                            - Cardinality({})
    BY <1>6, <1>7, <1>8, FS_Union DEF Limited
  <1>10. QED
    BY <1>4, <1>3, <1>5, <1>9, FS_EmptySet DEF Limited, Total

(* A step that adds no subscription keeps the limit.                       *)
LEMMA FewerKeepsLimit ==
    ASSUME TypeOK, Limited, \A c \in Conns : subs'[c] \subseteq subs[c]
    PROVE  Limited'
  <1>1. Subscriptions' \subseteq Subscriptions
    BY DEF Subscriptions
  <1>2. /\ IsFiniteSet(Subscriptions')
        /\ Cardinality(Subscriptions') <= Cardinality(Subscriptions)
    BY <1>1, FS_Subset DEF Limited
  <1>3. Cardinality(Subscriptions') \in Nat /\ Cardinality(Subscriptions) \in Nat
    BY <1>2, FS_CardinalityType DEF Limited
  <1>4. QED
    BY <1>2, <1>3, MaxSubscribedAssumption DEF Limited, Total

LEMMA LimitStep ==
    ASSUME TypeOK, Limited, [Next]_vars
    PROVE  Limited'
  <1>1. CASE \E c \in Conns : Subscribe(c)
    <2>1. PICK c \in Conns : Subscribe(c)
      BY <1>1
    <2>2. PICK request \in SUBSET Symbols \ {{}} :
            \E accepted \in Acceptable(c, request) : Register(c, accepted)
      BY <2>1 DEF Subscribe
    <2>3. QED
      BY <2>2, SubscribeKeepsLimit
  <1>2. CASE ~\E c \in Conns : Subscribe(c)
    <2>1. \A c \in Conns : subs'[c] \subseteq subs[c]
      BY <1>2 DEF Next, vars, Handle, Heartbeat, Accept, Unsubscribe, Malformed, Finally,
                  ForwardSubscribe, ForwardUnsubscribe, BeatAnswered, BeatMissed,
                  BeatClose, ClientLeaves, PublishTick, Disconnect, Unregister, TypeOK
    <2>2. QED
      BY <2>1, FewerKeepsLimit
  <1>3. QED
    BY <1>1, <1>2

(* subscribe() keeps all connections together within                       *)
(* _MAX_SUBSCRIBED_SYMBOLS, whoever asks for how much in which order.      *)
THEOREM NeverOverLimit == Spec => []WithinLimit
  <1>1. Init => Limited
    <2>1. Init => Subscriptions = {}
      BY DEF Init, Subscriptions
    <2>2. QED
      BY <2>1, FS_EmptySet, MaxSubscribedAssumption DEF Limited, Total
  <1>2. TypeOK /\ Limited /\ [Next]_vars => Limited'
    BY LimitStep
  <1>3. Limited => WithinLimit
    BY DEF Limited, WithinLimit
  <1>4. QED
    BY <1>1, <1>2, <1>3, IndexesAlwaysAgree, PTL DEF Spec

=============================================================================
