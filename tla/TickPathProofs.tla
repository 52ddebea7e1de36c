---------------------------- MODULE TickPathProofs ----------------------------
(***************************************************************************)
(* What holds of the tick path for any number of streams, ticks, windows   *)
(* and prices, however the clocks of the exchange and the host differ,     *)
(* wherever handlers are cancelled, and with ticks still coming at the     *)
(* shutdown.                                                               *)
(***************************************************************************)
EXTENDS TickPath, FiniteSetTheorems, SequenceTheorems, TLAPS

USE BoundAssumption

\* A finalised candle carries the time at which it was finalised.
Stamped(c) == c.available \in Windows /\ c.available <= now

(* Why no row looks ahead: the check of _on_candle_finalised compares the  *)
(* candle with the time it was finalised, which the clock has passed when  *)
(* its upsert, any number of steps later, is made.                         *)
InTime ==
    /\ now \in Windows
    /\ rows = [w \in Windows |-> rows[w]]
    /\ saving = [s \in Streams |-> saving[s]]
    /\ pc = [s \in Streams |-> pc[s]]
    /\ \A s \in Streams : pc[s] = "saving" => Stamped(saving[s])
    /\ phase = "closing" => Stamped(closing)
    /\ NoLookAhead

(* The clock never goes back, so what was stamped in time stays so.        *)
LEMMA StampsAge ==
    ASSUME now \in Windows, now' \in Windows, now <= now', NEW c, Stamped(c)
    PROVE  Stamped(c)'
  BY DEF Stamped, Windows

(* An upsert of a stamped candle writes no row before its window.          *)
LEMMA UpsertInTime ==
    ASSUME InTime, NEW c, Stamped(c), Upsert(c), UNCHANGED now
    PROVE  /\ rows' = [w \in Windows |-> rows'[w]]
           /\ NoLookAhead'
  <1>1. CASE UNCHANGED rows
    BY <1>1 DEF InTime, NoLookAhead
  <1>2. CASE /\ c.win <= c.available
             /\ rows' = [rows EXCEPT ![c.win] = MergedRow(@, c)]
    <2>1. rows' = [w \in Windows |-> rows'[w]]
      BY <1>2 DEF InTime
    <2>2. ASSUME NEW w \in Windows, rows'[w] # None
          PROVE  w <= now
      <3>1. CASE w = c.win
        BY <1>2, <3>1 DEF Stamped, InTime, Windows
      <3>2. CASE w # c.win
        BY <1>2, <2>2, <3>2 DEF InTime, NoLookAhead
      <3>3. QED
        BY <3>1, <3>2
    <2>3. QED
      BY <2>1, <2>2 DEF NoLookAhead
  <1>3. QED
    BY <1>1, <1>2 DEF Upsert

LEMMA InTimeInit == Init => InTime
  BY DEF Init, InTime, NoLookAhead, Windows

LEMMA InTimeStep ==
    ASSUME InTime, [Next]_vars
    PROVE  InTime'
  <1>1. ASSUME NEW s \in Streams, NEW t \in Ticks,
               OnTickLate(s, t) \/ OnTickSame(s, t)
        PROVE  InTime'
    BY <1>1 DEF InTime, NoLookAhead, Stamped, OnTickLate, OnTickSame, candleVars
  <1>2. ASSUME NEW s \in Streams, NEW t \in Ticks, OnTickOther(s, t)
        PROVE  InTime'
    <2>1. Stamped(Finalised(active))
      BY DEF InTime, Stamped, Finalised, Windows
    <2>2. ASSUME NEW r \in Streams, pc'[r] = "saving"
          PROVE  Stamped(saving[r])'
      BY <1>2, <2>1, <2>2 DEF InTime, OnTickOther, Stamped
    <2>3. /\ UNCHANGED <<now, rows, phase, closing>>
          /\ saving' = [r \in Streams |-> saving'[r]]
          /\ pc' = [r \in Streams |-> pc'[r]]
      BY <1>2 DEF InTime, OnTickOther, candleVars
    <2>4. QED
      BY <2>2, <2>3 DEF InTime, Stamped, NoLookAhead
  <1>3. ASSUME NEW s \in Streams, Save(s)
        PROVE  InTime'
    <2>1. Stamped(saving[s])
      BY <1>3 DEF Save, InTime
    <2>2. UNCHANGED <<now, phase, closing>>
      BY <1>3 DEF Save
    <2>3. /\ rows' = [w \in Windows |-> rows'[w]]
          /\ NoLookAhead'
      BY <1>3, <2>1, <2>2, UpsertInTime DEF Save
    <2>4. /\ saving' = [r \in Streams |-> saving'[r]]
          /\ pc' = [r \in Streams |-> pc'[r]]
          /\ \A r \in Streams : pc'[r] = "saving" => Stamped(saving[r])'
      BY <1>3, <2>2 DEF Save, InTime, Stamped
    <2>5. QED
      BY <2>2, <2>3, <2>4 DEF InTime, Stamped
  <1>4. ASSUME NEW s \in Streams, Reopen(s) \/ Cancel(s)
        PROVE  InTime'
    BY <1>4 DEF InTime, NoLookAhead, Stamped, Reopen, Cancel, candleVars
  <1>5. CASE FlushStarts
    BY <1>5 DEF InTime, NoLookAhead, Stamped, FlushStarts, candleVars
  <1>6. ASSUME NEW i \in DOMAIN writing, FlushEnds(i)
        PROVE  InTime'
    BY <1>6 DEF InTime, NoLookAhead, Stamped, FlushEnds, candleVars
  <1>7. CASE Shutdown
    BY <1>7 DEF InTime, NoLookAhead, Stamped, Shutdown, candleVars
  <1>8. CASE CloseCandle
    <2>1. Stamped(Finalised(active))
      BY DEF InTime, Stamped, Finalised, Windows
    <2>2. phase' = "closing" => Stamped(closing)'
      BY <1>8, <2>1 DEF CloseCandle, Stamped
    <2>3. QED
      BY <1>8, <2>2 DEF InTime, NoLookAhead, Stamped, CloseCandle
  <1>9. CASE SaveLast
    <2>1. UNCHANGED <<now, saving, pc>> /\ phase' = "stopped"
      BY <1>9 DEF SaveLast
    <2>2. /\ rows' = [w \in Windows |-> rows'[w]]
          /\ NoLookAhead'
      BY <1>9, <2>1, UpsertInTime DEF SaveLast, InTime
    <2>3. QED
      BY <2>1, <2>2 DEF InTime, Stamped
  <1>10. CASE NextWindow
    <2>1. UNCHANGED <<rows, saving, pc, phase, closing>>
      BY <1>10 DEF NextWindow, candleVars
    <2>2. now' \in Windows /\ now <= now'
      BY <1>10 DEF NextWindow, InTime, Windows
    <2>3. NoLookAhead'
      BY <2>1, <2>2 DEF InTime, NoLookAhead, Windows
    <2>4. QED
      BY <2>1, <2>2, <2>3, StampsAge DEF InTime
  <1>11. CASE UNCHANGED vars
    BY <1>11 DEF InTime, NoLookAhead, Stamped, vars
  <1>12. QED
    BY <1>1, <1>2, <1>3, <1>4, <1>5, <1>6, <1>7, <1>8, <1>9, <1>10, <1>11
    DEF Next, StreamStep

(* No candle reaches the table before its window has begun by the local    *)
(* clock (the look-ahead check of _on_candle_finalised), for any streams,  *)
(* clocks and shutdown.                                                    *)
THEOREM NoRowLooksAhead == Spec => []NoLookAhead
  <1>1. InTime /\ [Next]_vars => InTime'
    BY InTimeStep
  <1>2. InTime => NoLookAhead
    BY DEF InTime
  <1>3. QED
    BY <1>1, <1>2, InTimeInit, PTL DEF Spec

-----------------------------------------------------------------------------
(* Every tick is accounted for.  The ticks of the bulk inserts under way   *)
(* are counted in Inserting; a new insert adds its own, one that ends      *)
(* takes them away, whatever its place.                                    *)

Batch == [size : Nat, by : {"task", "shutdown"}]

TicksOf(n, i) == {i} \X (1 .. n)

LEMMA TicksOfSize ==
    ASSUME NEW n \in Nat, NEW i
    PROVE  IsFiniteSet(TicksOf(n, i)) /\ Cardinality(TicksOf(n, i)) = n
  <1>1. IsFiniteSet({i}) /\ Cardinality({i}) = 1
    BY FS_Singleton
  <1>2. IsFiniteSet(1 .. n) /\ Cardinality(1 .. n) = n
    BY FS_Interval
  <1>3. /\ IsFiniteSet({i} \X (1 .. n))
        /\ Cardinality({i} \X (1 .. n)) = Cardinality({i}) * Cardinality(1 .. n)
    BY <1>1, <1>2, FS_Product
  <1>4. QED
    BY <1>1, <1>2, <1>3 DEF TicksOf

LEMMA InsertingMembers ==
    ASSUME NEW i, NEW k
    PROVE  <<i, k>> \in Inserting <=> i \in DOMAIN writing /\ k \in 1 .. writing[i].size
  BY DEF Inserting

LEMMA AppendInserts ==
    ASSUME writing \in Seq(Batch), IsFiniteSet(Inserting), NEW b \in Batch,
           writing' = Append(writing, b)
    PROVE  IsFiniteSet(Inserting') /\ InFlight' = InFlight + b.size
  <1> DEFINE n == Len(writing) + 1
  <1>1. /\ n \in Nat /\ DOMAIN writing = 1 .. n - 1
        /\ DOMAIN writing' = 1 .. n
        /\ writing'[n] = b
        /\ \A i \in 1 .. n - 1 : writing'[i] = writing[i]
    BY AppendProperties, LenProperties
  <1> HIDE DEF n
  <1>2. Inserting' = Inserting \cup TicksOf(b.size, n)
    <2>1. Inserting' = UNION {TicksOf(writing'[i].size, i) : i \in 1 .. n}
      BY <1>1 DEF Inserting, TicksOf
    <2>2. Inserting = UNION {TicksOf(writing'[i].size, i) : i \in 1 .. n - 1}
      BY <1>1 DEF Inserting, TicksOf
    <2>3. 1 .. n = (1 .. n - 1) \cup {n}
      BY <1>1
    <2>4. QED
      BY <1>1, <2>1, <2>2, <2>3
  <1>3. Inserting \cap TicksOf(b.size, n) = {}
    BY <1>1 DEF Inserting, TicksOf
  <1>4. b.size \in Nat
    BY DEF Batch
  <1>5. /\ IsFiniteSet(TicksOf(b.size, n)) /\ Cardinality(TicksOf(b.size, n)) = b.size
    BY <1>4, TicksOfSize
  <1>6. /\ IsFiniteSet(Inserting \cup TicksOf(b.size, n))
        /\ Cardinality(Inserting \cup TicksOf(b.size, n))
              = Cardinality(Inserting) + b.size - Cardinality({})
    BY <1>3, <1>5, FS_Union
  <1>7. Cardinality(Inserting) \in Nat
    BY FS_CardinalityType
  <1>8. QED
    BY <1>2, <1>4, <1>6, <1>7, FS_EmptySet DEF InFlight

\* Without its n-th element a sequence is one shorter.
LEMMA RemoveAtProperties ==
    ASSUME NEW S, NEW s \in Seq(S), NEW n \in 1 .. Len(s)
    PROVE  /\ RemoveAt(s, n) \in Seq(S)
           /\ Len(RemoveAt(s, n)) = Len(s) - 1
           /\ \A i \in 1 .. Len(s) - 1 :
                 RemoveAt(s, n)[i] = IF i < n THEN s[i] ELSE s[i + 1]
  <1> DEFINE a == SubSeq(s, 1, n - 1)
             b == SubSeq(s, n + 1, Len(s))
  <1>1. /\ Len(s) \in Nat /\ n \in Nat /\ 1 <= n /\ n <= Len(s)
        /\ \A i \in 1 .. Len(s) : s[i] \in S
    BY LenProperties
  <1>2. /\ a \in Seq(S) /\ Len(a) = n - 1
        /\ \A i \in 1 .. n - 1 : a[i] = s[i]
    BY <1>1, SubSeqProperties
  <1>3. /\ b \in Seq(S) /\ Len(b) = Len(s) - n
        /\ \A i \in 1 .. Len(s) - n : b[i] = s[n + i]
    <2>1. \A i \in n + 1 .. Len(s) : s[i] \in S
      BY <1>1
    <2>2. /\ b \in Seq(S)
          /\ Len(b) = IF n + 1 <= Len(s) THEN Len(s) - (n + 1) + 1 ELSE 0
          /\ \A i \in 1 .. Len(s) - (n + 1) + 1 : b[i] = s[n + 1 + i - 1]
      BY <1>1, <2>1, SubSeqProperties
    <2> HIDE DEF b
    <2>3. Len(b) = Len(s) - n
      BY <1>1, <2>2
    <2>4. ASSUME NEW i \in 1 .. Len(s) - n
          PROVE  b[i] = s[n + i]
      <3>1. i \in 1 .. Len(s) - (n + 1) + 1 /\ n + 1 + i - 1 = n + i
        BY <1>1
      <3> QED
        BY <2>2, <3>1
    <2> QED
      BY <2>2, <2>3, <2>4
  <1>4. RemoveAt(s, n) = a \o b
    BY DEF RemoveAt
  <1> HIDE DEF a, b
  <1>5. /\ a \o b \in Seq(S) /\ Len(a \o b) = Len(a) + Len(b)
        /\ \A i \in 1 .. Len(a) + Len(b) :
              (a \o b)[i] = IF i <= Len(a) THEN a[i] ELSE b[i - Len(a)]
    BY <1>2, <1>3, ConcatProperties
  <1>6. Len(a) + Len(b) = Len(s) - 1
    BY <1>1, <1>2, <1>3
  <1>7. ASSUME NEW i \in 1 .. Len(s) - 1
        PROVE  (a \o b)[i] = IF i < n THEN s[i] ELSE s[i + 1]
    <2>1. (a \o b)[i] = IF i <= Len(a) THEN a[i] ELSE b[i - Len(a)]
      BY <1>5, <1>6
    <2>2. CASE i < n
      <3>1. i <= Len(a) /\ i \in 1 .. n - 1
        BY <1>1, <1>2, <2>2
      <3> QED
        BY <1>2, <2>1, <2>2, <3>1
    <2>3. CASE ~(i < n)
      <3>1. ~(i <= Len(a)) /\ i - Len(a) \in 1 .. Len(s) - n /\ n + (i - Len(a)) = i + 1
        BY <1>1, <1>2, <2>3
      <3> QED
        BY <1>3, <2>1, <2>3, <3>1
    <2> QED
      BY <2>2, <2>3
  <1> QED
    BY <1>4, <1>5, <1>6, <1>7

\* An insert that ends, whatever its place, takes its own ticks away.
LEMMA RemoveInserts ==
    ASSUME writing \in Seq(Batch), IsFiniteSet(Inserting), NEW n \in DOMAIN writing,
           writing' = RemoveAt(writing, n)
    PROVE  /\ writing' \in Seq(Batch)
           /\ IsFiniteSet(Inserting')
           /\ writing[n].size \in Nat
           /\ InFlight = InFlight' + writing[n].size
  <1> DEFINE m == Len(writing)
             Own == TicksOf(writing[n].size, n)
             Rest == Inserting \ Own
             Moved(x) == IF x[1] < n THEN x ELSE <<x[1] - 1, x[2]>>
  <1>1. m \in Nat /\ n \in 1 .. m /\ DOMAIN writing = 1 .. m
        /\ \A i \in 1 .. m : writing[i] \in Batch
    BY LenProperties
  <1>2. /\ writing' \in Seq(Batch) /\ Len(writing') = m - 1
        /\ \A i \in 1 .. m - 1 :
              writing'[i] = IF i < n THEN writing[i] ELSE writing[i + 1]
    BY <1>1, RemoveAtProperties
  <1>3. DOMAIN writing' = 1 .. m - 1
    BY <1>2, LenProperties
  <1> HIDE DEF m
  <1>4. writing[n].size \in Nat
    BY <1>1 DEF Batch
  <1>5. IsFiniteSet(Own) /\ Cardinality(Own) = writing[n].size /\ Own \subseteq Inserting
    <2>1. IsFiniteSet(Own) /\ Cardinality(Own) = writing[n].size
      BY <1>4, TicksOfSize
    <2>2. Own \subseteq Inserting
      BY DEF Inserting, TicksOf
    <2>3. QED
      BY <2>1, <2>2
  <1>6. /\ IsFiniteSet(Rest)
        /\ Cardinality(Rest) = Cardinality(Inserting) - Cardinality(Inserting \cap Own)
    BY FS_Difference
  <1>7. Inserting \cap Own = Own
    BY <1>5
  <1>8. \A x \in Rest : /\ x = <<x[1], x[2]>>
                        /\ x[1] \in 1 .. m /\ x[1] # n
                        /\ x[2] \in 1 .. writing[x[1]].size
    BY <1>1 DEF Inserting, TicksOf
  <1>9. \A i \in 1 .. m - 1 : \A k \in 1 .. writing'[i].size : <<i, k>> \in Inserting'
    BY <1>3 DEF Inserting
  <1>10. \A x \in Inserting' : /\ x = <<x[1], x[2]>>
                              /\ x[1] \in 1 .. m - 1
                              /\ x[2] \in 1 .. writing'[x[1]].size
    BY <1>3 DEF Inserting
  <1>11. \A i \in 1 .. m : i # n => \A k \in 1 .. writing[i].size : <<i, k>> \in Rest
    BY <1>1 DEF Inserting, TicksOf
  <1> HIDE DEF Rest, Own
  <1> DEFINE f == [x \in Rest |-> Moved(x)]
  <1>12. f \in Bijection(Rest, Inserting')
    <2>1. \A x \in Rest : f[x] \in Inserting'
      <3> TAKE x \in Rest
      <3>1. CASE x[1] < n
        <4>1. x[1] \in 1 .. m - 1 /\ writing'[x[1]] = writing[x[1]]
          BY <1>1, <1>2, <1>8, <3>1
        <4>2. <<x[1], x[2]>> \in Inserting'
          BY <1>8, <1>9, <4>1
        <4>3. QED
          BY <1>8, <3>1, <4>2
      <3>2. CASE ~(x[1] < n)
        <4>1. /\ x[1] - 1 \in 1 .. m - 1 /\ ~(x[1] - 1 < n)
              /\ (x[1] - 1) + 1 = x[1]
          BY <1>1, <1>8, <3>2
        <4>2. writing'[x[1] - 1] = writing[x[1]]
          BY <1>2, <4>1
        <4>3. QED
          BY <1>8, <1>9, <3>2, <4>1, <4>2
      <3>3. QED
        BY <3>1, <3>2
    <2>2. ASSUME NEW x \in Rest, NEW y \in Rest, f[x] = f[y]
          PROVE  x = y
      <3>1. Moved(x) = Moved(y)
        BY <2>2
      <3>2. x[1] \in Nat /\ y[1] \in Nat /\ x[1] # n /\ y[1] # n /\ n \in Nat
        BY <1>1, <1>8
      <3>3. Moved(x)[2] = x[2] /\ Moved(y)[2] = y[2]
            /\ Moved(x)[1] = (IF x[1] < n THEN x[1] ELSE x[1] - 1)
            /\ Moved(y)[1] = (IF y[1] < n THEN y[1] ELSE y[1] - 1)
        OBVIOUS
      <3>4. x[1] = y[1] /\ x[2] = y[2]
        BY <3>1, <3>2, <3>3
      <3>5. QED
        BY <1>8, <3>4
    <2>3. ASSUME NEW y \in Inserting'
          PROVE  \E x \in Rest : f[x] = y
      <3>1. CASE y[1] < n
        <4>1. y \in Rest
          BY <1>1, <1>2, <1>10, <1>11, <3>1
        <4>2. f[y] = y
          BY <3>1, <4>1
        <4>3. QED
          BY <4>1, <4>2
      <3>2. CASE ~(y[1] < n)
        <4> DEFINE x == <<y[1] + 1, y[2]>>
        <4>1. x \in Rest
          <5>1. y[1] \in 1 .. m - 1 /\ y[2] \in 1 .. writing'[y[1]].size
            BY <1>10
          <5>2. y[1] + 1 \in 1 .. m /\ y[1] + 1 # n
            BY <1>1, <3>2, <5>1
          <5>3. writing'[y[1]] = writing[y[1] + 1]
            BY <1>2, <3>2, <5>1
          <5>4. QED
            BY <1>11, <5>1, <5>2, <5>3
        <4>2. Moved(x) = y
          BY <1>1, <1>10, <3>2
        <4>3. QED
          BY <4>1, <4>2
      <3>3. QED
        BY <3>1, <3>2
    <2>4. f \in [Rest -> Inserting']
      BY <2>1
    <2>5. QED
      BY <2>2, <2>3, <2>4 DEF Bijection, Injection, Surjection, IsInjective
  <1>13. IsFiniteSet(Inserting') /\ Cardinality(Inserting') = Cardinality(Rest)
    BY <1>6, <1>12, FS_Bijection DEF ExistsBijection
  <1>14. Cardinality(Inserting) \in Nat /\ Cardinality(Inserting') \in Nat
    BY <1>13, FS_CardinalityType
  <1>15. Cardinality(Inserting') = Cardinality(Inserting) - writing[n].size
    BY <1>5, <1>6, <1>7, <1>13
  <1>16. Cardinality(Inserting) = Cardinality(Inserting') + writing[n].size
    BY <1>4, <1>14, <1>15
  <1>17. QED
    BY <1>2, <1>4, <1>13, <1>16 DEF InFlight

Accounted ==
    /\ writing \in Seq(Batch)
    /\ buffer \in Nat /\ received \in Nat
    /\ persisted \in Nat /\ dropped \in Nat /\ uncounted \in Nat
    /\ Done \in Nat
    /\ pc = [s \in Streams |-> pc[s]]
    /\ IsFiniteSet(Handling)
    /\ IsFiniteSet(Inserting)
    /\ TicksAccountedFor

\* A stream that begins to handle a tick is one more, one that ends one less.
LEMMA HandlingGrows ==
    ASSUME Accounted, NEW s \in Streams, pc[s] = "idle", NEW v, v # "idle",
           pc' = [pc EXCEPT ![s] = v]
    PROVE  /\ IsFiniteSet(Handling')
           /\ Cardinality(Handling) \in Nat
           /\ Cardinality(Handling') = Cardinality(Handling) + 1
  <1>1. Handling' = Handling \cup {s} /\ s \notin Handling
    BY DEF Accounted, Handling
  <1>2. QED
    BY <1>1, FS_AddElement, FS_CardinalityType DEF Accounted

LEMMA HandlingShrinks ==
    ASSUME Accounted, NEW s \in Streams, pc[s] # "idle",
           pc' = [pc EXCEPT ![s] = "idle"]
    PROVE  /\ IsFiniteSet(Handling')
           /\ Cardinality(Handling') \in Nat
           /\ Cardinality(Handling) = Cardinality(Handling') + 1
  <1>1. Handling' = Handling \ {s} /\ s \in Handling
    BY DEF Accounted, Handling
  <1>2. /\ IsFiniteSet(Handling')
        /\ Cardinality(Handling') = Cardinality(Handling) - 1
    BY <1>1, FS_RemoveElement DEF Accounted
  <1>3. Cardinality(Handling) \in Nat /\ Cardinality(Handling') \in Nat
    BY <1>2, FS_CardinalityType DEF Accounted
  <1>4. QED
    BY <1>2, <1>3

\* The buffer becomes an insert of its own, with every tick in it; without
\* an engine its ticks are forgotten.
LEMMA SwapAccounted ==
    ASSUME Accounted, NEW by \in {"task", "shutdown"}, Swap(by),
           UNCHANGED <<pc, received, persisted, dropped>>
    PROVE  Accounted'
  <1>0. /\ Handling' = Handling
        /\ InFlight \in Nat /\ Cardinality(Handling) \in Nat
    BY FS_CardinalityType DEF Accounted, InFlight, Handling
  <1>1. CASE buffer > 0 /\ engine
    <2> DEFINE b == [size |-> buffer, by |-> by]
    <2>1. b \in Batch /\ b.size = buffer
      BY <1>1 DEF Batch, Accounted
    <2>2. writing' = Append(writing, b) /\ buffer' = 0 /\ UNCHANGED uncounted
      BY <1>1 DEF Swap
    <2> HIDE DEF b
    <2>3. IsFiniteSet(Inserting') /\ InFlight' = InFlight + buffer
      BY <2>1, <2>2, AppendInserts DEF Accounted
    <2>4. writing' \in Seq(Batch) /\ Done' = Done
      BY <2>1, <2>2, AppendProperties DEF Accounted, Done
    <2>5. TicksAccountedFor'
      BY <1>0, <2>2, <2>3, <2>4 DEF Accounted, TicksAccountedFor
    <2>6. QED
      BY <1>0, <2>2, <2>3, <2>4, <2>5 DEF Accounted
  <1>2. CASE ~(buffer > 0 /\ engine)
    <2>1. buffer' = 0 /\ uncounted' = uncounted + buffer /\ UNCHANGED writing
      BY <1>2 DEF Swap
    <2>2. Inserting' = Inserting /\ InFlight' = InFlight
      BY <2>1 DEF Inserting, InFlight
    <2>3. Done' = Done + buffer /\ uncounted' \in Nat
      BY <2>1 DEF Accounted, Done
    <2>4. TicksAccountedFor'
      BY <1>0, <2>1, <2>2, <2>3 DEF Accounted, TicksAccountedFor
    <2>5. QED
      BY <1>0, <2>1, <2>2, <2>3, <2>4 DEF Accounted
  <1>3. QED
    BY <1>1, <1>2

LEMMA AccountedInit == Init => Accounted
  <1> SUFFICES ASSUME Init PROVE Accounted
    OBVIOUS
  <1>1. Handling = {}
    BY DEF Init, Handling
  <1>2. writing \in Seq(Batch) /\ DOMAIN writing = {}
    BY DEF Init
  <1>3. Inserting = {}
    BY <1>2 DEF Inserting
  <1>4. Cardinality(Handling) = 0 /\ InFlight = 0
    BY <1>1, <1>3, FS_EmptySet DEF InFlight
  <1>5. Done = 0 /\ TicksAccountedFor
    BY <1>4 DEF TicksAccountedFor, Done, Init
  <1>6. QED
    BY <1>1, <1>2, <1>3, <1>5, FS_EmptySet DEF Accounted, Init

LEMMA AccountedStep ==
    ASSUME Accounted, [Next]_vars
    PROVE  Accounted'
  <1>0. Cardinality(Handling) \in Nat /\ InFlight \in Nat
    BY FS_CardinalityType DEF Accounted, InFlight
  <1>1. ASSUME NEW s \in Streams, NEW t \in Ticks,
               OnTickLate(s, t) \/ OnTickSame(s, t)
        PROVE  Accounted'
    <2>1. /\ received' = received + 1 /\ buffer' = buffer + 1
          /\ UNCHANGED <<pc, writing, persisted, dropped, uncounted>>
          /\ Done' = Done
      BY <1>1 DEF OnTickLate, OnTickSame, Arriving, Buffer, countVars, Done
    <2>2. Handling' = Handling /\ Inserting' = Inserting /\ InFlight' = InFlight
      BY <2>1 DEF Handling, Inserting, InFlight
    <2>3. TicksAccountedFor'
      BY <1>0, <2>1, <2>2 DEF Accounted, TicksAccountedFor
    <2>4. QED
      BY <2>1, <2>2, <2>3 DEF Accounted
  <1>2. ASSUME NEW s \in Streams, NEW t \in Ticks, OnTickOther(s, t)
        PROVE  Accounted'
    <2>1. /\ received' = received + 1
          /\ pc[s] = "idle" /\ pc' = [pc EXCEPT ![s] = "saving"]
          /\ UNCHANGED <<writing, buffer, persisted, dropped, uncounted>>
          /\ Done' = Done
      BY <1>2 DEF OnTickOther, Arriving, flushVars, countVars, Done
    <2>2. IsFiniteSet(Handling') /\ Cardinality(Handling') = Cardinality(Handling) + 1
      BY <2>1, HandlingGrows
    <2>3. Inserting' = Inserting /\ InFlight' = InFlight
      BY <2>1 DEF Inserting, InFlight
    <2>4. TicksAccountedFor'
      BY <1>0, <2>1, <2>2, <2>3 DEF Accounted, TicksAccountedFor
    <2>5. pc' = [r \in Streams |-> pc'[r]]
      BY <2>1 DEF Accounted
    <2>6. received' \in Nat
      BY <2>1 DEF Accounted
    <2>7. QED
      BY <2>1, <2>2, <2>3, <2>4, <2>5, <2>6 DEF Accounted
  <1>3. ASSUME NEW s \in Streams, Save(s)
        PROVE  Accounted'
    <2>1. /\ pc[s] = "saving" /\ pc' = [pc EXCEPT ![s] = "saved"]
          /\ UNCHANGED <<writing, buffer, received, persisted, dropped, uncounted>>
          /\ Done' = Done
      BY <1>3 DEF Save, flushVars, countVars, Done
    <2>2. Handling' = Handling
      BY <2>1 DEF Handling, Accounted
    <2>3. Inserting' = Inserting /\ InFlight' = InFlight
      BY <2>1 DEF Inserting, InFlight
    <2>4. TicksAccountedFor'
      BY <2>1, <2>2, <2>3 DEF Accounted, TicksAccountedFor
    <2>5. pc' = [r \in Streams |-> pc'[r]]
      BY <2>1 DEF Accounted
    <2>6. QED
      BY <2>1, <2>2, <2>3, <2>4, <2>5 DEF Accounted
  <1>4. ASSUME NEW s \in Streams, Reopen(s)
        PROVE  Accounted'
    <2>1. /\ pc[s] = "saved" /\ pc' = [pc EXCEPT ![s] = "idle"]
          /\ buffer' = buffer + 1
          /\ UNCHANGED <<writing, received, persisted, dropped, uncounted>>
          /\ Done' = Done
      BY <1>4 DEF Reopen, Buffer, countVars, Done
    <2>2. /\ IsFiniteSet(Handling') /\ Cardinality(Handling') \in Nat
          /\ Cardinality(Handling) = Cardinality(Handling') + 1
      BY <2>1, HandlingShrinks
    <2>3. Inserting' = Inserting /\ InFlight' = InFlight
      BY <2>1 DEF Inserting, InFlight
    <2>4. TicksAccountedFor'
      BY <1>0, <2>1, <2>2, <2>3 DEF Accounted, TicksAccountedFor
    <2>5. pc' = [r \in Streams |-> pc'[r]]
      BY <2>1 DEF Accounted
    <2>6. buffer' \in Nat
      BY <2>1 DEF Accounted
    <2>7. QED
      BY <2>1, <2>2, <2>3, <2>4, <2>5, <2>6 DEF Accounted
  <1>9. ASSUME NEW s \in Streams, Cancel(s)
        PROVE  Accounted'
    <2>1. /\ pc[s] # "idle" /\ pc' = [pc EXCEPT ![s] = "idle"]
          /\ uncounted' = uncounted + 1
          /\ UNCHANGED <<writing, buffer, received, persisted, dropped>>
          /\ Done' = Done + 1
      BY <1>9 DEF Cancel, Accounted, Done
    <2>2. /\ IsFiniteSet(Handling') /\ Cardinality(Handling') \in Nat
          /\ Cardinality(Handling) = Cardinality(Handling') + 1
      BY <2>1, HandlingShrinks
    <2>3. Inserting' = Inserting /\ InFlight' = InFlight
      BY <2>1 DEF Inserting, InFlight
    <2>4. TicksAccountedFor'
      BY <1>0, <2>1, <2>2, <2>3 DEF Accounted, TicksAccountedFor
    <2>5. pc' = [r \in Streams |-> pc'[r]]
      BY <2>1 DEF Accounted
    <2>6. uncounted' \in Nat
      BY <2>1 DEF Accounted
    <2>7. QED
      BY <2>1, <2>2, <2>3, <2>4, <2>5, <2>6 DEF Accounted
  <1>5. CASE FlushStarts
    BY <1>5, SwapAccounted DEF FlushStarts
  <1>6. ASSUME NEW i \in DOMAIN writing, FlushEnds(i)
        PROVE  Accounted'
    <2>1. /\ writing' = RemoveAt(writing, i)
          /\ UNCHANGED <<pc, buffer, received>>
          /\ Written(i)
      BY <1>6 DEF FlushEnds
    <2>2. /\ writing' \in Seq(Batch)
          /\ IsFiniteSet(Inserting')
          /\ writing[i].size \in Nat
          /\ InFlight = InFlight' + writing[i].size
      BY <2>1, RemoveInserts DEF Accounted
    <2>3. Handling' = Handling
      BY <2>1 DEF Handling
    <2>4. InFlight' \in Nat
      BY <2>2, FS_CardinalityType DEF InFlight
    <2>5. PICK n \in Nat : n = writing[i].size
      BY <2>2
    <2>6. \/ \E m \in 0 .. n : /\ persisted' = persisted + m
                              /\ uncounted' = uncounted + (n - m)
                              /\ UNCHANGED dropped
          \/ dropped' = dropped + n /\ UNCHANGED <<persisted, uncounted>>
      BY <2>1, <2>5 DEF Written
    <2>7. /\ persisted' \in Nat /\ dropped' \in Nat /\ uncounted' \in Nat
          /\ Done' = Done + n
      <3>1. /\ persisted \in Nat /\ dropped \in Nat /\ uncounted \in Nat
        BY DEF Accounted
      <3>2. CASE dropped' = dropped + n /\ UNCHANGED <<persisted, uncounted>>
        BY <3>1, <3>2 DEF Done
      <3>3. ASSUME NEW m \in 0 .. n, persisted' = persisted + m,
                   uncounted' = uncounted + (n - m), UNCHANGED dropped
            PROVE  /\ persisted' \in Nat /\ dropped' \in Nat /\ uncounted' \in Nat
                   /\ Done' = Done + n
        BY <3>1, <3>3 DEF Done
      <3>4. QED
        BY <2>6, <3>2, <3>3
    <2>8. InFlight = InFlight' + n
      BY <2>2, <2>5
    <2>9. TicksAccountedFor'
      <3>1. /\ received = Cardinality(Handling) + buffer + InFlight + Done
            /\ buffer \in Nat /\ Done \in Nat
        BY DEF Accounted, TicksAccountedFor
      <3>2. received = Cardinality(Handling) + buffer + InFlight' + Done'
        BY <1>0, <2>4, <2>5, <2>7, <2>8, <3>1
      <3>3. QED
        BY <2>1, <2>3, <3>2 DEF TicksAccountedFor
    <2>10. Done' \in Nat
      BY <2>7 DEF Accounted
    <2>11. QED
      BY <2>1, <2>2, <2>3, <2>7, <2>9, <2>10 DEF Accounted
  <1>7. CASE Shutdown
    <2>1. Swap("shutdown") /\ UNCHANGED <<pc, received, persisted, dropped>>
      BY <1>7 DEF Shutdown
    <2>2. QED
      BY <2>1, SwapAccounted
  <1>8. CASE CloseCandle \/ SaveLast \/ NextWindow \/ UNCHANGED vars
    <2>1. UNCHANGED <<pc, writing, buffer, received, persisted, dropped, uncounted>>
          /\ Done' = Done
      BY <1>8 DEF CloseCandle, SaveLast, NextWindow, vars, flushVars, countVars, Done
    <2>2. QED
      BY <2>1 DEF Accounted, Handling, Inserting, InFlight, TicksAccountedFor
  <1>10. QED
    BY <1>1, <1>2, <1>3, <1>4, <1>5, <1>6, <1>7, <1>8, <1>9 DEF Next, StreamStep

(* Every tick on_tick() received is being handled, in the buffer, in an    *)
(* insert under way, counted as persisted or dropped, or one of those the  *)
(* code counts nowhere (its handler cancelled, no row to be made of it, no *)
(* engine), and none is counted twice, whatever flush tasks the ticks and  *)
(* the shutdown start beside each other and in whatever order they end.    *)
THEOREM EveryTickAccountedFor == Spec => []TicksAccountedFor
  <1>1. Accounted /\ [Next]_vars => Accounted'
    BY AccountedStep
  <1>2. Accounted => TicksAccountedFor
    BY DEF Accounted
  <1>3. QED
    BY <1>1, <1>2, AccountedInit, PTL DEF Spec

-----------------------------------------------------------------------------
(* The rows are exact.  The invariant says it of what the row will be once *)
(* the candles in memory are merged into it: a tick then extends the same  *)
(* row, whether it is applied to the candle or opens a new one, and the    *)
(* upsert changes nothing, even if the candle stays in memory and is       *)
(* merged again.  A handler in its await is alone with the candle it is    *)
(* closing, or its windows have been met by another one.                   *)

\* A finalised candle with the numbers of the candle it was made from.
SameNumbers(c, d) == /\ c.win = d.win /\ c.open = d.open /\ c.high = d.high
                     /\ c.low = d.low /\ c.close = d.close

\* A row once the candle c is merged into it, if it has a price.
Pending(row, c) == IF c.seen = {} THEN row ELSE MergedRow(row, c)

\* The row of w once the candle in memory is merged into it.
Whole(w) ==
    IF active # None /\ active.win = w THEN Pending(rows[w], active)
    ELSE IF closing # None /\ closing.win = w THEN MergedRow(rows[w], closing)
    ELSE rows[w]

Shapes ==
    /\ now \in Windows
    /\ active \in Candle \cup {None}
    /\ rows \in [Windows -> Row \cup {None}]
    /\ pc \in [Streams -> {"idle", "saving", "saved"}]
    /\ tick \in [Streams -> Ticks \cup {None}]
    /\ saving \in [Streams -> Closed \cup {None}]
    /\ closing \in Closed \cup {None}
    /\ taken \in [Windows -> Seq(Prices)]

\* No one has come to the candle since s went into its await.
Alone(s) ==
    /\ \A r \in Streams : r # s => pc[r] = "idle"
    /\ closing = None
    /\ active # None /\ active.win # tick[s].win
    /\ pc[s] = "saving" => /\ SameNumbers(saving[s], active)
                           /\ active.seen = {} => saving[s].blank
    /\ pc[s] = "saved" /\ active.win \notin spoiled =>
           rows[active.win] = MergedRow(rows[active.win], active)

\* Someone has: what s will still do is to windows that were met.
Disturbed(s) ==
    /\ tick[s].win \in met
    /\ active # None => active.win \in met
    /\ saving[s] # None => saving[s].win \in met

\* What a handler leaves in memory between its awaits, ...
Handler(s) ==
    /\ saving[s] # None <=> pc[s] = "saving"
    /\ pc[s] # "idle" => tick[s] # None /\ (Alone(s) \/ Disturbed(s))

\* ... and the shutdown.
Closer ==
    /\ closing # None <=> phase = "closing"
    /\ closing # None => ~closing.blank /\ (active # None => active.win \in met)

\* The shutdown awaits one insert at most, while it is flushing.
Waited == {i \in DOMAIN writing : writing[i].by = "shutdown"}

OneShutdown ==
    /\ phase # "flushing" => Waited = {}
    /\ \A i, j \in Waited : i = j

ExactRows ==
    \A w \in Windows : w \notin spoiled /\ w \notin met => ExactRow(Whole(w), taken[w])

Exact ==
    /\ Shapes
    /\ \A s \in Streams : Handler(s)
    /\ Closer
    /\ ExactRows

LEMMA ValuesAreInts == Values \subseteq Int
  BY PriceAssumption DEF Values

\* One price more.
Extended(row, p) ==
    IF row = None THEN [open |-> p, high |-> p, low |-> p, close |-> p]
    ELSE [open |-> row.open, high |-> HighOf(row.high, p),
          low |-> LowOf(row.low, p), close |-> p]

LEMMA OnePriceMore ==
    ASSUME NEW ps \in Seq(Prices), NEW p \in Prices
    PROVE  /\ Append(ps, p) \in Seq(Prices) /\ Append(ps, p) # <<>>
           /\ Head(Append(ps, p)) = IF ps = <<>> THEN p ELSE Head(ps)
           /\ Last(Append(ps, p)) = p
           /\ ToSet(Append(ps, p)) = ToSet(ps) \cup {p}
           /\ ToSet(ps) \subseteq Prices
           /\ ps = <<>> => ToSet(ps) = {}
  <1> DEFINE n == Len(ps)
             q == Append(ps, p)
  <1>1. /\ n \in Nat /\ DOMAIN ps = 1 .. n
        /\ q \in Seq(Prices) /\ Len(q) = n + 1 /\ DOMAIN q = 1 .. n + 1
        /\ q[n + 1] = p
        /\ \A i \in 1 .. n : q[i] = ps[i] /\ ps[i] \in Prices
    BY LenProperties, AppendProperties
  <1>2. ps = <<>> <=> n = 0
    BY EmptySeq
  <1>3. q # <<>>
    BY <1>1
  <1>4. Head(q) = q[1] /\ (ps # <<>> => Head(ps) = ps[1])
    BY <1>1, <1>3, HeadTailProperties
  <1> HIDE DEF n, q
  <1>5. Head(q) = IF ps = <<>> THEN p ELSE Head(ps)
    BY <1>1, <1>2, <1>4
  <1>6. Last(q) = p
    BY <1>1 DEF Last
  <1>7. 1 .. n + 1 = (1 .. n) \cup {n + 1}
    BY <1>1
  <1>8. ToSet(q) = ToSet(ps) \cup {p}
    BY <1>1, <1>7 DEF ToSet
  <1>9. ToSet(ps) \subseteq Prices /\ (ps = <<>> => ToSet(ps) = {})
    BY <1>1, <1>2 DEF ToSet
  <1>10. QED
    BY <1>1, <1>3, <1>5, <1>6, <1>8, <1>9 DEF q

\* A row extended by the price of a tick stays exact.
LEMMA ExtendedExact ==
    ASSUME NEW row \in Row \cup {None}, NEW ps \in Seq(Prices), NEW p \in Prices,
           ExactRow(row, ps)
    PROVE  ExactRow(Extended(row, p), Append(ps, p))
  <1>1. /\ Append(ps, p) # <<>>
        /\ Head(Append(ps, p)) = IF ps = <<>> THEN p ELSE Head(ps)
        /\ Last(Append(ps, p)) = p
        /\ ToSet(Append(ps, p)) = ToSet(ps) \cup {p}
        /\ ToSet(ps) \subseteq Prices
        /\ ps = <<>> => ToSet(ps) = {}
    BY OnePriceMore
  <1>2. Extended(row, p) \in Row
    BY ValuesAreInts DEF Extended, Row, HighOf, LowOf, Values
  <1>3. Extended(row, p) # None
    BY <1>2, NoneAssumption
  <1>4. CASE ps = <<>>
    <2>1. row = None /\ ToSet(Append(ps, p)) = {p}
      BY <1>1, <1>4 DEF ExactRow
    <2>2. QED
      BY <1>1, <1>3, <1>4, <2>1, PriceAssumption DEF ExactRow, Extended
  <1>5. CASE ps # <<>>
    <2>1. row # None
      BY <1>5 DEF ExactRow
    <2>2. row \in Row /\ row.open = Head(ps) /\ row.close = Last(ps)
          /\ row.high \in ToSet(ps) /\ row.low \in ToSet(ps)
          /\ \A x \in ToSet(ps) : row.low <= x /\ x <= row.high
      BY <1>5, <2>1 DEF ExactRow
    <2>3. row.high \in Int /\ row.low \in Int /\ p \in Int
          /\ \A x \in ToSet(ps) : x \in Int
      BY <1>1, <2>2, ValuesAreInts, PriceAssumption DEF Row
    <2> DEFINE h == HighOf(row.high, p)
               l == LowOf(row.low, p)
    <2>4. /\ h \in Int /\ l \in Int /\ row.high <= h /\ p <= h /\ l <= row.low /\ l <= p
          /\ h \in ToSet(ps) \cup {p} /\ l \in ToSet(ps) \cup {p}
      BY <2>2, <2>3 DEF HighOf, LowOf
    <2>5. /\ Extended(row, p).open = Head(ps) /\ Extended(row, p).close = p
          /\ Extended(row, p).high = h /\ Extended(row, p).low = l
      BY <2>1, <2>2 DEF Extended
    <2> HIDE DEF h, l
    <2>6. \A x \in ToSet(ps) \cup {p} : l <= x /\ x <= h
      BY <2>2, <2>3, <2>4
    <2>7. QED
      BY <1>1, <1>3, <1>5, <2>4, <2>5, <2>6 DEF ExactRow
  <1>6. QED
    BY <1>4, <1>5

\* A tick that is used extends what is pending by its price.
LEMMA UsedExtends ==
    ASSUME NEW row \in Row \cup {None}, NEW c \in Candle, NEW t \in Ticks, Used(c, t)
    PROVE  /\ Applied(c, t) \in Candle
           /\ c.win = t.win => Applied(c, t).win = t.win
           /\ t.price \in Prices
           /\ Pending(row, Applied(c, t)) = Extended(Pending(row, c), t.price)
  <1>1. /\ t.price \in Prices /\ t.price \in Values /\ t.win \in Windows
        /\ KeyOf(t) \in Stamps \X Prices
    BY DEF Used, Ticks, KeyOf, Values
  <1>2. CASE c.seen = {}
    <2>1. Applied(c, t) = FirstOf(t)
      BY <1>2 DEF Applied
    <2>2. FirstOf(t) \in Candle /\ FirstOf(t).win = t.win /\ FirstOf(t).seen # {}
      BY <1>1 DEF FirstOf, Candle
    <2>3. MergedRow(row, FirstOf(t)) = Extended(row, t.price)
      BY DEF FirstOf, MergedRow, Extended, RowOf
    <2>4. QED
      BY <1>1, <1>2, <2>1, <2>2, <2>3 DEF Pending
  <1>3. CASE c.seen # {}
    <2> DEFINE h == HighOf(c.high, t.price)
               l == LowOf(c.low, t.price)
               seen == c.seen \cup {KeyOf(t)}
    <2>1. /\ c.high \in Int /\ c.low \in Int /\ t.price \in Int
          /\ c.high \in Values /\ c.low \in Values
          /\ row # None => row \in Row /\ row.high \in Int /\ row.low \in Int
      BY <1>1, ValuesAreInts DEF Candle, Row
    <2>2. h \in Values /\ l \in Values /\ seen \in SUBSET (Stamps \X Prices) /\ seen # {}
      BY <1>1, <2>1 DEF HighOf, LowOf, Candle
    <2>3. Applied(c, t) = [c EXCEPT !.high = h, !.low = l, !.close = t.price, !.seen = seen]
      BY <1>3 DEF Applied
    <2> HIDE DEF h, l, seen
    <2>4. /\ Applied(c, t).win = c.win /\ Applied(c, t).open = c.open
          /\ Applied(c, t).high = h /\ Applied(c, t).low = l
          /\ Applied(c, t).close = t.price /\ Applied(c, t).seen = seen
      BY <2>3 DEF Candle
    <2>5. Applied(c, t) \in Candle
      BY <1>1, <2>2, <2>3 DEF Candle
    <2>6. MergedRow(row, Applied(c, t)) = Extended(MergedRow(row, c), t.price)
      <3>1. CASE row = None
        <4>1. RowOf(c) \in Row
          BY DEF RowOf, Candle, Row
        <4>2. MergedRow(row, c) = RowOf(c) /\ RowOf(c) # None
          BY <3>1, <4>1, NoneAssumption DEF MergedRow
        <4>3. Extended(RowOf(c), t.price)
                 = [open |-> c.open, high |-> h, low |-> l, close |-> t.price]
          BY <4>2 DEF Extended, RowOf, h, l
        <4>4. MergedRow(row, Applied(c, t))
                 = [open |-> c.open, high |-> h, low |-> l, close |-> t.price]
          BY <2>4, <3>1 DEF MergedRow, RowOf
        <4>5. QED
          BY <4>2, <4>3, <4>4
      <3>2. CASE row # None
        <4> DEFINE m == [open |-> row.open, high |-> HighOf(row.high, c.high),
                         low |-> LowOf(row.low, c.low), close |-> c.close]
        <4>1. MergedRow(row, c) = m
          BY <3>2 DEF MergedRow
        <4>2. m \in Row
          BY <2>1, <3>2 DEF HighOf, LowOf, Row, Candle
        <4>3. m # None
          BY <4>2, NoneAssumption
        <4>4. /\ HighOf(row.high, h) = HighOf(HighOf(row.high, c.high), t.price)
              /\ LowOf(row.low, l) = LowOf(LowOf(row.low, c.low), t.price)
          BY <2>1, <3>2 DEF HighOf, LowOf, h, l
        <4>5. MergedRow(row, Applied(c, t))
                 = [open |-> row.open, high |-> HighOf(row.high, h),
                    low |-> LowOf(row.low, l), close |-> t.price]
          BY <2>4, <3>2 DEF MergedRow
        <4>6. Extended(m, t.price)
                 = [open |-> row.open, high |-> HighOf(HighOf(row.high, c.high), t.price),
                    low |-> LowOf(LowOf(row.low, c.low), t.price), close |-> t.price]
          BY <4>3 DEF Extended
        <4>7. QED
          BY <4>1, <4>4, <4>5, <4>6
      <3>3. QED
        BY <3>1, <3>2
    <2>7. QED
      BY <1>1, <1>3, <2>2, <2>4, <2>5, <2>6 DEF Pending
  <1>4. QED
    BY <1>2, <1>3

\* Whether it is used or not, the tick leaves a candle of its window.
LEMMA AppliedCandle ==
    ASSUME NEW c \in Candle, NEW t \in Ticks, c.win = t.win
    PROVE  Applied(c, t) \in Candle /\ Applied(c, t).win = t.win
  <1>1. CASE Used(c, t)
    <2>1. None \in Row \cup {None}
      OBVIOUS
    <2>2. QED
      BY <1>1, <2>1, UsedExtends
  <1>2. CASE ~Used(c, t)
    BY <1>2 DEF Applied
  <1>3. QED
    BY <1>1, <1>2

LEMMA BlankCandle ==
    ASSUME NEW w \in Windows
    PROVE  Blank(w) \in Candle /\ Blank(w).win = w /\ Blank(w).seen = {}
  BY DEF Blank, Candle, Values

\* What MergedRow takes from a candle are its numbers.
LEMMA MergedNumbers ==
    ASSUME NEW row, NEW c, NEW d, SameNumbers(c, d)
    PROVE  MergedRow(row, c) = MergedRow(row, d)
  BY DEF SameNumbers, MergedRow, RowOf

LEMMA MergedIsRow ==
    ASSUME NEW row \in Row \cup {None}, NEW c \in Candle \cup Closed
    PROVE  MergedRow(row, c) \in Row
  <1>1. /\ c.open \in Values /\ c.high \in Values /\ c.low \in Values /\ c.close \in Values
    BY DEF Candle, Closed
  <1>2. CASE row = None
    BY <1>1, <1>2 DEF MergedRow, RowOf, Row
  <1>3. CASE row # None
    <2>1. /\ row.open \in Values /\ row.high \in Values /\ row.low \in Values
      BY <1>3 DEF Row
    <2>2. HighOf(row.high, c.high) \in Values /\ LowOf(row.low, c.low) \in Values
      BY <1>1, <2>1 DEF HighOf, LowOf
    <2>3. QED
      BY <1>1, <1>3, <2>1, <2>2 DEF MergedRow, Row
  <1>4. QED
    BY <1>2, <1>3

\* A candle that is merged twice changes nothing the second time.
LEMMA MergedTwice ==
    ASSUME NEW row \in Row \cup {None}, NEW c \in Candle
    PROVE  MergedRow(MergedRow(row, c), c) = MergedRow(row, c)
  <1> DEFINE m == MergedRow(row, c)
  <1>1. m \in Row
    BY MergedIsRow
  <1>2. m # None
    BY <1>1, NoneAssumption
  <1>3. c.high \in Int /\ c.low \in Int
    BY ValuesAreInts DEF Candle
  <1>4. m = [open |-> m.open, high |-> m.high, low |-> m.low, close |-> m.close]
    BY <1>1 DEF Row
  <1>5. m.close = c.close /\ HighOf(m.high, c.high) = m.high /\ LowOf(m.low, c.low) = m.low
    <2>1. CASE row = None
      BY <1>3, <2>1 DEF MergedRow, RowOf, HighOf, LowOf
    <2>2. CASE row # None
      <3>1. row.high \in Int /\ row.low \in Int
        BY <2>2, ValuesAreInts DEF Row
      <3>2. /\ m.close = c.close /\ m.high = HighOf(row.high, c.high)
            /\ m.low = LowOf(row.low, c.low)
        BY <2>2 DEF MergedRow
      <3>3. QED
        BY <1>3, <3>1, <3>2 DEF HighOf, LowOf
    <2>3. QED
      BY <2>1, <2>2
  <1> HIDE DEF m
  <1>6. MergedRow(m, c) = [open |-> m.open, high |-> HighOf(m.high, c.high),
                           low |-> LowOf(m.low, c.low), close |-> c.close]
    BY <1>2 DEF MergedRow
  <1>7. QED
    BY <1>4, <1>5, <1>6 DEF m

LEMMA FinalisedNumbers ==
    ASSUME NEW c \in Candle, now \in Windows
    PROVE  /\ Finalised(c) \in Closed /\ Finalised(c) # None
           /\ SameNumbers(Finalised(c), c)
           /\ Finalised(c).blank <=> c.seen = {}
  <1>1. (c.seen = {}) \in BOOLEAN
    OBVIOUS
  <1>2. Finalised(c) \in Closed
    <2> DEFINE blank == c.seen = {}
    <2>1. blank \in BOOLEAN
      BY <1>1
    <2> HIDE DEF blank
    <2>2. [win |-> c.win, open |-> c.open, high |-> c.high, low |-> c.low,
           close |-> c.close, blank |-> blank, available |-> now] \in Closed
      BY <2>1 DEF Candle, Closed
    <2>3. QED
      BY <2>2 DEF Finalised, blank
  <1>3. QED
    BY <1>2, NoneAssumption DEF Finalised, SameNumbers

\* The row of a window, as it is and as it will be.
LEMMA WholeIsRow ==
    ASSUME Shapes, NEW w \in Windows
    PROVE  Whole(w) \in Row \cup {None}
  <1>1. /\ rows[w] \in Row \cup {None}
        /\ active # None => active \in Candle
        /\ closing # None => closing \in Closed
    BY DEF Shapes
  <1>2. CASE active # None /\ active.win = w
    BY <1>1, <1>2, MergedIsRow DEF Whole, Pending
  <1>3. CASE ~(active # None /\ active.win = w) /\ closing # None /\ closing.win = w
    BY <1>1, <1>3, MergedIsRow DEF Whole
  <1>4. CASE ~(active # None /\ active.win = w) /\ ~(closing # None /\ closing.win = w)
    BY <1>1, <1>4 DEF Whole
  <1>5. QED
    BY <1>2, <1>3, <1>4

\* Rows stay exact if what they will be stays as it is ...
LEMMA ExactFrame ==
    ASSUME ExactRows, UNCHANGED taken,
           spoiled \subseteq spoiled', met \subseteq met',
           \A w \in Windows : w \notin spoiled' /\ w \notin met' => Whole(w)' = Whole(w)
    PROVE  ExactRows'
  BY DEF ExactRows

\* ... and if it is extended by the tick of the step, when that is used.
LEMMA TakesTick ==
    ASSUME Shapes, ExactRows, NEW t \in Ticks, NEW c \in Candle, Take(c, t),
           spoiled \subseteq spoiled', met \subseteq met',
           t.win \notin spoiled' /\ t.win \notin met' =>
               Whole(t.win)' = IF Used(c, t) THEN Extended(Whole(t.win), t.price)
                                             ELSE Whole(t.win),
           \A w \in Windows : w # t.win /\ w \notin spoiled' /\ w \notin met' =>
               Whole(w)' = Whole(w)
    PROVE  ExactRows' /\ taken' \in [Windows -> Seq(Prices)]
  <1>1. t.win \in Windows /\ taken \in [Windows -> Seq(Prices)]
    BY DEF Ticks, Shapes
  <1>2. CASE ~Used(c, t)
    <2>1. UNCHANGED taken
      BY <1>2 DEF Take
    <2>2. \A w \in Windows : w \notin spoiled' /\ w \notin met' => Whole(w)' = Whole(w)
      BY <1>2
    <2>3. QED
      BY <1>1, <2>1, <2>2, ExactFrame
  <1>3. CASE Used(c, t)
    <2>1. t.price \in Prices
      BY <1>3 DEF Used, Ticks
    <2>2. taken' = [taken EXCEPT ![t.win] = Append(@, t.price)]
      BY <1>3 DEF Take
    <2>3. Append(taken[t.win], t.price) \in Seq(Prices)
      BY <1>1, <2>1, AppendProperties
    <2>4. taken' \in [Windows -> Seq(Prices)]
      BY <1>1, <2>2, <2>3
    <2>5. ASSUME NEW w \in Windows, w \notin spoiled', w \notin met'
          PROVE  ExactRow(Whole(w)', taken'[w])
      <3>1. ExactRow(Whole(w), taken[w])
        BY <2>5 DEF ExactRows
      <3>2. CASE w = t.win
        <4>1. Whole(w) \in Row \cup {None} /\ taken[w] \in Seq(Prices)
          BY <1>1, WholeIsRow
        <4>2. ExactRow(Extended(Whole(w), t.price), Append(taken[w], t.price))
          BY <2>1, <3>1, <4>1, ExtendedExact
        <4>3. taken'[w] = Append(taken[w], t.price)
          BY <1>1, <2>2, <3>2
        <4>4. Whole(w)' = Extended(Whole(w), t.price)
          BY <1>3, <2>5, <3>2
        <4>5. QED
          BY <4>2, <4>3, <4>4
      <3>3. CASE w # t.win
        <4>1. taken'[w] = taken[w] /\ Whole(w)' = Whole(w)
          BY <1>1, <2>2, <2>5, <3>3
        <4>2. QED
          BY <3>1, <4>1
      <3>4. QED
        BY <3>2, <3>3
    <2>6. ExactRows'
      BY <2>5 DEF ExactRows
    <2>7. QED
      BY <2>4, <2>6
  <1>4. QED
    BY <1>2, <1>3

\* Whoever comes to the candle meets all that a handler in its await has.
LEMMA MeetsHandler ==
    ASSUME Shapes, \A s \in Streams : Handler(s), NEW W, Meet(W),
           NEW r \in Streams, pc[r] # "idle"
    PROVE  /\ tick[r].win \in met'
           /\ active # None => active.win \in met'
           /\ saving[r] # None => saving[r].win \in met'
  <1>1. r \in Handling
    BY DEF Handling
  <1>2. met' = met \cup Touched \cup W
    BY <1>1 DEF Meet
  <1>3. tick[r].win \in Touched /\ (active # None => active.win \in Touched)
    BY <1>1 DEF Touched
  <1>4. saving[r] # None => saving[r].win \in met'
    <2>1. CASE Disturbed(r)
      BY <1>2, <2>1 DEF Disturbed
    <2>2. CASE Alone(r)
      BY <1>2, <1>3, <2>2 DEF Alone, Handler, SameNumbers
    <2>3. QED
      BY <2>1, <2>2 DEF Handler
  <1>5. QED
    BY <1>2, <1>3, <1>4

LEMMA MeetGrows ==
    ASSUME NEW W, Meet(W)
    PROVE  /\ met \subseteq met'
           /\ closing # None => W \subseteq met' /\ (active # None => active.win \in met')
  BY DEF Meet, Touched

LEMMA ExactInit == Init => Exact
  <1> SUFFICES ASSUME Init PROVE Exact
    OBVIOUS
  <1>1. Shapes
    <2>1. taken \in [Windows -> Seq(Prices)]
      BY DEF Init
    <2>2. now \in Windows
      BY BoundAssumption DEF Init, Windows
    <2>3. QED
      BY <2>1, <2>2 DEF Init, Shapes
  <1>2. Closer /\ \A s \in Streams : Handler(s)
    BY DEF Init, Closer, Handler
  <1>3. ExactRows
    BY DEF Init, ExactRows, Whole, ExactRow
  <1>4. QED
    BY <1>1, <1>2, <1>3 DEF Exact

\* A tick that needs no new window.
LEMMA SameWindowExact ==
    ASSUME Exact, NEW s \in Streams, NEW t \in Ticks, OnTickSame(s, t)
    PROVE  Exact'
  <1> DEFINE c == IF active = None THEN Blank(t.win) ELSE active
  <1>1. /\ active' = Applied(c, t) /\ Take(c, t) /\ Meet({t.win})
        /\ active # None => active.win = t.win
        /\ UNCHANGED <<now, rows, pc, tick, saving, phase, closing, spoiled>>
    BY DEF OnTickSame
  <1>2. /\ t.win \in Windows
        /\ active # None => active \in Candle
        /\ rows[t.win] \in Row \cup {None}
    BY DEF Exact, Shapes, Ticks
  <1>0. /\ Blank(t.win) \in Candle /\ Blank(t.win).win = t.win
        /\ Blank(t.win).seen = {}
    BY <1>2, BlankCandle
  <1>3. c \in Candle /\ c.win = t.win
    BY <1>0, <1>1, <1>2
  <1>4. /\ active = None => c.seen = {}
        /\ active # None => c = active
    BY <1>0
  <1> HIDE DEF c
  <1>5. active' \in Candle /\ active'.win = t.win
    BY <1>1, <1>3, AppliedCandle
  <1>6. active' # None
    BY <1>5, NoneAssumption
  <1>7. met \subseteq met' /\ (closing # None => t.win \in met')
    BY <1>1, MeetGrows
  <1>8. Whole(t.win)' = Pending(rows[t.win], active')
    BY <1>1, <1>5, <1>6 DEF Whole
  <1>9. ASSUME t.win \notin met'
        PROVE  Whole(t.win)' = IF Used(c, t) THEN Extended(Whole(t.win), t.price)
                                             ELSE Whole(t.win)
    <2>1. closing = None
      BY <1>7, <1>9
    <2>2. Whole(t.win) = Pending(rows[t.win], c)
      BY <1>1, <1>4, <2>1 DEF Whole, Pending
    <2>3. CASE Used(c, t)
      BY <1>1, <1>2, <1>3, <1>8, <2>2, <2>3, UsedExtends
    <2>4. CASE ~Used(c, t)
      BY <1>1, <1>8, <2>2, <2>4 DEF Applied
    <2>5. QED
      BY <2>3, <2>4
  <1>10. \A w \in Windows : w # t.win => Whole(w)' = Whole(w)
    BY <1>1, <1>5, <1>6 DEF Whole
  <1>11. ExactRows' /\ taken' \in [Windows -> Seq(Prices)]
    BY <1>1, <1>3, <1>7, <1>9, <1>10, TakesTick DEF Exact
  <1>12. ASSUME NEW r \in Streams
         PROVE  Handler(r)'
    <2>1. CASE pc[r] = "idle"
      BY <1>1, <2>1 DEF Exact, Handler
    <2>2. CASE pc[r] # "idle"
      <3>1. /\ tick[r].win \in met' /\ (active # None => active.win \in met')
            /\ saving[r] # None => saving[r].win \in met'
        BY <1>1, <2>2, MeetsHandler DEF Exact
      <3>2. t.win \in met'
        <4>1. r \in Handling
          BY <2>2 DEF Handling
        <4>2. QED
          BY <1>1, <4>1 DEF Meet
      <3>3. Disturbed(r)'
        BY <1>1, <1>5, <3>1, <3>2 DEF Disturbed
      <3>4. QED
        BY <1>1, <3>3 DEF Exact, Handler
    <2>3. QED
      BY <2>1, <2>2
  <1>13. Closer'
    BY <1>1, <1>5, <1>7 DEF Exact, Closer
  <1>14. Shapes'
    BY <1>1, <1>5, <1>11 DEF Exact, Shapes
  <1>15. QED
    BY <1>11, <1>12, <1>13, <1>14 DEF Exact

\* A tick of another window: its three steps, or the first of them and the
\* cancellation.
LEMMA OtherWindowExact ==
    ASSUME Exact, NEW s \in Streams, NEW t \in Ticks, OnTickOther(s, t)
    PROVE  Exact'
  <1>1. /\ pc[s] = "idle" /\ active # None /\ active.win # t.win
        /\ saving' = [saving EXCEPT ![s] = Finalised(active)]
        /\ tick' = [tick EXCEPT ![s] = t]
        /\ pc' = [pc EXCEPT ![s] = "saving"]
        /\ Meet({t.win})
        /\ UNCHANGED <<now, active, rows, phase, closing, taken, spoiled>>
    BY DEF OnTickOther, Arriving
  <1>2. /\ pc \in [Streams -> {"idle", "saving", "saved"}]
        /\ tick \in [Streams -> Ticks \cup {None}]
        /\ saving \in [Streams -> Closed \cup {None}]
        /\ active \in Candle /\ now \in Windows
    BY <1>1 DEF Exact, Shapes
  <1>3. /\ Finalised(active) \in Closed /\ Finalised(active) # None
        /\ SameNumbers(Finalised(active), active)
        /\ Finalised(active).blank <=> active.seen = {}
    BY <1>2, FinalisedNumbers
  <1>4. /\ met \subseteq met'
        /\ closing # None => t.win \in met' /\ active.win \in met'
    BY <1>1, MeetGrows
  <1>5. ExactRows'
    <2>1. \A w \in Windows : Whole(w)' = Whole(w)
      BY <1>1 DEF Whole
    <2>2. QED
      BY <1>1, <1>4, <2>1, ExactFrame DEF Exact
  <1>6. /\ pc'[s] = "saving" /\ tick'[s] = t /\ saving'[s] = Finalised(active)
        /\ \A r \in Streams : r # s => /\ pc'[r] = pc[r] /\ tick'[r] = tick[r]
                                       /\ saving'[r] = saving[r]
    BY <1>1, <1>2
  <1>7. t # None
    BY NoneAssumption
  <1>8. Handler(s)'
    <2>1. CASE Handling = {} /\ closing = None
      <3>1. \A r \in Streams : r # s => pc'[r] = "idle"
        BY <1>6, <2>1 DEF Handling
      <3>2. Alone(s)'
        BY <1>1, <1>3, <1>6, <2>1, <3>1 DEF Alone, SameNumbers
      <3>3. QED
        BY <1>3, <1>6, <1>7, <3>2 DEF Handler
    <2>2. CASE ~(Handling = {} /\ closing = None)
      <3>1. met' = met \cup Touched \cup {t.win} /\ active.win \in Touched
        BY <1>1, <2>2 DEF Meet, Touched
      <3>2. Finalised(active).win = active.win
        BY <1>3 DEF SameNumbers
      <3>3. Disturbed(s)'
        BY <1>1, <1>6, <3>1, <3>2 DEF Disturbed
      <3>4. QED
        BY <1>3, <1>6, <1>7, <3>3 DEF Handler
    <2>3. QED
      BY <2>1, <2>2
  <1>9. ASSUME NEW r \in Streams, r # s
        PROVE  Handler(r)'
    <2>1. CASE pc[r] = "idle"
      BY <1>6, <1>9, <2>1 DEF Exact, Handler
    <2>2. CASE pc[r] # "idle"
      <3>1. /\ tick[r].win \in met' /\ (active # None => active.win \in met')
            /\ saving[r] # None => saving[r].win \in met'
        BY <1>1, <2>2, MeetsHandler DEF Exact
      <3>2. Disturbed(r)'
        BY <1>1, <1>6, <1>9, <3>1 DEF Disturbed
      <3>3. QED
        BY <1>6, <1>9, <3>2 DEF Exact, Handler
    <2>3. QED
      BY <2>1, <2>2
  <1>10. Closer'
    BY <1>1, <1>4 DEF Exact, Closer
  <1>11. Shapes'
    BY <1>1, <1>2, <1>3 DEF Exact, Shapes
  <1>12. QED
    BY <1>5, <1>8, <1>9, <1>10, <1>11 DEF Exact

\* What s does not change of another handler while it is in its await
\* itself: that one is not alone, and stays disturbed.
LEMMA OthersDisturbed ==
    ASSUME Exact, NEW s \in Streams, pc[s] # "idle", NEW r \in Streams, r # s,
           pc[r] # "idle"
    PROVE  Disturbed(r)
  BY DEF Exact, Handler, Alone

\* An upsert stores the candle, without which its window is spoiled.
LEMMA Upserted ==
    ASSUME NEW c, Upsert(c)
    PROVE  /\ spoiled \subseteq spoiled'
           /\ c.blank => c.win \in spoiled'
           /\ \/ rows' = [rows EXCEPT ![c.win] = MergedRow(@, c)]
              \/ UNCHANGED rows /\ c.win \in spoiled'
  BY DEF Upsert, Spoil

LEMMA RowsTyped ==
    ASSUME Shapes, NEW c \in Closed, Upsert(c)
    PROVE  rows' \in [Windows -> Row \cup {None}]
  <1>1. rows \in [Windows -> Row \cup {None}] /\ c.win \in Windows
    BY DEF Shapes, Closed
  <1>2. MergedRow(rows[c.win], c) \in Row
    BY <1>1, MergedIsRow
  <1>3. QED
    BY <1>1, <1>2, Upserted

LEMMA SaveExact ==
    ASSUME Exact, NEW s \in Streams, Save(s)
    PROVE  Exact'
  <1> DEFINE c == saving[s]
             a == active.win
  <1>1. /\ pc[s] = "saving" /\ Upsert(c)
        /\ pc' = [pc EXCEPT ![s] = "saved"]
        /\ saving' = [saving EXCEPT ![s] = None]
        /\ UNCHANGED <<now, active, tick, phase, closing, taken, met>>
    BY DEF Save
  <1>2. /\ pc \in [Streams -> {"idle", "saving", "saved"}]
        /\ saving \in [Streams -> Closed \cup {None}]
        /\ rows \in [Windows -> Row \cup {None}]
    BY DEF Exact, Shapes
  <1>3. /\ c # None /\ c \in Closed /\ tick[s] # None
        /\ Alone(s) \/ Disturbed(s)
    BY <1>1, <1>2 DEF Exact, Handler
  <1>4. /\ spoiled \subseteq spoiled'
        /\ c.blank => c.win \in spoiled'
        /\ \/ rows' = [rows EXCEPT ![c.win] = MergedRow(@, c)]
           \/ UNCHANGED rows /\ c.win \in spoiled'
    BY <1>1, Upserted
  <1>5. /\ pc'[s] = "saved" /\ saving'[s] = None
        /\ \A r \in Streams : r # s => pc'[r] = pc[r] /\ saving'[r] = saving[r]
    BY <1>1, <1>2
  <1>6. \A w \in Windows : w # c.win => rows'[w] = rows[w] /\ Whole(w)' = Whole(w)
    <2>1. \A w \in Windows : w # c.win => rows'[w] = rows[w]
      BY <1>2, <1>4
    <2>2. QED
      BY <1>1, <2>1 DEF Whole
  <1>7. ASSUME Alone(s), c.win \notin spoiled'
        PROVE  /\ c.win = a /\ a \in Windows
               /\ rows'[a] = MergedRow(rows'[a], active)
               /\ \A w \in Windows : w = c.win => Whole(w)' = Whole(w)
    <2>1. /\ active # None /\ SameNumbers(c, active) /\ closing = None
          /\ active.seen = {} => c.blank
      BY <1>1, <1>7 DEF Alone
    <2>2. active \in Candle /\ c.win = a /\ a \in Windows
      BY <2>1 DEF Exact, Shapes, SameNumbers, Candle
    <2>3. active.seen # {}
      BY <1>4, <1>7, <2>1
    <2>4. rows'[a] = MergedRow(rows[a], c) /\ rows[a] \in Row \cup {None}
      BY <1>2, <1>4, <1>7, <2>2
    <2>5. rows'[a] = MergedRow(rows[a], active)
      BY <2>1, <2>4, MergedNumbers
    <2>6. rows'[a] = MergedRow(rows'[a], active)
      BY <2>2, <2>4, <2>5, MergedTwice
    <2>7. ASSUME NEW w \in Windows, w = a
          PROVE  Whole(w)' = Whole(w)
      <3>1. Whole(w) = MergedRow(rows[w], active)
        BY <2>1, <2>3, <2>7 DEF Whole, Pending
      <3>2. Whole(w)' = MergedRow(rows'[w], active)
        BY <1>1, <2>1, <2>3, <2>7 DEF Whole, Pending
      <3>3. QED
        BY <2>5, <2>6, <2>7, <3>1, <3>2
    <2>8. QED
      BY <2>2, <2>6, <2>7
  <1>8. \A w \in Windows : w \notin spoiled' /\ w \notin met' => Whole(w)' = Whole(w)
    <2>1. CASE Alone(s)
      BY <1>6, <1>7, <2>1
    <2>2. CASE Disturbed(s)
      BY <1>1, <1>3, <1>6, <2>2 DEF Disturbed
    <2>3. QED
      BY <1>3, <2>1, <2>2
  <1>9. ExactRows'
    BY <1>1, <1>4, <1>8, ExactFrame DEF Exact
  <1>10. Handler(s)'
    <2>1. CASE Disturbed(s)
      <3>1. Disturbed(s)'
        BY <1>1, <1>5, <2>1 DEF Disturbed
      <3>2. QED
        BY <1>1, <1>3, <1>5, <3>1 DEF Handler
    <2>2. CASE Alone(s)
      <3>1. \A r \in Streams : r # s => pc'[r] = "idle"
        BY <1>5, <2>2 DEF Alone
      <3>2. SameNumbers(c, active)
        BY <1>1, <2>2 DEF Alone
      <3>3. a \notin spoiled' => rows'[a] = MergedRow(rows'[a], active)
        BY <1>7, <2>2, <3>2 DEF SameNumbers
      <3>4. Alone(s)'
        BY <1>1, <1>5, <2>2, <3>1, <3>3 DEF Alone
      <3>5. QED
        BY <1>1, <1>3, <1>5, <3>4 DEF Handler
    <2>3. QED
      BY <1>3, <2>1, <2>2
  <1>11. ASSUME NEW r \in Streams, r # s
         PROVE  Handler(r)'
    <2>1. CASE pc[r] = "idle"
      BY <1>5, <1>11, <2>1 DEF Exact, Handler
    <2>2. CASE pc[r] # "idle"
      <3>1. Disturbed(r)
        BY <1>1, <1>11, <2>2, OthersDisturbed
      <3>2. Disturbed(r)'
        BY <1>1, <1>5, <1>11, <3>1 DEF Disturbed
      <3>3. QED
        BY <1>1, <1>5, <1>11, <3>2 DEF Exact, Handler
    <2>3. QED
      BY <2>1, <2>2
  <1>12. Closer'
    BY <1>1 DEF Exact, Closer
  <1>13. rows' \in [Windows -> Row \cup {None}]
    BY <1>1, <1>3, RowsTyped DEF Exact
  <1>14. Shapes'
    BY <1>1, <1>2, <1>13 DEF Exact, Shapes
  <1>15. QED
    BY <1>9, <1>10, <1>11, <1>12, <1>14 DEF Exact

LEMMA ReopenExact ==
    ASSUME Exact, NEW s \in Streams, Reopen(s)
    PROVE  Exact'
  <1>1. /\ pc[s] = "saved"
        /\ active' = NewCandle(tick[s])
        /\ Take(Blank(tick[s].win), tick[s])
        /\ tick' = [tick EXCEPT ![s] = None]
        /\ pc' = [pc EXCEPT ![s] = "idle"]
        /\ UNCHANGED <<now, rows, saving, phase, closing, spoiled, met>>
    BY DEF Reopen
  <1>2. tick[s] # None /\ (Alone(s) \/ Disturbed(s)) /\ saving[s] = None
    BY <1>1 DEF Exact, Handler
  <1>3. PICK t \in Ticks : t = tick[s]
    BY <1>2 DEF Exact, Shapes
  <1>4. PICK c \in Candle : c = Blank(t.win) /\ c.win = t.win /\ c.seen = {}
    BY BlankCandle DEF Ticks
  <1>5. /\ pc \in [Streams -> {"idle", "saving", "saved"}]
        /\ tick \in [Streams -> Ticks \cup {None}]
        /\ rows \in [Windows -> Row \cup {None}] /\ t.win \in Windows
        /\ active # None => active \in Candle
    BY DEF Exact, Shapes, Ticks
  <1>6. /\ active' = Applied(c, t) /\ Take(c, t)
    BY <1>1, <1>3, <1>4 DEF NewCandle
  <1>7. active' \in Candle /\ active'.win = t.win /\ active' # None
    BY <1>4, <1>6, AppliedCandle, NoneAssumption
  <1>8. Whole(t.win)' = Pending(rows[t.win], active')
    BY <1>1, <1>7 DEF Whole
  <1>9. ASSUME t.win \notin spoiled, t.win \notin met
        PROVE  Whole(t.win)' = IF Used(c, t) THEN Extended(Whole(t.win), t.price)
                                             ELSE Whole(t.win)
    <2>1. Alone(s)
      BY <1>2, <1>3, <1>9 DEF Disturbed
    <2>2. Whole(t.win) = rows[t.win]
      BY <1>3, <2>1 DEF Alone, Whole
    <2>3. Whole(t.win) = Pending(rows[t.win], c) /\ rows[t.win] \in Row \cup {None}
      BY <1>4, <1>5, <2>2 DEF Pending
    <2>4. CASE Used(c, t)
      BY <1>4, <1>6, <1>8, <2>3, <2>4, UsedExtends
    <2>5. CASE ~Used(c, t)
      BY <1>6, <1>8, <2>3, <2>5 DEF Applied
    <2>6. QED
      BY <2>4, <2>5
  <1>10. ASSUME NEW w \in Windows, w # t.win, w \notin spoiled, w \notin met
         PROVE  Whole(w)' = Whole(w)
    <2>1. Whole(w)' = IF closing # None /\ closing.win = w THEN MergedRow(rows[w], closing)
                                                            ELSE rows[w]
      BY <1>1, <1>7, <1>10 DEF Whole
    <2>2. CASE active = None \/ active.win # w
      BY <2>1, <2>2 DEF Whole
    <2>3. CASE active # None /\ active.win = w
      <3>1. Alone(s)
        BY <1>2, <1>10, <2>3 DEF Disturbed
      <3>2. closing = None /\ rows[w] = MergedRow(rows[w], active)
        BY <1>1, <1>10, <2>3, <3>1 DEF Alone
      <3>3. Whole(w) = rows[w]
        BY <2>3, <3>2 DEF Whole, Pending
      <3>4. QED
        BY <2>1, <3>2, <3>3
    <2>4. QED
      BY <2>2, <2>3
  <1>11. ExactRows' /\ taken' \in [Windows -> Seq(Prices)]
    BY <1>1, <1>6, <1>9, <1>10, TakesTick DEF Exact
  <1>12. /\ pc'[s] = "idle"
         /\ \A r \in Streams : r # s => pc'[r] = pc[r] /\ tick'[r] = tick[r]
    BY <1>1, <1>5
  <1>13. closing # None \/ (\E r \in Streams : r # s /\ pc[r] # "idle") => t.win \in met
    BY <1>2, <1>3 DEF Alone, Disturbed
  <1>14. Handler(s)'
    BY <1>1, <1>2, <1>12 DEF Handler
  <1>15. ASSUME NEW r \in Streams, r # s
         PROVE  Handler(r)'
    <2>1. CASE pc[r] = "idle"
      BY <1>1, <1>12, <1>15, <2>1 DEF Exact, Handler
    <2>2. CASE pc[r] # "idle"
      <3>1. Disturbed(r)
        BY <1>1, <1>15, <2>2, OthersDisturbed
      <3>2. Disturbed(r)'
        BY <1>1, <1>7, <1>12, <1>13, <1>15, <2>2, <3>1 DEF Disturbed
      <3>3. QED
        BY <1>1, <1>12, <1>15, <3>2 DEF Exact, Handler
    <2>3. QED
      BY <2>1, <2>2
  <1>16. Closer'
    BY <1>1, <1>7, <1>13 DEF Exact, Closer
  <1>17. Shapes'
    BY <1>1, <1>5, <1>7, <1>11 DEF Exact, Shapes
  <1>18. QED
    BY <1>11, <1>14, <1>15, <1>16, <1>17 DEF Exact

LEMMA CancelExact ==
    ASSUME Exact, NEW s \in Streams, Cancel(s)
    PROVE  Exact'
  <1>1. /\ pc[s] # "idle"
        /\ tick' = [tick EXCEPT ![s] = None]
        /\ saving' = [saving EXCEPT ![s] = None]
        /\ pc' = [pc EXCEPT ![s] = "idle"]
        /\ UNCHANGED <<now, active, rows, phase, closing, taken, spoiled, met>>
    BY DEF Cancel, candleVars
  <1>2. /\ pc \in [Streams -> {"idle", "saving", "saved"}]
        /\ tick \in [Streams -> Ticks \cup {None}]
        /\ saving \in [Streams -> Closed \cup {None}]
    BY DEF Exact, Shapes
  <1>3. /\ pc'[s] = "idle" /\ saving'[s] = None
        /\ \A r \in Streams : r # s => /\ pc'[r] = pc[r] /\ tick'[r] = tick[r]
                                       /\ saving'[r] = saving[r]
    BY <1>1, <1>2
  <1>4. ExactRows'
    <2>1. \A w \in Windows : Whole(w)' = Whole(w)
      BY <1>1 DEF Whole
    <2>2. QED
      BY <1>1, <2>1, ExactFrame DEF Exact
  <1>5. ASSUME NEW r \in Streams
        PROVE  Handler(r)'
    <2>1. CASE r = s
      BY <1>3, <2>1 DEF Handler
    <2>2. CASE r # s /\ pc[r] = "idle"
      BY <1>3, <2>2 DEF Exact, Handler
    <2>3. CASE r # s /\ pc[r] # "idle"
      <3>1. Disturbed(r)
        BY <1>1, <2>3, OthersDisturbed
      <3>2. Disturbed(r)'
        BY <1>1, <1>3, <2>3, <3>1 DEF Disturbed
      <3>3. QED
        BY <1>3, <2>3, <3>2 DEF Exact, Handler
    <2>4. QED
      BY <2>1, <2>2, <2>3
  <1>6. Closer' /\ Shapes'
    BY <1>1, <1>2 DEF Exact, Closer, Shapes
  <1>7. QED
    BY <1>4, <1>5, <1>6 DEF Exact

\* The shutdown: the candle in memory is finalised, then stored.
LEMMA CloseExact ==
    ASSUME Exact, CloseCandle
    PROVE  Exact'
  <1>1. /\ phase = "flushed" /\ active' = None /\ Meet({})
        /\ UNCHANGED <<now, rows, pc, tick, saving, taken, spoiled>>
        /\ \/ /\ active = None \/ active.seen = {}
              /\ phase' = "stopped" /\ UNCHANGED closing
           \/ /\ active # None /\ active.seen # {}
              /\ phase' = "closing" /\ closing' = Finalised(active)
    BY DEF CloseCandle, flushVars
  <1>2. closing = None /\ met \subseteq met'
    BY <1>1, MeetGrows DEF Exact, Closer
  <1>3. ASSUME NEW r \in Streams
        PROVE  Handler(r)'
    <2>1. CASE pc[r] = "idle"
      BY <1>1, <1>3, <2>1 DEF Exact, Handler
    <2>2. CASE pc[r] # "idle"
      <3>1. tick[r].win \in met' /\ (saving[r] # None => saving[r].win \in met')
        BY <1>1, <1>3, <2>2, MeetsHandler DEF Exact
      <3>2. Disturbed(r)'
        BY <1>1, <3>1 DEF Disturbed
      <3>3. QED
        BY <1>1, <3>2 DEF Exact, Handler
    <2>3. QED
      BY <2>1, <2>2
  <1>4. CASE (active = None \/ active.seen = {}) /\ phase' = "stopped" /\ UNCHANGED closing
    <2>1. \A w \in Windows : Whole(w)' = Whole(w)
      BY <1>1, <1>2, <1>4 DEF Whole, Pending
    <2>2. ExactRows'
      BY <1>1, <1>2, <2>1, ExactFrame DEF Exact
    <2>3. Closer' /\ Shapes'
      BY <1>1, <1>2, <1>4 DEF Exact, Closer, Shapes
    <2>4. QED
      BY <1>3, <2>2, <2>3 DEF Exact
  <1>5. CASE /\ active # None /\ active.seen # {}
             /\ phase' = "closing" /\ closing' = Finalised(active)
    <2>1. active \in Candle /\ now \in Windows
      BY <1>5 DEF Exact, Shapes
    <2>2. /\ closing' \in Closed /\ closing' # None /\ SameNumbers(closing', active)
          /\ ~closing'.blank
      BY <1>5, <2>1, FinalisedNumbers
    <2>3. \A w \in Windows : Whole(w)' = Whole(w)
      <3>1. \A w : MergedRow(rows[w], closing') = MergedRow(rows[w], active)
        BY <2>2, MergedNumbers
      <3>2. closing'.win = active.win
        BY <2>2 DEF SameNumbers
      <3>3. QED
        BY <1>1, <1>2, <1>5, <2>2, <3>1, <3>2 DEF Whole, Pending
    <2>4. ExactRows'
      BY <1>1, <1>2, <2>3, ExactFrame DEF Exact
    <2>5. Closer' /\ Shapes'
      BY <1>1, <1>5, <2>2 DEF Exact, Closer, Shapes
    <2>6. QED
      BY <1>3, <2>4, <2>5 DEF Exact
  <1>6. QED
    BY <1>1, <1>4, <1>5

LEMMA SaveLastExact ==
    ASSUME Exact, SaveLast
    PROVE  Exact'
  <1>1. /\ phase = "closing" /\ Upsert(closing) /\ closing' = None /\ phase' = "stopped"
        /\ UNCHANGED <<now, active, pc, tick, saving, taken, met>>
    BY DEF SaveLast, flushVars
  <1>2. /\ closing # None /\ closing \in Closed
        /\ active # None => active.win \in met
        /\ rows \in [Windows -> Row \cup {None}]
    BY <1>1 DEF Exact, Closer, Shapes
  <1>3. /\ spoiled \subseteq spoiled'
        /\ \/ rows' = [rows EXCEPT ![closing.win] = MergedRow(@, closing)]
           \/ UNCHANGED rows /\ closing.win \in spoiled'
    BY <1>1, Upserted
  <1>4. ASSUME NEW w \in Windows, w \notin spoiled', w \notin met'
        PROVE  Whole(w)' = Whole(w)
    <2>1. active = None \/ active.win # w
      BY <1>1, <1>2, <1>4
    <2>2. Whole(w)' = rows'[w]
      BY <1>1, <2>1 DEF Whole
    <2>3. CASE closing.win = w
      BY <1>2, <1>3, <1>4, <2>1, <2>2, <2>3 DEF Whole
    <2>4. CASE closing.win # w
      <3>1. rows'[w] = rows[w]
        BY <1>2, <1>3, <2>4
      <3>2. QED
        BY <2>1, <2>2, <2>4, <3>1 DEF Whole
    <2>5. QED
      BY <2>3, <2>4
  <1>5. ExactRows'
    BY <1>1, <1>3, <1>4, ExactFrame DEF Exact
  <1>6. ASSUME NEW r \in Streams
        PROVE  Handler(r)'
    <2>1. CASE pc[r] = "idle"
      BY <1>1, <1>6, <2>1 DEF Exact, Handler
    <2>2. CASE pc[r] # "idle"
      <3>1. Disturbed(r)
        BY <1>2, <1>6, <2>2 DEF Exact, Handler, Alone
      <3>2. Disturbed(r)'
        BY <1>1, <3>1 DEF Disturbed
      <3>3. QED
        BY <1>1, <3>2 DEF Exact, Handler
    <2>3. QED
      BY <2>1, <2>2
  <1>7. rows' \in [Windows -> Row \cup {None}]
    BY <1>1, <1>2, RowsTyped DEF Exact
  <1>8. Closer' /\ Shapes'
    BY <1>1, <1>7 DEF Exact, Closer, Shapes
  <1>9. QED
    BY <1>5, <1>6, <1>8 DEF Exact

\* The shutdown's insert is the only one that ends its flushing phase.
LEMMA SwapWaits ==
    ASSUME writing \in Seq(Batch), buffer \in Nat,
           NEW by \in {"task", "shutdown"}, Swap(by)
    PROVE  \/ Waited' = Waited
           \/ /\ by = "shutdown" /\ buffer > 0 /\ engine
              /\ Waited' = Waited \cup {Len(writing) + 1}
  <1>1. CASE buffer > 0 /\ engine
    <2> DEFINE b == [size |-> buffer, by |-> by]
               n == Len(writing)
    <2>1. b \in Batch /\ b.by = by /\ n \in Nat /\ DOMAIN writing = 1 .. n
      BY <1>1, LenProperties DEF Batch
    <2>2. writing' = Append(writing, b)
      BY <1>1 DEF Swap
    <2> HIDE DEF b
    <2>3. /\ DOMAIN writing' = 1 .. n + 1 /\ writing'[n + 1] = b
          /\ \A i \in 1 .. n : writing'[i] = writing[i]
      BY <2>1, <2>2, AppendProperties, LenProperties
    <2> HIDE DEF n
    <2>4. 1 .. n + 1 = (1 .. n) \cup {n + 1}
      BY <2>1
    <2>5. Waited' = Waited \cup (IF by = "shutdown" THEN {n + 1} ELSE {})
      BY <2>1, <2>3, <2>4 DEF Waited
    <2>6. QED
      BY <1>1, <2>5 DEF n
  <1>2. CASE ~(buffer > 0 /\ engine)
    BY <1>2 DEF Swap, Waited
  <1>3. QED
    BY <1>1, <1>2

LEMMA EndWaits ==
    ASSUME writing \in Seq(Batch), OneShutdown, NEW n \in DOMAIN writing,
           writing' = RemoveAt(writing, n)
    PROVE  /\ \A i, j \in Waited' : i = j
           /\ Waited = {} \/ n \in Waited => Waited' = {}
  <1> DEFINE m == Len(writing)
             Old(i) == IF i < n THEN i ELSE i + 1
  <1>1. m \in Nat /\ n \in 1 .. m /\ DOMAIN writing = 1 .. m
    BY LenProperties
  <1>2. /\ writing' \in Seq(Batch) /\ Len(writing') = m - 1
        /\ \A i \in 1 .. m - 1 :
              writing'[i] = IF i < n THEN writing[i] ELSE writing[i + 1]
    BY <1>1, RemoveAtProperties
  <1>3. DOMAIN writing' = 1 .. m - 1
    BY <1>2, LenProperties
  <1> HIDE DEF m
  <1>4. ASSUME NEW i \in Waited'
        PROVE  i \in 1 .. m - 1 /\ Old(i) \in Waited /\ Old(i) # n
    <2>1. i \in 1 .. m - 1 /\ writing'[i].by = "shutdown"
      BY <1>3 DEF Waited
    <2>2. Old(i) \in 1 .. m /\ Old(i) # n
      BY <1>1, <2>1
    <2>3. writing'[i] = writing[Old(i)]
      BY <1>2, <2>1
    <2>4. QED
      BY <1>1, <2>1, <2>2, <2>3 DEF Waited
  <1>5. ASSUME NEW i \in Waited', NEW j \in Waited'
        PROVE  i = j
    <2>1. /\ i \in 1 .. m - 1 /\ Old(i) \in Waited
          /\ j \in 1 .. m - 1 /\ Old(j) \in Waited
      BY <1>4
    <2>2. Old(i) = Old(j)
      <3> HIDE DEF Old
      <3> QED
        BY <2>1 DEF OneShutdown
    <2>3. QED
      BY <1>1, <2>1, <2>2
  <1>6. ASSUME Waited = {} \/ n \in Waited, NEW i \in Waited'
        PROVE  FALSE
    <2>1. Old(i) \in Waited /\ Old(i) # n
      BY <1>4
    <2> HIDE DEF Old
    <2>2. QED
      BY <1>6, <2>1 DEF OneShutdown
  <1>7. QED
    BY <1>5, <1>6

LEMMA OneShutdownStep ==
    ASSUME Accounted, OneShutdown, [Next]_vars
    PROVE  OneShutdown'
  <1>0. writing \in Seq(Batch) /\ buffer \in Nat
    BY DEF Accounted
  <1>1. CASE FlushStarts
    <2>1. Swap("task") /\ UNCHANGED phase
      BY <1>1 DEF FlushStarts
    <2>2. Waited' = Waited
      BY <1>0, <2>1, SwapWaits
    <2>3. QED
      BY <2>1, <2>2 DEF OneShutdown
  <1>2. CASE Shutdown
    <2>1. /\ phase = "running" /\ Swap("shutdown")
          /\ buffer > 0 /\ engine => phase' = "flushing"
      BY <1>2 DEF Shutdown
    <2>2. Waited = {}
      BY <2>1 DEF OneShutdown
    <2>3. \/ Waited' = {}
          \/ phase' = "flushing" /\ Waited' = {Len(writing) + 1}
      BY <1>0, <2>1, <2>2, SwapWaits
    <2>4. QED
      BY <2>3 DEF OneShutdown
  <1>3. ASSUME NEW n \in DOMAIN writing, FlushEnds(n)
        PROVE  OneShutdown'
    <2>1. /\ writing' = RemoveAt(writing, n)
          /\ phase' = IF n \in Waited THEN "flushed" ELSE phase
      BY <1>3 DEF FlushEnds, Waited
    <2>2. /\ \A i, j \in Waited' : i = j
          /\ Waited = {} \/ n \in Waited => Waited' = {}
      BY <1>0, <2>1, EndWaits
    <2>3. phase' # "flushing" => Waited = {} \/ n \in Waited
      BY <2>1 DEF OneShutdown
    <2>4. QED
      BY <2>2, <2>3 DEF OneShutdown
  <1>4. CASE CloseCandle \/ SaveLast
    <2>1. UNCHANGED writing /\ phase # "flushing"
      BY <1>4 DEF CloseCandle, SaveLast, flushVars
    <2>2. Waited = {} /\ Waited' = Waited
      BY <2>1 DEF OneShutdown, Waited
    <2>3. QED
      BY <2>2 DEF OneShutdown
  <1>5. CASE \/ \E s \in Streams : StreamStep(s)
             \/ NextWindow \/ UNCHANGED vars
    <2>1. UNCHANGED <<writing, phase>>
      BY <1>5 DEF StreamStep, OnTickLate, OnTickSame, OnTickOther, Buffer, Save, Reopen,
                  Cancel, NextWindow, flushVars, vars
    <2>2. QED
      BY <2>1 DEF OneShutdown, Waited
  <1>6. QED
    BY <1>1, <1>2, <1>3, <1>4, <1>5 DEF Next

\* The flushes move nothing of the candles, nor of the shutdown after them.
LEMMA FlushExact ==
    ASSUME Exact, OneShutdown,
           FlushStarts \/ Shutdown \/ \E i \in DOMAIN writing : FlushEnds(i)
    PROVE  Exact'
  <1>1. UNCHANGED <<now, active, rows, pc, tick, saving, closing, taken, spoiled, met>>
    BY DEF FlushStarts, Shutdown, FlushEnds, candleVars
  <1>2. phase' = "closing" <=> phase = "closing"
    <2>1. CASE FlushStarts \/ Shutdown
      BY <2>1 DEF FlushStarts, Shutdown
    <2>2. ASSUME NEW i \in DOMAIN writing, FlushEnds(i)
          PROVE  phase' = "closing" <=> phase = "closing"
      <3>1. phase' = IF i \in Waited THEN "flushed" ELSE phase
        BY <2>2 DEF FlushEnds, Waited
      <3>2. i \in Waited => phase # "closing"
        BY DEF OneShutdown
      <3>3. QED
        BY <3>1, <3>2
    <2>3. QED
      BY <2>1, <2>2
  <1>3. \A w \in Windows : Whole(w)' = Whole(w)
    BY <1>1 DEF Whole
  <1>4. ExactRows'
    BY <1>1, <1>3, ExactFrame DEF Exact
  <1>5. \A s \in Streams : Handler(s)'
    BY <1>1 DEF Exact, Handler, Alone, Disturbed
  <1>6. Closer' /\ Shapes'
    BY <1>1, <1>2 DEF Exact, Closer, Shapes
  <1>7. QED
    BY <1>4, <1>5, <1>6 DEF Exact

LEMMA ExactStep ==
    ASSUME Exact, OneShutdown, [Next]_vars
    PROVE  Exact'
  <1>1. CASE \/ \E s \in Streams, t \in Ticks : OnTickLate(s, t)
             \/ NextWindow \/ UNCHANGED vars
    <2>1. /\ UNCHANGED <<active, rows, pc, tick, saving, phase, closing, taken,
                         spoiled, met>>
          /\ now' = now \/ (now < MaxWindow /\ now' = now + 1)
      BY <1>1 DEF OnTickLate, NextWindow, vars, candleVars, flushVars
    <2>2. \A w \in Windows : Whole(w)' = Whole(w)
      BY <2>1 DEF Whole
    <2>3. ExactRows'
      BY <2>1, <2>2, ExactFrame DEF Exact
    <2>4. \A s \in Streams : Handler(s)'
      BY <2>1 DEF Exact, Handler, Alone, Disturbed
    <2>5. now' \in Windows
      BY <2>1, BoundAssumption DEF Exact, Shapes, Windows
    <2>6. Closer' /\ Shapes'
      BY <2>1, <2>5 DEF Exact, Closer, Shapes
    <2>7. QED
      BY <2>3, <2>4, <2>6 DEF Exact
  <1>2. QED
    BY <1>1, SameWindowExact, OtherWindowExact, SaveExact, ReopenExact, CancelExact,
       CloseExact, SaveLastExact, FlushExact
    DEF Next, StreamStep

(* With any number of broker streams, handlers cancelled in their awaits,  *)
(* feeds without prices and a shutdown that no stream waits for: the row   *)
(* of a window is the OHLC of its ticks, in the order they came, whenever  *)
(* no candle of it is in memory, no upsert of it failed or stored a blank  *)
(* candle, and no handler came to it during another's await.  _process_    *)
(* _tick and the merging upsert then lose no tick and count none twice,    *)
(* however late ticks and ticks of a faster clock close and reopen it.     *)
THEOREM RowsAreExact == Spec => []RowsExact
  <1>1. Init => Exact /\ Accounted /\ OneShutdown
    <2>1. Init => OneShutdown
      BY DEF Init, OneShutdown, Waited
    <2>2. QED
      BY <2>1, ExactInit, AccountedInit
  <1>2. /\ Exact /\ Accounted /\ OneShutdown
        /\ [Next]_vars
        => (Exact /\ Accounted /\ OneShutdown)'
    BY ExactStep, AccountedStep, OneShutdownStep
  <1>3. Exact => RowsExact
    <2> SUFFICES ASSUME Exact, NEW w \in Windows, w \notin spoiled, w \notin met, Settled(w)
                 PROVE  ExactRow(rows[w], taken[w])
      BY DEF RowsExact
    <2>1. Whole(w) = rows[w]
      BY DEF Settled, Whole
    <2>2. QED
      BY <2>1 DEF Exact, ExactRows
  <1>4. QED
    BY <1>1, <1>2, <1>3, PTL DEF Spec

=============================================================================
