---------------------------- MODULE CoalescedFetch ----------------------------
(***************************************************************************)
(* What request coalescing promises to the callers of CacheManager.get():  *)
(* at most one fetch of a key is under way, whoever asks for the key       *)
(* meanwhile joins it, and when it ends everyone who is in it gets the     *)
(* same outcome, at once.  A caller that only waits may leave; the leader  *)
(* may be lost, and then nobody else can take its place.                   *)
(***************************************************************************)
CONSTANTS Tasks, Keys, Outcomes, None, Lost

VARIABLES
    leader,     \* leader[k]: the task that fetches k, None, or Lost
    waiters,    \* waiters[k]: the tasks that wait for that fetch
    answer      \* answer[t]: what the last fetch t was in gave it

vars == <<leader, waiters, answer>>

Busy == {t \in Tasks : \E k \in Keys : t = leader[k] \/ t \in waiters[k]}

Init ==
    /\ leader = [k \in Keys |-> None]
    /\ waiters = [k \in Keys |-> {}]
    /\ answer = [t \in Tasks |-> None]

Lead(t, k) ==
    /\ t \notin Busy
    /\ leader[k] = None
    /\ leader' = [leader EXCEPT ![k] = t]
    /\ UNCHANGED <<waiters, answer>>

Join(t, k) ==
    /\ t \notin Busy
    /\ leader[k] # None
    /\ waiters' = [waiters EXCEPT ![k] = @ \cup {t}]
    /\ UNCHANGED <<leader, answer>>

Finish(k, outcome) ==
    /\ leader[k] \in Tasks
    /\ answer' = [t \in Tasks |-> IF t = leader[k] \/ t \in waiters[k]
                                    THEN outcome ELSE answer[t]]
    /\ leader' = [leader EXCEPT ![k] = None]
    /\ waiters' = [waiters EXCEPT ![k] = {}]

Forget(t) ==
    /\ t \notin Busy
    /\ answer' = [answer EXCEPT ![t] = None]
    /\ UNCHANGED <<leader, waiters>>

Leave(t, k) ==
    /\ t \in waiters[k]
    /\ waiters' = [waiters EXCEPT ![k] = @ \ {t}]
    /\ UNCHANGED <<leader, answer>>

Lose(k) ==
    /\ leader[k] \in Tasks
    /\ leader' = [leader EXCEPT ![k] = Lost]
    /\ UNCHANGED <<waiters, answer>>

Next ==
    \/ \E t \in Tasks, k \in Keys : Lead(t, k) \/ Join(t, k) \/ Leave(t, k)
    \/ \E k \in Keys, outcome \in Outcomes : Finish(k, outcome)
    \/ \E t \in Tasks : Forget(t)
    \/ \E k \in Keys : Lose(k)

Spec == Init /\ [][Next]_vars

=============================================================================
