----------------------------- MODULE BrokerSession ----------------------------
(***************************************************************************)
(* The tokens of the authenticated brokers, as the worker processes of one *)
(* account use them.                                                       *)
(*                                                                         *)
(* Angel One (src/providers/adapters/angel_one.py): a login with a code    *)
(* that is good for one use in 30 s; the JWT is shared through Redis, and  *)
(* a Redis lock keeps the workers from logging in side by side.  A request *)
(* that is answered with 401 logs in again and is sent once more.          *)
(*                                                                         *)
(* Upstox (src/providers/adapters/upstox.py), as src/server.py builds it:  *)
(* without a Redis client.  401 asks for another token, unless there is an *)
(* analytics token; the broker has to refuse, since _do_token_refresh      *)
(* sends it no authorization code.  Tokens are set at the start-up only.   *)
(***************************************************************************)
EXTENDS Naturals, FiniteSets

CONSTANTS
    Workers,    \* processes
    Requests,   \* calls of _request that may be under way
    Home,       \* Home[r]: the worker that r runs in
    None,
    Modes,      \* [broker, analytics, calls, faults, max]: a broker, whether
                \* there is an analytics token, the requests of a behaviour,
                \* its faults and how many of them
    Faults      \* names of faults

ASSUME SessionAssumption ==
    /\ Home \in [Requests -> Workers]
    /\ \A m \in Modes : /\ m.broker \in {"angel_one", "upstox"}
                        /\ m.analytics \in BOOLEAN
                        /\ m.calls \subseteq Requests
                        /\ m.faults \subseteq Faults /\ m.max \in Nat
    /\ Faults = {"expiry", "outage", "refusal", "crash", "lock_expiry"}
    /\ None \notin Requests \cup {"good", "stale"}

VARIABLES
    mode,
    token,    \* token[w]: what worker w holds
    jwt,      \* Redis: mds:angel_one:jwt
    lock,     \* Redis: mds:angel_one:auth_lock is set
    redisUp,
    codeUsed, \* the one-time code of this window has been used
    static,   \* the analytics token
    mutex,    \* mutex[w]: who is in the worker's _auth_lock or _token_lock
    serving,  \* serving[w]: starting, serving, or without the adapter
    pc,
    mine,     \* mine[r]: r has set the Redis lock
    turn,     \* turn[r]: first, relogin after a 401, or last
    used,     \* used[r]: the token of r's header
    faults,   \* faults so far
    excused   \* ghost: something has gone wrong with Redis or with a login

vars == <<mode, token, jwt, lock, redisUp, codeUsed, static, mutex, serving, pc,
          mine, turn, used, faults, excused>>

-----------------------------------------------------------------------------

\* A token is None, or what the broker thinks of it.
Tokens == {None, "good", "stale"}
Expired(t) == IF t = None THEN None ELSE "stale"

Init ==
    /\ mode \in Modes
    /\ token = [w \in Workers |-> IF mode.broker = "upstox" THEN "good" ELSE None]
    /\ jwt = None
    /\ lock = FALSE
    /\ redisUp = TRUE
    /\ codeUsed = FALSE
    /\ static = IF mode.analytics THEN "good" ELSE None
    /\ mutex = [w \in Workers |-> None]
    /\ serving = [w \in Workers |->
                    IF mode.broker = "upstox" THEN "serving" ELSE "starting"]
    /\ pc = [r \in Requests |-> "idle"]
    /\ mine = [r \in Requests |-> FALSE]
    /\ turn = [r \in Requests |-> "first"]
    /\ used = [r \in Requests |-> None]
    /\ faults = 0
    /\ excused = FALSE

Goto(r, l) == pc' = [pc EXCEPT ![r] = l]
Enter(r) == /\ mutex[Home[r]] = None
            /\ mutex' = [mutex EXCEPT ![Home[r]] = r]
Leave(r) == mutex' = [mutex EXCEPT ![Home[r]] = None]
SetToken(r, t) == token' = [token EXCEPT ![Home[r]] = t]

\* A call ends and its local state is forgotten; a call of the startup decides
\* whether the worker has the adapter at all.
End(r, o) ==
    /\ Goto(r, "idle")
    /\ mine' = [mine EXCEPT ![r] = FALSE]
    /\ turn' = [turn EXCEPT ![r] = "first"]
    /\ used' = [used EXCEPT ![r] = None]
    /\ serving' = IF serving[Home[r]] # "starting" THEN serving
                  ELSE [serving EXCEPT ![Home[r]] =
                            IF o = "ok" THEN "serving" ELSE "without"]

EndsWith(r, o) == End(r, o) /\ Leave(r)

\* Where authenticate() returns to: the 401 path sends the request once more,
\* from its beginning; ensure_authenticated() goes on to the throttle.
Resume(r) == IF turn[r] = "relogin" THEN "start" ELSE "throttle"
Resumed(r) == turn' = [turn EXCEPT ![r] = IF @ = "relogin" THEN "last" ELSE @]

Locals == <<serving, mine, turn, used>>
Shared == <<jwt, lock, redisUp, codeUsed, static, faults>>

-----------------------------------------------------------------------------
(* Angel One: _request and ensure_authenticated. *)

Angel == mode.broker = "angel_one"

\* A worker that starts makes one call of ensure_authenticated and nothing else.
Begin(r) ==
    /\ pc[r] = "idle" /\ r \in mode.calls
    /\ \/ serving[Home[r]] = "serving"
       \/ /\ serving[Home[r]] = "starting"
          /\ \A q \in Requests : Home[q] = Home[r] => pc[q] = "idle"
    /\ Goto(r, "start")
    /\ UNCHANGED <<mode, token, mutex, Locals, Shared, excused>>

\* A token in memory is taken as it is.
TokenInMemory(r) ==
    /\ Angel
    /\ pc[r] = "start" /\ mutex[Home[r]] = None
    /\ token[Home[r]] # None
    /\ IF serving[Home[r]] = "starting"
         THEN End(r, "ok")
         ELSE Goto(r, "throttle") /\ UNCHANGED Locals
    /\ UNCHANGED <<mode, token, mutex, Shared, excused>>

NoTokenInMemory(r) ==
    /\ Angel
    /\ pc[r] = "start" /\ token[Home[r]] = None
    /\ Enter(r)
    /\ Goto(r, "load")
    /\ UNCHANGED <<mode, token, Locals, Shared, excused>>

\* The token is there: out of the lock, and on, or the startup is done.
Authenticated(r) ==
    IF serving[Home[r]] = "starting" THEN EndsWith(r, "ok")
    ELSE /\ Leave(r) /\ Goto(r, Resume(r)) /\ Resumed(r)
         /\ UNCHANGED <<serving, mine, used>>

\* _load_jwt_from_redis of ensure_authenticated.
LoadFirst(r) ==
    /\ pc[r] = "load"
    /\ IF redisUp /\ jwt # None
         THEN SetToken(r, jwt) /\ Authenticated(r)
         ELSE Goto(r, "lock") /\ UNCHANGED <<token, mutex, Locals>>
    /\ UNCHANGED <<mode, Shared, excused>>

\* authenticate(): SET NX EX; an error of Redis is no reason not to log in.
SetLock(r) ==
    /\ pc[r] = "lock"
    /\ IF redisUp /\ lock
         THEN Goto(r, "wait") /\ UNCHANGED <<lock, mine>>
         ELSE /\ Goto(r, "login")
              /\ lock' = (redisUp \/ lock)
              /\ mine' = [mine EXCEPT ![r] = redisUp]
    /\ UNCHANGED <<mode, token, jwt, redisUp, codeUsed, static, mutex, serving,
                   turn, used, faults, excused>>

\* The lock is gone: who has waited for it 15 s or more soon stops waiting.
Unlocked == [q \in Requests |-> IF pc[q] = "wait" THEN "waited" ELSE pc[q]]

\* Every 0.5 s a waiter looks for the winner's token, whoever stored it when.
PollHit(r) ==
    /\ pc[r] \in {"wait", "waited"}
    /\ redisUp /\ jwt # None
    /\ SetToken(r, jwt)
    /\ Authenticated(r)
    /\ UNCHANGED <<mode, Shared, excused>>

\* Mutant: waiters give up while the lock may still be held.
GiveUpEarly(r) ==
    /\ pc[r] \in {"wait", "waited"}
    /\ ~(redisUp /\ jwt # None)
    /\ Goto(r, "login")
    /\ UNCHANGED <<mode, token, mutex, Locals, Shared, excused>>

\* 20 s (_AUTH_LOCK_WAIT_SEC) outlast the 15 s (_AUTH_LOCK_TTL_SEC) of the
\* lock that was in the way: its last poll finds nothing, and it logs in.
GiveUp(r) ==
    /\ pc[r] = "waited"
    /\ ~(redisUp /\ jwt # None)
    /\ Goto(r, "login")
    /\ UNCHANGED <<mode, token, mutex, Locals, Shared, excused>>

\* A code is good for one login; the broker's own trouble is a refusal, too.
LoginGranted(r) ==
    /\ pc[r] = "login" /\ ~codeUsed
    /\ codeUsed' = TRUE
    /\ SetToken(r, "good")
    /\ Goto(r, "store")
    /\ UNCHANGED <<mode, jwt, lock, redisUp, static, mutex, Locals, faults, excused>>

\* Mutant: a refused login leaves the in-process lock taken.
LoginRefusedLocked(r) ==
    /\ pc[r] = "login"
    /\ End(r, "auth_error")
    /\ excused' = TRUE
    /\ codeUsed /\ UNCHANGED faults
    /\ UNCHANGED <<mode, token, jwt, lock, redisUp, codeUsed, static, mutex>>

\* The exception leaves the in-process lock, but not the one in Redis.
LoginRefused(r) ==
    /\ pc[r] = "login"
    /\ EndsWith(r, "auth_error")
    /\ excused' = TRUE
    /\ \/ codeUsed /\ UNCHANGED faults
       \/ /\ ~codeUsed /\ "refusal" \in mode.faults /\ faults < mode.max
          /\ faults' = faults + 1
    /\ UNCHANGED <<mode, token, jwt, lock, redisUp, codeUsed, static>>

\* _store_jwt_in_redis.
StoreToken(r) ==
    /\ pc[r] = "store"
    /\ jwt' = IF redisUp THEN token[Home[r]] ELSE jwt
    /\ Goto(r, "unlock")
    /\ UNCHANGED <<mode, token, lock, redisUp, codeUsed, static, mutex, Locals,
                   faults, excused>>

\* DELETE of the lock, whoever holds it by now, by those who had set it.
ReleaseLock(r) ==
    /\ pc[r] = "unlock"
    /\ LET free == mine[r] /\ redisUp
           next == IF free THEN Unlocked ELSE pc
       IN /\ lock' = (lock /\ ~free)
          /\ Leave(r)
          /\ IF serving[Home[r]] = "starting"
               THEN /\ pc' = [next EXCEPT ![r] = "idle"]
                    /\ serving' = [serving EXCEPT ![Home[r]] = "serving"]
               ELSE /\ pc' = [next EXCEPT ![r] = Resume(r)]
                    /\ UNCHANGED serving
          /\ mine' = [mine EXCEPT ![r] = FALSE]
          /\ Resumed(r)
    /\ UNCHANGED <<mode, token, jwt, redisUp, codeUsed, static, used, faults,
                   excused>>

\* After _throttle the header is built from what the worker holds by then,
\* which may be nothing: another request may be logging in again.
Send(r) ==
    /\ pc[r] = "throttle"
    /\ used' = [used EXCEPT ![r] = token[Home[r]]]
    /\ Goto(r, "sent")
    /\ UNCHANGED <<mode, token, mutex, serving, mine, turn, Shared, excused>>

\* 401: once more with a new token, or ProviderAuthError.
AnswerUnauthorized(r) ==
    /\ pc[r] = "sent" /\ used[r] # "good"
    /\ IF turn[r] = "first"
         THEN /\ Goto(r, IF Angel THEN "reauth" ELSE "refresh")
              /\ turn' = [turn EXCEPT ![r] = "relogin"]
              /\ used' = [used EXCEPT ![r] = None]
              /\ UNCHANGED <<serving, mine>>
         ELSE End(r, "auth_error")
    /\ UNCHANGED <<mode, token, mutex, Shared, excused>>

AnswerAuthorized(r) ==
    /\ pc[r] = "sent" /\ used[r] = "good"
    /\ End(r, "ok")
    /\ UNCHANGED <<mode, token, mutex, Shared, excused>>

\* Mutant: the second attempt begins with the token that was rejected.
KeepToken(r) ==
    /\ pc[r] = "reauth" /\ mutex[Home[r]] = None
    /\ Goto(r, "start")
    /\ Resumed(r)
    /\ UNCHANGED <<mode, token, mutex, serving, mine, used, Shared, excused>>

\* Whoever gets a 401 discards the worker's token, a newer one included.
Discard(r) ==
    /\ pc[r] = "reauth"
    /\ Enter(r)
    /\ SetToken(r, None)
    /\ Goto(r, "lock")
    /\ UNCHANGED <<mode, Locals, Shared, excused>>

-----------------------------------------------------------------------------
(* Upstox: _request and refresh_token. *)

\* The analytics token comes first.
Header(w) == IF static # None THEN static ELSE token[w]

SendUpstox(r) ==
    /\ ~Angel
    /\ pc[r] = "start"
    /\ used' = [used EXCEPT ![r] = Header(Home[r])]
    /\ Goto(r, "sent")
    /\ UNCHANGED <<mode, token, mutex, serving, mine, turn, Shared, excused>>

\* With an analytics token there is nothing to refresh.
Refresh(r) ==
    /\ pc[r] = "refresh"
    /\ IF static # None
         THEN /\ mutex[Home[r]] = None /\ Goto(r, "start") /\ Resumed(r)
              /\ UNCHANGED mutex
         ELSE Enter(r) /\ Goto(r, "exchange") /\ UNCHANGED turn
    /\ UNCHANGED <<mode, token, serving, mine, used, Shared, excused>>

\* grant_type=authorization_code without a code: Upstox has nothing to grant a
\* token for, and a network error ends the same way.
ExchangeRefused(r) ==
    /\ pc[r] = "exchange"
    /\ EndsWith(r, "auth_error")
    /\ UNCHANGED <<mode, token, Shared, excused>>

-----------------------------------------------------------------------------
(* The brokers, Redis and the processes. *)

Fault(f) == /\ f \in mode.faults /\ faults < mode.max
            /\ faults' = faults + 1

\* The broker ends its sessions, at its daily expiry or when it likes.
Expire ==
    /\ Fault("expiry")
    /\ token' = [w \in Workers |-> Expired(token[w])]
    /\ jwt' = Expired(jwt)
    /\ static' = Expired(static)
    /\ used' = [r \in Requests |-> Expired(used[r])]
    /\ UNCHANGED <<mode, lock, redisUp, codeUsed, mutex, serving, pc,
                   mine, turn, excused>>

\* Redis forgets a JWT 6 hours after it was stored: no wait for it lasts as long.
JwtForgotten ==
    /\ Angel /\ jwt # None /\ Fault("expiry")
    /\ \A r \in Requests : pc[r] \notin {"unlock", "waited"}
    /\ jwt' = None
    /\ UNCHANGED <<mode, token, lock, redisUp, codeUsed, static, mutex, serving,
                   pc, mine, turn, used, excused>>

CodeRenewed ==
    /\ codeUsed
    /\ codeUsed' = FALSE
    /\ UNCHANGED <<mode, token, jwt, lock, redisUp, static, mutex, serving, pc,
                   mine, turn, used, faults, excused>>

Held == \E r \in Requests : mine[r]

\* The lock's TTL: of a lock that its holder left behind, or, by a login that
\* takes longer than 15 s, of one in use.
LockExpires ==
    /\ lock
    /\ IF Held THEN Fault("lock_expiry") /\ excused' = TRUE
               ELSE UNCHANGED <<faults, excused>>
    /\ lock' = FALSE
    /\ pc' = Unlocked
    /\ UNCHANGED <<mode, token, jwt, redisUp, codeUsed, static, mutex, serving,
                   mine, turn, used>>

RedisFails ==
    /\ redisUp /\ Fault("outage")
    /\ redisUp' = FALSE
    /\ excused' = TRUE
    /\ UNCHANGED <<mode, token, jwt, lock, codeUsed, static, mutex, serving, pc,
                   mine, turn, used>>

RedisReturns ==
    /\ ~redisUp
    /\ redisUp' = TRUE
    /\ UNCHANGED <<mode, token, jwt, lock, codeUsed, static, mutex, serving, pc,
                   mine, turn, used, faults, excused>>

\* A worker process dies and is started again.
Crash(w) ==
    /\ Angel /\ Fault("crash")
    /\ excused' = TRUE
    /\ LET here == {r \in Requests : Home[r] = w}
           reset(f, v) == [r \in Requests |-> IF r \in here THEN v ELSE f[r]]
       IN /\ pc' = reset(pc, "idle") /\ mine' = reset(mine, FALSE)
          /\ turn' = reset(turn, "first") /\ used' = reset(used, None)
    /\ token' = [token EXCEPT ![w] = None]
    /\ mutex' = [mutex EXCEPT ![w] = None]
    /\ serving' = [serving EXCEPT ![w] = "starting"]
    /\ UNCHANGED <<mode, jwt, lock, redisUp, codeUsed, static>>

Step(r) ==
    \/ TokenInMemory(r) \/ NoTokenInMemory(r) \/ LoadFirst(r) \/ SetLock(r)
    \/ PollHit(r) \/ GiveUp(r) \/ LoginGranted(r) \/ LoginRefused(r)
    \/ StoreToken(r) \/ ReleaseLock(r) \/ Send(r) \/ AnswerAuthorized(r)
    \/ AnswerUnauthorized(r) \/ Discard(r)
    \/ SendUpstox(r) \/ Refresh(r) \/ ExchangeRefused(r)

Next ==
    \/ \E r \in Requests : Step(r) \/ Begin(r)
    \/ Expire \/ JwtForgotten \/ CodeRenewed \/ LockExpires
    \/ RedisFails \/ RedisReturns
    \/ \E w \in Workers : Crash(w)

Spec == Init /\ [][Next]_vars

\* The event loop runs every coroutine, and the broker answers or times out;
\* asyncio.Lock serves its waiters in order; windows and TTLs end.
Fairness ==
    /\ \A r \in Requests : SF_vars(Step(r))
    /\ WF_vars(CodeRenewed) /\ WF_vars(LockExpires) /\ WF_vars(RedisReturns)

FairSpec == Spec /\ Fairness

-----------------------------------------------------------------------------

TypeOK ==
    /\ mode \in Modes
    /\ token \in [Workers -> Tokens] /\ jwt \in Tokens /\ static \in Tokens
    /\ lock \in BOOLEAN /\ redisUp \in BOOLEAN /\ codeUsed \in BOOLEAN
    /\ mutex \in [Workers -> Requests \cup {None}]
    /\ serving \in [Workers -> {"starting", "serving", "without"}]
    /\ pc \in [Requests -> {"idle", "start", "load", "lock", "wait", "waited", "login",
                            "store", "unlock", "throttle", "sent", "reauth",
                            "refresh", "exchange"}]
    /\ mine \in [Requests -> BOOLEAN]
    /\ turn \in [Requests -> {"first", "relogin", "last"}]
    /\ used \in [Requests -> Tokens]
    /\ faults \in Nat /\ excused \in BOOLEAN

(* Until Redis, a login or a process has failed, no two logins of the       *)
(* account are under way, in one worker or in several: a one-time code sent *)
(* twice would fail one of them.  It rests on the waiter's 20 s being more  *)
(* than the lock's 15 s, and on the token being published before the lock  *)
(* is released.                                                            *)
LoggingIn(r) == pc[r] \in {"login", "store", "unlock"}
OneLogin ==
    ~excused => \A q, r \in Requests : LoggingIn(q) /\ LoggingIn(r) => q = r

(* Every call ends: with two locks, one of them in Redis, polling and a     *)
(* second attempt, no request waits forever, whatever expires, fails or     *)
(* crashes in between.                                                     *)
EveryCallEnds == \A r \in Requests : pc[r] # "idle" ~> pc[r] = "idle"

\* A call ends with ProviderAuthError.
Rejected(r) ==
    /\ pc'[r] = "idle"
    /\ \/ pc[r] \in {"login", "exchange"}
       \/ pc[r] = "sent" /\ used[r] # "good"

(* Faults come to an end, and so do their consequences for Angel One: only  *)
(* finitely many calls end with ProviderAuthError afterwards, although      *)
(* stale tokens remain in memory and in Redis, as long as a worker has one  *)
(* call under way at a time.  (Two calls of a worker can keep each other    *)
(* out forever: each discards the other's new token.  A token of Upstox     *)
(* that has expired is never replaced while the process runs.)              *)
Sole == \A q, r \in mode.calls : Home[q] = Home[r] => q = r
FailuresEnd ==
    <>[][Angel /\ Sole => \A r \in Requests : ~Rejected(r)]_vars

=============================================================================
