------------------------------ MODULE RateLimit ------------------------------
(***************************************************************************)
(* The router middleware of the relay, for the requests that name one       *)
(* device: by a token of that device, or, on a path that needs no token, by  *)
(* a header that any client may set.                                        *)
(*                                                                          *)
(*   relay/app/middleware/device_auth_middleware.ts     handle              *)
(*   relay/app/middleware/rate_limit_middleware.ts      handle, getLimit    *)
(*                                                                          *)
(* Time is cut into windows of Width ticks.  Redis holds one counter for    *)
(* each device and window, ratelimit:{device}:{window}, which all routes    *)
(* share and hold against limits of their own.  INCR and EXPIRE are two     *)
(* awaited calls, hence two actions; what a handler does after the last of  *)
(* them is one more.                                                        *)
(*                                                                          *)
(* Two devices share no counter, and a request counts for one device only.  *)
(* Not covered, as they change nothing: requests without a good token on a  *)
(* path that needs one, and requests for /health that name no device.  Nor  *)
(* covered: the informational headers; the Redis client sending a command   *)
(* again; what the controllers do with a request that passes.               *)
(***************************************************************************)
EXTENDS Integers, FiniteSets

CONSTANTS
    Handler,    \* requests that may be in the middleware at once
    Route,      \* the kinds of route the two middleware tell apart
    Public,     \* those of PUBLIC_PATHS
    Limit,      \* Limit[r]: SEND_LIMIT, PENDING_LIMIT, DEFAULT_LIMIT
    Width,      \* WINDOW_SECONDS
    Slack,      \* what EXPIRE adds to the window
    Token,      \* the time stamps of the device's tokens
    MaxAge,     \* MAX_TOKEN_AGE_SECONDS
    Skew,       \* how far in the future a token may be dated
    MaxTime,    \* bound: the clock stops here
    MaxArrive   \* bound: requests that arrive in one window

ASSUME HandlerAssumption == IsFiniteSet(Handler)
ASSUME LimitAssumption   == Route # {} /\ Public \subseteq Route /\ Limit \in [Route -> Nat]
ASSUME TimeAssumption    == Width \in Nat \ {0} /\ Slack \in Nat
ASSUME TokenAssumption   == Token \subseteq Int /\ MaxAge \in Nat /\ Skew \in Nat
ASSUME BoundAssumption   == MaxTime \in Nat /\ MaxArrive \in Nat

VARIABLES
    clock,      \* Date.now() in ticks
    count,      \* count[w]: the counter of window w, 0 when there is no key
    expiry,     \* expiry[w]: when Redis drops the key, None when it has no TTL
    pc,         \* pc[h]: where the middleware stands
    route,      \* route[h]: what was asked for
    win,        \* win[h]: windowTimestamp
    cur,        \* cur[h]: current, what INCR returned
    retry,      \* retry[h]: when a client that waits for Retry-After is back
    arrived,    \* arrived[w]: history, requests naming the device that took
                \* window w, with a token and without
    admitted,   \* admitted[w][r]: history, requests of w passed to a route
                \* whose limit is at most Limit[r]
    lost,       \* history, windows that Redis forgot: it restarted, or an INCR
                \* came after the end of the window and Slack
    orphan      \* history, windows in which a handler was lost before EXPIRE

keyVars == <<count, expiry>>
reqVars == <<pc, route, win, cur, retry>>
histVars == <<arrived, admitted, lost, orphan>>
vars == <<clock, keyVars, reqVars, histVars>>

\* EXPIRE is never told to drop a key at 0.
None == 0

\* Math.floor(t / WINDOW_SECONDS)
WindowOf(t) == t \div Width

Window   == 0 .. WindowOf(MaxTime)
Place    == {"idle", "incr", "expire", "check", "told"}
\* What an idle handler's route is.
AnyRoute == CHOOSE r \in Route : TRUE
\* When the key of a window may go, if EXPIRE came at the earliest time.
Close(w) == (w + 1) * Width + Slack

TypeOK ==
    /\ clock \in 0 .. MaxTime
    /\ count \in [Window -> Nat]
    /\ expiry \in [Window -> Nat]
    /\ pc \in [Handler -> Place]
    /\ route \in [Handler -> Route]
    /\ win \in [Handler -> Window]
    /\ cur \in [Handler -> Nat]
    /\ retry \in [Handler -> 0 .. MaxTime + Width]
    /\ arrived \in [Window -> 0 .. MaxArrive]
    /\ admitted \in [Window -> [Route -> Nat]]
    /\ lost \subseteq Window
    /\ orphan \subseteq Window

Init ==
    /\ clock = 0
    /\ count = [w \in Window |-> 0]
    /\ expiry = [w \in Window |-> None]
    /\ pc = [h \in Handler |-> "idle"]
    /\ route = [h \in Handler |-> AnyRoute]
    /\ win = [h \in Handler |-> 0]
    /\ cur = [h \in Handler |-> 0]
    /\ retry = [h \in Handler |-> 0]
    /\ arrived = [w \in Window |-> 0]
    /\ admitted = [w \in Window |-> [r \in Route |-> 0]]
    /\ lost = {}
    /\ orphan = {}

-----------------------------------------------------------------------------
\* DeviceAuthMiddleware.verifyToken: the token is neither too old nor dated
\* too far in the future.
Fresh(t) == clock - t =< MaxAge /\ t =< clock + Skew

\* DeviceAuthMiddleware.handle: a public path is let through before the token
\* is looked at, and the device id in the header stays what the client sent.
Passes(r, t) == r \in Public \/ Fresh(t)

\* A request that passed authentication; its window is fixed here.
Begin(h, r, t) ==
    /\ pc[h] = "idle"
    /\ Passes(r, t)
    /\ arrived[WindowOf(clock)] < MaxArrive
    /\ pc' = [pc EXCEPT ![h] = "incr"]
    /\ route' = [route EXCEPT ![h] = r]
    /\ win' = [win EXCEPT ![h] = WindowOf(clock)]
    /\ arrived' = [arrived EXCEPT ![WindowOf(clock)] = @ + 1]
    /\ UNCHANGED <<clock, keyVars, cur, retry, admitted, lost, orphan>>

\* The handler is done with the request.
Leave(h) ==
    /\ pc' = [pc EXCEPT ![h] = "idle"]
    /\ route' = [route EXCEPT ![h] = AnyRoute]
    /\ win' = [win EXCEPT ![h] = 0]
    /\ cur' = [cur EXCEPT ![h] = 0]
    /\ retry' = [retry EXCEPT ![h] = 0]

\* Mutant of First: INCR taken to return the value before.
First_Before(n) == n = 0

\* current === 1
First(n) == n = 1

\* redis.incr; it makes a key without a TTL if there is none.
Incr(h) ==
    LET w == win[h]  n == count[w] + 1 IN
    /\ pc[h] = "incr"
    /\ count' = [count EXCEPT ![w] = n]
    /\ cur' = [cur EXCEPT ![h] = n]
    /\ pc' = [pc EXCEPT ![h] = IF First(n) THEN "expire" ELSE "check"]
    /\ lost' = IF clock >= Close(w) THEN lost \cup {w} ELSE lost
    /\ UNCHANGED <<clock, expiry, route, win, retry, arrived, admitted, orphan>>

\* Mutant of TimeToLive: no allowance for handlers that are late.
TimeToLive_NoSlack == Width

TimeToLive == Width + Slack

\* redis.expire, which does nothing when the key is gone.
SetExpiry(h) ==
    LET w == win[h] IN
    /\ pc[h] = "expire"
    /\ expiry' = [expiry EXCEPT ![w] = IF count[w] = 0 THEN None ELSE clock + TimeToLive]
    /\ pc' = [pc EXCEPT ![h] = "check"]
    /\ UNCHANGED <<clock, count, route, win, cur, retry, histVars>>

\* Mutant of Over: the last request of the allowance is turned away.
Over_AtLimit(n, r) == n >= Limit[r]

\* current > limit
Over(n, r) == n > Limit[r]

\* next()
Admit(h) ==
    /\ pc[h] = "check"
    /\ ~Over(cur[h], route[h])
    /\ Leave(h)
    /\ admitted' = [admitted EXCEPT ![win[h]] =
                       [r \in Route |-> IF Limit[route[h]] =< Limit[r] THEN @[r] + 1
                                        ELSE @[r]]]
    /\ UNCHANGED <<clock, keyVars, arrived, lost, orphan>>

\* Mutants of RetryAfter: one second short; the wrong sign.
RetryAfter_Short == Width - (clock % Width) - 1

RetryAfter_Plus == Width + (clock % Width)

\* The rest of the window the clock is in by now.
RetryAfter == Width - (clock % Width)

\* 429
Reject(h) ==
    /\ pc[h] = "check"
    /\ Over(cur[h], route[h])
    /\ pc' = [pc EXCEPT ![h] = "told"]
    /\ retry' = [retry EXCEPT ![h] = clock + RetryAfter]
    /\ UNCHANGED <<clock, keyVars, route, win, cur, histVars>>

\* The answer is out.
Answer(h) ==
    /\ pc[h] = "told"
    /\ Leave(h)
    /\ UNCHANGED <<clock, keyVars, histVars>>

\* The handler is lost: an error of Redis, or the process died.
Fails(h) ==
    /\ pc[h] \in {"incr", "expire", "check"}
    /\ Leave(h)
    /\ orphan' = IF pc[h] = "expire" THEN orphan \cup {win[h]} ELSE orphan
    /\ UNCHANGED <<clock, keyVars, arrived, admitted, lost>>

\* Redis keeps nothing across a restart (config/redis.ts).
RedisRestart ==
    /\ count' = [w \in Window |-> 0]
    /\ expiry' = [w \in Window |-> None]
    /\ lost' = lost \cup {w \in Window : count[w] > 0}
    /\ UNCHANGED <<clock, reqVars, arrived, admitted, orphan>>

Gone(w, t) == expiry[w] # None /\ expiry[w] =< t

\* A tick; Redis drops the keys whose time has come.
Tick ==
    /\ clock < MaxTime
    /\ clock' = clock + 1
    /\ count' = [w \in Window |-> IF Gone(w, clock + 1) THEN 0 ELSE count[w]]
    /\ expiry' = [w \in Window |-> IF Gone(w, clock + 1) THEN None ELSE expiry[w]]
    /\ UNCHANGED <<reqVars, histVars>>

Next ==
    \/ \E h \in Handler, r \in Route, t \in Token : Begin(h, r, t)
    \/ \E h \in Handler : Incr(h)
    \/ \E h \in Handler : SetExpiry(h)
    \/ \E h \in Handler : Admit(h)
    \/ \E h \in Handler : Reject(h)
    \/ \E h \in Handler : Answer(h)
    \/ \E h \in Handler : Fails(h)
    \/ RedisRestart
    \/ Tick

Spec == Init /\ [][Next]_vars

-----------------------------------------------------------------------------
\* Safety

\* In one window no more requests pass than the limit of their route: neither
\* the race of their INCRs, nor the expiry of the key under a handler that
\* comes late, but no later than Slack after the window, starts the count
\* again.  Routes with lower limits count too: the counter is shared.
WindowLimit ==
    \A w \in Window \ lost, r \in Route : admitted[w][r] =< Limit[r]

\* A request is turned away only when more requests than its limit that name
\* the device arrived in its window, on whatever routes, those for a public
\* path by clients without a token among them: requests of other windows, lost
\* handlers, and counters that come and go never add to its count.
RejectedForCause ==
    \A h \in Handler : pc[h] = "told" => arrived[win[h]] > Limit[route[h]]

\* A client that was turned away and waits as it is told finds a new counter:
\* Retry-After is taken from a later reading of the clock than the window.
RetryInNewWindow ==
    \A h \in Handler : pc[h] = "told" => WindowOf(retry[h]) > win[h]

\* A counter without a TTL, which would stay for ever, is about to get one
\* from the handler that made it, unless that handler was lost.
UntimedIsAttended ==
    \A w \in Window \ orphan :
        count[w] > 0 /\ expiry[w] = None =>
            \E h \in Handler : pc[h] = "expire" /\ win[h] = w

-----------------------------------------------------------------------------
\* The promise: one step counts a request and decides about it

\* How far a request is: decided as soon as INCR has given it its number.
Stage(h) ==
    CASE pc[h] = "idle" -> "idle"
      [] pc[h] = "incr" -> "asked"
      [] pc[h] \in {"expire", "check"} ->
            IF Over(cur[h], route[h]) THEN "refused" ELSE "passed"
      [] pc[h] = "told" -> "told"

Allowance == INSTANCE Quota WITH
    Request <- Handler,
    Grace <- Slack,
    now <- clock,
    used <- count,
    place <- [h \in Handler |-> Stage(h)],
    back <- retry

\* INCR, EXPIRE and the comparison afterwards, with handlers that come late or
\* are lost in between and keys that Redis drops by their TTL, are a limiter
\* that counts and decides in one step (module Quota): no TTL, set by whoever
\* was first and whenever its EXPIRE arrives, drops a count before its window
\* and the allowance for late handlers are over.
ImplementsQuota == Allowance!Spec

=============================================================================
