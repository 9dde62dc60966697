---------------------------- MODULE MessageQueue ----------------------------
(***************************************************************************)
(* The relay's transient message queue: the Redis keys msg:{id} and         *)
(* inbox:{device} and the HTTP handlers that work on them.                  *)
(*                                                                          *)
(*   relay/app/services/message_queue_service.ts     enqueue, dequeue, purge*)
(*   relay/app/controllers/message_relay_controller.ts                      *)
(*                                         send, pending, acknowledge       *)
(*                                                                          *)
(* Redis runs one command, or one MULTI/EXEC block, at a time; a handler is *)
(* interrupted at every await, so each Redis call of a handler is an action *)
(* of its own and other handlers run in between.  Blobs are opaque to the   *)
(* relay and are not modelled, only their presence and enqueuedAt.  A       *)
(* client-generated message id names one envelope for one device, so the    *)
(* recipient is a function of the id; the same id may be sent again (a      *)
(* client that saw no answer retries), which is what the id is for.         *)
(*                                                                          *)
(* Covered: concurrent senders and polls, retries, expiry of both kinds of  *)
(* key, acknowledgements and their retries, a handler that dies between two *)
(* awaits, a Redis restart.  Not covered: request validation, the bearer    *)
(* token (device_auth_middleware.ts), the pub/sub message nobody subscribes *)
(* to, WebSocket frames (handleFrame only calls the same purge).            *)
(***************************************************************************)
EXTENDS Integers, FiniteSets, Sequences

CONSTANTS
    MsgId,      \* message ids, client-generated UUIDs
    Device,     \* device ids
    Recipient,  \* the device each message is addressed to
    Sender,     \* POST /v1/messages/send handlers that may run at once
    Poller,     \* GET /v1/messages/pending handlers that may run at once
    TTL,        \* MESSAGE_TTL_SECONDS, in clock ticks
    MaxTime,    \* bound: the clock stops here
    MaxExec,    \* bound: an id is not sent again once it was stored this often
    MaxFail     \* bound: failures (a handler lost, a Redis restart)

ASSUME RecipientAssumption == Recipient \in [MsgId -> Device]
ASSUME TTLAssumption       == TTL \in Nat \ {0}
ASSUME SomeAssumption      == MsgId # {} /\ Device # {}
ASSUME BoundAssumption     == MaxTime \in Nat /\ MaxExec \in Nat /\ MaxFail \in Nat

VARIABLES
    clock,      \* the time, as Date.now() and Redis read it
    stamp,      \* stamp[m]: enqueuedAt inside msg:{m}, 0 when there is no key
    blobExp,    \* blobExp[m]: when msg:{m} expires, 0 when there is no key
    score,      \* score[m]: m's score in its recipient's inbox ZSET, or NoRef
    inboxExp,   \* inboxExp[d]: when inbox:{d} expires, 0 when there is no key
    sPc,        \* sPc[s]: where the send handler s stands
    sMsg,       \* sMsg[s]: the message it is enqueueing
    sNow,       \* sNow[s]: its local `now`
    pPc,        \* pPc[p]: where the poll handler p stands
    pDev,       \* pDev[p]: the deviceId it polls for
    todo,       \* todo[p][m]: listed score of an id still to GET, or NoRef
    out,        \* out[p]: its local `messages`
    expired,    \* expired[p]: its local `expiredIds`
    since,      \* since[p]: history, the device's blobs stored when p listed
    execs,      \* execs[m]: history, how often m's MULTI block ran
    acks,       \* acks[m]: history, how often an acknowledge of m got 204
    delivered,  \* history: the ids some poll has answered with
    fails       \* failures so far

redisVars == <<stamp, blobExp, score, inboxExp>>
sendVars  == <<sPc, sMsg, sNow>>
pollVars  == <<pPc, pDev, todo, out, expired, since>>
histVars  == <<execs, acks, delivered>>
vars == <<clock, redisVars, sendVars, pollVars, histVars, fails>>

NoRef == -1

Stored(m) == blobExp[m] # 0
Listed(m) == score[m] # NoRef
For(d)    == {m \in MsgId : Recipient[m] = d}
Entry     == [id : MsgId, enqueuedAt : Nat]
Ids(msgs) == {msgs[i].id : i \in DOMAIN msgs}

-----------------------------------------------------------------------------
\* What a Redis call leaves behind.  A ZSET key whose last member is removed,
\* or whose TTL runs out, no longer exists.

\* Redis drops every key whose expiry has come: a string key alone, an inbox
\* key with all its members.
ExpireKeys(now) ==
    /\ blobExp' = [m \in MsgId |-> IF blobExp[m] > now THEN blobExp[m] ELSE 0]
    /\ stamp' = [m \in MsgId |-> IF blobExp[m] > now THEN stamp[m] ELSE 0]
    /\ inboxExp' = [d \in Device |-> IF inboxExp[d] > now THEN inboxExp[d] ELSE 0]
    /\ score' = [m \in MsgId |->
                    IF inboxExp[Recipient[m]] > now THEN score[m] ELSE NoRef]

\* Mutants of StoreAndReference: no EXPIRE (Redis reports -1 for a key without
\* TTL); an EXPIRE that only a fresh inbox key gets; the score read when the
\* block runs instead of with enqueuedAt.
StoreAndReference_NoTTL(m, now) ==
    /\ stamp' = [stamp EXCEPT ![m] = now]
    /\ blobExp' = [blobExp EXCEPT ![m] = clock + TTL]
    /\ score' = [score EXCEPT ![m] = now]
    /\ inboxExp' = [inboxExp EXCEPT ![Recipient[m]] = -1]

StoreAndReference_NoRefresh(m, now) ==
    /\ stamp' = [stamp EXCEPT ![m] = now]
    /\ blobExp' = [blobExp EXCEPT ![m] = clock + TTL]
    /\ score' = [score EXCEPT ![m] = now]
    /\ inboxExp' = [inboxExp EXCEPT ![Recipient[m]] = IF @ = 0 THEN clock + TTL ELSE @]

StoreAndReference_LateScore(m, now) ==
    /\ stamp' = [stamp EXCEPT ![m] = now]
    /\ blobExp' = [blobExp EXCEPT ![m] = clock + TTL]
    /\ score' = [score EXCEPT ![m] = clock]
    /\ inboxExp' = [inboxExp EXCEPT ![Recipient[m]] = clock + TTL]

\* MULTI { SET msg EX ttl; ZADD inbox now id; EXPIRE inbox ttl } EXEC
StoreAndReference(m, now) ==
    /\ stamp' = [stamp EXCEPT ![m] = now]
    /\ blobExp' = [blobExp EXCEPT ![m] = clock + TTL]
    /\ score' = [score EXCEPT ![m] = now]
    /\ inboxExp' = [inboxExp EXCEPT ![Recipient[m]] = clock + TTL]

\* Mutant of RemoveRefs: DEL inbox:{d}, whatever it holds by now.
RemoveRefs_DropInbox(d, ids) ==
    /\ score' = [m \in MsgId |-> IF m \in For(d) THEN NoRef ELSE score[m]]
    /\ inboxExp' = [inboxExp EXCEPT ![d] = 0]

\* ZREM inbox:{d} ids
RemoveRefs(d, ids) ==
    LET gone == ids \cap For(d) IN
    /\ score' = [m \in MsgId |-> IF m \in gone THEN NoRef ELSE score[m]]
    /\ inboxExp' = [inboxExp EXCEPT ![d] =
                       IF \E m \in For(d) \ gone : Listed(m) THEN @ ELSE 0]

-----------------------------------------------------------------------------
TypeOK ==
    /\ clock \in Nat
    /\ stamp \in [MsgId -> Nat]
    /\ blobExp \in [MsgId -> Nat]
    /\ score \in [MsgId -> Nat \cup {NoRef}]
    /\ inboxExp \in [Device -> Nat]
    /\ sPc \in [Sender -> {"idle", "stamped", "stored"}]
    /\ sMsg \in [Sender -> MsgId]
    /\ sNow \in [Sender -> Nat]
    /\ pPc \in [Poller -> {"idle", "get", "zrem", "respond"}]
    /\ pDev \in [Poller -> Device]
    /\ todo \in [Poller -> [MsgId -> Nat \cup {NoRef}]]
    /\ out \in [Poller -> Seq(Entry)]
    /\ expired \in [Poller -> SUBSET MsgId]
    /\ since \in [Poller -> SUBSET MsgId]
    /\ execs \in [MsgId -> Nat]
    /\ acks \in [MsgId -> Nat]
    /\ delivered \subseteq MsgId
    /\ fails \in Nat

\* An idle handler's message and device mean nothing; they are parked here.
AnyMsg    == CHOOSE m \in MsgId : TRUE
AnyDevice == CHOOSE d \in Device : TRUE

\* An empty Redis and no request in flight.
Init ==
    /\ clock = 1
    /\ stamp = [m \in MsgId |-> 0]
    /\ blobExp = [m \in MsgId |-> 0]
    /\ score = [m \in MsgId |-> NoRef]
    /\ inboxExp = [d \in Device |-> 0]
    /\ sPc = [s \in Sender |-> "idle"]
    /\ sMsg = [s \in Sender |-> AnyMsg]
    /\ sNow = [s \in Sender |-> 0]
    /\ pPc = [p \in Poller |-> "idle"]
    /\ pDev = [p \in Poller |-> AnyDevice]
    /\ todo = [p \in Poller |-> [m \in MsgId |-> NoRef]]
    /\ out = [p \in Poller |-> <<>>]
    /\ expired = [p \in Poller |-> {}]
    /\ since = [p \in Poller |-> {}]
    /\ execs = [m \in MsgId |-> 0]
    /\ acks = [m \in MsgId |-> 0]
    /\ delivered = {}
    /\ fails = 0

-----------------------------------------------------------------------------
\* POST /v1/messages/send

\* The request arrives and enqueue reads Date.now(), before any await.
SendBegin(s, m) ==
    /\ sPc[s] = "idle"
    /\ execs[m] + Cardinality({t \in Sender : sPc[t] = "stamped" /\ sMsg[t] = m})
          < MaxExec
    /\ sPc' = [sPc EXCEPT ![s] = "stamped"]
    /\ sMsg' = [sMsg EXCEPT ![s] = m]
    /\ sNow' = [sNow EXCEPT ![s] = clock]
    /\ UNCHANGED <<clock, redisVars, pollVars, histVars, fails>>

\* await pipeline.exec()
SendExec(s) ==
    /\ sPc[s] = "stamped"
    /\ StoreAndReference(sMsg[s], sNow[s])
    /\ execs' = [execs EXCEPT ![sMsg[s]] = @ + 1]
    /\ sPc' = [sPc EXCEPT ![s] = "stored"]
    /\ UNCHANGED <<clock, sMsg, sNow, pollVars, acks, delivered, fails>>

\* The handler's locals are gone once it has answered or died.
SendForget(s) ==
    /\ sPc' = [sPc EXCEPT ![s] = "idle"]
    /\ sMsg' = [sMsg EXCEPT ![s] = AnyMsg]
    /\ sNow' = [sNow EXCEPT ![s] = 0]

\* await redis.publish(...), then 202.
SendAccepted(s) ==
    /\ sPc[s] = "stored"
    /\ SendForget(s)
    /\ UNCHANGED <<clock, redisVars, pollVars, histVars, fails>>

\* The process dies, or a Redis call rejects, before the answer: whatever the
\* MULTI block did stays, and the client learns nothing.
SendFails(s) ==
    /\ fails < MaxFail
    /\ sPc[s] # "idle"
    /\ SendForget(s)
    /\ fails' = fails + 1
    /\ UNCHANGED <<clock, redisVars, pollVars, histVars>>

-----------------------------------------------------------------------------
\* GET /v1/messages/pending

\* ZRANGEBYSCORE inbox -inf +inf; an empty inbox is answered at once.
PollList(p, d) ==
    LET ids == {m \in For(d) : Listed(m)} IN
    /\ pPc[p] = "idle"
    /\ pPc' = [pPc EXCEPT ![p] = IF ids = {} THEN "respond" ELSE "get"]
    /\ pDev' = [pDev EXCEPT ![p] = d]
    /\ todo' = [todo EXCEPT ![p] =
                   [m \in MsgId |-> IF m \in ids THEN score[m] ELSE NoRef]]
    /\ since' = [since EXCEPT ![p] = {m \in For(d) : Stored(m)}]
    /\ UNCHANGED <<clock, redisVars, sendVars, out, expired, histVars, fails>>

\* Mutant of NextIds: the inbox is a plain set, its ids come in any order.
NextIds_AnyOrder(p) == {m \in MsgId : todo[p][m] # NoRef}

\* The ids the loop may take next: the lowest listed score.  Redis orders
\* equal scores by the text of the id, which is as good as arbitrary.
NextIds(p) ==
    {m \in MsgId : /\ todo[p][m] # NoRef
                   /\ \A n \in MsgId : todo[p][n] # NoRef => todo[p][m] <= todo[p][n]}

\* Mutants of AfterGet: a missing key ends the loop (break for continue); the
\* clean-up is never reached.
AfterGet_Break(p, m) ==
    IF expired'[p] # {} THEN "zrem"
    ELSE IF \E n \in MsgId \ {m} : todo[p][n] # NoRef THEN "get"
    ELSE "respond"

AfterGet_NoClean(p, m) ==
    IF \E n \in MsgId \ {m} : todo[p][n] # NoRef THEN "get" ELSE "respond"

\* Where the loop goes once m has been read: to the next id, to the clean-up,
\* or to the answer.
AfterGet(p, m) ==
    IF \E n \in MsgId \ {m} : todo[p][n] # NoRef THEN "get"
    ELSE IF expired'[p] # {} THEN "zrem"
    ELSE "respond"

\* GET msg:{id}: the blob joins the answer, a missing key joins expiredIds.
PollGet(p, m) ==
    /\ pPc[p] = "get"
    /\ m \in NextIds(p)
    /\ IF Stored(m)
       THEN /\ out' = [out EXCEPT ![p] = Append(@, [id |-> m, enqueuedAt |-> stamp[m]])]
            /\ UNCHANGED expired
       ELSE /\ expired' = [expired EXCEPT ![p] = @ \cup {m}]
            /\ UNCHANGED out
    /\ todo' = [todo EXCEPT ![p][m] = NoRef]
    /\ pPc' = [pPc EXCEPT ![p] = AfterGet(p, m)]
    /\ UNCHANGED <<clock, redisVars, sendVars, pDev, since, histVars, fails>>

\* ZREM inbox expiredIds
PollClean(p) ==
    /\ pPc[p] = "zrem"
    /\ RemoveRefs(pDev[p], expired[p])
    /\ pPc' = [pPc EXCEPT ![p] = "respond"]
    /\ UNCHANGED <<clock, stamp, blobExp, sendVars, pDev, todo, out, expired, since,
                   histVars, fails>>

PollForget(p) ==
    /\ pPc' = [pPc EXCEPT ![p] = "idle"]
    /\ todo' = [todo EXCEPT ![p] = [m \in MsgId |-> NoRef]]
    /\ out' = [out EXCEPT ![p] = <<>>]
    /\ expired' = [expired EXCEPT ![p] = {}]
    /\ since' = [since EXCEPT ![p] = {}]
    /\ pDev' = [pDev EXCEPT ![p] = AnyDevice]

\* The answer reaches the device.
PollRespond(p) ==
    /\ pPc[p] = "respond"
    /\ delivered' = delivered \cup Ids(out[p])
    /\ PollForget(p)
    /\ UNCHANGED <<clock, redisVars, sendVars, execs, acks, fails>>

\* The process dies, a Redis call rejects, or the answer is lost.
PollFails(p) ==
    /\ fails < MaxFail
    /\ pPc[p] # "idle"
    /\ PollForget(p)
    /\ fails' = fails + 1
    /\ UNCHANGED <<clock, redisVars, sendVars, histVars>>

-----------------------------------------------------------------------------
\* Mutant of Acknowledge: 204 whatever DEL answered.
Acknowledge_Always204(m) ==
    /\ acks' = [acks EXCEPT ![m] = @ + 1]
    /\ blobExp' = [blobExp EXCEPT ![m] = 0]
    /\ stamp' = [stamp EXCEPT ![m] = 0]
    /\ UNCHANGED <<clock, score, inboxExp, sendVars, pollVars, execs, delivered, fails>>

\* DELETE /v1/messages/:id, possibly again: DEL alone, the inbox reference stays.
\* 204 when a key was deleted, else 404.  The code asks neither whose message m
\* is nor whether it was delivered; Next has it of ids that were.
Acknowledge(m) ==
    /\ acks' = [acks EXCEPT ![m] = IF Stored(m) THEN @ + 1 ELSE @]
    /\ blobExp' = [blobExp EXCEPT ![m] = 0]
    /\ stamp' = [stamp EXCEPT ![m] = 0]
    /\ UNCHANGED <<clock, score, inboxExp, sendVars, pollVars, execs, delivered, fails>>

-----------------------------------------------------------------------------
\* The environment

Tick ==
    /\ clock < MaxTime
    /\ clock' = clock + 1
    /\ ExpireKeys(clock')
    /\ UNCHANGED <<sendVars, pollVars, histVars, fails>>

\* Redis keeps nothing across a restart (config/redis.ts).
RedisRestart ==
    /\ fails < MaxFail
    /\ fails' = fails + 1
    /\ stamp' = [m \in MsgId |-> 0]
    /\ blobExp' = [m \in MsgId |-> 0]
    /\ score' = [m \in MsgId |-> NoRef]
    /\ inboxExp' = [d \in Device |-> 0]
    /\ UNCHANGED <<clock, sendVars, pollVars, histVars>>

Next ==
    \/ \E s \in Sender, m \in MsgId : SendBegin(s, m)
    \/ \E s \in Sender : SendExec(s)
    \/ \E s \in Sender : SendAccepted(s)
    \/ \E s \in Sender : SendFails(s)
    \/ \E p \in Poller, d \in Device : PollList(p, d)
    \/ \E p \in Poller, m \in MsgId : PollGet(p, m)
    \/ \E p \in Poller : PollClean(p)
    \/ \E p \in Poller : PollRespond(p)
    \/ \E p \in Poller : PollFails(p)
    \* Clients acknowledge what they received, possibly again.
    \/ \E m \in delivered : Acknowledge(m)
    \/ Tick
    \/ RedisRestart

Spec == Init /\ [][Next]_vars

-----------------------------------------------------------------------------
\* Safety

\* A message whose MULTI block ran once can be found as long as its blob is
\* stored: no clean-up by a poll, no expiry of the inbox key and no failed
\* handler takes the reference away first (a blob without a reference is
\* never delivered: dequeue starts from the inbox).
SentOnceReachable ==
    \A m \in MsgId : Stored(m) /\ execs[m] <= 1 => Listed(m)

\* The inbox key lives at least as long as every blob it refers to, although
\* the two kinds of key have one TTL each and enqueue refreshes only the
\* inbox key of the device it writes to.
InboxOutlivesBlob ==
    \A m \in MsgId :
        Stored(m) /\ Listed(m) => inboxExp[Recipient[m]] >= blobExp[m]

\* Each 204 of acknowledge stands for the destruction of one stored copy:
\* copies destroyed by an acknowledgement plus the copy still there never
\* exceed the copies stored.  In particular, once every copy was
\* acknowledged nothing is stored, however polls and retries interleave.
AckDestroysACopy ==
    \A m \in MsgId : acks[m] + (IF Stored(m) THEN 1 ELSE 0) <= execs[m]

\* The answer of a poll is complete: a message sent once that was stored when
\* the poll listed the inbox and is still stored when it answers is in the
\* answer, although each blob is fetched by a GET of its own.
PollComplete ==
    \A p \in Poller : pPc[p] \in {"zrem", "respond"} =>
        \A m \in since[p] : Stored(m) /\ execs[m] = 1 => m \in Ids(out[p])

\* The answer of a poll is FIFO: messages sent once come in the order of the
\* enqueuedAt they carry, also when their MULTI blocks ran in another order.
FifoAnswer ==
    \A p \in Poller : \A i, j \in DOMAIN out[p] :
        i < j /\ execs[out[p][i].id] = 1 /\ execs[out[p][j].id] = 1
            => out[p][i].enqueuedAt <= out[p][j].enqueuedAt

-----------------------------------------------------------------------------
\* The promise: a mailbox with one copy of each message

\* A running poll owes the messages it found stored that were sent once and
\* are still there.
Owed(p) == {m \in since[p] : Stored(m) /\ execs[m] = 1}

Mail == INSTANCE Mailbox WITH
    Reader <- Poller,
    copy <- stamp,
    until <- blobExp,
    puts <- execs,
    open <- [p \in Poller |-> pPc[p] # "idle"],
    dev <- pDev,
    owed <- [p \in Poller |-> Owed(p)],
    got <- out

\* Blobs, references, two TTLs and clean-ups together behave like a mailbox
\* (module Mailbox): a copy goes away only by its TTL, an acknowledgement or a
\* restart; a poll reads each message at most once, and its answer has all
\* messages sent once that were there from its beginning to its end, in order.
ImplementsMailbox == Mail!Spec

-----------------------------------------------------------------------------
\* What a comment of the source says, and the code does not do

\* message_queue_service.ts:73-75, "Both the message blob and the inbox
\* reference must be created together to maintain consistency".
BlobHasReference ==
    \A m \in MsgId : Stored(m) => Listed(m)

-----------------------------------------------------------------------------
\* Liveness.  A handler that was started runs on unless it fails, and each
\* device keeps polling (the client's part: no other delivery exists).
\* Failures are bounded, time may stop: expiry must not be what makes a
\* message go away.

PollStep(p) ==
    (\E m \in MsgId : PollGet(p, m)) \/ PollClean(p) \/ PollRespond(p)

Fairness ==
    /\ \A p \in Poller : WF_vars(PollStep(p))
    /\ \A d \in Device : SF_vars(\E p \in Poller : PollList(p, d))

FairSpec == Spec /\ Fairness

\* A message sent once is delivered, unless it goes away first (expiry, a
\* Redis restart) or is sent again.
EventuallyDelivered ==
    \A m \in MsgId :
        Stored(m) /\ execs[m] = 1
            ~> m \in delivered \/ ~Stored(m) \/ execs[m] >= 2

\* acknowledge leaves the inbox reference behind for dequeue to find: the
\* reference of a missing blob does not stay.
StaleReferencesCleaned ==
    \A m \in MsgId :
        Listed(m) /\ ~Stored(m) ~> ~Listed(m) \/ Stored(m)

=============================================================================
