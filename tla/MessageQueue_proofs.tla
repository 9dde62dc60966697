------------------------ MODULE MessageQueue_proofs ------------------------
(***************************************************************************)
(* The safety properties of MessageQueue, for any number of messages,       *)
(* devices, handlers, retries, failures and ticks.                          *)
(*                                                                          *)
(* Three inductive invariants, each resting on the ones before it:          *)
(*   QueueInv   what Redis holds, and what a poll knows of the ids it found *)
(*              missing: such an id was stored again only by a second send, *)
(*              so removing its reference strands no message sent once;     *)
(*   PollInv    what a running poll still owes: a message sent once, stored *)
(*              when the poll listed and stored now, is still to be read or *)
(*              already in the answer;                                      *)
(*   OrderInv   a listed score is the enqueuedAt of a message sent once, and*)
(*              nothing still to be read is older than what was read.       *)
(***************************************************************************)
EXTENDS MessageQueue, TLAPS

ExpiryBound == \A m \in MsgId : blobExp[m] <= clock + TTL

ListedWasSent == \A m \in MsgId : Listed(m) => execs[m] >= 1

TodoWasSent ==
    \A p \in Poller : \A m \in MsgId : todo[p][m] # NoRef => execs[m] >= 1

MissingIsGone ==
    \A p \in Poller : \A m \in expired[p] :
        execs[m] >= 1 /\ (Stored(m) => execs[m] >= 2)

RedisInv ==
    /\ ExpiryBound
    /\ ListedWasSent
    /\ AckDestroysACopy
    /\ InboxOutlivesBlob
    /\ SentOnceReachable

QueueInv == RedisInv /\ TodoWasSent /\ MissingIsGone

PollInv ==
    \A p \in Poller :
        /\ pPc[p] \in {"zrem", "respond"} => \A m \in MsgId : todo[p][m] = NoRef
        /\ \A m \in since[p] :
              /\ execs[m] >= 1
              /\ Stored(m) /\ execs[m] = 1 => todo[p][m] # NoRef \/ m \in Ids(out[p])

ScoreIsStamp ==
    \A m \in MsgId : Stored(m) /\ Listed(m) /\ execs[m] = 1 => score[m] = stamp[m]

TodoIsStamp ==
    \A p \in Poller : \A m \in MsgId :
        Stored(m) /\ todo[p][m] # NoRef /\ execs[m] = 1 => todo[p][m] = stamp[m]

OutWasSent ==
    \A p \in Poller : \A i \in DOMAIN out[p] : execs[out[p][i].id] >= 1

OutBeforeTodo ==
    \A p \in Poller : \A i \in DOMAIN out[p] : \A m \in MsgId :
        execs[out[p][i].id] = 1 /\ todo[p][m] # NoRef
            => out[p][i].enqueuedAt <= todo[p][m]

IdleIsEmpty == \A p \in Poller : pPc[p] = "idle" => DOMAIN out[p] = {}

OrderInv ==
    /\ ScoreIsStamp
    /\ TodoIsStamp
    /\ OutWasSent
    /\ OutBeforeTodo
    /\ FifoAnswer

-----------------------------------------------------------------------------
LEMMA ParkedInDomain == AnyMsg \in MsgId /\ AnyDevice \in Device
BY SomeAssumption DEF AnyMsg, AnyDevice

\* Appending to a sequence keeps its elements and adds one at the end.
LEMMA AppendFacts ==
    ASSUME NEW S, NEW q \in Seq(S), NEW e \in S
    PROVE  /\ Append(q, e) \in Seq(S)
           /\ DOMAIN q = 1 .. Len(q) /\ Len(q) \in Nat
           /\ DOMAIN Append(q, e) = 1 .. Len(q) + 1
           /\ \A i \in 1 .. Len(q) : Append(q, e)[i] = q[i]
           /\ Append(q, e)[Len(q) + 1] = e
OBVIOUS

\* The entries of an answer carry message ids.
LEMMA IdsType ==
    ASSUME NEW q \in Seq(Entry) PROVE Ids(q) \subseteq MsgId
<1>1. SUFFICES ASSUME NEW i \in DOMAIN q PROVE q[i].id \in MsgId
  BY DEF Ids
<1>2. q[i] \in Entry
  BY <1>1
<1> QED BY <1>2 DEF Entry

\* Every reachable state is well typed.
LEMMA TypeInit == Init => TypeOK
BY ParkedInDomain DEF Init, TypeOK, NoRef

LEMMA TypeStep == TypeOK /\ [Next]_vars => TypeOK'
<1> SUFFICES ASSUME TypeOK, [Next]_vars PROVE TypeOK'
  OBVIOUS
<1> USE ParkedInDomain
<1>0. fails + 1 \in Nat /\ clock + 1 \in Nat /\ clock + TTL \in Nat
  BY TTLAssumption DEF TypeOK
<1>1. ASSUME NEW s \in Sender, NEW m \in MsgId, SendBegin(s, m) PROVE TypeOK'
  BY <1>1, Zenon DEF SendBegin, TypeOK, redisVars, pollVars, histVars
<1>2. ASSUME NEW s \in Sender, SendExec(s) PROVE TypeOK'
  <2>1. sMsg[s] \in MsgId /\ sNow[s] \in Nat /\ Recipient[sMsg[s]] \in Device
    BY RecipientAssumption DEF TypeOK
  <2>2. execs[sMsg[s]] + 1 \in Nat
    BY <2>1 DEF TypeOK
  <2>3. (stamp' \in [MsgId -> Nat]) /\ (blobExp' \in [MsgId -> Nat])
    BY <1>0, <1>2, <2>1, Zenon DEF TypeOK, SendExec, StoreAndReference
  <2>4. (score' \in [MsgId -> Nat \cup {NoRef}]) /\ (inboxExp' \in [Device -> Nat])
    BY <1>0, <1>2, <2>1, Zenon DEF TypeOK, SendExec, StoreAndReference
  <2>5. (execs' \in [MsgId -> Nat]) /\ (sPc' \in [Sender -> {"idle", "stamped", "stored"}])
    BY <1>2, <2>1, <2>2, Zenon DEF TypeOK, SendExec
  <2> QED BY <1>2, <2>3, <2>4, <2>5, Zenon DEF SendExec, TypeOK, pollVars
<1>3. ASSUME NEW s \in Sender, SendAccepted(s) PROVE TypeOK'
  BY <1>3 DEF SendAccepted, SendForget, TypeOK, redisVars, pollVars, histVars
<1>4. ASSUME NEW s \in Sender, SendFails(s) PROVE TypeOK'
  BY <1>0, <1>4, Zenon DEF SendFails, SendForget, TypeOK, redisVars, pollVars, histVars
<1>5. ASSUME NEW p \in Poller, NEW d \in Device, PollList(p, d) PROVE TypeOK'
  <2>1. pPc' \in [Poller -> {"idle", "get", "zrem", "respond"}]
    BY <1>5 DEF TypeOK, PollList
  <2>2. [m \in MsgId |-> IF m \in {n \in For(d) : Listed(n)} THEN score[m] ELSE NoRef]
          \in [MsgId -> Nat \cup {NoRef}]
    BY DEF TypeOK
  <2>3. todo' \in [Poller -> [MsgId -> Nat \cup {NoRef}]]
    BY <1>5, <2>2, Zenon DEF TypeOK, PollList
  <2>4. since' \in [Poller -> SUBSET MsgId] /\ pDev' \in [Poller -> Device]
    BY <1>5 DEF TypeOK, PollList, For
  <2> QED BY <1>5, <2>1, <2>3, <2>4, Zenon
          DEF PollList, TypeOK, redisVars, sendVars, histVars
<1>6. ASSUME NEW p \in Poller, NEW m \in MsgId, PollGet(p, m) PROVE TypeOK'
  <2>1. AfterGet(p, m) \in {"idle", "get", "zrem", "respond"}
    BY DEF AfterGet
  <2>2. out' \in [Poller -> Seq(Entry)]
    <3>1. [id |-> m, enqueuedAt |-> stamp[m]] \in Entry
      <4>1. stamp[m] \in Nat
        BY DEF TypeOK
      <4> QED BY <4>1 DEF Entry
    <3>2. Append(out[p], [id |-> m, enqueuedAt |-> stamp[m]]) \in Seq(Entry)
      <4>1. out[p] \in Seq(Entry)
        BY DEF TypeOK
      <4> QED BY <3>1, <4>1, AppendFacts
    <3> QED BY <1>6, <3>2, Zenon DEF PollGet, TypeOK
  <2>3. expired' \in [Poller -> SUBSET MsgId]
    <3>1. expired[p] \cup {m} \in SUBSET MsgId
      BY DEF TypeOK
    <3> QED BY <1>6, <3>1, ZenonT(60) DEF PollGet, TypeOK
  <2>4. todo' \in [Poller -> [MsgId -> Nat \cup {NoRef}]]
    BY <1>6 DEF PollGet, TypeOK
  <2>5. pPc' \in [Poller -> {"idle", "get", "zrem", "respond"}]
    BY <1>6, <2>1, Zenon DEF PollGet, TypeOK
  <2> QED BY <1>6, <2>2, <2>3, <2>4, <2>5, Zenon
          DEF PollGet, TypeOK, redisVars, sendVars, histVars
<1>7. ASSUME NEW p \in Poller, PollClean(p) PROVE TypeOK'
  <2>1. score' \in [MsgId -> Nat \cup {NoRef}] /\ inboxExp' \in [Device -> Nat]
    BY <1>7 DEF PollClean, RemoveRefs, TypeOK
  <2>2. pPc' \in [Poller -> {"idle", "get", "zrem", "respond"}]
    BY <1>7 DEF PollClean, TypeOK
  <2> QED BY <1>7, <2>1, <2>2, Zenon DEF PollClean, TypeOK, sendVars, histVars
<1>8. ASSUME NEW p \in Poller, PollForget(p) PROVE
        /\ pPc' \in [Poller -> {"idle", "get", "zrem", "respond"}]
        /\ pDev' \in [Poller -> Device]
        /\ todo' \in [Poller -> [MsgId -> Nat \cup {NoRef}]]
        /\ out' \in [Poller -> Seq(Entry)]
        /\ expired' \in [Poller -> SUBSET MsgId]
        /\ since' \in [Poller -> SUBSET MsgId]
  <2>1. << >> \in Seq(Entry)
    OBVIOUS
  <2>2. [m \in MsgId |-> NoRef] \in [MsgId -> Nat \cup {NoRef}]
    OBVIOUS
  <2> QED BY <1>8, <2>1, <2>2, Zenon DEF PollForget, TypeOK
<1>9. ASSUME NEW p \in Poller, PollRespond(p) PROVE TypeOK'
  <2>1. Ids(out[p]) \subseteq MsgId
    <3>1. out[p] \in Seq(Entry)
      BY DEF TypeOK
    <3> QED BY <3>1, IdsType
  <2>2. delivered' \subseteq MsgId
    BY <1>9, <2>1 DEF PollRespond, TypeOK
  <2> QED BY <1>8, <1>9, <2>2, Zenon DEF PollRespond, TypeOK, redisVars, sendVars
<1>10. ASSUME NEW p \in Poller, PollFails(p) PROVE TypeOK'
  BY <1>0, <1>8, <1>10, Zenon DEF PollFails, TypeOK, redisVars, sendVars, histVars
<1>11. ASSUME NEW m \in MsgId, Acknowledge(m) PROVE TypeOK'
  <2>1. acks' \in [MsgId -> Nat]
    BY <1>11 DEF Acknowledge, TypeOK
  <2>2. blobExp' \in [MsgId -> Nat] /\ stamp' \in [MsgId -> Nat]
    BY <1>11 DEF Acknowledge, TypeOK
  <2> QED BY <1>11, <2>1, <2>2, Zenon DEF Acknowledge, TypeOK, sendVars, pollVars
<1>12. CASE Tick
  <2>1. blobExp' \in [MsgId -> Nat] /\ stamp' \in [MsgId -> Nat]
    BY <1>12 DEF Tick, ExpireKeys, TypeOK
  <2>2. score' \in [MsgId -> Nat \cup {NoRef}] /\ inboxExp' \in [Device -> Nat]
    BY <1>12 DEF Tick, ExpireKeys, TypeOK
  <2> QED BY <1>0, <1>12, <2>1, <2>2, Zenon DEF Tick, TypeOK, sendVars, pollVars, histVars
<1>13. CASE RedisRestart
  BY <1>0, <1>13, Zenon DEF RedisRestart, TypeOK, sendVars, pollVars, histVars
<1>14. CASE UNCHANGED vars
  BY <1>14, Zenon DEF vars, TypeOK, redisVars, sendVars, pollVars, histVars
<1>15. delivered \subseteq MsgId
  BY DEF TypeOK
<1> QED
  BY <1>1, <1>2, <1>3, <1>4, <1>5, <1>6, <1>7, <1>9, <1>10, <1>11, <1>12, <1>13, <1>14, <1>15
  DEF Next

THEOREM TypeCorrect == Spec => []TypeOK
BY TypeInit, TypeStep, PTL DEF Spec

-----------------------------------------------------------------------------
\* Redis and what the polls know of it.

\* A stored blob was sent: one copy at least is not yet acknowledged.
LEMMA StoredWasSent ==
    ASSUME TypeOK, AckDestroysACopy, NEW m \in MsgId, Stored(m) PROVE execs[m] >= 1
<1>1. acks[m] \in Nat /\ execs[m] \in Nat
  BY DEF TypeOK
<1>2. acks[m] + 1 <= execs[m]
  BY DEF AckDestroysACopy
<1> QED BY <1>1, <1>2

LEMMA QueueInit == Init => QueueInv
BY TTLAssumption
DEF Init, QueueInv, RedisInv, ExpiryBound, ListedWasSent, TodoWasSent, MissingIsGone,
    AckDestroysACopy, InboxOutlivesBlob, SentOnceReachable, Stored, Listed

\* RedisInv speaks of Redis, the clock and two history variables only.
LEMMA RedisUntouched ==
    ASSUME RedisInv, UNCHANGED <<clock, redisVars, execs, acks>> PROVE RedisInv'
BY Zenon
DEF redisVars, RedisInv, ExpiryBound, ListedWasSent, AckDestroysACopy,
    InboxOutlivesBlob, SentOnceReachable, Stored, Listed

LEMMA QueueStep == TypeOK /\ QueueInv /\ [Next]_vars => QueueInv'
<1> SUFFICES ASSUME TypeOK, QueueInv, [Next]_vars PROVE QueueInv'
  OBVIOUS
<1>0. TypeOK'
  BY TypeStep
<1>a. \A m \in MsgId : /\ blobExp[m] \in Nat /\ acks[m] \in Nat /\ execs[m] \in Nat
                       /\ Recipient[m] \in Device /\ inboxExp[Recipient[m]] \in Nat
                       /\ score[m] \in Nat \cup {NoRef}
  BY RecipientAssumption DEF TypeOK
<1>b. clock \in Nat /\ TTL \in Nat /\ TTL # 0
  BY TTLAssumption DEF TypeOK
<1>c. \A m \in MsgId : Stored(m) => execs[m] >= 1
  BY StoredWasSent DEF QueueInv, RedisInv
<1>d. \* Actions that leave Redis and what the polls recorded alone.
      ASSUME UNCHANGED <<clock, redisVars, execs, acks, todo, expired>> PROVE QueueInv'
  <2>1. RedisInv'
    BY <1>d, RedisUntouched DEF QueueInv
  <2>2. TodoWasSent' /\ MissingIsGone'
    BY <1>d, Zenon DEF QueueInv, TodoWasSent, MissingIsGone, Stored, redisVars
  <2> QED BY <2>1, <2>2 DEF QueueInv
<1>e. \* A poll that forgets everything it recorded.
      ASSUME NEW p \in Poller, PollForget(p), UNCHANGED <<clock, redisVars, execs, acks>>
      PROVE  QueueInv'
  <2>1. RedisInv'
    BY <1>e, RedisUntouched DEF QueueInv
  <2>2. TodoWasSent'
    BY <1>e DEF QueueInv, TodoWasSent, PollForget, TypeOK
  <2>3. MissingIsGone'
    BY <1>e DEF QueueInv, MissingIsGone, PollForget, Stored, redisVars, TypeOK
  <2> QED BY <2>1, <2>2, <2>3 DEF QueueInv
<1>1. ASSUME NEW s \in Sender, NEW m \in MsgId, SendBegin(s, m) PROVE QueueInv'
  BY <1>1, <1>d DEF SendBegin, pollVars, histVars
<1>2. ASSUME NEW s \in Sender, SendExec(s) PROVE QueueInv'
  <2> DEFINE m == sMsg[s]
  <2>1. m \in MsgId /\ sNow[s] \in Nat
    BY DEF TypeOK
  <2>2. /\ blobExp' = [blobExp EXCEPT ![m] = clock + TTL]
        /\ score' = [score EXCEPT ![m] = sNow[s]]
        /\ inboxExp' = [inboxExp EXCEPT ![Recipient[m]] = clock + TTL]
        /\ execs' = [execs EXCEPT ![m] = @ + 1]
        /\ UNCHANGED <<clock, acks, todo, expired>>
    BY <1>2 DEF SendExec, StoreAndReference, pollVars
  <2> HIDE DEF m
  <2>3. ExpiryBound'
    BY <1>a, <1>b, <2>1, <2>2, SMTT(30) DEF QueueInv, RedisInv, ExpiryBound, TypeOK
  <2>4. ListedWasSent'
    BY <1>a, <2>1, <2>2, SMTT(30) DEF QueueInv, RedisInv, ListedWasSent, Listed, TypeOK
  <2>5. AckDestroysACopy'
    <3>1. SUFFICES ASSUME NEW n \in MsgId
                   PROVE  (acks[n] + (IF Stored(n) THEN 1 ELSE 0) <= execs[n])'
      BY DEF AckDestroysACopy
    <3>2. acks[n] + (IF Stored(n) THEN 1 ELSE 0) <= execs[n]
      BY DEF QueueInv, RedisInv, AckDestroysACopy
    <3>3. CASE n = m
      BY <1>a, <2>1, <2>2, <3>2, <3>3, SMTT(30) DEF Stored, TypeOK
    <3>4. CASE n # m
      BY <1>a, <2>1, <2>2, <3>2, <3>4 DEF Stored, TypeOK
    <3> QED BY <3>3, <3>4
  <2>6. InboxOutlivesBlob'
    <3>1. SUFFICES ASSUME NEW n \in MsgId, Stored(n)', Listed(n)'
                   PROVE  inboxExp'[Recipient[n]] >= blobExp'[n]
      BY DEF InboxOutlivesBlob
    <3>2. CASE Recipient[n] = Recipient[m]
      <4>1. inboxExp'[Recipient[n]] = clock + TTL
        BY <1>a, <2>1, <2>2, <3>2 DEF TypeOK
      <4> QED BY <1>0, <1>b, <2>2, <2>3, <4>1 DEF ExpiryBound, TypeOK
    <3>3. CASE Recipient[n] # Recipient[m]
      <4>1. blobExp'[n] = blobExp[n] /\ score'[n] = score[n]
            /\ inboxExp'[Recipient[n]] = inboxExp[Recipient[n]]
        BY <1>a, <2>1, <2>2, <3>3 DEF TypeOK
      <4> QED BY <3>1, <4>1 DEF QueueInv, RedisInv, InboxOutlivesBlob, Stored, Listed
    <3> QED BY <3>2, <3>3
  <2>7. SentOnceReachable'
    <3>1. SUFFICES ASSUME NEW n \in MsgId, Stored(n)', execs'[n] <= 1 PROVE Listed(n)'
      BY DEF SentOnceReachable
    <3>2. CASE n = m
      BY <1>a, <2>1, <2>2, <3>2 DEF Listed, NoRef, TypeOK
    <3>3. CASE n # m
      BY <1>a, <2>1, <2>2, <3>1, <3>3
      DEF QueueInv, RedisInv, SentOnceReachable, Stored, Listed, TypeOK
    <3> QED BY <3>2, <3>3
  <2>8. TodoWasSent'
    BY <1>a, <2>1, <2>2 DEF QueueInv, TodoWasSent, TypeOK
  <2>9. MissingIsGone'
    <3>1. SUFFICES ASSUME NEW p \in Poller, NEW n \in expired[p]
                   PROVE  execs'[n] >= 1 /\ (Stored(n)' => execs'[n] >= 2)
      BY <2>2 DEF MissingIsGone
    <3>2. n \in MsgId /\ execs[n] >= 1 /\ (Stored(n) => execs[n] >= 2)
      BY DEF QueueInv, MissingIsGone, TypeOK
    <3>3. CASE n = m
      BY <1>a, <2>1, <2>2, <3>2, <3>3, SMTT(30) DEF TypeOK
    <3>4. CASE n # m
      BY <1>a, <2>1, <2>2, <3>2, <3>4 DEF Stored, TypeOK
    <3> QED BY <3>3, <3>4
  <2> QED BY <2>3, <2>4, <2>5, <2>6, <2>7, <2>8, <2>9 DEF QueueInv, RedisInv
<1>3. ASSUME NEW s \in Sender, SendAccepted(s) PROVE QueueInv'
  BY <1>3, <1>d DEF SendAccepted, pollVars, histVars
<1>4. ASSUME NEW s \in Sender, SendFails(s) PROVE QueueInv'
  BY <1>4, <1>d DEF SendFails, pollVars, histVars
<1>5. ASSUME NEW p \in Poller, NEW d \in Device, PollList(p, d) PROVE QueueInv'
  <2>1. RedisInv'
    BY <1>5, RedisUntouched DEF PollList, QueueInv, histVars
  <2>2. TodoWasSent'
    <3>1. SUFFICES ASSUME NEW q \in Poller, NEW m \in MsgId, todo'[q][m] # NoRef
                   PROVE  execs[m] >= 1
      BY <1>5 DEF TodoWasSent, PollList, histVars
    <3>2. CASE q = p
      BY <1>5, <3>1, <3>2 DEF PollList, For, QueueInv, RedisInv, ListedWasSent, TypeOK
    <3>3. CASE q # p
      BY <1>5, <3>1, <3>3 DEF PollList, QueueInv, TodoWasSent, TypeOK
    <3> QED BY <3>2, <3>3
  <2>3. MissingIsGone'
    BY <1>5, Zenon DEF PollList, QueueInv, MissingIsGone, Stored, redisVars, histVars
  <2> QED BY <2>1, <2>2, <2>3 DEF QueueInv
<1>6. ASSUME NEW p \in Poller, NEW m \in MsgId, PollGet(p, m) PROVE QueueInv'
  <2>1. RedisInv'
    BY <1>6, RedisUntouched DEF PollGet, QueueInv, histVars
  <2>2. TodoWasSent'
    BY <1>6 DEF PollGet, QueueInv, TodoWasSent, TypeOK, histVars
  <2>3. MissingIsGone'
    <3>1. SUFFICES ASSUME NEW q \in Poller, NEW n \in expired'[q]
                   PROVE  execs[n] >= 1 /\ (Stored(n) => execs[n] >= 2)
      BY <1>6, Zenon DEF MissingIsGone, PollGet, Stored, redisVars, histVars
    <3>2. CASE n \in expired[q]
      BY <3>2 DEF QueueInv, MissingIsGone
    <3>3. CASE n \notin expired[q]
      <4>1. n = m /\ ~Stored(m)
        <5>1. CASE Stored(m)
          BY <1>6, <3>1, <3>3, <5>1, Zenon DEF PollGet
        <5>2. CASE ~Stored(m)
          <6>1. expired' = [expired EXCEPT ![p] = @ \cup {m}]
            BY <1>6, <5>2, Zenon DEF PollGet
          <6>2. expired \in [Poller -> SUBSET MsgId]
            BY DEF TypeOK
          <6> QED BY <3>1, <3>3, <5>2, <6>1, <6>2
        <5> QED BY <5>1, <5>2
      <4>2. execs[m] >= 1
        BY <1>6 DEF PollGet, NextIds, QueueInv, TodoWasSent
      <4> QED BY <4>1, <4>2
    <3> QED BY <3>2, <3>3
  <2> QED BY <2>1, <2>2, <2>3 DEF QueueInv
<1>7. ASSUME NEW p \in Poller, PollClean(p) PROVE QueueInv'
  <2> DEFINE gone == expired[p] \cap For(pDev[p])
  <2>1. /\ \A m \in MsgId : score'[m] = IF m \in gone THEN NoRef ELSE score[m]
        /\ inboxExp' = [inboxExp EXCEPT ![pDev[p]] =
                           IF \E m \in For(pDev[p]) \ gone : Listed(m) THEN @ ELSE 0]
        /\ UNCHANGED <<clock, blobExp, execs, acks, todo, expired>>
    BY <1>7 DEF PollClean, RemoveRefs, pollVars, histVars
  <2>2. \A m \in gone : execs[m] >= 1 /\ (Stored(m) => execs[m] >= 2)
    BY DEF QueueInv, MissingIsGone
  <2> HIDE DEF gone
  <2>3. ExpiryBound' /\ AckDestroysACopy' /\ TodoWasSent' /\ MissingIsGone'
    BY <2>1, Zenon
    DEF QueueInv, RedisInv, ExpiryBound, AckDestroysACopy, TodoWasSent, MissingIsGone, Stored
  <2>4. ListedWasSent'
    BY <2>1 DEF QueueInv, RedisInv, ListedWasSent, Listed
  <2>5. SentOnceReachable'
    <3>1. SUFFICES ASSUME NEW m \in MsgId, Stored(m), execs[m] <= 1 PROVE Listed(m)'
      BY <2>1 DEF SentOnceReachable, Stored
    <3>2. m \notin gone
      BY <1>a, <2>2, <3>1
    <3>3. Listed(m)
      BY <3>1 DEF QueueInv, RedisInv, SentOnceReachable
    <3> QED BY <2>1, <3>2, <3>3 DEF Listed
  <2>6. InboxOutlivesBlob'
    <3>1. SUFFICES ASSUME NEW m \in MsgId, Stored(m), Listed(m)'
                   PROVE  inboxExp'[Recipient[m]] >= blobExp[m]
      BY <2>1 DEF InboxOutlivesBlob, Stored
    <3>2. m \notin gone /\ Listed(m)
      BY <2>1, <3>1 DEF Listed
    <3>3. inboxExp'[Recipient[m]] = inboxExp[Recipient[m]]
      <4>1. Recipient[m] = pDev[p] => m \in For(pDev[p]) \ gone
        BY <3>2 DEF For
      <4> QED BY <1>a, <2>1, <3>2, <4>1 DEF TypeOK
    <3> QED BY <3>1, <3>2, <3>3 DEF QueueInv, RedisInv, InboxOutlivesBlob
  <2> QED BY <2>3, <2>4, <2>5, <2>6 DEF QueueInv, RedisInv
<1>8. ASSUME NEW p \in Poller, PollRespond(p) PROVE QueueInv'
  BY <1>8, <1>e DEF PollRespond
<1>9. ASSUME NEW p \in Poller, PollFails(p) PROVE QueueInv'
  BY <1>9, <1>e DEF PollFails, histVars
<1>10. ASSUME NEW m \in MsgId, Acknowledge(m) PROVE QueueInv'
  <2>1. /\ blobExp' = [blobExp EXCEPT ![m] = 0]
        /\ acks' = [acks EXCEPT ![m] = IF Stored(m) THEN @ + 1 ELSE @]
        /\ UNCHANGED <<clock, score, inboxExp, execs, todo, expired>>
    BY <1>10 DEF Acknowledge, pollVars
  <2>2. \A n \in MsgId : Stored(n)' => Stored(n) /\ n # m /\ blobExp'[n] = blobExp[n]
    BY <2>1 DEF Stored, TypeOK
  <2>3. ExpiryBound'
    BY <1>a, <1>b, <2>1 DEF QueueInv, RedisInv, ExpiryBound, TypeOK
  <2>4. ListedWasSent' /\ TodoWasSent'
    BY <2>1, Zenon DEF QueueInv, RedisInv, ListedWasSent, Listed, TodoWasSent
  <2>5. AckDestroysACopy'
    BY <1>a, <2>1, <2>2 DEF QueueInv, RedisInv, AckDestroysACopy, Stored, TypeOK
  <2>6. InboxOutlivesBlob' /\ SentOnceReachable'
    BY <2>1, <2>2 DEF QueueInv, RedisInv, InboxOutlivesBlob, SentOnceReachable, Listed
  <2>7. MissingIsGone'
    BY <2>1, <2>2 DEF QueueInv, MissingIsGone, TypeOK
  <2> QED BY <2>3, <2>4, <2>5, <2>6, <2>7 DEF QueueInv, RedisInv
<1>11. CASE Tick
  <2>1. /\ clock' = clock + 1
        /\ \A m \in MsgId : blobExp'[m] = IF blobExp[m] > clock + 1 THEN blobExp[m] ELSE 0
        /\ \A d \in Device :
              inboxExp'[d] = IF inboxExp[d] > clock + 1 THEN inboxExp[d] ELSE 0
        /\ \A m \in MsgId :
              score'[m] = IF inboxExp[Recipient[m]] > clock + 1 THEN score[m] ELSE NoRef
        /\ UNCHANGED <<execs, acks, todo, expired>>
    BY <1>11 DEF Tick, ExpireKeys, pollVars, histVars
  <2>2. \A m \in MsgId : Stored(m)' =>
            Stored(m) /\ blobExp'[m] = blobExp[m] /\ blobExp[m] > clock + 1
    BY <1>a, <2>1 DEF Stored
  <2>3. \A m \in MsgId : Listed(m)' =>
            Listed(m) /\ inboxExp'[Recipient[m]] = inboxExp[Recipient[m]]
    BY <1>a, <2>1 DEF Listed
  <2>4. ExpiryBound'
    BY <1>a, <1>b, <2>1 DEF QueueInv, RedisInv, ExpiryBound
  <2>5. ListedWasSent' /\ TodoWasSent'
    BY <2>1, <2>3 DEF QueueInv, RedisInv, ListedWasSent, TodoWasSent
  <2>6. AckDestroysACopy'
    BY <1>a, <2>1, <2>2 DEF QueueInv, RedisInv, AckDestroysACopy
  <2>7. InboxOutlivesBlob'
    BY <2>2, <2>3 DEF QueueInv, RedisInv, InboxOutlivesBlob
  <2>8. SentOnceReachable'
    <3>1. SUFFICES ASSUME NEW m \in MsgId, Stored(m)', execs[m] <= 1 PROVE Listed(m)'
      BY <2>1 DEF SentOnceReachable
    <3>2. Stored(m) /\ Listed(m) /\ blobExp[m] > clock + 1
      BY <2>2, <3>1 DEF QueueInv, RedisInv, SentOnceReachable
    <3>3. inboxExp[Recipient[m]] > clock + 1
      BY <1>a, <1>b, <3>2 DEF QueueInv, RedisInv, InboxOutlivesBlob
    <3> QED BY <2>1, <3>2, <3>3 DEF Listed
  <2>9. MissingIsGone'
    BY <2>1, <2>2 DEF QueueInv, MissingIsGone, TypeOK
  <2> QED BY <2>4, <2>5, <2>6, <2>7, <2>8, <2>9 DEF QueueInv, RedisInv
<1>12. CASE RedisRestart
  <2>1. /\ \A m \in MsgId : ~Stored(m)' /\ ~Listed(m)' /\ blobExp'[m] = 0
        /\ UNCHANGED <<clock, execs, acks, todo, expired>>
    BY <1>12 DEF RedisRestart, Stored, Listed, pollVars, histVars
  <2>2. ExpiryBound'
    BY <1>b, <2>1 DEF ExpiryBound
  <2>3. AckDestroysACopy'
    BY <1>a, <2>1 DEF QueueInv, RedisInv, AckDestroysACopy
  <2>4. ListedWasSent' /\ InboxOutlivesBlob' /\ SentOnceReachable'
    BY <2>1 DEF ListedWasSent, InboxOutlivesBlob, SentOnceReachable
  <2>5. TodoWasSent' /\ MissingIsGone'
    BY <2>1 DEF QueueInv, TodoWasSent, MissingIsGone, TypeOK
  <2> QED BY <2>2, <2>3, <2>4, <2>5 DEF QueueInv, RedisInv
<1>13. CASE UNCHANGED vars
  BY <1>13, <1>d DEF vars, pollVars, histVars
<1>14. delivered \subseteq MsgId
  BY DEF TypeOK
<1> QED
  BY <1>1, <1>2, <1>3, <1>4, <1>5, <1>6, <1>7, <1>8, <1>9, <1>10, <1>11, <1>12, <1>13, <1>14
  DEF Next

\* No clean-up, expiry or failure separates a stored blob from its inbox
\* reference unless its id was sent again (message_queue_service.ts:73-75).
THEOREM Reachable == Spec => []SentOnceReachable
<1>1. Init => TypeOK /\ QueueInv
  BY TypeInit, QueueInit
<1>2. TypeOK /\ QueueInv /\ [Next]_vars => (TypeOK /\ QueueInv)'
  BY TypeStep, QueueStep
<1>3. QueueInv => SentOnceReachable
  BY DEF QueueInv, RedisInv
<1> QED BY <1>1, <1>2, <1>3, PTL DEF Spec

\* The inbox key never expires before a blob it refers to, although the two
\* keys carry one TTL each (message_queue_service.ts:97-102).
THEOREM InboxLivesLongEnough == Spec => []InboxOutlivesBlob
<1>1. Init => TypeOK /\ QueueInv
  BY TypeInit, QueueInit
<1>2. TypeOK /\ QueueInv /\ [Next]_vars => (TypeOK /\ QueueInv)'
  BY TypeStep, QueueStep
<1>3. QueueInv => InboxOutlivesBlob
  BY DEF QueueInv, RedisInv
<1> QED BY <1>1, <1>2, <1>3, PTL DEF Spec

\* Every 204 of acknowledge stands for one stored copy that is gone
\* (message_queue_service.ts:201-213).
THEOREM AckIsDestruction == Spec => []AckDestroysACopy
<1>1. Init => TypeOK /\ QueueInv
  BY TypeInit, QueueInit
<1>2. TypeOK /\ QueueInv /\ [Next]_vars => (TypeOK /\ QueueInv)'
  BY TypeStep, QueueStep
<1>3. QueueInv => AckDestroysACopy
  BY DEF QueueInv, RedisInv
<1> QED BY <1>1, <1>2, <1>3, PTL DEF Spec

-----------------------------------------------------------------------------
\* What a poll still owes.

LEMMA IdsAppend ==
    ASSUME NEW q \in Seq(Entry), NEW e \in Entry
    PROVE  Ids(q) \subseteq Ids(Append(q, e)) /\ e.id \in Ids(Append(q, e))
<1> DEFINE a == Append(q, e)
<1>1. /\ DOMAIN q = 1 .. Len(q) /\ Len(q) \in Nat
      /\ DOMAIN a = 1 .. Len(q) + 1
      /\ \A i \in 1 .. Len(q) : a[i] = q[i]
      /\ a[Len(q) + 1] = e
  BY AppendFacts
<1> HIDE DEF a
<1>2. ASSUME NEW i \in DOMAIN q PROVE q[i].id \in Ids(a)
  <2>1. i \in DOMAIN a /\ a[i] = q[i]
    BY <1>1
  <2> QED BY <2>1 DEF Ids
<1>3. e.id \in Ids(a)
  <2>1. Len(q) + 1 \in DOMAIN a
    BY <1>1
  <2> QED BY <1>1, <2>1 DEF Ids
<1>4. Ids(q) \subseteq Ids(a)
  BY <1>2 DEF Ids
<1> QED BY <1>3, <1>4 DEF a

LEMMA PollInit == Init => PollInv
BY DEF Init, PollInv

LEMMA PollInvStep ==
    TypeOK /\ QueueInv /\ PollInv /\ [Next]_vars => PollInv'
<1> SUFFICES ASSUME TypeOK, QueueInv, PollInv, [Next]_vars PROVE PollInv'
  OBVIOUS
<1>a. \A m \in MsgId : execs[m] \in Nat
  BY DEF TypeOK
<1>b. \A m \in MsgId : Stored(m) => execs[m] >= 1
  BY StoredWasSent DEF QueueInv, RedisInv
<1>c. \A q \in Poller : since[q] \subseteq MsgId
  BY DEF TypeOK
<1>d. \* Actions that leave the polls alone and store nothing.
      ASSUME UNCHANGED <<pollVars, execs>>, \A m \in MsgId : Stored(m)' => Stored(m)
      PROVE  PollInv'
  <2>1. UNCHANGED <<pPc, todo, out, since, execs>>
    BY <1>d DEF pollVars
  <2> QED BY <1>c, <1>d, <2>1, Zenon DEF PollInv
<1>e. \* A poll that forgets everything it recorded.
      ASSUME NEW p \in Poller, PollForget(p), UNCHANGED <<redisVars, execs>>
      PROVE  PollInv'
  <2>1. SUFFICES ASSUME NEW q \in Poller
                 PROVE /\ pPc'[q] \in {"zrem", "respond"} =>
                              \A m \in MsgId : todo'[q][m] = NoRef
                       /\ \A m \in since'[q] :
                             /\ execs[m] >= 1
                             /\ Stored(m) /\ execs[m] = 1 =>
                                    todo'[q][m] # NoRef \/ m \in Ids(out'[q])
    BY <1>e, Zenon DEF PollInv, Stored, redisVars
  <2>2. CASE q = p
    <3>1. pPc'[p] = "idle" /\ since'[p] = {}
      BY <1>e DEF PollForget, TypeOK
    <3> QED BY <2>2, <3>1
  <2>3. CASE q # p
    <3>1. pPc'[q] = pPc[q] /\ since'[q] = since[q] /\ todo'[q] = todo[q] /\ out'[q] = out[q]
      BY <1>e, <2>3, Zenon DEF PollForget, TypeOK
    <3> QED BY <3>1, Zenon DEF PollInv
  <2> QED BY <2>2, <2>3
<1>1. ASSUME NEW s \in Sender, NEW m \in MsgId, SendBegin(s, m) PROVE PollInv'
  BY <1>1, <1>d, Zenon DEF SendBegin, histVars, redisVars, Stored
<1>2. ASSUME NEW s \in Sender, SendExec(s) PROVE PollInv'
  <2> DEFINE m == sMsg[s]
  <2>1. m \in MsgId
    BY DEF TypeOK
  <2>2. /\ blobExp' = [blobExp EXCEPT ![m] = clock + TTL]
        /\ execs' = [execs EXCEPT ![m] = @ + 1]
        /\ UNCHANGED <<pPc, todo, out, since>>
    BY <1>2 DEF SendExec, StoreAndReference, pollVars
  <2> HIDE DEF m
  <2>3. \A n \in MsgId : n # m => (Stored(n)' = Stored(n)) /\ execs'[n] = execs[n]
    BY <2>1, <2>2 DEF Stored, TypeOK
  <2>4. execs'[m] = execs[m] + 1
    BY <2>1, <2>2 DEF TypeOK
  <2>5. SUFFICES ASSUME NEW q \in Poller, NEW n \in since[q]
                 PROVE /\ execs'[n] >= 1
                       /\ Stored(n)' /\ execs'[n] = 1 =>
                              todo[q][n] # NoRef \/ n \in Ids(out[q])
    BY <2>2, Zenon DEF PollInv
  <2>6. execs[n] >= 1 /\ n \in MsgId
    BY <1>c DEF PollInv
  <2>7. CASE n = m
    BY <1>a, <2>1, <2>4, <2>6, <2>7
  <2>8. CASE n # m
    BY <2>3, <2>6, <2>8, Zenon DEF PollInv
  <2> QED BY <2>7, <2>8
<1>3. ASSUME NEW s \in Sender, SendAccepted(s) PROVE PollInv'
  BY <1>3, <1>d, Zenon DEF SendAccepted, histVars, redisVars, Stored
<1>4. ASSUME NEW s \in Sender, SendFails(s) PROVE PollInv'
  BY <1>4, <1>d, Zenon DEF SendFails, histVars, redisVars, Stored
<1>5. ASSUME NEW p \in Poller, NEW d \in Device, PollList(p, d) PROVE PollInv'
  <2> DEFINE ids == {m \in For(d) : Listed(m)}
  <2>1. /\ pPc' = [pPc EXCEPT ![p] = IF ids = {} THEN "respond" ELSE "get"]
        /\ todo' = [todo EXCEPT ![p] =
                       [m \in MsgId |-> IF m \in ids THEN score[m] ELSE NoRef]]
        /\ since' = [since EXCEPT ![p] = {m \in For(d) : Stored(m)}]
        /\ UNCHANGED <<blobExp, out, execs>>
    BY <1>5 DEF PollList, redisVars, histVars
  <2>2. SUFFICES ASSUME NEW q \in Poller
                 PROVE /\ pPc'[q] \in {"zrem", "respond"} =>
                              \A m \in MsgId : todo'[q][m] = NoRef
                       /\ \A m \in since'[q] :
                             /\ execs[m] >= 1
                             /\ Stored(m) /\ execs[m] = 1 =>
                                    todo'[q][m] # NoRef \/ m \in Ids(out[q])
    BY <2>1, Zenon DEF PollInv, Stored
  <2>3. CASE q = p
    <3>1. \A m \in MsgId : todo'[p][m] = IF m \in ids THEN score[m] ELSE NoRef
      BY <2>1 DEF TypeOK
    <3>2. pPc'[p] \in {"zrem", "respond"} => ids = {}
      BY <2>1 DEF TypeOK
    <3>3. since'[p] = {m \in For(d) : Stored(m)}
      BY <2>1 DEF TypeOK
    <3>4. ASSUME NEW m \in since'[p], Stored(m), execs[m] = 1 PROVE todo'[p][m] # NoRef
      <4>1. m \in MsgId /\ m \in For(d)
        BY <3>3, <3>4 DEF For
      <4>2. Listed(m)
        BY <3>4, <4>1 DEF QueueInv, RedisInv, SentOnceReachable
      <4> QED BY <3>1, <4>1, <4>2 DEF Listed
    <3>5. \A m \in since'[p] : execs[m] >= 1
      BY <1>b, <3>3 DEF For
    <3> QED BY <2>3, <3>1, <3>2, <3>4, <3>5
  <2>4. CASE q # p
    <3>1. pPc'[q] = pPc[q] /\ since'[q] = since[q] /\ todo'[q] = todo[q]
      BY <2>1, <2>4, Zenon DEF TypeOK
    <3> QED BY <3>1, Zenon DEF PollInv
  <2> QED BY <2>3, <2>4
<1>6. ASSUME NEW p \in Poller, NEW m \in MsgId, PollGet(p, m) PROVE PollInv'
  <2>1. /\ todo' = [todo EXCEPT ![p] = [@ EXCEPT ![m] = NoRef]]
        /\ pPc' = [pPc EXCEPT ![p] = AfterGet(p, m)]
        /\ UNCHANGED <<blobExp, since, execs>>
    BY <1>6 DEF PollGet, redisVars, histVars
  <2>2. SUFFICES ASSUME NEW q \in Poller
                 PROVE /\ pPc'[q] \in {"zrem", "respond"} =>
                              \A n \in MsgId : todo'[q][n] = NoRef
                       /\ \A n \in since[q] :
                             /\ execs[n] >= 1
                             /\ Stored(n) /\ execs[n] = 1 =>
                                    todo'[q][n] # NoRef \/ n \in Ids(out'[q])
    BY <2>1, Zenon DEF PollInv, Stored
  <2>3. CASE q = p
    <3>1. \A n \in MsgId : todo'[p][n] = IF n = m THEN NoRef ELSE todo[p][n]
      BY <2>1 DEF TypeOK
    <3>2. ASSUME pPc'[p] \in {"zrem", "respond"}, NEW n \in MsgId PROVE todo'[p][n] = NoRef
      <4>1. pPc'[p] = AfterGet(p, m)
        BY <2>1 DEF TypeOK
      <4>2. ~\E k \in MsgId \ {m} : todo[p][k] # NoRef
        BY <3>2, <4>1 DEF AfterGet
      <4> QED BY <3>1, <4>2
    <3>3. ASSUME NEW n \in since[p], Stored(n), execs[n] = 1
          PROVE  todo'[p][n] # NoRef \/ n \in Ids(out'[p])
      <4>1. n \in MsgId /\ (todo[p][n] # NoRef \/ n \in Ids(out[p]))
        BY <1>c, <3>3 DEF PollInv
      <4>2. CASE Stored(m)
        <5> DEFINE e == [id |-> m, enqueuedAt |-> stamp[m]]
        <5>1. out'[p] = Append(out[p], e)
          BY <1>6, <4>2 DEF PollGet, TypeOK
        <5>2. out[p] \in Seq(Entry) /\ e \in Entry /\ e.id = m
          <6>1. stamp[m] \in Nat
            BY DEF TypeOK
          <6>2. out[p] \in Seq(Entry)
            BY DEF TypeOK
          <6> QED BY <6>1, <6>2 DEF Entry
        <5> HIDE DEF e
        <5>3. Ids(out[p]) \subseteq Ids(out'[p]) /\ m \in Ids(out'[p])
          BY <5>1, <5>2, IdsAppend
        <5> QED BY <3>1, <4>1, <5>3
      <4>3. CASE ~Stored(m)
        <5>1. out' = out /\ n # m
          BY <1>6, <3>3, <4>3 DEF PollGet
        <5> QED BY <3>1, <4>1, <5>1
      <4> QED BY <4>2, <4>3
    <3>4. \A n \in since[p] : execs[n] >= 1
      BY DEF PollInv
    <3> QED BY <2>3, <3>2, <3>3, <3>4
  <2>4. CASE q # p
    <3>1. pPc'[q] = pPc[q] /\ todo'[q] = todo[q]
      BY <2>1, <2>4, Zenon DEF TypeOK
    <3>2. out'[q] = out[q]
      <4>1. CASE Stored(m)
        BY <1>6, <2>4, <4>1, Zenon DEF PollGet, TypeOK
      <4>2. CASE ~Stored(m)
        BY <1>6, <4>2, Zenon DEF PollGet
      <4> QED BY <4>1, <4>2
    <3> QED BY <3>1, <3>2, Zenon DEF PollInv
  <2> QED BY <2>3, <2>4
<1>7. ASSUME NEW p \in Poller, PollClean(p) PROVE PollInv'
  <2>1. /\ pPc' = [pPc EXCEPT ![p] = "respond"]
        /\ UNCHANGED <<blobExp, since, execs, todo, out>>
    BY <1>7 DEF PollClean, histVars
  <2>2. pPc[p] = "zrem"
    BY <1>7 DEF PollClean
  <2>3. \A q \in Poller : pPc'[q] \in {"zrem", "respond"} => pPc[q] \in {"zrem", "respond"}
    BY <2>1, <2>2 DEF TypeOK
  <2> QED BY <2>1, <2>3, Zenon DEF PollInv, Stored
<1>8. ASSUME NEW p \in Poller, PollRespond(p) PROVE PollInv'
  BY <1>8, <1>e DEF PollRespond
<1>9. ASSUME NEW p \in Poller, PollFails(p) PROVE PollInv'
  BY <1>9, <1>e DEF PollFails, histVars
<1>10. ASSUME NEW m \in MsgId, Acknowledge(m) PROVE PollInv'
  <2>1. \A n \in MsgId : Stored(n)' => Stored(n)
    BY <1>10 DEF Acknowledge, Stored, TypeOK
  <2> QED BY <1>10, <1>d, <2>1 DEF Acknowledge
<1>11. CASE Tick
  <2>1. \A n \in MsgId : Stored(n)' => Stored(n)
    BY <1>11 DEF Tick, ExpireKeys, Stored, TypeOK
  <2> QED BY <1>11, <1>d, <2>1 DEF Tick, histVars
<1>12. CASE RedisRestart
  <2>1. \A n \in MsgId : Stored(n)' => Stored(n)
    BY <1>12 DEF RedisRestart, Stored
  <2> QED BY <1>12, <1>d, <2>1 DEF RedisRestart, histVars
<1>13. CASE UNCHANGED vars
  BY <1>13, <1>d, Zenon DEF vars, histVars, redisVars, Stored
<1>14. delivered \subseteq MsgId
  BY DEF TypeOK
<1> QED
  BY <1>1, <1>2, <1>3, <1>4, <1>5, <1>6, <1>7, <1>8, <1>9, <1>10, <1>11, <1>12, <1>13, <1>14
  DEF Next

\* A poll leaves out no message sent once that was stored when it listed the
\* inbox and still is when it answers, whatever runs between its GETs
\* (message_queue_service.ts:128-180).
THEOREM AnswerIsComplete == Spec => []PollComplete
<1>1. Init => TypeOK /\ QueueInv /\ PollInv
  BY TypeInit, QueueInit, PollInit
<1>2. TypeOK /\ QueueInv /\ PollInv /\ [Next]_vars => (TypeOK /\ QueueInv /\ PollInv)'
  BY TypeStep, QueueStep, PollInvStep
<1>3. TypeOK /\ PollInv => PollComplete
  <2> SUFFICES ASSUME TypeOK, PollInv, NEW p \in Poller, pPc[p] \in {"zrem", "respond"},
                      NEW m \in since[p], Stored(m), execs[m] = 1
               PROVE  m \in Ids(out[p])
    BY DEF PollComplete
  <2>1. m \in MsgId
    BY DEF TypeOK
  <2> QED BY <2>1 DEF PollInv
<1> QED BY <1>1, <1>2, <1>3, PTL DEF Spec

-----------------------------------------------------------------------------
\* The order of an answer.

LEMMA OrderInit == Init => OrderInv
<1> SUFFICES ASSUME Init PROVE OrderInv
  OBVIOUS
<1>1. \A p \in Poller : DOMAIN out[p] = {}
  BY DEF Init
<1>2. ScoreIsStamp /\ TodoIsStamp
  BY DEF Init, ScoreIsStamp, TodoIsStamp, Stored
<1>3. OutWasSent /\ OutBeforeTodo /\ FifoAnswer
  BY <1>1, Zenon DEF OutWasSent, OutBeforeTodo, FifoAnswer
<1> QED BY <1>2, <1>3 DEF OrderInv

LEMMA IdleInit == Init => IdleIsEmpty
BY DEF Init, IdleIsEmpty

LEMMA IdleStep == TypeOK /\ IdleIsEmpty /\ [Next]_vars => IdleIsEmpty'
<1> SUFFICES ASSUME TypeOK, IdleIsEmpty, [Next]_vars PROVE IdleIsEmpty'
  OBVIOUS
<1>a. ASSUME UNCHANGED pollVars PROVE IdleIsEmpty'
  BY <1>a, Zenon DEF IdleIsEmpty, pollVars
<1>b. ASSUME NEW p \in Poller, pPc' = [pPc EXCEPT ![p] = pPc'[p]], pPc'[p] # "idle",
             \A q \in Poller : q # p => out'[q] = out[q]
      PROVE  IdleIsEmpty'
  <2>1. \A q \in Poller : pPc'[q] = "idle" => q # p /\ pPc[q] = "idle"
    BY <1>b DEF TypeOK
  <2> QED BY <1>b, <2>1, Zenon DEF IdleIsEmpty
<1>c. ASSUME NEW p \in Poller, PollForget(p) PROVE IdleIsEmpty'
  <2>1. /\ \A q \in Poller : q # p => pPc'[q] = pPc[q] /\ out'[q] = out[q]
        /\ DOMAIN out'[p] = {}
    BY <1>c DEF PollForget, TypeOK
  <2> QED BY <2>1, Zenon DEF IdleIsEmpty
<1>1. ASSUME NEW p \in Poller, NEW d \in Device, PollList(p, d) PROVE IdleIsEmpty'
  <2>1. /\ pPc' = [pPc EXCEPT ![p] = pPc'[p]]
        /\ pPc'[p] # "idle"
        /\ out' = out
    BY <1>1 DEF PollList, TypeOK
  <2> QED BY <1>b, <2>1
<1>2. ASSUME NEW p \in Poller, NEW m \in MsgId, PollGet(p, m) PROVE IdleIsEmpty'
  <2>1. pPc' = [pPc EXCEPT ![p] = AfterGet(p, m)] /\ AfterGet(p, m) # "idle"
    BY <1>2 DEF PollGet, AfterGet
  <2>2. pPc' = [pPc EXCEPT ![p] = pPc'[p]] /\ pPc'[p] # "idle"
    BY <2>1 DEF TypeOK
  <2>3. \A q \in Poller : q # p => out'[q] = out[q]
    <3>1. CASE Stored(m)
      BY <1>2, <3>1, Zenon DEF PollGet, TypeOK
    <3>2. CASE ~Stored(m)
      BY <1>2, <3>2, Zenon DEF PollGet
    <3> QED BY <3>1, <3>2
  <2> QED BY <1>b, <2>2, <2>3
<1>3. ASSUME NEW p \in Poller, PollClean(p) PROVE IdleIsEmpty'
  <2>1. /\ pPc' = [pPc EXCEPT ![p] = pPc'[p]]
        /\ pPc'[p] # "idle"
        /\ out' = out
    BY <1>3 DEF PollClean, TypeOK
  <2> QED BY <1>b, <2>1
<1>4. ASSUME NEW p \in Poller, PollRespond(p) \/ PollFails(p) PROVE IdleIsEmpty'
  BY <1>4, <1>c DEF PollRespond, PollFails
<1>5. CASE \/ \E s \in Sender : \/ SendExec(s) \/ SendAccepted(s) \/ SendFails(s)
                                \/ \E m \in MsgId : SendBegin(s, m)
           \/ \E m \in delivered : Acknowledge(m)
           \/ Tick \/ RedisRestart \/ UNCHANGED vars
  BY <1>5, <1>a, Zenon
  DEF SendExec, SendAccepted, SendFails, SendBegin, Acknowledge, Tick, RedisRestart, vars
<1> QED BY <1>1, <1>2, <1>3, <1>4, <1>5 DEF Next

LEMMA OrderStep ==
    TypeOK /\ QueueInv /\ IdleIsEmpty /\ OrderInv /\ [Next]_vars => OrderInv'
<1> SUFFICES ASSUME TypeOK, QueueInv, IdleIsEmpty, OrderInv, [Next]_vars PROVE OrderInv'
  OBVIOUS
<1>a. \A m \in MsgId : execs[m] \in Nat /\ stamp[m] \in Nat
  BY DEF TypeOK
<1>b. \A m \in MsgId : Stored(m) => execs[m] >= 1
  BY StoredWasSent DEF QueueInv, RedisInv
<1>c. ASSUME NEW q \in Poller, NEW i \in DOMAIN out[q]
      PROVE  out[q][i].id \in MsgId /\ out[q][i].enqueuedAt \in Nat
  <2>1. out[q] \in Seq(Entry)
    BY DEF TypeOK
  <2>2. out[q][i] \in Entry
    BY <2>1
  <2> QED BY <2>2 DEF Entry
<1>d. \* Actions that leave the polls alone, store nothing and list nothing.
      ASSUME UNCHANGED <<todo, out, execs>>,
             \A m \in MsgId : Stored(m)' => Stored(m) /\ stamp'[m] = stamp[m],
             \A m \in MsgId : Listed(m)' => Listed(m) /\ score'[m] = score[m]
      PROVE  OrderInv'
  <2>1. ScoreIsStamp' /\ TodoIsStamp'
    BY <1>d, Zenon DEF OrderInv, ScoreIsStamp, TodoIsStamp
  <2>2. OutWasSent' /\ OutBeforeTodo' /\ FifoAnswer'
    BY <1>d, Zenon DEF OrderInv, OutWasSent, OutBeforeTodo, FifoAnswer
  <2> QED BY <2>1, <2>2 DEF OrderInv
<1>e. \* A poll that forgets everything it recorded.
      ASSUME NEW p \in Poller, PollForget(p), UNCHANGED <<redisVars, execs>>
      PROVE  OrderInv'
  <2>1. /\ \A q \in Poller : q # p => todo'[q] = todo[q] /\ out'[q] = out[q]
        /\ \A m \in MsgId : todo'[p][m] = NoRef
        /\ DOMAIN out'[p] = {}
    BY <1>e DEF PollForget, TypeOK
  <2>2. ScoreIsStamp'
    BY <1>e, Zenon DEF OrderInv, ScoreIsStamp, Stored, Listed, redisVars
  <2>3. TodoIsStamp'
    BY <1>e, <2>1, ZenonT(60) DEF OrderInv, TodoIsStamp, Stored, redisVars
  <2>4. OutWasSent'
    BY <1>e, <2>1, Zenon DEF OrderInv, OutWasSent
  <2>5. OutBeforeTodo'
    BY <1>e, <2>1, ZenonT(60) DEF OrderInv, OutBeforeTodo
  <2>6. FifoAnswer'
    BY <1>e, <2>1, ZenonT(60) DEF OrderInv, FifoAnswer
  <2> QED BY <2>2, <2>3, <2>4, <2>5, <2>6 DEF OrderInv
<1>1. ASSUME NEW s \in Sender, NEW m \in MsgId, SendBegin(s, m) PROVE OrderInv'
  BY <1>1, <1>d, Zenon DEF SendBegin, histVars, pollVars, redisVars, Stored, Listed
<1>2. ASSUME NEW s \in Sender, SendExec(s) PROVE OrderInv'
  <2> DEFINE m == sMsg[s]
  <2>1. m \in MsgId
    BY DEF TypeOK
  <2>2. /\ blobExp' = [blobExp EXCEPT ![m] = clock + TTL]
        /\ score' = [score EXCEPT ![m] = sNow[s]]
        /\ stamp' = [stamp EXCEPT ![m] = sNow[s]]
        /\ execs' = [execs EXCEPT ![m] = @ + 1]
        /\ UNCHANGED <<todo, out>>
    BY <1>2 DEF SendExec, StoreAndReference, pollVars
  <2> HIDE DEF m
  <2>3. \A n \in MsgId : n # m =>
            /\ Stored(n)' = Stored(n) /\ Listed(n)' = Listed(n)
            /\ execs'[n] = execs[n] /\ score'[n] = score[n] /\ stamp'[n] = stamp[n]
    BY <2>1, <2>2 DEF Stored, Listed, TypeOK
  <2>4. execs'[m] = execs[m] + 1 /\ score'[m] = stamp'[m]
    BY <2>1, <2>2 DEF TypeOK
  <2>5. \* What was sent before is not "sent once" by this step.
        \A n \in MsgId : execs[n] >= 1 /\ execs'[n] = 1 => n # m /\ execs[n] = 1
    BY <1>a, <2>1, <2>3, <2>4
  <2>6. ScoreIsStamp'
    <3>1. SUFFICES ASSUME NEW n \in MsgId, Stored(n)', Listed(n)', execs'[n] = 1
                   PROVE  score'[n] = stamp'[n]
      BY DEF ScoreIsStamp
    <3>2. CASE n = m
      BY <2>4, <3>2
    <3>3. CASE n # m
      BY <2>3, <3>1, <3>3 DEF OrderInv, ScoreIsStamp
    <3> QED BY <3>2, <3>3
  <2>7. TodoIsStamp'
    <3>1. SUFFICES ASSUME NEW q \in Poller, NEW n \in MsgId, Stored(n)',
                          todo[q][n] # NoRef, execs'[n] = 1
                   PROVE  todo[q][n] = stamp'[n]
      BY <2>2, Zenon DEF TodoIsStamp
    <3>2. n # m /\ execs[n] = 1
      BY <2>5, <3>1 DEF QueueInv, TodoWasSent
    <3> QED BY <2>3, <3>1, <3>2 DEF OrderInv, TodoIsStamp
  <2>8. OutWasSent'
    <3>1. SUFFICES ASSUME NEW q \in Poller, NEW i \in DOMAIN out[q]
                   PROVE  execs'[out[q][i].id] >= 1
      BY <2>2, Zenon DEF OutWasSent
    <3>2. out[q][i].id \in MsgId /\ execs[out[q][i].id] >= 1
      BY <1>c DEF OrderInv, OutWasSent
    <3> QED BY <1>a, <2>1, <2>3, <2>4, <3>2
  <2>9. OutBeforeTodo'
    <3>1. SUFFICES ASSUME NEW q \in Poller, NEW i \in DOMAIN out[q], NEW n \in MsgId,
                          execs'[out[q][i].id] = 1, todo[q][n] # NoRef
                   PROVE  out[q][i].enqueuedAt <= todo[q][n]
      BY <2>2, Zenon DEF OutBeforeTodo
    <3>2. execs[out[q][i].id] = 1
      BY <1>c, <2>5, <3>1 DEF OrderInv, OutWasSent
    <3> QED BY <3>1, <3>2 DEF OrderInv, OutBeforeTodo
  <2>10. FifoAnswer'
    <3>1. SUFFICES ASSUME NEW q \in Poller,
                          NEW i \in DOMAIN out'[q], NEW j \in DOMAIN out'[q], i < j,
                          execs'[out'[q][i].id] = 1, execs'[out'[q][j].id] = 1
                   PROVE  out'[q][i].enqueuedAt <= out'[q][j].enqueuedAt
      BY Zenon DEF FifoAnswer
    <3>2. /\ i \in DOMAIN out[q] /\ j \in DOMAIN out[q]
          /\ execs'[out[q][i].id] = 1 /\ execs'[out[q][j].id] = 1
      BY <2>2, <3>1
    <3>3. execs[out[q][i].id] = 1 /\ execs[out[q][j].id] = 1
      BY <1>c, <2>5, <3>2 DEF OrderInv, OutWasSent
    <3>4. out[q][i].enqueuedAt <= out[q][j].enqueuedAt
      BY <3>1, <3>2, <3>3, Zenon DEF OrderInv, FifoAnswer
    <3> QED BY <2>2, <3>4
  <2> QED BY <2>6, <2>7, <2>8, <2>9, <2>10 DEF OrderInv
<1>3. ASSUME NEW s \in Sender, SendAccepted(s) PROVE OrderInv'
  BY <1>3, <1>d, Zenon DEF SendAccepted, histVars, pollVars, redisVars, Stored, Listed
<1>4. ASSUME NEW s \in Sender, SendFails(s) PROVE OrderInv'
  BY <1>4, <1>d, Zenon DEF SendFails, histVars, pollVars, redisVars, Stored, Listed
<1>5. ASSUME NEW p \in Poller, NEW d \in Device, PollList(p, d) PROVE OrderInv'
  <2> DEFINE ids == {m \in For(d) : Listed(m)}
  <2>1. /\ todo' = [todo EXCEPT ![p] =
                       [m \in MsgId |-> IF m \in ids THEN score[m] ELSE NoRef]]
        /\ UNCHANGED <<blobExp, stamp, score, out, execs>>
        /\ pPc[p] = "idle"
    BY <1>5 DEF PollList, redisVars, histVars
  <2>2. /\ \A q \in Poller : q # p => todo'[q] = todo[q]
        /\ \A m \in MsgId : todo'[p][m] = IF m \in ids THEN score[m] ELSE NoRef
    BY <2>1 DEF TypeOK
  <2>3. ScoreIsStamp' /\ OutWasSent' /\ FifoAnswer'
    BY <2>1, Zenon DEF OrderInv, ScoreIsStamp, OutWasSent, FifoAnswer, Stored, Listed
  <2>4. TodoIsStamp'
    <3>1. SUFFICES ASSUME NEW q \in Poller, NEW n \in MsgId, Stored(n),
                          todo'[q][n] # NoRef, execs[n] = 1
                   PROVE  todo'[q][n] = stamp[n]
      BY <2>1, ZenonT(60) DEF TodoIsStamp, Stored
    <3>2. CASE q = p
      <4>1. Listed(n) /\ todo'[q][n] = score[n]
        BY <2>2, <3>1, <3>2 DEF Listed
      <4> QED BY <3>1, <4>1 DEF OrderInv, ScoreIsStamp
    <3>3. CASE q # p
      BY <2>2, <3>1, <3>3, ZenonT(60) DEF OrderInv, TodoIsStamp
    <3> QED BY <3>2, <3>3
  <2>5. OutBeforeTodo'
    BY <2>1, <2>2, ZenonT(60) DEF OrderInv, OutBeforeTodo, IdleIsEmpty
  <2> QED BY <2>3, <2>4, <2>5 DEF OrderInv
<1>6. ASSUME NEW p \in Poller, NEW m \in MsgId, PollGet(p, m) PROVE OrderInv'
  <2>1. /\ todo' = [todo EXCEPT ![p] = [@ EXCEPT ![m] = NoRef]]
        /\ UNCHANGED <<blobExp, stamp, score, execs>>
        /\ todo[p][m] # NoRef
        /\ \A n \in MsgId : todo[p][n] # NoRef => todo[p][m] <= todo[p][n]
    BY <1>6 DEF PollGet, NextIds, redisVars, histVars
  <2>2. /\ \A q \in Poller : q # p => todo'[q] = todo[q]
        /\ \A n \in MsgId : todo'[p][n] = IF n = m THEN NoRef ELSE todo[p][n]
    BY <2>1 DEF TypeOK
  <2>3. ScoreIsStamp'
    BY <2>1, Zenon DEF OrderInv, ScoreIsStamp, Stored, Listed
  <2>4. TodoIsStamp'
    BY <2>1, <2>2, ZenonT(60) DEF OrderInv, TodoIsStamp, Stored
  <2>5. CASE ~Stored(m)
    <3>1. out' = out
      BY <1>6, <2>5 DEF PollGet
    <3>2. OutWasSent' /\ FifoAnswer'
      BY <2>1, <3>1, Zenon DEF OrderInv, OutWasSent, FifoAnswer
    <3>3. OutBeforeTodo'
      <4>1. \A q \in Poller : \A n \in MsgId :
                todo'[q][n] # NoRef => todo[q][n] # NoRef /\ todo'[q][n] = todo[q][n]
        BY <2>2
      <4> QED BY <2>1, <3>1, <4>1, ZenonT(60) DEF OrderInv, OutBeforeTodo
    <3> QED BY <2>3, <2>4, <3>2, <3>3 DEF OrderInv
  <2>6. CASE Stored(m)
    <3> DEFINE e == [id |-> m, enqueuedAt |-> stamp[m]]
               k == Len(out[p])
    <3>1. out' = [out EXCEPT ![p] = Append(@, e)]
      BY <1>6, <2>6, Zenon DEF PollGet
    <3>2. e \in Entry /\ e.id = m /\ e.enqueuedAt = stamp[m]
      BY <1>a DEF Entry
    <3>3. out[p] \in Seq(Entry)
      BY DEF TypeOK
    <3>4. out'[p] = Append(out[p], e) /\ \A q \in Poller : q # p => out'[q] = out[q]
      BY <3>1 DEF TypeOK
    <3> HIDE DEF e
    <3>5. /\ DOMAIN out[p] = 1 .. k /\ k \in Nat
          /\ DOMAIN out'[p] = 1 .. k + 1
          /\ \A i \in 1 .. k : out'[p][i] = out[p][i]
          /\ out'[p][k + 1] = e
      BY <3>2, <3>3, <3>4, AppendFacts
    <3> HIDE DEF k
    <3>6. \A i \in DOMAIN out'[p] : i \in DOMAIN out[p] \/ i = k + 1
      BY <3>5
    <3>7. execs[m] >= 1
      BY <1>b, <2>6
    <3>8. execs[m] = 1 => todo[p][m] = stamp[m]
      BY <2>1, <2>6 DEF OrderInv, TodoIsStamp
    <3>9. OutWasSent'
      <4>1. SUFFICES ASSUME NEW q \in Poller, NEW i \in DOMAIN out'[q]
                     PROVE  execs[out'[q][i].id] >= 1
        BY <2>1, Zenon DEF OutWasSent
      <4>2. CASE q # p
        BY <3>4, <4>2, Zenon DEF OrderInv, OutWasSent
      <4>3. CASE q = p /\ i = k + 1
        BY <3>2, <3>5, <3>7, <4>3
      <4>4. CASE q = p /\ i \in DOMAIN out[p]
        BY <3>5, <4>4 DEF OrderInv, OutWasSent
      <4> QED BY <3>6, <4>2, <4>3, <4>4
    <3>10. OutBeforeTodo'
      <4>1. SUFFICES ASSUME NEW q \in Poller, NEW i \in DOMAIN out'[q], NEW n \in MsgId,
                            execs[out'[q][i].id] = 1, todo'[q][n] # NoRef
                     PROVE  out'[q][i].enqueuedAt <= todo'[q][n]
        BY <2>1, Zenon DEF OutBeforeTodo
      <4>2. CASE q # p
        BY <2>2, <3>4, <4>1, <4>2, Zenon DEF OrderInv, OutBeforeTodo
      <4>3. CASE q = p /\ i = k + 1
        BY <2>1, <2>2, <3>2, <3>5, <3>8, <4>1, <4>3
      <4>4. CASE q = p /\ i \in DOMAIN out[p]
        BY <2>2, <3>5, <4>1, <4>4, ZenonT(60) DEF OrderInv, OutBeforeTodo
      <4> QED BY <3>6, <4>2, <4>3, <4>4
    <3>11. FifoAnswer'
      <4>1. SUFFICES ASSUME NEW q \in Poller,
                            NEW i \in DOMAIN out'[q], NEW j \in DOMAIN out'[q], i < j,
                            execs[out'[q][i].id] = 1, execs[out'[q][j].id] = 1
                     PROVE  out'[q][i].enqueuedAt <= out'[q][j].enqueuedAt
        BY <2>1, Zenon DEF FifoAnswer
      <4>2. CASE q # p
        BY <3>4, <4>1, <4>2, Zenon DEF OrderInv, FifoAnswer
      <4>3. CASE q = p /\ j = k + 1
        <5>1. i \in DOMAIN out[p] /\ out'[p][i] = out[p][i]
          BY <3>5, <4>1, <4>3
        <5>2. out[p][i].enqueuedAt <= todo[p][m]
          BY <2>1, <4>1, <4>3, <5>1 DEF OrderInv, OutBeforeTodo
        <5> QED BY <3>2, <3>5, <3>8, <4>1, <4>3, <5>1, <5>2
      <4>4. CASE q = p /\ j \in DOMAIN out[p]
        <5>1. /\ i \in DOMAIN out[p] /\ out'[p][i] = out[p][i]
              /\ out'[p][j] = out[p][j]
          BY <3>5, <4>1, <4>4
        <5> QED BY <4>1, <4>4, <5>1, Zenon DEF OrderInv, FifoAnswer
      <4> QED BY <3>6, <4>2, <4>3, <4>4
    <3> QED BY <2>3, <2>4, <3>9, <3>10, <3>11 DEF OrderInv
  <2> QED BY <2>5, <2>6
<1>7. ASSUME NEW p \in Poller, PollClean(p) PROVE OrderInv'
  <2>1. \A m \in MsgId : Listed(m)' => Listed(m) /\ score'[m] = score[m]
    BY <1>7 DEF PollClean, RemoveRefs, Listed
  <2> QED BY <1>7, <1>d, <2>1, Zenon DEF PollClean, histVars, Stored
<1>8. ASSUME NEW p \in Poller, PollRespond(p) PROVE OrderInv'
  BY <1>8, <1>e DEF PollRespond
<1>9. ASSUME NEW p \in Poller, PollFails(p) PROVE OrderInv'
  BY <1>9, <1>e DEF PollFails, histVars
<1>10. ASSUME NEW m \in MsgId, Acknowledge(m) PROVE OrderInv'
  <2>1. \A n \in MsgId : Stored(n)' => Stored(n) /\ stamp'[n] = stamp[n]
    BY <1>10 DEF Acknowledge, Stored, TypeOK
  <2> QED BY <1>10, <1>d, <2>1, Zenon DEF Acknowledge, pollVars, Listed
<1>11. CASE Tick
  <2>1. /\ \A m \in MsgId : Stored(m)' => Stored(m) /\ stamp'[m] = stamp[m]
        /\ \A m \in MsgId : Listed(m)' => Listed(m) /\ score'[m] = score[m]
    BY <1>11 DEF Tick, ExpireKeys, Stored, Listed, TypeOK
  <2> QED BY <1>11, <1>d, <2>1 DEF Tick, pollVars, histVars
<1>12. CASE RedisRestart
  <2>1. \A m \in MsgId : ~Stored(m)' /\ ~Listed(m)'
    BY <1>12 DEF RedisRestart, Stored, Listed
  <2> QED BY <1>12, <1>d, <2>1 DEF RedisRestart, pollVars, histVars
<1>13. CASE UNCHANGED vars
  BY <1>13, <1>d, Zenon DEF vars, histVars, pollVars, redisVars, Stored, Listed
<1>14. delivered \subseteq MsgId
  BY DEF TypeOK
<1> QED
  BY <1>1, <1>2, <1>3, <1>4, <1>5, <1>6, <1>7, <1>8, <1>9, <1>10, <1>11, <1>12, <1>13, <1>14
  DEF Next

\* An answer lists messages sent once in the order of their enqueuedAt
\* (message_queue_service.ts:91-95 and 118).
THEOREM AnswerIsFifo == Spec => []FifoAnswer
<1>1. Init => TypeOK /\ QueueInv /\ IdleIsEmpty /\ OrderInv
  BY TypeInit, QueueInit, IdleInit, OrderInit
<1>2. TypeOK /\ QueueInv /\ IdleIsEmpty /\ OrderInv /\ [Next]_vars
        => (TypeOK /\ QueueInv /\ IdleIsEmpty /\ OrderInv)'
  BY TypeStep, QueueStep, IdleStep, OrderStep
<1>3. OrderInv => FifoAnswer
  BY DEF OrderInv
<1> QED BY <1>1, <1>2, <1>3, PTL DEF Spec

=============================================================================
