------------------------- MODULE MessageQueue_refines -------------------------
(***************************************************************************)
(* MessageQueue implements Mailbox, for every value of the constants.       *)
(*                                                                          *)
(* The step that matters is the answer of a poll: what the mailbox says the *)
(* poll owes is in it (PollComplete) and in order (FifoAnswer), and both    *)
(* follow from the invariants of MessageQueue_proofs.  Two more facts are   *)
(* needed: a send stores a date of the past, and what a poll has still to   *)
(* read is for its device and was not read before.                          *)
(***************************************************************************)
EXTENDS MessageQueue_proofs

StampedBefore ==
    /\ clock >= 1
    /\ \A s \in Sender : sPc[s] = "stamped" => 1 <= sNow[s] /\ sNow[s] <= clock

TodoIsFresh ==
    \A p \in Poller : \A m \in MsgId :
        todo[p][m] # NoRef => Recipient[m] = pDev[p] /\ m \notin Ids(out[p])

-----------------------------------------------------------------------------
LEMMA StampedInit == Init => StampedBefore
BY DEF Init, StampedBefore

\* Date.now() is read before the MULTI block runs, never after.
LEMMA StampedStep == TypeOK /\ StampedBefore /\ [Next]_vars => StampedBefore'
<1> SUFFICES ASSUME TypeOK, StampedBefore, [Next]_vars PROVE StampedBefore'
  OBVIOUS
<1>a. clock \in Nat /\ \A s \in Sender : sNow[s] \in Nat
  BY DEF TypeOK
<1>b. ASSUME UNCHANGED clock,
             \A s \in Sender : sPc'[s] = "stamped" => sPc[s] = "stamped" /\ sNow'[s] = sNow[s]
      PROVE  StampedBefore'
  BY <1>b DEF StampedBefore
<1>1. ASSUME NEW s \in Sender, NEW m \in MsgId, SendBegin(s, m) PROVE StampedBefore'
  <2>1. /\ clock' = clock
        /\ sNow'[s] = clock
        /\ \A t \in Sender : t # s => sPc'[t] = sPc[t] /\ sNow'[t] = sNow[t]
    BY <1>1 DEF SendBegin, TypeOK
  <2> QED BY <1>a, <2>1 DEF StampedBefore
<1>2. ASSUME NEW s \in Sender, SendExec(s) PROVE StampedBefore'
  BY <1>2, <1>b DEF SendExec, TypeOK
<1>3. ASSUME NEW s \in Sender, SendAccepted(s) PROVE StampedBefore'
  BY <1>3, <1>b DEF SendAccepted, SendForget, TypeOK
<1>4. ASSUME NEW s \in Sender, SendFails(s) PROVE StampedBefore'
  BY <1>4, <1>b DEF SendFails, SendForget, TypeOK
<1>5. CASE Tick
  <2>1. clock' = clock + 1 /\ UNCHANGED sendVars
    BY <1>5 DEF Tick
  <2> QED BY <1>a, <2>1 DEF StampedBefore, sendVars
<1>6. CASE \/ \E p \in Poller : \/ PollClean(p) \/ PollRespond(p) \/ PollFails(p)
                                \/ \E d \in Device : PollList(p, d)
                                \/ \E m \in MsgId : PollGet(p, m)
           \/ \E m \in delivered : Acknowledge(m)
           \/ RedisRestart
           \/ UNCHANGED vars
  <2>1. UNCHANGED <<clock, sPc, sNow>>
    BY <1>6, Zenon DEF PollClean, PollRespond, PollFails, PollList, PollGet, Acknowledge,
                       RedisRestart, vars, sendVars
  <2> QED BY <2>1, <1>b, Zenon
<1> QED BY <1>1, <1>2, <1>3, <1>4, <1>5, <1>6 DEF Next

-----------------------------------------------------------------------------
\* An answer with one more entry has no other new id.
LEMMA AppendAddsOneId ==
    ASSUME NEW q \in Seq(Entry), NEW e \in Entry
    PROVE  Ids(Append(q, e)) \subseteq Ids(q) \cup {e.id}
<1> DEFINE a == Append(q, e)
<1>1. /\ DOMAIN q = 1 .. Len(q) /\ Len(q) \in Nat
      /\ DOMAIN a = 1 .. Len(q) + 1
      /\ \A i \in 1 .. Len(q) : a[i] = q[i]
      /\ a[Len(q) + 1] = e
  BY AppendFacts
<1> HIDE DEF a
<1>2. \A i \in DOMAIN a : i = Len(q) + 1 \/ (i \in DOMAIN q /\ a[i] = q[i])
  BY <1>1
<1>3. ASSUME NEW x \in Ids(a) PROVE x \in Ids(q) \cup {e.id}
  <2>1. PICK i \in DOMAIN a : x = a[i].id
    BY DEF Ids
  <2>2. CASE i = Len(q) + 1
    BY <1>1, <2>1, <2>2
  <2>3. CASE i \in DOMAIN q /\ a[i] = q[i]
    BY <2>1, <2>3 DEF Ids
  <2> QED BY <1>2, <2>2, <2>3
<1> QED BY <1>3 DEF a

LEMMA FreshInit == Init => TodoIsFresh
BY DEF Init, TodoIsFresh

\* Each listed id is read by one GET and then forgotten.
LEMMA FreshStep ==
    TypeOK /\ IdleIsEmpty /\ TodoIsFresh /\ [Next]_vars => TodoIsFresh'
<1> SUFFICES ASSUME TypeOK, IdleIsEmpty, TodoIsFresh, [Next]_vars PROVE TodoIsFresh'
  OBVIOUS
<1>1. ASSUME NEW p \in Poller, NEW d \in Device, PollList(p, d) PROVE TodoIsFresh'
  <2>1. /\ pDev'[p] = d /\ out' = out
        /\ \A m \in MsgId : todo'[p][m] # NoRef => Recipient[m] = d
        /\ \A q \in Poller : q # p => todo'[q] = todo[q] /\ pDev'[q] = pDev[q]
    BY <1>1 DEF PollList, For, TypeOK
  <2>2. Ids(out[p]) = {}
    BY <1>1 DEF PollList, IdleIsEmpty, Ids
  <2>3. SUFFICES ASSUME NEW q \in Poller, NEW m \in MsgId, todo'[q][m] # NoRef
                 PROVE  Recipient[m] = pDev'[q] /\ m \notin Ids(out[q])
    BY <2>1 DEF TodoIsFresh
  <2>4. CASE q = p
    BY <2>1, <2>2, <2>3, <2>4
  <2>5. CASE q # p
    BY <2>1, <2>3, <2>5 DEF TodoIsFresh
  <2> QED BY <2>4, <2>5
<1>2. ASSUME NEW p \in Poller, NEW m \in MsgId, PollGet(p, m) PROVE TodoIsFresh'
  <2>1. /\ pDev' = pDev
        /\ \A q \in Poller : q # p => todo'[q] = todo[q]
        /\ \A n \in MsgId : todo'[p][n] = IF n = m THEN NoRef ELSE todo[p][n]
    BY <1>2 DEF PollGet, TypeOK
  <2>2. \A q \in Poller : \A n \in Ids(out'[q]) : n \in Ids(out[q]) \/ (q = p /\ n = m)
    <3>1. CASE ~Stored(m)
      BY <1>2, <3>1 DEF PollGet
    <3>2. CASE Stored(m)
      <4> DEFINE e == [id |-> m, enqueuedAt |-> stamp[m]]
      <4>1. out' = [out EXCEPT ![p] = Append(@, e)]
        BY <1>2, <3>2, Zenon DEF PollGet
      <4>2. e \in Entry /\ e.id = m
        BY DEF Entry, TypeOK
      <4>3. out[p] \in Seq(Entry)
        BY DEF TypeOK
      <4> HIDE DEF e
      <4>4. out'[p] = Append(out[p], e) /\ \A q \in Poller : q # p => out'[q] = out[q]
        BY <4>1 DEF TypeOK
      <4>5. Ids(out'[p]) \subseteq Ids(out[p]) \cup {m}
        BY <4>2, <4>3, <4>4, AppendAddsOneId
      <4> QED BY <4>4, <4>5
    <3> QED BY <3>1, <3>2
  <2>3. SUFFICES ASSUME NEW q \in Poller, NEW n \in MsgId, todo'[q][n] # NoRef
                 PROVE  Recipient[n] = pDev[q] /\ n \notin Ids(out'[q])
    BY <2>1 DEF TodoIsFresh
  <2>4. todo[q][n] # NoRef /\ (q = p => n # m)
    BY <2>1, <2>3
  <2> QED BY <2>2, <2>4 DEF TodoIsFresh
<1>3. ASSUME NEW p \in Poller, PollForget(p) PROVE TodoIsFresh'
  <2>1. /\ \A m \in MsgId : todo'[p][m] = NoRef
        /\ \A q \in Poller : q # p => todo'[q] = todo[q] /\ pDev'[q] = pDev[q] /\ out'[q] = out[q]
    BY <1>3 DEF PollForget, TypeOK
  <2> QED BY <2>1, Zenon DEF TodoIsFresh
<1>4. ASSUME NEW p \in Poller, PollRespond(p) \/ PollFails(p) PROVE TodoIsFresh'
  BY <1>3, <1>4 DEF PollRespond, PollFails
<1>5. CASE \/ \E s \in Sender : \/ SendExec(s) \/ SendAccepted(s) \/ SendFails(s)
                                \/ \E m \in MsgId : SendBegin(s, m)
           \/ \E p \in Poller : PollClean(p)
           \/ \E m \in delivered : Acknowledge(m)
           \/ Tick
           \/ RedisRestart
           \/ UNCHANGED vars
  <2>1. UNCHANGED <<todo, pDev, out>>
    BY <1>5, Zenon DEF SendExec, SendAccepted, SendFails, SendBegin, PollClean, Acknowledge,
                       Tick, RedisRestart, vars, pollVars
  <2> QED BY <2>1, Zenon DEF TodoIsFresh
<1> QED BY <1>1, <1>2, <1>4, <1>5 DEF Next

-----------------------------------------------------------------------------
\* Everything the mapping of a step needs.
AllInv ==
    /\ TypeOK /\ QueueInv /\ PollInv /\ IdleIsEmpty /\ OrderInv
    /\ StampedBefore /\ TodoIsFresh

LEMMA AllInit == Init => AllInv
BY TypeInit, QueueInit, PollInit, IdleInit, OrderInit, StampedInit, FreshInit DEF AllInv

LEMMA AllStep == AllInv /\ [Next]_vars => AllInv'
BY TypeStep, QueueStep, PollInvStep, IdleStep, OrderStep, StampedStep, FreshStep DEF AllInv

-----------------------------------------------------------------------------
LEMMA MailInit == Init => Mail!Init
<1> SUFFICES ASSUME Init PROVE Mail!Init
  OBVIOUS
<1>1. pDev \in [Poller -> Device]
  BY ParkedInDomain DEF Init
<1>2. /\ [p \in Poller |-> pPc[p] # "idle"] = [p \in Poller |-> FALSE]
      /\ [p \in Poller |-> Owed(p)] = [p \in Poller |-> {}]
  BY DEF Init, Owed
<1> QED BY <1>1, <1>2 DEF Init, Mail!Init

\* What is owed when the messages in S go away or are stored again.
LEMMA OwedWithout ==
    ASSUME AllInv, NEW S \in SUBSET MsgId, UNCHANGED since,
           \A m \in MsgId \ S : blobExp'[m] = blobExp[m] /\ execs'[m] = execs[m],
           \A m \in S : ~Stored(m)' \/ execs'[m] = execs[m] + 1
    PROVE  Mail!NoLongerOwed(S)
<1>1. ASSUME NEW p \in Poller PROVE Owed(p)' = Owed(p) \ S
  <2>1. ASSUME NEW m \in since[p] PROVE m \in Owed(p)' <=> m \in Owed(p) /\ m \notin S
    <3>1. m \in MsgId /\ execs[m] \in Nat /\ execs[m] >= 1
      BY DEF AllInv, TypeOK, PollInv
    <3>2. CASE m \in S
      BY <3>1, <3>2 DEF Owed
    <3>3. CASE m \notin S
      BY <3>1, <3>3 DEF Owed, Stored
    <3> QED BY <3>2, <3>3
  <2>2. Owed(p) \subseteq since[p] /\ Owed(p)' \subseteq since[p]
    BY DEF Owed
  <2> QED BY <2>1, <2>2
<1> QED BY <1>1 DEF Mail!NoLongerOwed

\* A poll that ends.
LEMMA PollEnds ==
    ASSUME AllInv, NEW p \in Poller, pPc[p] # "idle", PollForget(p),
           UNCHANGED <<clock, redisVars, execs>>
    PROVE  Mail!Leave(p)
<1>1. /\ pPc' = [pPc EXCEPT ![p] = "idle"]
      /\ pDev' = [pDev EXCEPT ![p] = AnyDevice]
      /\ since' = [since EXCEPT ![p] = {}]
      /\ out' = [out EXCEPT ![p] = <<>>]
      /\ UNCHANGED <<clock, stamp, blobExp, execs>>
      /\ TypeOK
  BY DEF PollForget, redisVars, AllInv
<1>2. pDev' \in [Poller -> Device] /\ \A r \in Poller \ {p} : pDev'[r] = pDev[r]
  BY <1>1, ParkedInDomain DEF TypeOK
<1>3. [q \in Poller |-> pPc'[q] # "idle"]
        = [[q \in Poller |-> pPc[q] # "idle"] EXCEPT ![p] = FALSE]
  BY <1>1 DEF TypeOK
<1>4. [q \in Poller |-> Owed(q)'] = [[q \in Poller |-> Owed(q)] EXCEPT ![p] = {}]
  <2>1. Owed(p)' = {}
    BY <1>1 DEF Owed, TypeOK
  <2>2. \A q \in Poller \ {p} : Owed(q)' = Owed(q)
    BY <1>1 DEF Owed, Stored, TypeOK
  <2> QED BY <2>1, <2>2
<1> QED BY <1>1, <1>2, <1>3, <1>4 DEF Mail!Leave, Mail!boxVars

\* Every step is a step of the mailbox or leaves it alone.
LEMMA MailStep == AllInv /\ [Next]_vars => [Mail!Next]_Mail!vars
<1> SUFFICES ASSUME AllInv, [Next]_vars PROVE [Mail!Next]_Mail!vars
  OBVIOUS
<1> USE DEF AllInv
<1>0. TypeOK'
  BY TypeStep
<1>a. ASSUME UNCHANGED <<clock, stamp, blobExp, execs, pPc, pDev, out, since, delivered>>
      PROVE  UNCHANGED Mail!vars
  <2>1. \A p \in Poller : Owed(p)' = Owed(p)
    BY <1>a DEF Owed, Stored
  <2>2. [p \in Poller |-> Owed(p)'] = [p \in Poller |-> Owed(p)]
    BY <2>1
  <2> QED BY <1>a, <2>2 DEF Mail!vars, Mail!boxVars, Mail!pollVars
<1>1. ASSUME NEW s \in Sender, SendExec(s) PROVE Mail!Next
  <2> DEFINE m == sMsg[s]
  <2>1. /\ m \in MsgId
        /\ stamp' = [stamp EXCEPT ![m] = sNow[s]]
        /\ blobExp' = [blobExp EXCEPT ![m] = clock + TTL]
        /\ execs' = [execs EXCEPT ![m] = @ + 1]
        /\ UNCHANGED <<clock, pPc, pDev, out, since, delivered>>
    BY <1>1 DEF SendExec, StoreAndReference, pollVars, TypeOK
  <2>2. sNow[s] \in 1 .. clock
    BY <1>1 DEF SendExec, StampedBefore, TypeOK
  <2> HIDE DEF m
  <2>3. /\ \A n \in MsgId \ {m} : blobExp'[n] = blobExp[n] /\ execs'[n] = execs[n]
        /\ execs'[m] = execs[m] + 1
    BY <2>1 DEF TypeOK
  <2>4. Mail!NoLongerOwed({m})
    BY <2>1, <2>3, OwedWithout
  <2>5. Mail!Put(m, sNow[s])
    BY <2>1, <2>2, <2>4 DEF Mail!Put, Mail!pollVars
  <2> QED BY <2>1, <2>2, <2>5 DEF Mail!Next
<1>2. ASSUME NEW p \in Poller, NEW d \in Device, PollList(p, d) PROVE Mail!Next
  <2>1. /\ pPc[p] = "idle"
        /\ pPc' = [pPc EXCEPT ![p] = pPc'[p]] /\ pPc'[p] # "idle"
        /\ pDev' = [pDev EXCEPT ![p] = d]
        /\ since' = [since EXCEPT ![p] = {m \in For(d) : Stored(m)}]
        /\ UNCHANGED <<clock, stamp, blobExp, execs, out, delivered>>
    BY <1>2 DEF PollList, redisVars, histVars, TypeOK
  <2>2. [q \in Poller |-> pPc'[q] # "idle"]
          = [[q \in Poller |-> pPc[q] # "idle"] EXCEPT ![p] = TRUE]
    BY <2>1 DEF TypeOK
  <2>3. [q \in Poller |-> Owed(q)'] = [[q \in Poller |-> Owed(q)] EXCEPT ![p] =
             {m \in MsgId : Recipient[m] = d /\ blobExp[m] # 0 /\ execs[m] = 1}]
    <3>1. Owed(p)' = {m \in MsgId : Recipient[m] = d /\ blobExp[m] # 0 /\ execs[m] = 1}
      BY <2>1 DEF Owed, Stored, For, TypeOK
    <3>2. \A q \in Poller \ {p} : Owed(q)' = Owed(q)
      BY <2>1 DEF Owed, Stored, TypeOK
    <3> QED BY <3>1, <3>2
  <2>4. Mail!Open(p, d)
    BY <2>1, <2>2, <2>3 DEF Mail!Open, Mail!Kept, Mail!boxVars
  <2> QED BY <2>4 DEF Mail!Next
<1>3. ASSUME NEW p \in Poller, NEW m \in MsgId, PollGet(p, m) PROVE [Mail!Next]_Mail!vars
  <2>1. /\ pPc[p] = "get"
        /\ pPc' = [pPc EXCEPT ![p] = AfterGet(p, m)] /\ AfterGet(p, m) # "idle"
        /\ UNCHANGED <<clock, stamp, blobExp, execs, pDev, since, delivered>>
    BY <1>3 DEF PollGet, AfterGet, redisVars, histVars
  <2>2. [q \in Poller |-> pPc'[q] # "idle"] = [q \in Poller |-> pPc[q] # "idle"]
    BY <2>1 DEF TypeOK
  <2>3. [q \in Poller |-> Owed(q)'] = [q \in Poller |-> Owed(q)]
    BY <2>1 DEF Owed, Stored
  <2>4. CASE Stored(m)
    <3>1. out' = [out EXCEPT ![p] = Append(@, [id |-> m, enqueuedAt |-> stamp[m]])]
      BY <1>3, <2>4, Zenon DEF PollGet
    <3>2. Recipient[m] = pDev[p] /\ m \notin Ids(out[p])
      BY <1>3 DEF PollGet, NextIds, TodoIsFresh
    <3>3. Mail!Take(p, m)
      BY <2>1, <2>2, <2>3, <2>4, <3>1, <3>2, Zenon
      DEF Mail!Take, Mail!Kept, Mail!In, Mail!boxVars, Ids, Stored
    <3> QED BY <3>3 DEF Mail!Next
  <2>5. CASE ~Stored(m)
    <3>1. out' = out
      BY <1>3, <2>5, Zenon DEF PollGet
    <3> QED BY <2>1, <2>2, <2>3, <3>1 DEF Mail!vars, Mail!boxVars, Mail!pollVars
  <2> QED BY <2>4, <2>5
<1>4. ASSUME NEW p \in Poller, PollClean(p) PROVE UNCHANGED Mail!vars
  <2>1. /\ pPc[p] = "zrem" /\ pPc' = [pPc EXCEPT ![p] = "respond"]
        /\ UNCHANGED <<clock, stamp, blobExp, execs, pDev, out, since, delivered>>
    BY <1>4 DEF PollClean, histVars
  <2>2. [q \in Poller |-> pPc'[q] # "idle"] = [q \in Poller |-> pPc[q] # "idle"]
    BY <2>1 DEF TypeOK
  <2>3. [q \in Poller |-> Owed(q)'] = [q \in Poller |-> Owed(q)]
    BY <2>1 DEF Owed, Stored
  <2> QED BY <2>1, <2>2, <2>3 DEF Mail!vars, Mail!boxVars, Mail!pollVars
<1>5. ASSUME NEW p \in Poller, PollRespond(p) PROVE Mail!Next
  <2>1. Mail!Leave(p)
    BY <1>5, PollEnds DEF PollRespond
  <2>2. Owed(p) \subseteq Ids(out[p])
    <3>1. ASSUME NEW m \in Owed(p) PROVE m \in Ids(out[p])
      <4>1. m \in MsgId /\ m \in since[p] /\ Stored(m) /\ execs[m] = 1
        BY DEF Owed, TypeOK
      <4> QED BY <1>5, <4>1 DEF PollRespond, PollInv
    <3> QED BY <3>1
  <2>3. Mail!InOrder(out[p])
    BY Zenon DEF Mail!InOrder, OrderInv, FifoAnswer
  <2>4. delivered' = delivered \cup Ids(out[p])
    BY <1>5 DEF PollRespond
  <2>5. Mail!Close(p)
    BY <2>1, <2>2, <2>3, <2>4 DEF Mail!Close, Mail!In, Ids
  <2> QED BY <2>5 DEF Mail!Next
<1>6. ASSUME NEW p \in Poller, PollFails(p) PROVE Mail!Next
  <2>1. Mail!Leave(p) /\ UNCHANGED delivered
    BY <1>6, PollEnds DEF PollFails, histVars
  <2> QED BY <2>1 DEF Mail!Abort, Mail!Next
<1>b. \* Copies that go away.
      ASSUME NEW S \in SUBSET MsgId,
             \A m \in MsgId : stamp'[m] = IF m \in S THEN 0 ELSE stamp[m],
             \A m \in MsgId : blobExp'[m] = IF m \in S THEN 0 ELSE blobExp[m],
             UNCHANGED <<execs, pPc, pDev, out, since, delivered>>
      PROVE  Mail!Remove(S)
  <2>1. Mail!NoLongerOwed(S)
    <3>1. /\ \A m \in MsgId \ S : blobExp'[m] = blobExp[m] /\ execs'[m] = execs[m]
          /\ \A m \in S : ~Stored(m)'
      BY <1>b DEF Stored
    <3> QED BY <1>b, <3>1, OwedWithout
  <2>2. /\ stamp' = [m \in MsgId |-> IF m \in S THEN 0 ELSE stamp[m]]
        /\ blobExp' = [m \in MsgId |-> IF m \in S THEN 0 ELSE blobExp[m]]
    BY <1>0, <1>b DEF TypeOK
  <2> QED BY <1>b, <2>1, <2>2 DEF Mail!Remove, Mail!pollVars
<1>7. ASSUME NEW m \in MsgId, m \in delivered, Acknowledge(m) PROVE Mail!Next
  <2>1. /\ m \in delivered
        /\ \A n \in MsgId : stamp'[n] = IF n \in {m} THEN 0 ELSE stamp[n]
        /\ \A n \in MsgId : blobExp'[n] = IF n \in {m} THEN 0 ELSE blobExp[n]
        /\ UNCHANGED <<clock, execs, pPc, pDev, out, since, delivered>>
    BY <1>7 DEF Acknowledge, pollVars, TypeOK
  <2>2. Mail!Remove({m})
    BY <1>b, <2>1
  <2> QED BY <2>1, <2>2 DEF Mail!Destroy, Mail!Next
<1>8. CASE Tick
  <2> DEFINE S == {m \in MsgId : blobExp[m] <= clock'}
  <2>1. /\ clock' = clock + 1
        /\ \A m \in MsgId : stamp'[m] = IF blobExp[m] > clock' THEN stamp[m] ELSE 0
        /\ \A m \in MsgId : blobExp'[m] = IF blobExp[m] > clock' THEN blobExp[m] ELSE 0
        /\ UNCHANGED <<execs, pPc, pDev, out, since, delivered>>
    BY <1>8 DEF Tick, ExpireKeys, pollVars, histVars
  <2>2. \A m \in MsgId : m \in S <=> ~(blobExp[m] > clock')
    BY <1>0 DEF TypeOK
  <2>3. S \in SUBSET MsgId
    OBVIOUS
  <2> HIDE DEF S
  <2>4. Mail!Remove(S)
    BY <1>b, <2>1, <2>2, <2>3
  <2> QED BY <2>1, <2>4 DEF S, Mail!Advance, Mail!Next
<1>9. CASE RedisRestart
  <2>1. /\ \A m \in MsgId : stamp'[m] = 0 /\ blobExp'[m] = 0
        /\ UNCHANGED <<clock, execs, pPc, pDev, out, since, delivered>>
    BY <1>9 DEF RedisRestart, pollVars, histVars
  <2>2. Mail!Remove(MsgId)
    BY <1>b, <2>1
  <2> QED BY <2>1, <2>2 DEF Mail!Wipe, Mail!Next
<1>10. CASE \/ \E s \in Sender : \/ SendAccepted(s) \/ SendFails(s)
                                 \/ \E m \in MsgId : SendBegin(s, m)
            \/ UNCHANGED vars
  <2>1. UNCHANGED <<clock, stamp, blobExp, execs, pPc, pDev, out, since, delivered>>
    BY <1>10, Zenon
    DEF SendAccepted, SendFails, SendBegin, vars, redisVars, pollVars, histVars
  <2> QED BY <1>a, <2>1
<1>11. delivered \subseteq MsgId
  BY DEF TypeOK
<1> QED
  BY <1>1, <1>2, <1>3, <1>4, <1>5, <1>6, <1>7, <1>8, <1>9, <1>10, <1>11 DEF Next

\* The message queue is a mailbox: Redis keys with two TTLs, polls of many GETs
\* with a clean-up, retries, lost handlers and restarts show their users
\* nothing that module Mailbox does not allow (message_queue_service.ts:63-220).
THEOREM QueueIsAMailbox == Spec => ImplementsMailbox
<1>1. Spec => []AllInv
  BY AllInit, AllStep, PTL DEF Spec
<1>2. Init => Mail!Init
  BY MailInit
<1>3. AllInv /\ [Next]_vars => [Mail!Next]_Mail!vars
  BY MailStep
<1> QED BY <1>1, <1>2, <1>3, PTL DEF Spec, ImplementsMailbox, Mail!Spec

=============================================================================
