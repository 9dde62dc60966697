-------------------------- MODULE ChainProxy_proofs --------------------------
(* Proofs about the balance cache and the round robin.                       *)
EXTENDS ChainProxy, Division

-----------------------------------------------------------------------------
(* Types                                                                     *)

\* Every chain has a provider, and the counter picks one of its slots.
LEMMA SlotPicked ==
    ASSUME TypeOK, NEW c \in Chain
    PROVE  /\ Len(Endpoints[c]) \in Nat \ {0}
           /\ counter[c] \in Nat
           /\ counter[c] % Len(Endpoints[c]) \in Slots(c)
<1>1. Len(Endpoints[c]) \in Nat \ {0}
  BY EndpointAssumption
<1>2. counter[c] \in Nat
  BY DEF TypeOK
<1> QED
  BY <1>1, <1>2, DivMod DEF Slots

LEMMA AnyKeyIsKey == AnyKey \in Key
BY ChainAssumption DEF AnyKey

LEMMA InitTypeOK == Init => TypeOK
BY AnyKeyIsKey, ChainAssumption DEF Init, TypeOK, None

\* getEndpoint keeps the counters and the history of requests well typed.
LEMMA GetEndpointType ==
    ASSUME TypeOK, NEW c \in Chain, GetEndpoint(c)
    PROVE  /\ counter' \in [Chain -> Nat]
           /\ DOMAIN asked' = Chain
           /\ \A d \in Chain : asked'[d] \in [Slots(d) -> Nat]
<1>1. counter' \in [Chain -> Nat] /\ DOMAIN asked' = Chain
  BY DEF TypeOK, GetEndpoint
<1>2. ASSUME NEW d \in Chain
      PROVE  asked'[d] \in [Slots(d) -> Nat]
  <2> DEFINE i == counter[c] % Len(Endpoints[c])
  <2>1. i \in Slots(c)
    BY SlotPicked
  <2>2. asked' = [asked EXCEPT ![c] = [asked[c] EXCEPT ![i] = @ + 1]]
    BY DEF GetEndpoint
  <2>3. [asked[c] EXCEPT ![i] = @ + 1] \in [Slots(c) -> Nat]
    BY <2>1 DEF TypeOK
  <2> QED
    BY <2>2, <2>3 DEF TypeOK
<1> QED
  BY <1>1, <1>2

LEMMA NextTypeOK == TypeOK /\ [Next]_vars => TypeOK'
<1> SUFFICES ASSUME TypeOK, [Next]_vars
             PROVE  TypeOK'
  OBVIOUS
<1>1. ASSUME NEW c \in Chain, Forward(c)
      PROVE  TypeOK'
  BY <1>1, GetEndpointType DEF TypeOK, Forward, cacheVars, reqVars, Slots
<1>2. ASSUME NEW h \in Handler, NEW k \in Key, BalanceHit(h, k)
      PROVE  TypeOK'
  BY <1>2 DEF TypeOK, BalanceHit, vars, cacheVars, rrVars, reqVars, Slots
<1>3. ASSUME NEW h \in Handler, NEW k \in Key, BalanceMiss(h, k)
      PROVE  TypeOK'
  <2>1. GetEndpoint(ChainOf[k]) /\ ChainOf[k] \in Chain
    BY <1>3, ChainAssumption DEF BalanceMiss
  <2>2. /\ counter' \in [Chain -> Nat]
        /\ DOMAIN asked' = Chain
        /\ \A d \in Chain : asked'[d] \in [Slots(d) -> Nat]
    BY <2>1, GetEndpointType
  <2> QED
    BY <1>3, <2>2 DEF TypeOK, BalanceMiss, cacheVars, Slots
<1>4. ASSUME NEW h \in Handler, ProviderReads(h)
      PROVE  TypeOK'
  <2>1. PICK at \in Nat : hRead' = [hRead EXCEPT ![h] = at]
    BY <1>4 DEF TypeOK, ProviderReads, None
  <2>2. hRead' \in [Handler -> Nat] /\ pc' \in [Handler -> {"idle", "sent", "read"}]
    BY <1>4, <2>1 DEF TypeOK, ProviderReads
  <2> QED
    BY <1>4, <2>2 DEF TypeOK, ProviderReads, cacheVars, rrVars, Slots
<1>5. ASSUME NEW h \in Handler, BalanceStore(h)
      PROVE  TypeOK'
  <2> DEFINE at == [cachedAt EXCEPT ![hKey[h]] = clock]
  <2>1. hKey[h] \in Key /\ hRead[h] \in Nat /\ clock \in Nat
    BY DEF TypeOK
  <2>2. at \in [Key -> Nat]
    BY <2>1 DEF TypeOK
  <2>3. cachedAt' \in [Key -> Nat]
    BY <1>5, <2>2 DEF BalanceStore, Pruned, None
  <2>4. balance' \in [Key -> Nat]
    BY <1>5, <2>1 DEF BalanceStore, TypeOK, None
  <2>5. /\ lastStore' \in [Key -> Nat] /\ newest' \in Nat
        /\ sentAt' \in [Key -> Nat]
    BY <1>5, <2>1 DEF BalanceStore, TypeOK
  <2>6. /\ pc' \in [Handler -> {"idle", "sent", "read"}]
        /\ hKey' \in [Handler -> Key]
        /\ hFrom' \in [Handler -> Nat]
        /\ hRead' \in [Handler -> Nat]
    BY <1>5, AnyKeyIsKey DEF BalanceStore, Forget, TypeOK, None
  <2> QED
    BY <1>5, <2>3, <2>4, <2>5, <2>6 DEF BalanceStore, rrVars, TypeOK, Slots
<1>6. ASSUME NEW h \in Handler, BalanceError(h)
      PROVE  TypeOK'
  BY <1>6, AnyKeyIsKey DEF TypeOK, BalanceError, Forget, cacheVars, rrVars, Slots, None
<1>7. CASE Tick
  BY <1>7 DEF TypeOK, Tick, cacheVars, rrVars, reqVars, Slots, None
<1>8. CASE UNCHANGED vars
  BY <1>8 DEF TypeOK, vars, cacheVars, rrVars, reqVars, Slots
<1> QED
  BY <1>1, <1>2, <1>3, <1>4, <1>5, <1>6, <1>7, <1>8 DEF Next

\* Every reachable state of the proxy is well typed.
THEOREM TypeCorrect == Spec => []TypeOK
<1> QED
  BY InitTypeOK, NextTypeOK, PTL DEF Spec

-----------------------------------------------------------------------------
(* The round robin                                                           *)

\* The providers before the counter's slot have had one request more than the
\* others, who are all level.
SpreadInv ==
    \A c \in Chain : \E q \in Nat : \A i \in Slots(c) :
        asked[c][i] = IF i < counter[c] % Len(Endpoints[c]) THEN q + 1 ELSE q

LEMMA InitSpread == Init => SpreadInv
<1> SUFFICES ASSUME Init, NEW c \in Chain
             PROVE  \E q \in Nat : \A i \in Slots(c) :
                       asked[c][i] = IF i < counter[c] % Len(Endpoints[c])
                                     THEN q + 1 ELSE q
  BY DEF SpreadInv
<1>1. counter[c] % Len(Endpoints[c]) = 0
  <2>1. Len(Endpoints[c]) \in Nat \ {0} /\ counter[c] = 0
    BY EndpointAssumption DEF Init
  <2>2. \A n \in Nat \ {0} : 0 % n = 0
    BY Z3T(30)
  <2> QED
    BY <2>1, <2>2
<1>2. \A i \in Slots(c) : asked[c][i] = 0 /\ ~(i < 0)
  BY EndpointAssumption DEF Init, Slots
<1> QED
  BY <1>1, <1>2

\* One more request keeps the shares even.
LEMMA GetEndpointSpread ==
    ASSUME TypeOK, SpreadInv, NEW c \in Chain, GetEndpoint(c)
    PROVE  SpreadInv'
<1> SUFFICES ASSUME NEW d \in Chain
             PROVE  \E q \in Nat : \A i \in Slots(d) :
                       asked'[d][i] = IF i < counter'[d] % Len(Endpoints[d])
                                      THEN q + 1 ELSE q
  BY DEF SpreadInv, Slots
<1>1. CASE d # c
  <2>1. asked'[d] = asked[d] /\ counter'[d] = counter[d]
    BY <1>1 DEF GetEndpoint, TypeOK
  <2> QED
    BY <2>1 DEF SpreadInv
<1>2. CASE d = c
  <2> DEFINE n == Len(Endpoints[c])
             r == counter[c] % n
  <2>1. n \in Nat \ {0} /\ counter[c] \in Nat /\ r \in Slots(c)
    BY SlotPicked
  <2>2. counter'[c] % n = IF r = n - 1 THEN 0 ELSE r + 1
    <3>1. counter'[c] = counter[c] + 1
      BY DEF GetEndpoint, TypeOK
    <3> QED
      BY <3>1, <2>1, NextRemainder
  <2>3. asked'[c] = [asked[c] EXCEPT ![r] = @ + 1]
    BY DEF GetEndpoint, TypeOK
  <2>4. PICK q \in Nat : \A i \in Slots(c) : asked[c][i] = IF i < r THEN q + 1 ELSE q
    BY DEF SpreadInv
  <2>5. asked[c] \in [Slots(c) -> Nat]
    BY DEF TypeOK
  <2>6. \A i \in Slots(c) : asked'[c][i] = IF i =< r THEN q + 1 ELSE q
    <3> HIDE DEF r, n
    <3>1. Slots(c) \subseteq Int
      BY DEF Slots
    <3> QED
      BY <2>1, <2>3, <2>4, <2>5, <3>1
  <2>7. Slots(c) = 0 .. n - 1
    BY DEF Slots
  <2>8. \E p \in Nat : \A i \in Slots(c) :
           asked'[c][i] = IF i < counter'[c] % n THEN p + 1 ELSE p
    <3> HIDE DEF r, n
    <3>1. CASE r = n - 1
      <4>1. \A i \in Slots(c) : asked'[c][i] = IF i < counter'[c] % n
                                              THEN (q + 1) + 1 ELSE q + 1
        BY <3>1, <2>1, <2>2, <2>6, <2>7
      <4> QED
        BY <4>1
    <3>2. CASE r # n - 1
      <4>1. \A i \in Slots(c) : asked'[c][i] = IF i < counter'[c] % n
                                              THEN q + 1 ELSE q
        BY <3>2, <2>1, <2>2, <2>6, <2>7
      <4> QED
        BY <4>1
    <3> QED
      BY <3>1, <3>2
  <2> QED
    BY <1>2, <2>8
<1> QED
  BY <1>1, <1>2

LEMMA NextSpread == TypeOK /\ SpreadInv /\ [Next]_vars => SpreadInv'
<1> SUFFICES ASSUME TypeOK, SpreadInv, [Next]_vars
             PROVE  SpreadInv'
  OBVIOUS
<1>1. ASSUME NEW c \in Chain, Forward(c)
      PROVE  SpreadInv'
  BY <1>1, GetEndpointSpread DEF Forward
<1>2. ASSUME NEW h \in Handler, NEW k \in Key, BalanceMiss(h, k)
      PROVE  SpreadInv'
  BY <1>2, GetEndpointSpread, ChainAssumption DEF BalanceMiss
<1>3. CASE UNCHANGED rrVars
  BY <1>3 DEF SpreadInv, rrVars, Slots
<1>4. UNCHANGED rrVars \/ (\E c \in Chain : Forward(c))
                       \/ (\E h \in Handler, k \in Key : BalanceMiss(h, k))
  BY Zenon DEF Next, BalanceHit, ProviderReads, BalanceStore, BalanceError, Tick, vars
<1> QED
  BY <1>1, <1>2, <1>3, <1>4

\* The providers of a chain get equal shares of its requests, for any number
\* of providers, chains and concurrent handlers.
THEOREM EqualShares == Spec => []RoundRobinSpread
<1>1. TypeOK /\ SpreadInv => RoundRobinSpread
  <2> SUFFICES ASSUME TypeOK, SpreadInv, NEW c \in Chain,
                      NEW i \in Slots(c), NEW j \in Slots(c), i < j
               PROVE  asked[c][i] - asked[c][j] \in {0, 1}
    BY DEF RoundRobinSpread
  <2> DEFINE r == counter[c] % Len(Endpoints[c])
  <2>1. PICK q \in Nat : \A l \in Slots(c) : asked[c][l] = IF l < r THEN q + 1 ELSE q
    BY DEF SpreadInv
  <2>2. r \in Slots(c)
    BY SlotPicked
  <2>3. i \in Int /\ j \in Int /\ r \in Int
    BY <2>2 DEF Slots
  <2> HIDE DEF r
  <2> QED
    BY <2>1, <2>3
<1> QED
  BY <1>1, InitSpread, NextSpread, TypeCorrect, PTL DEF Spec

-----------------------------------------------------------------------------
(* The cache                                                                 *)

\* A balance a request carries was read after the request was sent, and an entry
\* dates from the last store of its key and the request behind it.
AgeInv ==
    /\ \A h \in Handler :
          pc[h] = "read" /\ hRead[h] # None => hFrom[h] <= hRead[h]
    /\ \A h \in Handler : hFrom[h] <= clock
    /\ \A k \in Key :
          cachedAt[k] # None =>
              /\ cachedAt[k] = lastStore[k]
              /\ balance[k] # None => sentAt[k] <= balance[k]

LEMMA InitAge == Init => AgeInv
BY DEF Init, AgeInv, None

LEMMA NextAge == TypeOK /\ AgeInv /\ [Next]_vars => AgeInv'
<1> SUFFICES ASSUME TypeOK, AgeInv, [Next]_vars
             PROVE  AgeInv'
  OBVIOUS
<1>1. ASSUME NEW h \in Handler, NEW k \in Key, BalanceMiss(h, k)
      PROVE  AgeInv'
  BY <1>1 DEF AgeInv, TypeOK, BalanceMiss, cacheVars
<1>2. ASSUME NEW h \in Handler, ProviderReads(h)
      PROVE  AgeInv'
  BY <1>2 DEF AgeInv, TypeOK, ProviderReads, cacheVars
<1>3. ASSUME NEW h \in Handler, BalanceStore(h)
      PROVE  AgeInv'
  <2>1. ASSUME NEW g \in Handler
        PROVE  /\ pc'[g] = "read" /\ hRead'[g] # None => hFrom'[g] <= hRead'[g]
               /\ hFrom'[g] <= clock'
    BY <1>3 DEF AgeInv, TypeOK, BalanceStore, Forget, None
  <2>2. ASSUME NEW l \in Key, cachedAt'[l] # None
        PROVE  /\ cachedAt'[l] = lastStore'[l]
               /\ balance'[l] # None => sentAt'[l] <= balance'[l]
    <3>1. CASE l = hKey[h]
      <4>1. /\ cachedAt'[l] = clock /\ lastStore'[l] = clock
            /\ balance'[l] = hRead[h] /\ sentAt'[l] = hFrom[h]
        BY <1>3, <2>2, <3>1 DEF BalanceStore, Pruned, TypeOK
      <4>2. pc[h] = "read"
        BY <1>3 DEF BalanceStore
      <4> QED
        BY <4>1, <4>2 DEF AgeInv
    <3>2. CASE l # hKey[h]
      <4>1. /\ cachedAt'[l] = cachedAt[l] /\ lastStore'[l] = lastStore[l]
            /\ balance'[l] = balance[l] /\ sentAt'[l] = sentAt[l]
        BY <1>3, <2>2, <3>2 DEF BalanceStore, Pruned, TypeOK
      <4> QED
        BY <4>1, <2>2 DEF AgeInv
    <3> QED
      BY <3>1, <3>2
  <2> QED
    BY <2>1, <2>2 DEF AgeInv
<1>4. ASSUME NEW h \in Handler, BalanceError(h)
      PROVE  AgeInv'
  BY <1>4 DEF AgeInv, TypeOK, BalanceError, Forget, cacheVars, None
<1>5. CASE Tick
  BY <1>5 DEF AgeInv, TypeOK, Tick, cacheVars, reqVars
<1>6. CASE UNCHANGED <<clock, cacheVars, reqVars>>
  BY <1>6 DEF AgeInv, cacheVars, reqVars
<1>7. ASSUME NEW c \in Chain, Forward(c)
      PROVE  UNCHANGED <<clock, cacheVars, reqVars>>
  BY <1>7 DEF Forward
<1> QED
  BY <1>1, <1>2, <1>3, <1>4, <1>5, <1>6, <1>7 DEF Next, BalanceHit, vars

\* A hit reports what was true less than a TTL ago, and the time the fetch took
\* that filled the cache, for any number of handlers and addresses: the entry is
\* dated by its answer, and nothing renews it.
THEOREM CacheAge == Spec => []CachedIsRecent
<1>1. TypeOK /\ AgeInv => CachedIsRecent
  <2> SUFFICES ASSUME TypeOK, AgeInv, NEW k \in Key, Fresh(k), balance[k] # None
               PROVE  clock - balance[k] < TTL + Lasted(k)
    BY DEF CachedIsRecent
  <2>1. cachedAt[k] # None /\ clock - cachedAt[k] < TTL
    BY DEF Fresh, Cached
  <2>2. cachedAt[k] = lastStore[k] /\ sentAt[k] <= balance[k]
    BY <2>1 DEF AgeInv
  <2> QED
    BY <2>1, <2>2, TimeAssumption DEF TypeOK, Lasted
<1> QED
  BY <1>1, InitAge, NextAge, TypeCorrect, PTL DEF Spec

\* An entry within its TTL is there and dates from the last store of its key.
EntryInv ==
    \A k \in Key :
        /\ lastStore[k] <= clock /\ lastAsk[k] <= clock
        /\ lastStore[k] # None /\ lastStore[k] + TTL >= clock
              => cachedAt[k] = lastStore[k]
        /\ lastStore[k] # None => \/ lastAsk[k] <= lastStore[k]
                                  \/ lastAsk[k] >= lastStore[k] + TTL

LEMMA InitEntry == Init => EntryInv
BY DEF Init, EntryInv, None

LEMMA NextEntry == TypeOK /\ EntryInv /\ [Next]_vars => EntryInv'
<1> SUFFICES ASSUME TypeOK, EntryInv, [Next]_vars
             PROVE  EntryInv'
  OBVIOUS
<1> USE TimeAssumption
<1>1. ASSUME NEW h \in Handler, NEW k \in Key, BalanceMiss(h, k)
      PROVE  EntryInv'
  <2>1. lastStore[k] # None => clock >= lastStore[k] + TTL
    BY <1>1 DEF EntryInv, TypeOK, BalanceMiss, Fresh, Cached
  <2> QED
    BY <1>1, <2>1 DEF EntryInv, TypeOK, BalanceMiss, cacheVars
<1>2. ASSUME NEW h \in Handler, BalanceStore(h)
      PROVE  EntryInv'
  <2>1. ASSUME NEW l \in Key
        PROVE  /\ lastStore'[l] <= clock' /\ lastAsk'[l] <= clock'
               /\ lastStore'[l] # None /\ lastStore'[l] + TTL >= clock'
                     => cachedAt'[l] = lastStore'[l]
               /\ lastStore'[l] # None => \/ lastAsk'[l] <= lastStore'[l]
                                          \/ lastAsk'[l] >= lastStore'[l] + TTL
    <3>1. CASE l = hKey[h]
      <4>1. lastStore'[l] = clock /\ lastAsk'[l] = lastAsk[l] /\ clock' = clock
        BY <1>2, <3>1 DEF BalanceStore, TypeOK
      <4>2. cachedAt'[l] = clock
        BY <1>2, <3>1 DEF BalanceStore, Pruned, TypeOK
      <4> QED
        BY <4>1, <4>2 DEF EntryInv, TypeOK
    <3>2. CASE l # hKey[h]
      <4>1. lastStore'[l] = lastStore[l] /\ lastAsk'[l] = lastAsk[l] /\ clock' = clock
        BY <1>2, <3>2 DEF BalanceStore, TypeOK
      <4>2. lastStore[l] # None /\ lastStore[l] + TTL >= clock
               => cachedAt'[l] = lastStore[l]
        BY <1>2, <3>2 DEF BalanceStore, Pruned, EntryInv, TypeOK
      <4> QED
        BY <4>1, <4>2 DEF EntryInv
    <3> QED
      BY <3>1, <3>2
  <2> QED
    BY <2>1 DEF EntryInv
<1>3. CASE Tick
  BY <1>3 DEF EntryInv, TypeOK, Tick, cacheVars
<1>4. CASE UNCHANGED <<clock, cacheVars, lastAsk>>
  BY <1>4 DEF EntryInv, cacheVars
<1>5. \/ UNCHANGED <<clock, cacheVars, lastAsk>>
      \/ Tick
      \/ \E h \in Handler, k \in Key : BalanceMiss(h, k)
      \/ \E h \in Handler : BalanceStore(h)
  BY Zenon DEF Next, Forward, BalanceHit, ProviderReads, BalanceError, vars
<1> QED
  BY <1>1, <1>2, <1>3, <1>4, <1>5

\* A stored answer keeps every request for its key from the providers for one
\* TTL, whatever else is stored or pruned meanwhile.
THEOREM AnswersShield == Spec => []StoredAnswersTTL
<1>1. EntryInv => StoredAnswersTTL
  BY DEF EntryInv, StoredAnswersTTL
<1> QED
  BY <1>1, InitEntry, NextEntry, TypeCorrect, PTL DEF Spec

LEMMA NextOverLimit == TypeOK /\ OverLimitIsRecent /\ [Next]_vars => OverLimitIsRecent'
<1> SUFFICES ASSUME TypeOK, OverLimitIsRecent, [Next]_vars
             PROVE  OverLimitIsRecent'
  OBVIOUS
<1>1. ASSUME NEW h \in Handler, BalanceStore(h)
      PROVE  OverLimitIsRecent'
  <2> DEFINE at   == [cachedAt EXCEPT ![hKey[h]] = clock]
             size == Cardinality({l \in Key : at[l] # None})
  <2>1. CASE size > Limit
    <3>1. ASSUME NEW k \in Key, cachedAt'[k] # None
          PROVE  cachedAt'[k] + TTL >= clock
      <4>1. cachedAt' = Pruned(at)
        BY <1>1, <2>1 DEF BalanceStore
      <4>2. cachedAt'[k] = at[k] /\ ~(clock - at[k] > TTL)
        BY <3>1, <4>1 DEF Pruned
      <4>3. at[k] \in Nat /\ clock \in Nat
        BY DEF TypeOK
      <4> QED
        BY <4>2, <4>3, TimeAssumption
    <3> QED
      BY <1>1, <3>1 DEF OverLimitIsRecent, Cached, BalanceStore
  <2>2. CASE ~(size > Limit)
    <3>1. cachedAt' = at
      BY <1>1, <2>2 DEF BalanceStore
    <3>2. Cached' = {l \in Key : at[l] # None}
      BY <3>1 DEF Cached
    <3> QED
      BY <2>2, <3>2 DEF OverLimitIsRecent
  <2> QED
    BY <2>1, <2>2
<1>2. CASE UNCHANGED cacheVars
  BY <1>2 DEF OverLimitIsRecent, Cached, cacheVars
<1>3. UNCHANGED cacheVars \/ \E h \in Handler : BalanceStore(h)
  BY Zenon DEF Next, Forward, BalanceHit, BalanceMiss, ProviderReads, BalanceError, Tick,
               vars, cacheVars
<1> QED
  BY <1>1, <1>2, <1>3

\* A cache over its limit holds only keys stored within a TTL of the last
\* store: its size is bounded by the traffic of one TTL.
THEOREM CacheBounded == Spec => []OverLimitIsRecent
<1>1. Init => OverLimitIsRecent
  BY DEF Init, OverLimitIsRecent, Cached
<1> QED
  BY <1>1, NextOverLimit, TypeCorrect, PTL DEF Spec

=============================================================================
