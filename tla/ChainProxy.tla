----------------------------- MODULE ChainProxy -----------------------------
(***************************************************************************)
(* The blockchain service: the balance cache and the round robin over the   *)
(* RPC providers of each chain, shared by all requests of the process.      *)
(*                                                                          *)
(*   blockchain/app/controllers/balance_controller.ts      getBalance       *)
(*   blockchain/app/controllers/rpc_proxy_controller.ts    proxy,           *)
(*                              getTransactions, broadcastTransaction       *)
(*   blockchain/app/services/chain_provider_service.ts     getEndpoint,     *)
(*                                                         configureChain   *)
(*                                                                          *)
(* JavaScript runs a handler without interruption up to its next await, so  *)
(* the look into the cache, the choice of a provider and the sending of the *)
(* request are one action, and so are the store and the pruning after the   *)
(* answer.  A balance is represented by the tick at which the provider read *)
(* it: the properties are about its age.  getBalance gives fetch no timeout *)
(* and no signal, so a fetch lasts as long as it lasts.                     *)
(*                                                                          *)
(* Both maps live in the memory of one process and start empty; a restart   *)
(* is a new behaviour.  Not covered: validation, blocked RPC methods, the   *)
(* bodies of forwarded requests (strip_metadata_middleware.ts).             *)
(***************************************************************************)
EXTENDS Integers, FiniteSets, Sequences

CONSTANTS
    Key,        \* cache keys, a chain and an address
    Chain,      \* chains
    ChainOf,    \* the chain of each key
    Provider,   \* RPC providers
    Offered,    \* the providers the constructor lists for each chain
    Usable,     \* the public providers and those whose API key is set
    Handler,    \* GET balance handlers that may run at once
    TTL,        \* CACHE_TTL_MS, in clock ticks
    Limit,      \* the cache size above which a store prunes
    MaxTime,    \* bound: the clock stops here
    MaxAsk      \* bound: requests sent for each chain

\* configureChain: a provider whose URL lacks its API key is left out.
ConfigureChain(endpoints) == SelectSeq(endpoints, LAMBDA p : p \in Usable)

Endpoints == [c \in Chain |-> ConfigureChain(Offered[c])]

ASSUME ChainAssumption    == Key # {} /\ ChainOf \in [Key -> Chain]
\* Every list of the constructor holds a public provider.
ASSUME EndpointAssumption ==
    \A c \in Chain : Endpoints[c] \in Seq(Provider) /\ Len(Endpoints[c]) > 0
ASSUME TimeAssumption     == TTL \in Nat \ {0}
ASSUME BoundAssumption    == Limit \in Nat /\ MaxTime \in Nat /\ MaxAsk \in Nat

VARIABLES
    clock,      \* Date.now()
    cachedAt,   \* cachedAt[k]: when k's entry was stored, or None
    balance,    \* balance[k]: when k's cached balance was read, or None
    counter,    \* counter[c]: roundRobinCounters
    pc,         \* pc[h]: where the balance handler h stands
    hKey,       \* hKey[h]: the key it was asked for
    hFrom,      \* hFrom[h]: when its request was sent
    hRead,      \* hRead[h]: when the provider read the balance, or None
    asked,      \* asked[c][i]: history, requests sent to provider i of c
    lastAsk,    \* lastAsk[k]: history, when a request for k was last sent
    lastStore,  \* lastStore[k]: history, when k was last stored
    sentAt,     \* sentAt[k]: history, when the request whose answer was stored
                \* for k was sent
    newest      \* history: when any key was last stored

cacheVars == <<cachedAt, balance, lastStore, sentAt, newest>>
rrVars    == <<counter, asked>>
reqVars   == <<pc, hKey, hFrom, hRead>>
vars == <<clock, cacheVars, rrVars, reqVars, lastAsk>>

\* The clock starts at 1.
None == 0

Cached    == {k \in Key : cachedAt[k] # None}
\* Where an idle handler's key is parked.
AnyKey    == CHOOSE k \in Key : TRUE
Slots(c)  == 0 .. Len(Endpoints[c]) - 1

TypeOK ==
    /\ clock \in Nat \ {None}
    /\ cachedAt \in [Key -> Nat]
    /\ balance \in [Key -> Nat]
    /\ counter \in [Chain -> Nat]
    /\ pc \in [Handler -> {"idle", "sent", "read"}]
    /\ hKey \in [Handler -> Key]
    /\ hFrom \in [Handler -> Nat]
    /\ hRead \in [Handler -> Nat]
    /\ DOMAIN asked = Chain
    /\ \A c \in Chain : asked[c] \in [Slots(c) -> Nat]
    /\ lastAsk \in [Key -> Nat]
    /\ lastStore \in [Key -> Nat]
    /\ sentAt \in [Key -> Nat]
    /\ newest \in Nat

Init ==
    /\ clock = 1
    /\ cachedAt = [k \in Key |-> None]
    /\ balance = [k \in Key |-> None]
    /\ counter = [c \in Chain |-> 0]
    /\ pc = [h \in Handler |-> "idle"]
    /\ hKey = [h \in Handler |-> AnyKey]
    /\ hFrom = [h \in Handler |-> None]
    /\ hRead = [h \in Handler |-> None]
    /\ asked = [c \in Chain |-> [i \in Slots(c) |-> 0]]
    /\ lastAsk = [k \in Key |-> None]
    /\ lastStore = [k \in Key |-> None]
    /\ sentAt = [k \in Key |-> None]
    /\ newest = None

-----------------------------------------------------------------------------
\* getEndpoint

\* Mutant of GetEndpoint: the choice of the provider does not move the counter.
GetEndpoint_Stuck(c) ==
    LET i == counter[c] % Len(Endpoints[c]) IN
    /\ counter[c] < MaxAsk
    /\ asked' = [asked EXCEPT ![c][i] = @ + 1]
    /\ UNCHANGED counter

\* The next provider of c gets a request.
GetEndpoint(c) ==
    LET i == counter[c] % Len(Endpoints[c]) IN
    /\ counter[c] < MaxAsk
    /\ asked' = [asked EXCEPT ![c][i] = @ + 1]
    /\ counter' = [counter EXCEPT ![c] = @ + 1]

\* proxy, getTransactions, broadcastTransaction: a request for c is forwarded;
\* its answer changes nothing here.
Forward(c) ==
    /\ GetEndpoint(c)
    /\ UNCHANGED <<clock, cacheVars, reqVars, lastAsk>>

-----------------------------------------------------------------------------
\* getBalance

\* The cached entry of k is young enough to answer with.
Fresh(k) == k \in Cached /\ clock - cachedAt[k] < TTL

\* Mutant of BalanceHit: a hit prolongs the life of the entry.
BalanceHit_Slides(h, k) ==
    /\ pc[h] = "idle"
    /\ Fresh(k)
    /\ cachedAt' = [cachedAt EXCEPT ![k] = clock]
    /\ UNCHANGED <<clock, balance, lastStore, sentAt, newest, rrVars, reqVars, lastAsk>>

\* Answered from the cache.
BalanceHit(h, k) ==
    /\ pc[h] = "idle"
    /\ Fresh(k)
    /\ UNCHANGED vars

\* Not cached, or too old: ask the next provider of the chain.
BalanceMiss(h, k) ==
    /\ pc[h] = "idle"
    /\ ~Fresh(k)
    /\ GetEndpoint(ChainOf[k])
    /\ pc' = [pc EXCEPT ![h] = "sent"]
    /\ hKey' = [hKey EXCEPT ![h] = k]
    /\ hFrom' = [hFrom EXCEPT ![h] = clock]
    /\ lastAsk' = [lastAsk EXCEPT ![k] = clock]
    /\ UNCHANGED <<clock, cacheVars, hRead>>

\* Mutant of ProviderReads: no default for an answer without a result.
ProviderReads_NoDefault(h) ==
    /\ pc[h] = "sent"
    /\ pc' = [pc EXCEPT ![h] = "read"]
    /\ \E at \in {clock, -1} : hRead' = [hRead EXCEPT ![h] = at]
    /\ UNCHANGED <<clock, cacheVars, rrVars, hKey, hFrom, lastAsk>>

\* The provider reads the balance; or it answers with neither a result nor an
\* error, which counts as '0x0'.
ProviderReads(h) ==
    /\ pc[h] = "sent"
    /\ pc' = [pc EXCEPT ![h] = "read"]
    /\ \E at \in {clock, None} : hRead' = [hRead EXCEPT ![h] = at]
    /\ UNCHANGED <<clock, cacheVars, rrVars, hKey, hFrom, lastAsk>>

\* The handler's locals are gone.
Forget(h) ==
    /\ pc' = [pc EXCEPT ![h] = "idle"]
    /\ hKey' = [hKey EXCEPT ![h] = AnyKey]
    /\ hFrom' = [hFrom EXCEPT ![h] = None]
    /\ hRead' = [hRead EXCEPT ![h] = None]

\* Mutants of Pruned: the whole cache is dropped; nothing is.
Pruned_All(at)     == [k \in Key |-> None]
Pruned_Nothing(at) == at

\* pruneCache on the entries `at`.
Pruned(at) == [k \in Key |-> IF clock - at[k] > TTL THEN None ELSE at[k]]

\* The answer is cached, the cache is pruned when it has grown too large, and
\* the client gets the balance.
BalanceStore(h) ==
    LET k    == hKey[h]
        at   == [cachedAt EXCEPT ![k] = clock]
        size == Cardinality({l \in Key : at[l] # None})
    IN
    /\ pc[h] = "read"
    /\ cachedAt' = IF size > Limit THEN Pruned(at) ELSE at
    /\ balance' = [l \in Key |-> IF cachedAt'[l] = None THEN None
                                 ELSE IF l = k THEN hRead[h]
                                 ELSE balance[l]]
    /\ lastStore' = [lastStore EXCEPT ![k] = clock]
    /\ sentAt' = [sentAt EXCEPT ![k] = hFrom[h]]
    /\ newest' = clock
    /\ Forget(h)
    /\ UNCHANGED <<clock, rrVars, lastAsk>>

\* 502 for an error in the answer, 503 for a fetch that failed:
\* nothing is cached.
BalanceError(h) ==
    /\ pc[h] # "idle"
    /\ Forget(h)
    /\ UNCHANGED <<clock, cacheVars, rrVars, lastAsk>>

-----------------------------------------------------------------------------
\* A tick, whatever fetches are under way.
Tick ==
    /\ clock < MaxTime
    /\ clock' = clock + 1
    /\ UNCHANGED <<cacheVars, rrVars, reqVars, lastAsk>>

Next ==
    \/ \E c \in Chain : Forward(c)
    \/ \E h \in Handler, k \in Key : BalanceHit(h, k)
    \/ \E h \in Handler, k \in Key : BalanceMiss(h, k)
    \/ \E h \in Handler : ProviderReads(h)
    \/ \E h \in Handler : BalanceStore(h)
    \/ \E h \in Handler : BalanceError(h)
    \/ Tick

Spec == Init /\ [][Next]_vars

-----------------------------------------------------------------------------
\* Safety

\* Whatever mix of balance queries, proxied calls and broadcasts comes in,
\* the providers of a chain get equal shares: their numbers of requests never
\* differ by more than one, and the earlier in the list is never behind.
RoundRobinSpread ==
    \A c \in Chain : \A i, j \in Slots(c) :
        i < j => asked[c][i] - asked[c][j] \in {0, 1}

\* How long the fetch lasted that filled k's entry.
Lasted(k) == lastStore[k] - sentAt[k]

\* The cache adds less than a TTL to the age of what it answers: a hit reports
\* what was true less than a TTL ago, and the time the fetch behind it took.
\* Neither other hits nor the stores and prunes of other handlers make it older.
CachedIsRecent ==
    \A k \in Key :
        Fresh(k) /\ balance[k] # None => clock - balance[k] < TTL + Lasted(k)

\* Once an answer is in the cache, no request for its key goes out until its
\* TTL is over; pruning for other keys does not cut this short.
StoredAnswersTTL ==
    \A k \in Key :
        lastStore[k] # None =>
            \/ lastAsk[k] <= lastStore[k]
            \/ lastAsk[k] >= lastStore[k] + TTL

\* The cache is bounded: when it is over its limit it holds only keys stored
\* within a TTL of the last store.
OverLimitIsRecent ==
    Cardinality(Cached) > Limit => \A k \in Cached : cachedAt[k] + TTL >= newest

-----------------------------------------------------------------------------
\* What a comment of the source says, and the code does not do

\* balance_controller.ts:19-20, "multiple clients querying the same address
\* within 30s generate only ONE request to the provider".
OneRequestPerWindow ==
    [][\A h \in Handler, k \in Key :
          BalanceMiss(h, k) => lastAsk[k] = None \/ clock - lastAsk[k] >= TTL]_vars

=============================================================================
