------------------------------ MODULE PreKeys ------------------------------
(***************************************************************************)
(* The identity service's pre-key store of one account: the pre_keys table  *)
(* and the two handlers that work on it.                                    *)
(*                                                                          *)
(*   identity/app/controllers/key_controller.ts   uploadPreKeys, fetchPreKey*)
(*   identity/database/migrations/002, 005, 006   the table                 *)
(*                                                                          *)
(* Rows are keyed by the client's key_id: unique(account_id, key_id) spans  *)
(* the four kinds of key, so a row is a kind and a consumed flag at a key   *)
(* id.  Key material and signatures are opaque and left out.                *)
(*                                                                          *)
(* Each statement the handlers await is a Postgres transaction of its own.  *)
(* createMany inserts its rows one by one inside one transaction; an insert *)
(* of a key id that another open transaction inserted waits for its end.    *)
(* The consuming UPDATE is two actions, the row lock of its sub-select and  *)
(* the commit, because another fetch can run in between and skip the row.   *)
(*                                                                          *)
(* Not covered: token validation, the lookups of the account (it exists     *)
(* throughout), the count in the 201 answer, which changes nothing.         *)
(***************************************************************************)
EXTENDS Integers, FiniteSets

CONSTANTS
    KeyId,      \* the key ids clients choose, positive
    Fetcher,    \* POST /v1/keys/prekey/:deviceId handlers that may run at once
    Uploader,   \* POST /v1/keys/prekeys handlers that may run at once
    Payload,    \* the uploads clients send: the key ids of each kind
    NoOne       \* the holder of a row nobody locks or writes

\* The steps of an upload, in the order of the code.
Kind == {"opk", "signed", "kyber", "last"}
Pool == {"opk", "kyber"}
NoKey == 0

ASSUME KeyAssumption     == KeyId \subseteq Nat \ {0}
ASSUME NoOneAssumption   == NoOne \notin Fetcher \cup Uploader
ASSUME FiniteAssumption  == IsFiniteSet(Fetcher) /\ IsFiniteSet(Uploader)
\* uploadPreKeysValidator: at least one one-time pre-key, at most one signed
\* and one last-resort key; nothing relates the ids of different kinds.
ASSUME PayloadAssumption ==
    /\ Payload \subseteq [Kind -> SUBSET KeyId]
    /\ \A b \in Payload :
          /\ b["opk"] # {}
          /\ \A k, l \in b["signed"] : k = l
          /\ \A k, l \in b["last"] : k = l

VARIABLES
    kind,       \* kind[k]: the kind of row k, or "none"
    consumed,   \* consumed[k]: its consumed column
    writer,     \* writer[k]: the upload whose open transaction inserted row k
    lock,       \* lock[k]: the fetch whose UPDATE holds row k
    uPc,        \* uPc[u]: the step the upload u is at
    batch,      \* batch[u]: its payload
    rest,       \* rest[u]: the ids its transaction has yet to insert
    cur,        \* cur[u]: the id it is inserting, or NoKey
    fPc,        \* fPc[f]: the step the fetch f is at
    fSigned,    \* fSigned[f]: the signed pre-key it read, or NoKey
    fOpk,       \* fOpk[f]: the one-time pre-key it consumed, or NoKey
    fKyber,     \* fKyber[f]: the one-time Kyber key it consumed, or NoKey
    fLast,      \* fLast[f]: the last-resort Kyber key it read, or NoKey
    begun,      \* begun[f]: history, the rows there when f began
    freed,      \* freed[f]: history, rows a failed fetch unlocked since then
    spent       \* spent[k]: history, how many fetches ended, with an answer
                \* or without one, holding the one-time key k

rowVars  == <<kind, consumed, writer, lock>>
upVars   == <<uPc, batch, rest, cur>>
getVars  == <<fPc, fSigned, fOpk, fKyber, fLast, begun, freed>>
vars == <<rowVars, upVars, getVars, spent>>

NoBatch == [q \in Kind |-> {}]

\* What other transactions see of the table.
Rows(q) == {k \in KeyId : kind[k] = q /\ writer[k] = NoOne}
Visible == UNION {Rows(q) : q \in Kind}

\* Mutants of Free: no "AND consumed = false"; no "is_last_resort_kyber =
\* false" in the Kyber statement.
Free_NoConsumedFilter(q) == {k \in Rows(q) : lock[k] = NoOne}
Free_LastResortToo(q) ==
    {k \in Rows(q) \cup (IF q = "kyber" THEN Rows("last") ELSE {}) :
        ~consumed[k] /\ lock[k] = NoOne}

\* The rows the sub-select of the consuming UPDATE may lock: SKIP LOCKED.
Free(q) == {k \in Rows(q) : ~consumed[k] /\ lock[k] = NoOne}

\* The one-time keys the fetch f consumed.
Holds(f, k) == k \in {fOpk[f], fKyber[f]}

\* ORDER BY key_id ASC | DESC, LIMIT 1.  Mutant of IsHighest: ASC for DESC.
IsLowest(k, S)      == k \in S /\ \A l \in S : k <= l
IsHighest_Asc(k, S) == k \in S /\ \A l \in S : k <= l
IsHighest(k, S)     == k \in S /\ \A l \in S : l <= k

-----------------------------------------------------------------------------
FetchStep == {"idle", "signed", "opk", "opkLocked", "kyber", "kyberLocked",
              "fallback", "answer"}

TypeOK ==
    /\ kind \in [KeyId -> Kind \cup {"none"}]
    /\ consumed \in [KeyId -> BOOLEAN]
    /\ writer \in [KeyId -> Uploader \cup {NoOne}]
    /\ lock \in [KeyId -> Fetcher \cup {NoOne}]
    /\ uPc \in [Uploader -> Kind \cup {"idle", "count"}]
    /\ batch \in [Uploader -> [Kind -> SUBSET KeyId]]
    /\ rest \in [Uploader -> SUBSET KeyId]
    /\ cur \in [Uploader -> KeyId \cup {NoKey}]
    /\ fPc \in [Fetcher -> FetchStep]
    /\ fSigned \in [Fetcher -> KeyId \cup {NoKey}]
    /\ fOpk \in [Fetcher -> KeyId \cup {NoKey}]
    /\ fKyber \in [Fetcher -> KeyId \cup {NoKey}]
    /\ fLast \in [Fetcher -> KeyId \cup {NoKey}]
    /\ begun \in [Fetcher -> SUBSET KeyId]
    /\ freed \in [Fetcher -> SUBSET KeyId]
    /\ spent \in [KeyId -> Nat]

\* A registered account without keys: register validates the signed pre-key
\* it is given and stores none.
Init ==
    /\ kind = [k \in KeyId |-> "none"]
    /\ consumed = [k \in KeyId |-> FALSE]
    /\ writer = [k \in KeyId |-> NoOne]
    /\ lock = [k \in KeyId |-> NoOne]
    /\ uPc = [u \in Uploader |-> "idle"]
    /\ batch = [u \in Uploader |-> NoBatch]
    /\ rest = [u \in Uploader |-> {}]
    /\ cur = [u \in Uploader |-> NoKey]
    /\ fPc = [f \in Fetcher |-> "idle"]
    /\ fSigned = [f \in Fetcher |-> NoKey]
    /\ fOpk = [f \in Fetcher |-> NoKey]
    /\ fKyber = [f \in Fetcher |-> NoKey]
    /\ fLast = [f \in Fetcher |-> NoKey]
    /\ begun = [f \in Fetcher |-> {}]
    /\ freed = [f \in Fetcher |-> {}]
    /\ spent = [k \in KeyId |-> 0]

-----------------------------------------------------------------------------
\* POST /v1/keys/prekeys

\* The step after q: the next kind the payload has keys of, else the count.
NextStep(b, q) ==
    LET Has(r) == b[r] # {} IN
    IF q = "opk" /\ Has("signed") THEN "signed"
    ELSE IF q \in {"opk", "signed"} /\ Has("kyber") THEN "kyber"
    ELSE IF q \in {"opk", "signed", "kyber"} /\ Has("last") THEN "last"
    ELSE "count"

\* Mutant of UploadBegin: a validator that lets the key id 0 through.
UploadBegin_AcceptZero(u, b) ==
    /\ uPc[u] = "idle"
    /\ uPc' = [uPc EXCEPT ![u] = "opk"]
    /\ batch' = [batch EXCEPT ![u] = b]
    /\ rest' = [rest EXCEPT ![u] = b["opk"] \cup {0}]
    /\ UNCHANGED <<rowVars, cur, getVars, spent>>

\* The request arrives; the account lookup finds the account.
UploadBegin(u, b) ==
    /\ uPc[u] = "idle"
    /\ uPc' = [uPc EXCEPT ![u] = "opk"]
    /\ batch' = [batch EXCEPT ![u] = b]
    /\ rest' = [rest EXCEPT ![u] = b["opk"]]
    /\ UNCHANGED <<rowVars, cur, getVars, spent>>

\* The transaction sends its next INSERT, in the order of the payload.
UploadNext(u, k) ==
    /\ uPc[u] \in Kind
    /\ cur[u] = NoKey
    /\ k \in rest[u]
    /\ cur' = [cur EXCEPT ![u] = k]
    /\ rest' = [rest EXCEPT ![u] = @ \ {k}]
    /\ UNCHANGED <<rowVars, uPc, batch, getVars, spent>>

\* The unique index has no entry for the key id: the row is written, for this
\* transaction to see until it commits.
UploadInsert(u) ==
    LET k == cur[u] IN
    /\ uPc[u] \in Kind
    /\ k # NoKey
    /\ kind[k] = "none"
    /\ kind' = [kind EXCEPT ![k] = uPc[u]]
    /\ writer' = [writer EXCEPT ![k] = u]
    /\ cur' = [cur EXCEPT ![u] = NoKey]
    /\ UNCHANGED <<consumed, lock, uPc, batch, rest, getVars, spent>>

\* Mutant of UploadEnd: the connection goes back with its transaction open.
UploadEnd_NoRollback(u) ==
    /\ uPc' = [uPc EXCEPT ![u] = "idle"]
    /\ batch' = [batch EXCEPT ![u] = NoBatch]
    /\ rest' = [rest EXCEPT ![u] = {}]
    /\ cur' = [cur EXCEPT ![u] = NoKey]
    /\ UNCHANGED <<kind, writer>>

\* The request ends; what an open transaction of u wrote is undone.
UploadEnd(u) ==
    /\ kind' = [k \in KeyId |-> IF writer[k] = u THEN "none" ELSE kind[k]]
    /\ writer' = [k \in KeyId |-> IF writer[k] = u THEN NoOne ELSE writer[k]]
    /\ uPc' = [uPc EXCEPT ![u] = "idle"]
    /\ batch' = [batch EXCEPT ![u] = NoBatch]
    /\ rest' = [rest EXCEPT ![u] = {}]
    /\ cur' = [cur EXCEPT ![u] = NoKey]

\* Mutants of UploadConflict: ON CONFLICT DO NOTHING; a retry of the INSERT.
UploadConflict_Ignore(u) ==
    /\ cur[u] # NoKey
    /\ kind[cur[u]] # "none"
    /\ writer[cur[u]] = NoOne
    /\ cur' = [cur EXCEPT ![u] = NoKey]
    /\ UNCHANGED <<rowVars, uPc, batch, rest, getVars, spent>>

UploadConflict_Retry(u) ==
    /\ cur[u] # NoKey
    /\ kind[cur[u]] # "none"
    /\ writer[cur[u]] = NoOne
    /\ cur' = [cur EXCEPT ![u] = NoKey]
    /\ rest' = [rest EXCEPT ![u] = @ \cup {cur[u]}]
    /\ UNCHANGED <<rowVars, uPc, batch, getVars, spent>>

\* The key id is taken by a committed row, of whatever kind: the INSERT fails
\* and with it the request.  Earlier steps of the upload stay committed.
UploadConflict(u) ==
    /\ cur[u] # NoKey
    /\ kind[cur[u]] # "none"
    /\ writer[cur[u]] = NoOne
    /\ UploadEnd(u)
    /\ UNCHANGED <<consumed, lock, getVars, spent>>

\* The transaction of u waits for the end of that of v, which inserted the
\* key id u is at.
WaitsFor(u, v) == cur[u] # NoKey /\ writer[cur[u]] = v

\* Every one of S waits for another one of S, and is waited for.
Circle(S) ==
    /\ \A u \in S : \E v \in S : WaitsFor(u, v)
    /\ \A v \in S : \E u \in S : WaitsFor(u, v)

\* Open transactions wait for one another in a circle, however long: Postgres
\* ends one of them.
Deadlocked(u) == \E S \in SUBSET Uploader : u \in S /\ Circle(S)

UploadDeadlock(u) ==
    /\ Deadlocked(u)
    /\ UploadEnd(u)
    /\ UNCHANGED <<consumed, lock, getVars, spent>>

\* Every row of the step is in: commit and go on to the next step.
UploadCommit(u) ==
    LET next == NextStep(batch[u], uPc[u]) IN
    /\ uPc[u] \in Kind
    /\ rest[u] = {} /\ cur[u] = NoKey
    /\ writer' = [k \in KeyId |-> IF writer[k] = u THEN NoOne ELSE writer[k]]
    /\ uPc' = [uPc EXCEPT ![u] = next]
    /\ rest' = [rest EXCEPT ![u] = IF next = "count" THEN {} ELSE batch[u][next]]
    /\ UNCHANGED <<kind, consumed, lock, batch, cur, getVars, spent>>

\* Count the available one-time pre-keys and answer 201.
UploadAnswer(u) ==
    /\ uPc[u] = "count"
    /\ UploadEnd(u)
    /\ UNCHANGED <<consumed, lock, getVars, spent>>

\* The process dies or the connection drops.
UploadFails(u) ==
    /\ uPc[u] # "idle"
    /\ UploadEnd(u)
    /\ UNCHANGED <<consumed, lock, getVars, spent>>

-----------------------------------------------------------------------------
\* POST /v1/keys/prekey/:deviceId

FetchBegin(f) ==
    /\ fPc[f] = "idle"
    /\ fPc' = [fPc EXCEPT ![f] = "signed"]
    /\ begun' = [begun EXCEPT ![f] = Visible]
    /\ UNCHANGED <<rowVars, upVars, fSigned, fOpk, fKyber, fLast, freed, spent>>

\* The request ends, answered or not; a row lock goes with its transaction.
FetchEnd(f) ==
    /\ lock' = [k \in KeyId |-> IF lock[k] = f THEN NoOne ELSE lock[k]]
    /\ fPc' = [fPc EXCEPT ![f] = "idle"]
    /\ fSigned' = [fSigned EXCEPT ![f] = NoKey]
    /\ fOpk' = [fOpk EXCEPT ![f] = NoKey]
    /\ fKyber' = [fKyber EXCEPT ![f] = NoKey]
    /\ fLast' = [fLast EXCEPT ![f] = NoKey]
    /\ begun' = [begun EXCEPT ![f] = {}]
    /\ freed' = [g \in Fetcher |->
                    IF g = f \/ fPc[g] = "idle" THEN {}
                    ELSE freed[g] \cup {k \in KeyId : lock[k] = f}]
    /\ spent' = [k \in KeyId |-> IF Holds(f, k) THEN spent[k] + 1 ELSE spent[k]]

\* Read the unconsumed signed pre-key with the highest id.
FetchSigned(f, k) ==
    /\ fPc[f] = "signed"
    /\ IsHighest(k, {l \in Rows("signed") : ~consumed[l]})
    /\ fSigned' = [fSigned EXCEPT ![f] = k]
    /\ fPc' = [fPc EXCEPT ![f] = "opk"]
    /\ UNCHANGED <<rowVars, upVars, fOpk, fKyber, fLast, begun, freed, spent>>

\* No signed pre-key: 404 before anything is consumed.
FetchNoSigned(f) ==
    /\ fPc[f] = "signed"
    /\ {l \in Rows("signed") : ~consumed[l]} = {}
    /\ FetchEnd(f)
    /\ UNCHANGED <<kind, consumed, writer, upVars>>

Locked(q) == IF q = "opk" THEN "opkLocked" ELSE "kyberLocked"

\* SELECT ... ORDER BY key_id LIMIT 1 FOR UPDATE SKIP LOCKED
FetchLock(f, q, k) ==
    /\ fPc[f] = q
    /\ IsLowest(k, Free(q))
    /\ lock' = [lock EXCEPT ![k] = f]
    /\ fPc' = [fPc EXCEPT ![f] = Locked(q)]
    /\ UNCHANGED <<kind, consumed, writer, upVars, fSigned, fOpk, fKyber, fLast,
                   begun, freed, spent>>

\* UPDATE ... SET consumed = true ... RETURNING, and commit
FetchConsume(f, q, k) ==
    /\ fPc[f] = Locked(q)
    /\ lock[k] = f
    /\ consumed' = [consumed EXCEPT ![k] = TRUE]
    /\ lock' = [lock EXCEPT ![k] = NoOne]
    /\ IF q = "opk" THEN /\ fOpk' = [fOpk EXCEPT ![f] = k]
                         /\ fPc' = [fPc EXCEPT ![f] = "kyber"]
                         /\ UNCHANGED fKyber
                    ELSE /\ fKyber' = [fKyber EXCEPT ![f] = k]
                         /\ fPc' = [fPc EXCEPT ![f] = "answer"]
                         /\ UNCHANGED fOpk
    /\ UNCHANGED <<kind, writer, upVars, fSigned, fLast, begun, freed, spent>>

\* Mutant of FetchNone: NOWAIT for SKIP LOCKED, with the error read as an empty
\* pool.
FetchNone_Nowait(f, q) ==
    /\ fPc[f] = q
    /\ \/ Free(q) = {}
       \/ \E k \in Rows(q) : lock[k] # NoOne
    /\ fPc' = [fPc EXCEPT ![f] = IF q = "opk" THEN "kyber" ELSE "fallback"]
    /\ UNCHANGED <<rowVars, upVars, fSigned, fOpk, fKyber, fLast, begun, freed, spent>>

\* No row to lock: the UPDATE changes nothing.
FetchNone(f, q) ==
    /\ fPc[f] = q
    /\ Free(q) = {}
    /\ fPc' = [fPc EXCEPT ![f] = IF q = "opk" THEN "kyber" ELSE "fallback"]
    /\ UNCHANGED <<rowVars, upVars, fSigned, fOpk, fKyber, fLast, begun, freed, spent>>

\* Read the unconsumed last-resort Kyber key with the highest id, if any.
FetchFallback(f) ==
    LET S == {l \in Rows("last") : ~consumed[l]} IN
    /\ fPc[f] = "fallback"
    /\ fPc' = [fPc EXCEPT ![f] = "answer"]
    /\ \/ \E k \in KeyId : IsHighest(k, S) /\ fLast' = [fLast EXCEPT ![f] = k]
       \/ S = {} /\ UNCHANGED fLast
    /\ UNCHANGED <<rowVars, upVars, fSigned, fOpk, fKyber, begun, freed, spent>>

\* 200 with the bundle.
FetchAnswer(f) ==
    /\ fPc[f] = "answer"
    /\ FetchEnd(f)
    /\ UNCHANGED <<kind, consumed, writer, upVars>>

\* The process dies or the connection drops: a committed consumption stays
\* and its key is lost.
FetchFails(f) ==
    /\ fPc[f] # "idle"
    /\ FetchEnd(f)
    /\ UNCHANGED <<kind, consumed, writer, upVars>>

-----------------------------------------------------------------------------
Next ==
    \/ \E u \in Uploader, b \in Payload : UploadBegin(u, b)
    \/ \E u \in Uploader, k \in KeyId : UploadNext(u, k)
    \/ \E u \in Uploader : UploadInsert(u)
    \/ \E u \in Uploader : UploadConflict(u)
    \/ \E u \in Uploader : UploadDeadlock(u)
    \/ \E u \in Uploader : UploadCommit(u)
    \/ \E u \in Uploader : UploadAnswer(u)
    \/ \E u \in Uploader : UploadFails(u)
    \/ \E f \in Fetcher : FetchBegin(f)
    \/ \E f \in Fetcher, k \in KeyId : FetchSigned(f, k)
    \/ \E f \in Fetcher : FetchNoSigned(f)
    \/ \E f \in Fetcher, q \in Pool, k \in KeyId : FetchLock(f, q, k)
    \/ \E f \in Fetcher, q \in Pool, k \in KeyId : FetchConsume(f, q, k)
    \/ \E f \in Fetcher, q \in Pool : FetchNone(f, q)
    \/ \E f \in Fetcher : FetchFallback(f)
    \/ \E f \in Fetcher : FetchAnswer(f)
    \/ \E f \in Fetcher : FetchFails(f)

Spec == Init /\ [][Next]_vars

-----------------------------------------------------------------------------
\* Safety

\* Each one-time key serves one session: at most one fetch ever holds it, and
\* once that fetch ended, with an answer or without, no other one gets it.
OneTimeServedOnce ==
    \A k \in KeyId :
        /\ spent[k] <= 1
        /\ \A f \in Fetcher : Holds(f, k) =>
              spent[k] = 0 /\ \A g \in Fetcher \ {f} : ~Holds(g, k)

\* The two pools and the long-lived keys never mix: a fetch consumes each kind
\* of one-time key in its own statement, and a signed pre-key or a last-resort
\* key is never consumed, so the fallbacks do not run out.
LongLivedKept ==
    \A k \in KeyId : kind[k] \in {"none", "signed", "last"} => ~consumed[k]

\* A fetch goes without a one-time key of a pool only if every key of the
\* pool that was there when it began is spoken for: consumed, in another
\* fetch's hands, or was in the hands of one that failed since.
DrainedBeforeFallback ==
    \A f \in Fetcher : \A q \in Pool :
        \/ q = "opk" /\ fPc[f] \in {"kyber", "kyberLocked", "fallback", "answer"}
                     /\ fOpk[f] = NoKey
        \/ q = "kyber" /\ fPc[f] \in {"fallback", "answer"} /\ fKyber[f] = NoKey
        => \A k \in begun[f] :
              kind[k] = q => consumed[k] \/ lock[k] # NoOne \/ k \in freed[f]

\* The signed pre-key of a bundle is no older than any that was there when
\* the fetch began, although uploads rotate it at the same time.
SignedIsCurrent ==
    \A f \in Fetcher : fPc[f] \notin {"idle", "signed"} =>
        /\ kind[fSigned[f]] = "signed"
        /\ \A k \in begun[f] : kind[k] = "signed" => k <= fSigned[f]

\* An upload that is about to answer 201 has every key of its payload stored
\* under the kind it was sent as; uploads that race for the same ids never
\* both get there with different kinds.
AcceptedIsStored ==
    \A u \in Uploader : uPc[u] = "count" =>
        \A q \in Kind : batch[u][q] \subseteq Rows(q)

\* An upload under way can take its next step: it is between two INSERTs or
\* done with them, its INSERT waits for nobody, or the detector ends it.
CanGoOn(u) ==
    \/ uPc[u] = "count" \/ cur[u] = NoKey
    \/ writer[cur[u]] = NoOne
    \/ Deadlocked(u)

\* Uploads of the same key ids never bring each other to a standstill: of any
\* uploads under way one can go on, or waits for one that is not among them
\* and is under way itself, so no upload waits for one that is over.
NoStandstill ==
    LET Busy == {u \in Uploader : uPc[u] # "idle"} IN
    \A S \in (SUBSET Busy) \ {{}} :
        \E u \in S : CanGoOn(u) \/ \E v \in Busy \ S : WaitsFor(u, v)

-----------------------------------------------------------------------------
\* The promise: two pools of keys, one step to take one

\* The pools a fetch is through with.
Tried(f) ==
    (IF fPc[f] \in {"kyber", "kyberLocked", "fallback", "answer"} THEN {"opk"} ELSE {})
    \cup (IF fPc[f] \in {"fallback", "answer"} THEN {"kyber"} ELSE {})

Keys == INSTANCE KeyPool WITH
    Client <- Fetcher,
    known <- [q \in Pool |-> Rows(q)],
    taken <- {k \in KeyId : consumed[k]},
    busy <- [f \in Fetcher |-> fPc[f] # "idle"],
    tried <- [f \in Fetcher |-> Tried(f)],
    got <- [f \in Fetcher |-> {fOpk[f], fKyber[f]} \ {NoKey}]

\* Uploads of many INSERTs and fetches that lock, skip and update rows behave
\* like two pools (module KeyPool): an upload's keys of a kind arrive at once
\* or not at all, each goes to one fetch, and a fetch that skipped locked rows
\* went without a key only while other fetches could take all that were left.
ImplementsKeyPool == Keys!Spec

-----------------------------------------------------------------------------
\* Liveness.  Postgres wakes a waiting insert when the transaction it waits
\* for ends: an upload that can go on again and again does so, even if other
\* uploads of the same ids keep arriving and failing (strong fairness).

FetchProgress(f) ==
    \/ \E k \in KeyId : FetchSigned(f, k)
    \/ FetchNoSigned(f)
    \/ \E q \in Pool, k \in KeyId : FetchLock(f, q, k) \/ FetchConsume(f, q, k)
    \/ \E q \in Pool : FetchNone(f, q)
    \/ FetchFallback(f)
    \/ FetchAnswer(f)

UploadProgress(u) ==
    \/ \E k \in KeyId : UploadNext(u, k)
    \/ UploadInsert(u) \/ UploadConflict(u) \/ UploadDeadlock(u)
    \/ UploadCommit(u) \/ UploadAnswer(u)

FairSpec ==
    /\ Spec
    /\ \A f \in Fetcher : WF_vars(FetchProgress(f))
    /\ \A u \in Uploader : SF_vars(UploadProgress(u))

\* Every request is answered or fails.  SKIP LOCKED keeps a fetch from waiting
\* for another one; an upload waits for the key ids of another upload, which
\* the deadlock detector keeps from lasting for ever.
RequestsEnd ==
    /\ \A f \in Fetcher : fPc[f] # "idle" ~> fPc[f] = "idle"
    /\ \A u \in Uploader : uPc[u] # "idle" ~> uPc[u] = "idle"

=============================================================================
