--------------------------- MODULE PreKeys_proofs ---------------------------
(***************************************************************************)
(* The safety properties of PreKeys, for any set of key ids, any uploads    *)
(* and any number of concurrent handlers.                                   *)
(*                                                                          *)
(* Four inductive invariants, each resting on the ones before it:           *)
(*   RowInv     what a row may be: only a committed one-time key is ever    *)
(*              locked or consumed, and a row nobody finished is untouched; *)
(*   HoldInv    a key is held by one fetch at most, and only once consumed; *)
(*   FetchInv   what a running fetch knows stays true: the rows it found    *)
(*              are still there, its signed pre-key is still the latest of  *)
(*              them, and a pool it found empty had nothing left of them;   *)
(*   BatchInv   where the keys of a running upload are: in the table, under *)
(*              the right kind, or still to be inserted.                    *)
(*                                                                          *)
(* Two arguments are about sets of handlers rather than about a step: that  *)
(* uploads never stand still (an upload waits for one that is under way, so *)
(* a smallest set of uploads that wait for nobody else is a circle), and    *)
(* that fetches go without a key only when there are too few (the locks     *)
(* they skip map the keys that are left to distinct rivals).                *)
(***************************************************************************)
EXTENDS PreKeys, FiniteSetTheorems, WellFoundedInduction, TLAPS

RowOK(k) ==
    /\ kind[k] = "none" => ~consumed[k] /\ lock[k] = NoOne /\ writer[k] = NoOne
    /\ writer[k] # NoOne => ~consumed[k] /\ lock[k] = NoOne
    /\ lock[k] # NoOne => ~consumed[k] /\ kind[k] \in Pool
    /\ consumed[k] => kind[k] \in Pool

RowInv == \A k \in KeyId : RowOK(k)

HoldOK(k) ==
    /\ spent[k] <= 1
    /\ ~consumed[k] => spent[k] = 0
    /\ \A f \in Fetcher : Holds(f, k) =>
          consumed[k] /\ spent[k] = 0 /\ \A g \in Fetcher \ {f} : ~Holds(g, k)

HoldInv == \A k \in KeyId : HoldOK(k)

\* A row every transaction sees; it never changes its kind nor goes away.
Committed(k) == kind[k] # "none" /\ writer[k] = NoOne

BegunInv == \A f \in Fetcher : \A k \in begun[f] : Committed(k)

SignedInv ==
    \A f \in Fetcher : fPc[f] \notin {"idle", "signed"} =>
        /\ fSigned[f] \in KeyId /\ Committed(fSigned[f])
        /\ kind[fSigned[f]] = "signed"
        /\ \A k \in begun[f] : kind[k] = "signed" => k <= fSigned[f]

\* The fetch f has found the pool q empty.
Without(f, q) ==
    \/ q = "opk" /\ fPc[f] \in {"kyber", "kyberLocked", "fallback", "answer"}
                 /\ fOpk[f] = NoKey
    \/ q = "kyber" /\ fPc[f] \in {"fallback", "answer"} /\ fKyber[f] = NoKey

Drained(f, q) ==
    Without(f, q) => \A k \in begun[f] :
        kind[k] = q => consumed[k] \/ lock[k] # NoOne \/ k \in freed[f]

DrainInv == \A f \in Fetcher : \A q \in Pool : Drained(f, q)

FetchInv == BegunInv /\ SignedInv /\ DrainInv

\* The kinds of key an upload is through with when it is at step q.
Past(q) ==
    CASE q = "signed" -> {"opk"}
      [] q = "kyber"  -> {"opk", "signed"}
      [] q = "last"   -> {"opk", "signed", "kyber"}
      [] q = "count"  -> Kind
      [] OTHER        -> {}

BatchOK(u) ==
    /\ \A k \in KeyId : writer[k] = u => kind[k] = uPc[u] /\ uPc[u] \in Kind
    /\ \A q \in Past(uPc[u]) : batch[u][q] \subseteq Rows(q)
    /\ uPc[u] \in Kind => \A k \in batch[u][uPc[u]] :
          k \in rest[u] \/ k = cur[u] \/ writer[k] = u

BatchInv == \A u \in Uploader : BatchOK(u)

-----------------------------------------------------------------------------
\* A key id is a positive number and no holder is the empty one.
LEMMA Distinct ==
    /\ \A k \in KeyId : k \in Nat /\ k # NoKey
    /\ \A u \in Uploader : u # NoOne
    /\ \A f \in Fetcher : f # NoOne
BY KeyAssumption, NoOneAssumption DEF NoKey

-----------------------------------------------------------------------------
\* Type correctness

LEMMA TypeInit == Init => TypeOK
BY DEF Init, TypeOK, NoBatch, FetchStep, NoKey

\* The ids of a kind that an upload inserts are key ids.
LEMMA BatchType ==
    ASSUME TypeOK, NEW u \in Uploader, NEW q \in Kind PROVE batch[u][q] \in SUBSET KeyId
<1>1. batch[u] \in [Kind -> SUBSET KeyId]
  BY DEF TypeOK
<1> QED BY <1>1

LEMMA NextStepType ==
    ASSUME NEW b, NEW q PROVE NextStep(b, q) \in Kind \cup {"count"}
BY DEF NextStep, Kind

LEMMA UploadEndType ==
    ASSUME TypeOK, NEW u \in Uploader, UploadEnd(u),
           UNCHANGED <<consumed, lock, getVars, spent>>
    PROVE  TypeOK'
<1>1. (kind' \in [KeyId -> Kind \cup {"none"}]) /\ (writer' \in [KeyId -> Uploader \cup {NoOne}])
  BY DEF UploadEnd, TypeOK
<1>2. uPc' \in [Uploader -> Kind \cup {"idle", "count"}]
  BY DEF UploadEnd, TypeOK
<1>3. NoBatch \in [Kind -> SUBSET KeyId]
  BY DEF NoBatch
<1>4. batch' \in [Uploader -> [Kind -> SUBSET KeyId]]
  BY <1>3, Zenon DEF UploadEnd, TypeOK
<1>5. (rest' \in [Uploader -> SUBSET KeyId]) /\ (cur' \in [Uploader -> KeyId \cup {NoKey}])
  BY DEF UploadEnd, TypeOK
<1> QED BY <1>1, <1>2, <1>4, <1>5, Zenon DEF TypeOK, getVars

LEMMA FetchEndType ==
    ASSUME TypeOK, NEW f \in Fetcher, FetchEnd(f),
           UNCHANGED <<kind, consumed, writer, upVars>>
    PROVE  TypeOK'
<1>1. (lock' \in [KeyId -> Fetcher \cup {NoOne}]) /\ (fPc' \in [Fetcher -> FetchStep])
  BY DEF FetchEnd, TypeOK, FetchStep
<1>2. (fSigned' \in [Fetcher -> KeyId \cup {NoKey}]) /\ (fOpk' \in [Fetcher -> KeyId \cup {NoKey}])
  BY DEF FetchEnd, TypeOK
<1>3. (fKyber' \in [Fetcher -> KeyId \cup {NoKey}]) /\ (fLast' \in [Fetcher -> KeyId \cup {NoKey}])
  BY DEF FetchEnd, TypeOK
<1>4. begun' \in [Fetcher -> SUBSET KeyId]
  BY DEF FetchEnd, TypeOK
<1>5. freed' \in [Fetcher -> SUBSET KeyId]
  <2>1. \A g \in Fetcher : (IF g = f \/ fPc[g] = "idle" THEN {}
                            ELSE freed[g] \cup {k \in KeyId : lock[k] = f}) \in SUBSET KeyId
    BY DEF TypeOK
  <2> QED BY <2>1, Zenon DEF FetchEnd
<1>6. spent' \in [KeyId -> Nat]
  <2>1. \A k \in KeyId : (IF Holds(f, k) THEN spent[k] + 1 ELSE spent[k]) \in Nat
    BY DEF TypeOK
  <2> QED BY <2>1, Zenon DEF FetchEnd
<1> QED BY <1>1, <1>2, <1>3, <1>4, <1>5, <1>6, Zenon DEF TypeOK, upVars

LEMMA TypeStep == TypeOK /\ [Next]_vars => TypeOK'
<1> SUFFICES ASSUME TypeOK, [Next]_vars PROVE TypeOK'
  OBVIOUS
<1>1. ASSUME NEW u \in Uploader, NEW b \in Payload, UploadBegin(u, b) PROVE TypeOK'
  <2>1. b \in [Kind -> SUBSET KeyId] /\ "opk" \in Kind
    BY PayloadAssumption DEF Kind
  <2>2. b["opk"] \in SUBSET KeyId
    BY <2>1
  <2>3. uPc' \in [Uploader -> Kind \cup {"idle", "count"}]
    BY <1>1, <2>1, Zenon DEF UploadBegin, TypeOK
  <2>4. (batch' \in [Uploader -> [Kind -> SUBSET KeyId]]) /\ (rest' \in [Uploader -> SUBSET KeyId])
    BY <1>1, <2>1, <2>2, Zenon DEF UploadBegin, TypeOK
  <2> QED BY <1>1, <2>3, <2>4, Zenon DEF UploadBegin, TypeOK, rowVars, getVars
<1>2. ASSUME NEW u \in Uploader, NEW k \in KeyId, UploadNext(u, k) PROVE TypeOK'
  <2>1. (cur' \in [Uploader -> KeyId \cup {NoKey}]) /\ (rest' \in [Uploader -> SUBSET KeyId])
    BY <1>2 DEF UploadNext, TypeOK
  <2> QED BY <1>2, <2>1, Zenon DEF UploadNext, TypeOK, rowVars, getVars
<1>3. ASSUME NEW u \in Uploader, UploadInsert(u) PROVE TypeOK'
  <2>1. cur[u] \in KeyId /\ uPc[u] \in Kind
    BY <1>3 DEF UploadInsert, TypeOK
  <2>2. (kind' \in [KeyId -> Kind \cup {"none"}]) /\ (writer' \in [KeyId -> Uploader \cup {NoOne}])
    BY <1>3, <2>1, Zenon DEF UploadInsert, TypeOK
  <2>3. cur' \in [Uploader -> KeyId \cup {NoKey}]
    BY <1>3 DEF UploadInsert, TypeOK
  <2> QED BY <1>3, <2>2, <2>3, Zenon DEF UploadInsert, TypeOK, getVars
<1>4. ASSUME NEW u \in Uploader, UploadConflict(u) PROVE TypeOK'
  BY <1>4, UploadEndType DEF UploadConflict
<1>5. ASSUME NEW u \in Uploader, UploadDeadlock(u) PROVE TypeOK'
  BY <1>5, UploadEndType DEF UploadDeadlock
<1>6. ASSUME NEW u \in Uploader, UploadCommit(u) PROVE TypeOK'
  <2> DEFINE next == NextStep(batch[u], uPc[u])
  <2>1. next \in Kind \cup {"count"}
    BY NextStepType
  <2>2. /\ writer' = [k \in KeyId |-> IF writer[k] = u THEN NoOne ELSE writer[k]]
        /\ uPc' = [uPc EXCEPT ![u] = next]
        /\ rest' = [rest EXCEPT ![u] = IF next = "count" THEN {} ELSE batch[u][next]]
        /\ UNCHANGED <<kind, consumed, lock, batch, cur, getVars, spent>>
    BY <1>6 DEF UploadCommit
  <2>3. (IF next = "count" THEN {} ELSE batch[u][next]) \in SUBSET KeyId
    BY <2>1, BatchType
  <2> HIDE DEF next
  <2>4. writer' \in [KeyId -> Uploader \cup {NoOne}]
    BY <2>2 DEF TypeOK
  <2>5. uPc' \in [Uploader -> Kind \cup {"idle", "count"}]
    BY <2>1, <2>2 DEF TypeOK
  <2>6. rest' \in [Uploader -> SUBSET KeyId]
    BY <2>2, <2>3, Zenon DEF TypeOK
  <2> QED BY <2>2, <2>4, <2>5, <2>6, Zenon DEF TypeOK, getVars
<1>7. ASSUME NEW u \in Uploader, UploadAnswer(u) PROVE TypeOK'
  BY <1>7, UploadEndType DEF UploadAnswer
<1>8. ASSUME NEW u \in Uploader, UploadFails(u) PROVE TypeOK'
  BY <1>8, UploadEndType DEF UploadFails
<1>9. ASSUME NEW f \in Fetcher, FetchBegin(f) PROVE TypeOK'
  <2>1. Visible \in SUBSET KeyId
    BY DEF Visible, Rows
  <2>2. (begun' \in [Fetcher -> SUBSET KeyId]) /\ (fPc' \in [Fetcher -> FetchStep])
    BY <1>9, <2>1, Zenon DEF FetchBegin, TypeOK, FetchStep
  <2> QED BY <1>9, <2>2, Zenon DEF FetchBegin, TypeOK, rowVars, upVars
<1>10. ASSUME NEW f \in Fetcher, NEW k \in KeyId, FetchSigned(f, k) PROVE TypeOK'
  <2>1. (fSigned' \in [Fetcher -> KeyId \cup {NoKey}]) /\ (fPc' \in [Fetcher -> FetchStep])
    BY <1>10, Zenon DEF FetchSigned, TypeOK, FetchStep
  <2> QED BY <1>10, <2>1, Zenon DEF FetchSigned, TypeOK, rowVars, upVars
<1>11. ASSUME NEW f \in Fetcher, FetchNoSigned(f) PROVE TypeOK'
  BY <1>11, FetchEndType DEF FetchNoSigned
<1>12. ASSUME NEW f \in Fetcher, NEW q \in Pool, NEW k \in KeyId, FetchLock(f, q, k)
       PROVE  TypeOK'
  <2>1. Locked(q) \in FetchStep
    BY DEF Locked, FetchStep
  <2>2. (lock' \in [KeyId -> Fetcher \cup {NoOne}]) /\ (fPc' \in [Fetcher -> FetchStep])
    BY <1>12, <2>1, Zenon DEF FetchLock, TypeOK
  <2> QED BY <1>12, <2>2, Zenon DEF FetchLock, TypeOK, upVars
<1>13. ASSUME NEW f \in Fetcher, NEW q \in Pool, NEW k \in KeyId, FetchConsume(f, q, k)
       PROVE  TypeOK'
  <2>1. (lock' \in [KeyId -> Fetcher \cup {NoOne}]) /\ (consumed' \in [KeyId -> BOOLEAN])
    BY <1>13, Zenon DEF FetchConsume, TypeOK
  <2>2. fPc' \in [Fetcher -> FetchStep]
    BY <1>13 DEF FetchConsume, TypeOK, FetchStep
  <2>3. (fOpk' \in [Fetcher -> KeyId \cup {NoKey}]) /\ (fKyber' \in [Fetcher -> KeyId \cup {NoKey}])
    BY <1>13, ZenonT(60) DEF FetchConsume, TypeOK
  <2> QED BY <1>13, <2>1, <2>2, <2>3, Zenon DEF FetchConsume, TypeOK, upVars
<1>14. ASSUME NEW f \in Fetcher, NEW q \in Pool, FetchNone(f, q) PROVE TypeOK'
  <2>1. fPc' \in [Fetcher -> FetchStep]
    BY <1>14 DEF FetchNone, TypeOK, FetchStep
  <2> QED BY <1>14, <2>1, Zenon DEF FetchNone, TypeOK, rowVars, upVars
<1>15. ASSUME NEW f \in Fetcher, FetchFallback(f) PROVE TypeOK'
  <2>1. fPc' \in [Fetcher -> FetchStep]
    BY <1>15, Zenon DEF FetchFallback, TypeOK, FetchStep
  <2>2. fLast' \in [Fetcher -> KeyId \cup {NoKey}]
    BY <1>15, Zenon DEF FetchFallback, TypeOK
  <2> QED BY <1>15, <2>1, <2>2, Zenon DEF FetchFallback, TypeOK, rowVars, upVars
<1>16. ASSUME NEW f \in Fetcher, FetchAnswer(f) PROVE TypeOK'
  BY <1>16, FetchEndType DEF FetchAnswer
<1>17. ASSUME NEW f \in Fetcher, FetchFails(f) PROVE TypeOK'
  BY <1>17, FetchEndType DEF FetchFails
<1>18. CASE UNCHANGED vars
  BY <1>18, Zenon DEF vars, TypeOK, rowVars, upVars, getVars
<1> QED
  BY <1>1, <1>2, <1>3, <1>4, <1>5, <1>6, <1>7, <1>8, <1>9, <1>10, <1>11, <1>12, <1>13,
     <1>14, <1>15, <1>16, <1>17, <1>18
  DEF Next

\* Every reachable state is well typed.
THEOREM TypeCorrect == Spec => []TypeOK
BY TypeInit, TypeStep, PTL DEF Spec

-----------------------------------------------------------------------------
\* Rows

LEMMA RowInit == Init => RowInv
BY DEF Init, RowInv, RowOK

LEMMA RowStep == TypeOK /\ RowInv /\ [Next]_vars => RowInv'
<1> SUFFICES ASSUME TypeOK, RowInv, [Next]_vars, NEW l \in KeyId PROVE RowOK(l)'
  BY DEF RowInv
<1>a. RowOK(l) /\ lock[l] \in Fetcher \cup {NoOne} /\ writer[l] \in Uploader \cup {NoOne}
  BY DEF RowInv, TypeOK
<1>b. ASSUME UNCHANGED rowVars PROVE RowOK(l)'
  BY <1>a, <1>b, Zenon DEF rowVars, RowOK
<1>c. \* The upload u ends: rows of its open transaction disappear.
      ASSUME NEW u \in Uploader, UploadEnd(u), UNCHANGED <<consumed, lock>>
      PROVE  RowOK(l)'
  <2>1. CASE writer[l] = u
    <3>1. kind'[l] = "none" /\ writer'[l] = NoOne
      BY <1>c, <2>1 DEF UploadEnd
    <3>2. ~consumed[l] /\ lock[l] = NoOne
      BY <1>a, <2>1, Distinct DEF RowOK
    <3> QED BY <1>c, <3>1, <3>2 DEF RowOK
  <2>2. CASE writer[l] # u
    <3>1. kind'[l] = kind[l] /\ writer'[l] = writer[l]
      BY <1>c, <2>2 DEF UploadEnd
    <3> QED BY <1>a, <1>c, <3>1 DEF RowOK
  <2> QED BY <2>1, <2>2
<1>d. \* The fetch f ends: its row lock goes.
      ASSUME NEW f \in Fetcher, FetchEnd(f), UNCHANGED <<kind, consumed, writer>>
      PROVE  RowOK(l)'
  <2>1. lock'[l] = NoOne \/ lock'[l] = lock[l]
    BY <1>d DEF FetchEnd
  <2> QED BY <1>a, <1>d, <2>1 DEF RowOK
<1>1. ASSUME NEW u \in Uploader, NEW b \in Payload, UploadBegin(u, b) PROVE RowOK(l)'
  BY <1>1, <1>b DEF UploadBegin
<1>2. ASSUME NEW u \in Uploader, NEW k \in KeyId, UploadNext(u, k) PROVE RowOK(l)'
  BY <1>2, <1>b DEF UploadNext
<1>3. ASSUME NEW u \in Uploader, UploadInsert(u) PROVE RowOK(l)'
  <2>1. CASE l = cur[u]
    <3>1. kind[l] = "none" /\ kind'[l] = uPc[u] /\ uPc[u] \in Kind
          /\ consumed'[l] = consumed[l] /\ lock'[l] = lock[l]
      BY <1>3, <2>1 DEF UploadInsert, TypeOK
    <3> QED BY <1>a, <3>1 DEF RowOK, Kind
  <2>2. CASE l # cur[u]
    <3>1. kind'[l] = kind[l] /\ writer'[l] = writer[l]
          /\ consumed'[l] = consumed[l] /\ lock'[l] = lock[l]
      BY <1>3, <2>2 DEF UploadInsert, TypeOK
    <3> QED BY <1>a, <3>1 DEF RowOK
  <2> QED BY <2>1, <2>2
<1>4. ASSUME NEW u \in Uploader, UploadConflict(u) PROVE RowOK(l)'
  BY <1>4, <1>c DEF UploadConflict
<1>5. ASSUME NEW u \in Uploader, UploadDeadlock(u) PROVE RowOK(l)'
  BY <1>5, <1>c DEF UploadDeadlock
<1>6. ASSUME NEW u \in Uploader, UploadCommit(u) PROVE RowOK(l)'
  <2>1. /\ writer'[l] = NoOne \/ writer'[l] = writer[l]
        /\ kind'[l] = kind[l] /\ consumed'[l] = consumed[l] /\ lock'[l] = lock[l]
    BY <1>6 DEF UploadCommit
  <2> QED BY <1>a, <2>1 DEF RowOK
<1>7. ASSUME NEW u \in Uploader, UploadAnswer(u) PROVE RowOK(l)'
  BY <1>7, <1>c DEF UploadAnswer
<1>8. ASSUME NEW u \in Uploader, UploadFails(u) PROVE RowOK(l)'
  BY <1>8, <1>c DEF UploadFails
<1>9. ASSUME NEW f \in Fetcher, FetchBegin(f) PROVE RowOK(l)'
  BY <1>9, <1>b DEF FetchBegin
<1>10. ASSUME NEW f \in Fetcher, NEW k \in KeyId, FetchSigned(f, k) PROVE RowOK(l)'
  BY <1>10, <1>b DEF FetchSigned
<1>11. ASSUME NEW f \in Fetcher, FetchNoSigned(f) PROVE RowOK(l)'
  BY <1>11, <1>d DEF FetchNoSigned
<1>12. ASSUME NEW f \in Fetcher, NEW q \in Pool, NEW k \in KeyId, FetchLock(f, q, k)
       PROVE  RowOK(l)'
  <2>1. kind[k] = q /\ writer[k] = NoOne /\ ~consumed[k]
    BY <1>12 DEF FetchLock, IsLowest, Free, Rows
  <2>2. kind'[l] = kind[l] /\ writer'[l] = writer[l] /\ consumed'[l] = consumed[l]
    BY <1>12 DEF FetchLock
  <2>3. CASE l = k
    BY <1>a, <2>1, <2>2, <2>3 DEF RowOK, Pool
  <2>4. CASE l # k
    <3>1. lock'[l] = lock[l]
      BY <1>12, <2>4 DEF FetchLock, TypeOK
    <3> QED BY <1>a, <2>2, <3>1 DEF RowOK
  <2> QED BY <2>3, <2>4
<1>13. ASSUME NEW f \in Fetcher, NEW q \in Pool, NEW k \in KeyId, FetchConsume(f, q, k)
       PROVE  RowOK(l)'
  <2>1. kind[k] \in Pool /\ writer[k] = NoOne
    BY <1>13, Distinct DEF FetchConsume, RowInv, RowOK
  <2>2. kind'[l] = kind[l] /\ writer'[l] = writer[l]
    BY <1>13 DEF FetchConsume
  <2>3. CASE l = k
    <3>1. lock'[l] = NoOne
      BY <1>13, <2>3 DEF FetchConsume, TypeOK
    <3> QED BY <2>1, <2>2, <2>3, <3>1 DEF RowOK, Pool
  <2>4. CASE l # k
    <3>1. lock'[l] = lock[l] /\ consumed'[l] = consumed[l]
      BY <1>13, <2>4 DEF FetchConsume, TypeOK
    <3> QED BY <1>a, <2>2, <3>1 DEF RowOK
  <2> QED BY <2>3, <2>4
<1>14. ASSUME NEW f \in Fetcher, NEW q \in Pool, FetchNone(f, q) PROVE RowOK(l)'
  BY <1>14, <1>b DEF FetchNone
<1>15. ASSUME NEW f \in Fetcher, FetchFallback(f) PROVE RowOK(l)'
  BY <1>15, <1>b DEF FetchFallback
<1>16. ASSUME NEW f \in Fetcher, FetchAnswer(f) PROVE RowOK(l)'
  BY <1>16, <1>d DEF FetchAnswer
<1>17. ASSUME NEW f \in Fetcher, FetchFails(f) PROVE RowOK(l)'
  BY <1>17, <1>d DEF FetchFails
<1>18. CASE UNCHANGED vars
  BY <1>18, <1>b DEF vars
<1> QED
  BY <1>1, <1>2, <1>3, <1>4, <1>5, <1>6, <1>7, <1>8, <1>9, <1>10, <1>11, <1>12, <1>13,
     <1>14, <1>15, <1>16, <1>17, <1>18
  DEF Next

\* However fetches and uploads interleave, only one-time keys are consumed.
THEOREM LongLivedStay == Spec => []LongLivedKept
<1>1. TypeOK /\ RowInv => LongLivedKept
  BY DEF RowInv, RowOK, LongLivedKept, Pool
<1> QED BY <1>1, TypeInit, TypeStep, RowInit, RowStep, PTL DEF Spec

-----------------------------------------------------------------------------
\* Who holds a one-time key

LEMMA HoldInit == Init => HoldInv
BY Distinct DEF Init, HoldInv, HoldOK, Holds

LEMMA HoldStep == TypeOK /\ RowInv /\ HoldInv /\ [Next]_vars => HoldInv'
<1> SUFFICES ASSUME TypeOK, RowInv, HoldInv, [Next]_vars, NEW l \in KeyId PROVE HoldOK(l)'
  BY DEF HoldInv
<1>a. HoldOK(l) /\ spent[l] \in Nat
  BY DEF HoldInv, TypeOK
<1>b. ASSUME UNCHANGED <<consumed, fOpk, fKyber, spent>> PROVE HoldOK(l)'
  BY <1>a, <1>b, Zenon DEF HoldOK, Holds
<1>c. \* The fetch f ends: what it held is spent.
      ASSUME NEW f \in Fetcher, FetchEnd(f), UNCHANGED consumed PROVE HoldOK(l)'
  <2>1. ~Holds(f, l)'
    BY <1>c, Distinct DEF FetchEnd, Holds, TypeOK
  <2>2. \A g \in Fetcher \ {f} : Holds(g, l)' <=> Holds(g, l)
    BY <1>c DEF FetchEnd, Holds, TypeOK
  <2>3. spent'[l] = IF Holds(f, l) THEN spent[l] + 1 ELSE spent[l]
    BY <1>c DEF FetchEnd
  <2>4. CASE Holds(f, l)
    <3>1. consumed[l] /\ spent[l] = 0 /\ \A g \in Fetcher \ {f} : ~Holds(g, l)
      BY <1>a, <2>4 DEF HoldOK
    <3>2. spent'[l] = 1
      BY <2>3, <2>4, <3>1
    <3>3. \A g \in Fetcher : ~Holds(g, l)'
      BY <2>1, <2>2, <3>1
    <3> QED BY <1>c, <3>1, <3>2, <3>3 DEF HoldOK
  <2>5. CASE ~Holds(f, l)
    <3>1. spent'[l] = spent[l]
      BY <2>3, <2>5
    <3>2. \A g \in Fetcher : Holds(g, l)' => Holds(g, l)
      BY <2>1, <2>2
    <3>3. spent[l] <= 1 /\ (~consumed[l] => spent[l] = 0)
      BY <1>a DEF HoldOK
    <3>4. \A g \in Fetcher : Holds(g, l)' =>
            consumed[l] /\ spent[l] = 0 /\ \A h \in Fetcher \ {g} : ~Holds(h, l)'
      BY <1>a, <3>2 DEF HoldOK
    <3> QED BY <1>c, <3>1, <3>3, <3>4, Zenon DEF HoldOK
  <2> QED BY <2>4, <2>5
<1>1. ASSUME NEW u \in Uploader, NEW b \in Payload, UploadBegin(u, b) PROVE HoldOK(l)'
  BY <1>1, <1>b DEF UploadBegin, rowVars, getVars
<1>2. ASSUME NEW u \in Uploader, NEW k \in KeyId, UploadNext(u, k) PROVE HoldOK(l)'
  BY <1>2, <1>b DEF UploadNext, rowVars, getVars
<1>3. ASSUME NEW u \in Uploader, UploadInsert(u) PROVE HoldOK(l)'
  BY <1>3, <1>b DEF UploadInsert, getVars
<1>4. ASSUME NEW u \in Uploader, UploadConflict(u) PROVE HoldOK(l)'
  BY <1>4, <1>b DEF UploadConflict, getVars
<1>5. ASSUME NEW u \in Uploader, UploadDeadlock(u) PROVE HoldOK(l)'
  BY <1>5, <1>b DEF UploadDeadlock, getVars
<1>6. ASSUME NEW u \in Uploader, UploadCommit(u) PROVE HoldOK(l)'
  BY <1>6, <1>b DEF UploadCommit, getVars
<1>7. ASSUME NEW u \in Uploader, UploadAnswer(u) PROVE HoldOK(l)'
  BY <1>7, <1>b DEF UploadAnswer, getVars
<1>8. ASSUME NEW u \in Uploader, UploadFails(u) PROVE HoldOK(l)'
  BY <1>8, <1>b DEF UploadFails, getVars
<1>9. ASSUME NEW f \in Fetcher, FetchBegin(f) PROVE HoldOK(l)'
  BY <1>9, <1>b DEF FetchBegin, rowVars
<1>10. ASSUME NEW f \in Fetcher, NEW k \in KeyId, FetchSigned(f, k) PROVE HoldOK(l)'
  BY <1>10, <1>b DEF FetchSigned, rowVars
<1>11. ASSUME NEW f \in Fetcher, FetchNoSigned(f) PROVE HoldOK(l)'
  BY <1>11, <1>c DEF FetchNoSigned
<1>12. ASSUME NEW f \in Fetcher, NEW q \in Pool, NEW k \in KeyId, FetchLock(f, q, k)
       PROVE  HoldOK(l)'
  BY <1>12, <1>b DEF FetchLock
<1>13. ASSUME NEW f \in Fetcher, NEW q \in Pool, NEW k \in KeyId, FetchConsume(f, q, k)
       PROVE  HoldOK(l)'
  <2>1. ~consumed[k] /\ consumed'[k] /\ UNCHANGED spent
    <3>1. RowOK(k) /\ lock[k] # NoOne
      BY <1>13, Distinct DEF FetchConsume, RowInv
    <3> QED BY <1>13, <3>1 DEF FetchConsume, RowOK, TypeOK
  <2>2. \A g \in Fetcher : Holds(g, l)' => Holds(g, l) \/ (g = f /\ l = k)
    BY <1>13 DEF FetchConsume, Holds, TypeOK
  <2>3. CASE l = k
    <3>1. spent[l] = 0 /\ \A g \in Fetcher : ~Holds(g, l)
      BY <1>a, <2>1, <2>3 DEF HoldOK
    <3> QED BY <2>1, <2>2, <2>3, <3>1 DEF HoldOK
  <2>4. CASE l # k
    <3>1. consumed'[l] = consumed[l]
      BY <1>13, <2>4 DEF FetchConsume, TypeOK
    <3>2. \A g \in Fetcher : Holds(g, l)' => Holds(g, l)
      BY <2>2, <2>4
    <3>3. spent[l] <= 1 /\ (~consumed[l] => spent[l] = 0)
      BY <1>a DEF HoldOK
    <3>4. \A g \in Fetcher : Holds(g, l)' =>
            consumed[l] /\ spent[l] = 0 /\ \A h \in Fetcher \ {g} : ~Holds(h, l)'
      BY <1>a, <3>2 DEF HoldOK
    <3> QED BY <2>1, <3>1, <3>3, <3>4, Zenon DEF HoldOK
  <2> QED BY <2>3, <2>4
<1>14. ASSUME NEW f \in Fetcher, NEW q \in Pool, FetchNone(f, q) PROVE HoldOK(l)'
  BY <1>14, <1>b DEF FetchNone, rowVars
<1>15. ASSUME NEW f \in Fetcher, FetchFallback(f) PROVE HoldOK(l)'
  BY <1>15, <1>b DEF FetchFallback, rowVars
<1>16. ASSUME NEW f \in Fetcher, FetchAnswer(f) PROVE HoldOK(l)'
  BY <1>16, <1>c DEF FetchAnswer
<1>17. ASSUME NEW f \in Fetcher, FetchFails(f) PROVE HoldOK(l)'
  BY <1>17, <1>c DEF FetchFails
<1>18. CASE UNCHANGED vars
  BY <1>18, <1>b DEF vars, rowVars, getVars
<1> QED
  BY <1>1, <1>2, <1>3, <1>4, <1>5, <1>6, <1>7, <1>8, <1>9, <1>10, <1>11, <1>12, <1>13,
     <1>14, <1>15, <1>16, <1>17, <1>18
  DEF Next

\* Each one-time key serves at most one session, whoever fetches at once and
\* whichever of the fetches fail.
THEOREM KeysServeOnce == Spec => []OneTimeServedOnce
<1>1. HoldInv => OneTimeServedOnce
  BY DEF HoldInv, HoldOK, OneTimeServedOnce
<1> QED BY <1>1, TypeInit, TypeStep, RowInit, RowStep, HoldInit, HoldStep, PTL DEF Spec

-----------------------------------------------------------------------------
\* What a running fetch knows

\* A committed row stays, as what it is.
LEMMA CommittedStays ==
    ASSUME TypeOK, [Next]_vars, NEW l \in KeyId, Committed(l)
    PROVE  Committed(l)' /\ kind'[l] = kind[l]
<1>a. ASSUME UNCHANGED <<kind, writer>> PROVE Committed(l)' /\ kind'[l] = kind[l]
  BY <1>a DEF Committed
<1>b. ASSUME NEW u \in Uploader, UploadEnd(u) PROVE Committed(l)' /\ kind'[l] = kind[l]
  BY <1>b, Distinct DEF Committed, UploadEnd
<1>1. ASSUME NEW u \in Uploader, UploadInsert(u) PROVE Committed(l)' /\ kind'[l] = kind[l]
  BY <1>1 DEF UploadInsert, Committed, TypeOK
<1>2. ASSUME NEW u \in Uploader, UploadCommit(u) PROVE Committed(l)' /\ kind'[l] = kind[l]
  BY <1>2 DEF UploadCommit, Committed
<1>3. ASSUME NEW u \in Uploader,
             UploadConflict(u) \/ UploadDeadlock(u) \/ UploadAnswer(u) \/ UploadFails(u)
      PROVE  Committed(l)' /\ kind'[l] = kind[l]
  BY <1>3, <1>b DEF UploadConflict, UploadDeadlock, UploadAnswer, UploadFails
<1>4. ASSUME NEW u \in Uploader,
             \/ \E b \in Payload : UploadBegin(u, b)
             \/ \E k \in KeyId : UploadNext(u, k)
      PROVE  Committed(l)' /\ kind'[l] = kind[l]
  BY <1>4, <1>a DEF UploadBegin, UploadNext, rowVars
<1>5. ASSUME NEW f \in Fetcher,
             \/ FetchBegin(f)
             \/ \E k \in KeyId : FetchSigned(f, k)
             \/ \E q \in Pool : FetchNone(f, q)
             \/ FetchFallback(f)
      PROVE  Committed(l)' /\ kind'[l] = kind[l]
  BY <1>5, <1>a DEF FetchBegin, FetchSigned, FetchNone, FetchFallback, rowVars
<1>6. ASSUME NEW f \in Fetcher,
             \/ FetchNoSigned(f) \/ FetchAnswer(f) \/ FetchFails(f)
             \/ \E q \in Pool, k \in KeyId : FetchLock(f, q, k) \/ FetchConsume(f, q, k)
      PROVE  Committed(l)' /\ kind'[l] = kind[l]
  BY <1>6, <1>a DEF FetchNoSigned, FetchAnswer, FetchFails, FetchLock, FetchConsume
<1>7. CASE UNCHANGED vars
  BY <1>7, <1>a DEF vars, rowVars
<1> QED BY <1>1, <1>2, <1>3, <1>4, <1>5, <1>6, <1>7 DEF Next

\* The rows a fetch sees are the committed ones.
LEMMA VisibleIsCommitted ==
    ASSUME TypeOK PROVE \A k \in Visible : k \in KeyId /\ Committed(k)
BY DEF Visible, Rows, Committed, Kind

\* How a step changes the locals of the fetch f: it is at its beginning, reads
\* its signed pre-key, or goes on with the one it has.
LEMMA FetcherMoves ==
    ASSUME TypeOK, [Next]_vars, NEW f \in Fetcher
    PROVE  \/ fPc'[f] \in {"idle", "signed"} /\ begun'[f] \in {{}, begun[f], Visible}
           \/ /\ fPc'[f] \notin {"idle", "signed"} /\ begun'[f] = begun[f]
              /\ \E k \in KeyId : FetchSigned(f, k)
           \/ /\ fPc[f] \notin {"idle", "signed"} /\ fPc'[f] \notin {"idle", "signed"}
              /\ begun'[f] = begun[f] /\ fSigned'[f] = fSigned[f]
<1> DEFINE
      Start == fPc'[f] \in {"idle", "signed"} /\ begun'[f] \in {{}, begun[f], Visible}
      Read == /\ fPc'[f] \notin {"idle", "signed"} /\ begun'[f] = begun[f]
              /\ \E k \in KeyId : FetchSigned(f, k)
      On == /\ fPc[f] \notin {"idle", "signed"} /\ fPc'[f] \notin {"idle", "signed"}
            /\ begun'[f] = begun[f] /\ fSigned'[f] = fSigned[f]
<1> SUFFICES Start \/ Read \/ On
  OBVIOUS
<1>a. ASSUME fPc'[f] = fPc[f], fSigned'[f] = fSigned[f], begun'[f] = begun[f]
      PROVE  Start \/ On
  BY <1>a
<1>b. ASSUME NEW g \in Fetcher, FetchEnd(g) PROVE Start \/ On
  <2>1. CASE g = f
    <3>1. fPc'[f] = "idle" /\ begun'[f] = {}
      BY <1>b, <2>1 DEF FetchEnd, TypeOK
    <3> QED BY <3>1
  <2>2. CASE g # f
    <3>1. fPc'[f] = fPc[f] /\ fSigned'[f] = fSigned[f] /\ begun'[f] = begun[f]
      BY <1>b, <2>2 DEF FetchEnd, TypeOK
    <3> QED BY <1>a, <3>1
  <2> QED BY <2>1, <2>2
<1>1. ASSUME NEW g \in Fetcher, FetchBegin(g) PROVE Start \/ On
  <2>1. CASE g = f
    <3>1. fPc'[f] = "signed" /\ begun'[f] = Visible
      BY <1>1, <2>1 DEF FetchBegin, TypeOK
    <3> QED BY <3>1
  <2>2. CASE g # f
    <3>1. fPc'[f] = fPc[f] /\ fSigned'[f] = fSigned[f] /\ begun'[f] = begun[f]
      BY <1>1, <2>2 DEF FetchBegin, TypeOK
    <3> QED BY <1>a, <3>1
  <2> QED BY <2>1, <2>2
<1>2. ASSUME NEW g \in Fetcher, NEW k \in KeyId, FetchSigned(g, k) PROVE Start \/ Read \/ On
  <2>1. CASE g = f
    <3>1. fPc'[f] = "opk" /\ begun'[f] = begun[f]
      BY <1>2, <2>1 DEF FetchSigned, TypeOK
    <3> QED BY <1>2, <2>1, <3>1
  <2>2. CASE g # f
    <3>1. fPc'[f] = fPc[f] /\ fSigned'[f] = fSigned[f] /\ begun'[f] = begun[f]
      BY <1>2, <2>2 DEF FetchSigned, TypeOK
    <3> QED BY <1>a, <3>1
  <2> QED BY <2>1, <2>2
<1>3. ASSUME NEW g \in Fetcher, NEW q \in Pool,
             \/ \E k \in KeyId : FetchLock(g, q, k) \/ FetchConsume(g, q, k)
             \/ FetchNone(g, q)
      PROVE  Start \/ On
  <2>1. fSigned'[f] = fSigned[f] /\ begun'[f] = begun[f]
    BY <1>3 DEF FetchLock, FetchConsume, FetchNone
  <2>2. CASE g = f
    <3>1. fPc[f] \in {"opk", "opkLocked", "kyber", "kyberLocked"}
      BY <1>3, <2>2 DEF FetchLock, FetchConsume, FetchNone, Locked, Pool
    <3>2. fPc'[f] \in {"opkLocked", "kyberLocked", "kyber", "fallback", "answer"}
      BY <1>3, <2>2 DEF FetchLock, FetchConsume, FetchNone, Locked, Pool, TypeOK
    <3> QED BY <2>1, <3>1, <3>2
  <2>3. CASE g # f
    <3>1. fPc'[f] = fPc[f]
      BY <1>3, <2>3 DEF FetchLock, FetchConsume, FetchNone, TypeOK
    <3> QED BY <1>a, <2>1, <3>1
  <2> QED BY <2>2, <2>3
<1>4. ASSUME NEW g \in Fetcher, FetchFallback(g) PROVE Start \/ On
  <2>1. fSigned'[f] = fSigned[f] /\ begun'[f] = begun[f]
    BY <1>4 DEF FetchFallback
  <2>2. fPc'[g] = "answer" /\ fPc[g] = "fallback" /\ (g # f => fPc'[f] = fPc[f])
    BY <1>4 DEF FetchFallback, TypeOK
  <2> QED BY <1>a, <2>1, <2>2
<1>5. ASSUME NEW g \in Fetcher, FetchNoSigned(g) \/ FetchAnswer(g) \/ FetchFails(g)
      PROVE  Start \/ On
  BY <1>5, <1>b DEF FetchNoSigned, FetchAnswer, FetchFails
<1>6. ASSUME UNCHANGED getVars PROVE Start \/ On
  BY <1>6, <1>a DEF getVars
<1>7. ASSUME NEW u \in Uploader,
             \/ \E b \in Payload : UploadBegin(u, b)
             \/ \E k \in KeyId : UploadNext(u, k)
             \/ UploadInsert(u) \/ UploadConflict(u) \/ UploadDeadlock(u)
             \/ UploadCommit(u) \/ UploadAnswer(u) \/ UploadFails(u)
      PROVE  Start \/ On
  <2>1. UNCHANGED getVars
    BY <1>7, Zenon DEF UploadBegin, UploadNext, UploadInsert, UploadConflict,
                       UploadDeadlock, UploadCommit, UploadAnswer, UploadFails
  <2> QED BY <1>6, <2>1
<1>8. CASE UNCHANGED vars
  BY <1>6, <1>8 DEF vars
<1> HIDE DEF Start, Read, On
<1> QED BY <1>1, <1>2, <1>3, <1>4, <1>5, <1>7, <1>8 DEF Next

LEMMA BegunInit == Init => BegunInv /\ SignedInv
BY DEF Init, BegunInv, SignedInv

LEMMA BegunStep == TypeOK /\ BegunInv /\ [Next]_vars => BegunInv'
<1> SUFFICES ASSUME TypeOK, BegunInv, [Next]_vars, NEW f \in Fetcher, NEW k \in begun'[f]
             PROVE  Committed(k)'
  BY DEF BegunInv
<1>1. k \in begun[f] \/ k \in Visible
  BY FetcherMoves
<1>2. k \in KeyId /\ Committed(k)
  BY <1>1, VisibleIsCommitted DEF BegunInv, TypeOK
<1> QED BY <1>2, CommittedStays

LEMMA SignedStep ==
    TypeOK /\ RowInv /\ BegunInv /\ SignedInv /\ [Next]_vars => SignedInv'
<1> SUFFICES ASSUME TypeOK, RowInv, BegunInv, SignedInv, [Next]_vars, NEW f \in Fetcher,
                    fPc'[f] \notin {"idle", "signed"}
             PROVE  /\ fSigned'[f] \in KeyId /\ Committed(fSigned[f])'
                    /\ kind'[fSigned'[f]] = "signed"
                    /\ \A k \in begun'[f] : kind'[k] = "signed" => k <= fSigned'[f]
  BY DEF SignedInv
<1>1. begun'[f] = begun[f] /\ begun[f] \subseteq KeyId
  BY FetcherMoves DEF TypeOK
<1>2. \A k \in begun[f] : Committed(k) /\ kind'[k] = kind[k]
  BY <1>1, CommittedStays DEF BegunInv
<1>3. PICK n \in KeyId : /\ fSigned'[f] = n /\ Committed(n) /\ kind[n] = "signed"
                         /\ \A k \in begun[f] : kind[k] = "signed" => k <= n
  <2>1. CASE \E k \in KeyId : FetchSigned(f, k)
    <3>1. PICK n \in KeyId : FetchSigned(f, n)
      BY <2>1
    <3>2. fSigned'[f] = n
      BY <3>1 DEF FetchSigned, TypeOK
    <3>3. n \in Rows("signed") /\ \A k \in {l \in Rows("signed") : ~consumed[l]} : k <= n
      BY <3>1 DEF FetchSigned, IsHighest
    <3>4. \A k \in begun[f] : kind[k] = "signed" => k \in Rows("signed") /\ ~consumed[k]
      BY <1>1, <1>2 DEF Rows, Committed, RowInv, RowOK, Pool
    <3> QED BY <3>2, <3>3, <3>4 DEF Rows, Committed
  <2>2. CASE fPc[f] \notin {"idle", "signed"} /\ fSigned'[f] = fSigned[f]
    BY <2>2 DEF SignedInv
  <2> QED BY <2>1, <2>2, FetcherMoves
<1>4. Committed(n)' /\ kind'[n] = kind[n]
  BY <1>3, CommittedStays
<1> QED BY <1>1, <1>2, <1>3, <1>4 DEF Committed

\* A bundle carries a signed pre-key no older than any that was there when the
\* fetch began.
THEOREM BundleIsCurrent == Spec => []SignedIsCurrent
<1>1. SignedInv => SignedIsCurrent
  BY DEF SignedInv, SignedIsCurrent
<1> QED BY <1>1, TypeInit, TypeStep, RowInit, RowStep, BegunInit, BegunStep, SignedStep, PTL
        DEF Spec

-----------------------------------------------------------------------------
\* Pools found empty

\* A key that is consumed, locked or given back stays so for a fetch that runs
\* on, or a consumed one takes the place of a locked one.
LEMMA KeysGo ==
    ASSUME TypeOK, [Next]_vars, NEW f \in Fetcher, fPc[f] # "idle", fPc'[f] # "idle",
           NEW l \in KeyId, consumed[l] \/ lock[l] # NoOne \/ l \in freed[f]
    PROVE  consumed'[l] \/ lock'[l] # NoOne \/ l \in freed'[f]
<1> DEFINE Gone == consumed'[l] \/ lock'[l] # NoOne \/ l \in freed'[f]
<1> SUFFICES Gone
  OBVIOUS
<1>a. ASSUME UNCHANGED <<consumed, lock, freed>> PROVE Gone
  BY <1>a
<1>b. ASSUME NEW g \in Fetcher, FetchEnd(g), UNCHANGED consumed PROVE Gone
  <2>1. g # f
    BY <1>b DEF FetchEnd, TypeOK
  <2>2. freed'[f] = freed[f] \cup {k \in KeyId : lock[k] = g}
    BY <1>b, <2>1 DEF FetchEnd
  <2>3. lock[l] = g \/ lock'[l] = lock[l]
    BY <1>b DEF FetchEnd
  <2> QED BY <1>b, <2>2, <2>3
<1>1. ASSUME NEW g \in Fetcher, NEW q \in Pool, NEW k \in KeyId, FetchLock(g, q, k)
      PROVE  Gone
  <2>1. UNCHANGED <<consumed, freed>> /\ (lock'[l] = lock[l] \/ lock'[l] = g)
    BY <1>1 DEF FetchLock, TypeOK
  <2> QED BY <2>1, Distinct
<1>2. ASSUME NEW g \in Fetcher, NEW q \in Pool, NEW k \in KeyId, FetchConsume(g, q, k)
      PROVE  Gone
  <2>1. l = k => consumed'[l]
    BY <1>2 DEF FetchConsume, TypeOK
  <2>2. l # k => consumed'[l] = consumed[l] /\ lock'[l] = lock[l]
    BY <1>2 DEF FetchConsume, TypeOK
  <2>3. freed' = freed
    BY <1>2 DEF FetchConsume
  <2> QED BY <2>1, <2>2, <2>3
<1>3. ASSUME NEW g \in Fetcher,
             \/ FetchBegin(g)
             \/ \E k \in KeyId : FetchSigned(g, k)
             \/ \E q \in Pool : FetchNone(g, q)
             \/ FetchFallback(g)
      PROVE  Gone
  BY <1>3, <1>a DEF FetchBegin, FetchSigned, FetchNone, FetchFallback, rowVars
<1>4. ASSUME NEW g \in Fetcher, FetchNoSigned(g) \/ FetchAnswer(g) \/ FetchFails(g)
      PROVE  Gone
  BY <1>4, <1>b DEF FetchNoSigned, FetchAnswer, FetchFails
<1>5. ASSUME NEW u \in Uploader,
             \/ \E b \in Payload : UploadBegin(u, b)
             \/ \E k \in KeyId : UploadNext(u, k)
             \/ UploadInsert(u) \/ UploadConflict(u) \/ UploadDeadlock(u)
             \/ UploadCommit(u) \/ UploadAnswer(u) \/ UploadFails(u)
      PROVE  Gone
  <2>1. UNCHANGED <<consumed, lock, freed>>
    BY <1>5, Zenon DEF UploadBegin, UploadNext, UploadInsert, UploadConflict,
                       UploadDeadlock, UploadCommit, UploadAnswer, UploadFails,
                       rowVars, getVars
  <2> QED BY <1>a, <2>1
<1>6. CASE UNCHANGED vars
  BY <1>6, <1>a DEF vars, rowVars, getVars
<1> HIDE DEF Gone
<1> QED BY <1>1, <1>2, <1>3, <1>4, <1>5, <1>6 DEF Next

\* A fetch that went without a key of the pool q went without before, or has
\* just found the pool empty.
LEMMA PoolMoves ==
    ASSUME TypeOK, [Next]_vars, NEW f \in Fetcher, NEW q \in Pool, Without(f, q)'
    PROVE  Without(f, q) \/ FetchNone(f, q)
<1> DEFINE Known == Without(f, q) \/ FetchNone(f, q)
<1> SUFFICES Known
  OBVIOUS
<1>a. ASSUME fPc'[f] = fPc[f], fOpk'[f] = fOpk[f], fKyber'[f] = fKyber[f] PROVE Known
  BY <1>a DEF Without
<1>b. fPc'[f] \in {"kyber", "kyberLocked", "fallback", "answer"}
  BY DEF Without
<1>1. ASSUME NEW g \in Fetcher, FetchEnd(g) PROVE Known
  <2>1. g # f
    BY <1>1, <1>b DEF FetchEnd, TypeOK
  <2> QED BY <1>1, <1>a, <2>1 DEF FetchEnd, TypeOK
<1>2. ASSUME NEW g \in Fetcher, FetchNoSigned(g) \/ FetchAnswer(g) \/ FetchFails(g)
      PROVE  Known
  BY <1>1, <1>2 DEF FetchNoSigned, FetchAnswer, FetchFails
<1>3. ASSUME NEW g \in Fetcher, FetchBegin(g) \/ \E k \in KeyId : FetchSigned(g, k)
      PROVE  Known
  <2>1. g # f
    BY <1>3, <1>b, ZenonT(60) DEF FetchBegin, FetchSigned, TypeOK
  <2> QED BY <1>3, <1>a, <2>1 DEF FetchBegin, FetchSigned, TypeOK
<1>4. ASSUME NEW g \in Fetcher, NEW r \in Pool, NEW k \in KeyId, FetchLock(g, r, k)
      PROVE  Known
  <2>1. CASE g = f
    <3>1. fPc[f] = r /\ fPc'[f] = Locked(r) /\ UNCHANGED <<fOpk, fKyber>>
      BY <1>4, <2>1 DEF FetchLock, TypeOK
    <3> QED BY <3>1 DEF Without, Locked, Pool
  <2>2. CASE g # f
    BY <1>4, <1>a, <2>2 DEF FetchLock, TypeOK
  <2> QED BY <2>1, <2>2
<1>5. ASSUME NEW g \in Fetcher, NEW r \in Pool, NEW k \in KeyId, FetchConsume(g, r, k)
      PROVE  Known
  <2>1. CASE g = f /\ r = "opk"
    <3>1. fPc'[f] = "kyber" /\ fOpk'[f] = k
      BY <1>5, <2>1 DEF FetchConsume, TypeOK
    <3> QED BY <3>1, Distinct DEF Without
  <2>2. CASE g = f /\ r = "kyber"
    <3>1. fPc[f] = "kyberLocked" /\ fKyber'[f] = k /\ fOpk' = fOpk
      BY <1>5, <2>2 DEF FetchConsume, Locked, TypeOK
    <3> QED BY <3>1, Distinct DEF Without
  <2>3. CASE g # f
    BY <1>5, <1>a, <2>3 DEF FetchConsume, TypeOK
  <2> QED BY <2>1, <2>2, <2>3 DEF Pool
<1>6. ASSUME NEW g \in Fetcher, NEW r \in Pool, FetchNone(g, r) PROVE Known
  <2>1. CASE g = f
    <3>1. /\ fPc[f] = r /\ UNCHANGED <<fOpk, fKyber>>
          /\ fPc'[f] = IF r = "opk" THEN "kyber" ELSE "fallback"
      BY <1>6, <2>1 DEF FetchNone, TypeOK
    <3> QED BY <1>6, <2>1, <3>1 DEF Without, Pool
  <2>2. CASE g # f
    BY <1>6, <1>a, <2>2 DEF FetchNone, TypeOK
  <2> QED BY <2>1, <2>2
<1>7. ASSUME NEW g \in Fetcher, FetchFallback(g) PROVE Known
  <2>1. /\ fPc[g] = "fallback" /\ UNCHANGED <<fOpk, fKyber>>
        /\ (g # f => fPc'[f] = fPc[f])
    BY <1>7 DEF FetchFallback, TypeOK
  <2> QED BY <1>a, <2>1 DEF Without
<1>8. ASSUME UNCHANGED getVars PROVE Known
  BY <1>8, <1>a DEF getVars
<1>9. ASSUME NEW u \in Uploader,
             \/ \E b \in Payload : UploadBegin(u, b)
             \/ \E k \in KeyId : UploadNext(u, k)
             \/ UploadInsert(u) \/ UploadConflict(u) \/ UploadDeadlock(u)
             \/ UploadCommit(u) \/ UploadAnswer(u) \/ UploadFails(u)
      PROVE  Known
  <2>1. UNCHANGED getVars
    BY <1>9, Zenon DEF UploadBegin, UploadNext, UploadInsert, UploadConflict,
                       UploadDeadlock, UploadCommit, UploadAnswer, UploadFails
  <2> QED BY <1>8, <2>1
<1>10. CASE UNCHANGED vars
  BY <1>8, <1>10 DEF vars
<1> HIDE DEF Known
<1> QED BY <1>2, <1>3, <1>4, <1>5, <1>6, <1>7, <1>9, <1>10 DEF Next

LEMMA DrainInit == Init => DrainInv
BY DEF Init, DrainInv, Drained

LEMMA DrainStep == TypeOK /\ BegunInv /\ DrainInv /\ [Next]_vars => DrainInv'
<1> SUFFICES ASSUME TypeOK, BegunInv, DrainInv, [Next]_vars,
                    NEW f \in Fetcher, NEW q \in Pool, Without(f, q)',
                    NEW k \in begun'[f], kind'[k] = q
             PROVE  consumed'[k] \/ lock'[k] # NoOne \/ k \in freed'[f]
  BY DEF DrainInv, Drained
<1>1. fPc'[f] \notin {"idle", "signed"} /\ fPc[f] # "idle"
  <2>1. fPc'[f] \notin {"idle", "signed"}
    BY DEF Without
  <2>2. Without(f, q) => fPc[f] # "idle"
    BY DEF Without
  <2>3. FetchNone(f, q) => fPc[f] # "idle"
    BY DEF FetchNone, Pool
  <2> QED BY <2>1, <2>2, <2>3, PoolMoves
<1>2. k \in begun[f] /\ k \in KeyId
  BY <1>1, FetcherMoves DEF TypeOK
<1>3. Committed(k) /\ kind[k] = q
  BY <1>2, CommittedStays DEF BegunInv
<1>4. consumed[k] \/ lock[k] # NoOne \/ k \in freed[f]
  <2>1. CASE Without(f, q)
    BY <1>2, <1>3, <2>1 DEF DrainInv, Drained
  <2>2. CASE FetchNone(f, q)
    BY <1>2, <1>3, <2>2 DEF FetchNone, Free, Rows, Committed
  <2> QED BY <2>1, <2>2, PoolMoves
<1> QED BY <1>1, <1>2, <1>4, KeysGo

\* A fetch goes without a one-time key only if none of those that were there
\* when it began was left for it.
THEOREM FallbackIsLast == Spec => []DrainedBeforeFallback
<1>1. DrainInv => DrainedBeforeFallback
  BY DEF DrainInv, Drained, Without, DrainedBeforeFallback
<1> QED BY <1>1, TypeInit, TypeStep, BegunInit, BegunStep, DrainInit, DrainStep, PTL DEF Spec

-----------------------------------------------------------------------------
\* Where the keys of an upload are

\* A step is followed by one whose earlier kinds are done, or empty.
LEMMA NextStepPast ==
    ASSUME NEW b, NEW q \in Kind, NEW r \in Past(NextStep(b, q))
    PROVE  r \in Kind /\ (r \in Past(q) \/ r = q \/ b[r] = {})
BY DEF NextStep, Past, Kind

LEMMA PastIsKind == ASSUME NEW q PROVE Past(q) \subseteq Kind
BY DEF Past, Kind

LEMMA RowsStay ==
    ASSUME TypeOK, [Next]_vars, NEW q \in Kind PROVE Rows(q) \subseteq Rows(q)'
<1>1. SUFFICES ASSUME NEW k \in Rows(q) PROVE k \in Rows(q)'
  OBVIOUS
<1>2. k \in KeyId /\ kind[k] = q /\ Committed(k)
  BY <1>1 DEF Rows, Committed, Kind
<1>3. Committed(k)' /\ kind'[k] = kind[k]
  BY <1>2, CommittedStays
<1> QED BY <1>2, <1>3 DEF Rows, Committed

LEMMA BatchInit == Init => BatchInv
BY Distinct DEF Init, BatchInv, BatchOK, Past, Kind

LEMMA BatchStep == TypeOK /\ BatchInv /\ [Next]_vars => BatchInv'
<1> SUFFICES ASSUME TypeOK, BatchInv, [Next]_vars, NEW u \in Uploader PROVE BatchOK(u)'
  BY DEF BatchInv
<1> DEFINE Pending(k) == k \in rest[u] \/ k = cur[u] \/ writer[k] = u
<1>own. \A k \in KeyId : writer[k] = u => kind[k] = uPc[u] /\ uPc[u] \in Kind
  BY DEF BatchInv, BatchOK
<1>past. ASSUME batch'[u] = batch[u]
         PROVE  \A q \in Past(uPc[u]) : batch'[u][q] \subseteq Rows(q)'
  <2>1. SUFFICES ASSUME NEW q \in Past(uPc[u]) PROVE batch[u][q] \subseteq Rows(q)'
    BY <1>past
  <2>2. batch[u][q] \subseteq Rows(q) /\ q \in Kind
    BY PastIsKind DEF BatchInv, BatchOK
  <2> QED BY <2>2, RowsStay
<1>now. uPc[u] \in Kind => \A k \in batch[u][uPc[u]] : k \in KeyId /\ Pending(k)
  BY BatchType DEF BatchInv, BatchOK
<1> HIDE DEF Pending
<1>a. \* Steps that leave the locals of u and the rows of its transaction alone.
      ASSUME uPc'[u] = uPc[u], batch'[u] = batch[u], rest'[u] = rest[u], cur'[u] = cur[u],
             \A k \in KeyId : (writer'[k] = u <=> writer[k] = u)
                              /\ (writer[k] = u => kind'[k] = kind[k])
      PROVE  BatchOK(u)'
  <2>1. \A k \in KeyId : writer'[k] = u => kind'[k] = uPc'[u] /\ uPc'[u] \in Kind
    BY <1>a, <1>own
  <2>2. \A q \in Past(uPc'[u]) : batch'[u][q] \subseteq Rows(q)'
    BY <1>a, <1>past
  <2>3. uPc'[u] \in Kind => \A k \in batch'[u][uPc'[u]] :
          k \in rest'[u] \/ k = cur'[u] \/ writer'[k] = u
    BY <1>a, <1>now DEF Pending
  <2> QED BY <2>1, <2>2, <2>3, Zenon DEF BatchOK
<1>b. \* The upload v ends.
      ASSUME NEW v \in Uploader, UploadEnd(v) PROVE BatchOK(u)'
  <2>1. CASE v = u
    <3>1. uPc'[u] = "idle" /\ \A k \in KeyId : writer'[k] # u
      BY <1>b, <2>1, Distinct DEF UploadEnd, TypeOK
    <3> QED BY <3>1 DEF BatchOK, Past, Kind
  <2>2. CASE v # u
    <3>1. uPc'[u] = uPc[u] /\ batch'[u] = batch[u] /\ rest'[u] = rest[u] /\ cur'[u] = cur[u]
      BY <1>b, <2>2 DEF UploadEnd, TypeOK
    <3>2. \A k \in KeyId : (writer'[k] = u <=> writer[k] = u)
                           /\ (writer[k] = u => kind'[k] = kind[k])
      BY <1>b, <2>2, Distinct DEF UploadEnd
    <3> QED BY <1>a, <3>1, <3>2
  <2> QED BY <2>1, <2>2
<1>1. ASSUME NEW v \in Uploader, NEW b \in Payload, UploadBegin(v, b) PROVE BatchOK(u)'
  <2>1. UNCHANGED <<kind, writer>>
    BY <1>1 DEF UploadBegin, rowVars
  <2>2. CASE v = u
    <3>1. uPc[u] = "idle" /\ uPc'[u] = "opk" /\ batch'[u] = b /\ rest'[u] = b["opk"]
      BY <1>1, <2>2 DEF UploadBegin, TypeOK
    <3>2. \A k \in KeyId : writer'[k] # u
      BY <1>own, <2>1, <3>1 DEF Kind
    <3> QED BY <3>1, <3>2 DEF BatchOK, Past, Kind
  <2>3. CASE v # u
    <3>1. uPc'[u] = uPc[u] /\ batch'[u] = batch[u] /\ rest'[u] = rest[u] /\ cur'[u] = cur[u]
      BY <1>1, <2>3 DEF UploadBegin, TypeOK
    <3> QED BY <1>a, <2>1, <3>1
  <2> QED BY <2>2, <2>3
<1>2. ASSUME NEW v \in Uploader, NEW l \in KeyId, UploadNext(v, l) PROVE BatchOK(u)'
  <2>1. UNCHANGED <<kind, writer, uPc, batch>>
    BY <1>2 DEF UploadNext, rowVars
  <2>2. CASE v = u
    <3>1. cur[u] = NoKey /\ cur'[u] = l /\ rest'[u] = rest[u] \ {l}
      BY <1>2, <2>2 DEF UploadNext, TypeOK
    <3>2. uPc'[u] \in Kind => \A k \in batch'[u][uPc'[u]] :
            k \in rest'[u] \/ k = cur'[u] \/ writer'[k] = u
      BY <1>now, <2>1, <3>1, Distinct DEF Pending
    <3>3. \A q \in Past(uPc'[u]) : batch'[u][q] \subseteq Rows(q)'
      BY <1>past, <2>1
    <3>4. \A k \in KeyId : writer'[k] = u => kind'[k] = uPc'[u] /\ uPc'[u] \in Kind
      BY <1>own, <2>1
    <3> QED BY <3>2, <3>3, <3>4, Zenon DEF BatchOK
  <2>3. CASE v # u
    <3>1. rest'[u] = rest[u] /\ cur'[u] = cur[u]
      BY <1>2, <2>3 DEF UploadNext, TypeOK
    <3> QED BY <1>a, <2>1, <3>1
  <2> QED BY <2>2, <2>3
<1>3. ASSUME NEW v \in Uploader, UploadInsert(v) PROVE BatchOK(u)'
  <2>1. PICK l \in KeyId : /\ l = cur[v] /\ kind[l] = "none" /\ uPc[v] \in Kind
                           /\ kind' = [kind EXCEPT ![l] = uPc[v]]
                           /\ writer' = [writer EXCEPT ![l] = v]
                           /\ cur' = [cur EXCEPT ![v] = NoKey]
                           /\ UNCHANGED <<uPc, batch, rest>>
    BY <1>3 DEF UploadInsert, TypeOK
  <2>2. writer[l] # u
    BY <1>own, <2>1 DEF Kind
  <2>3. CASE v = u
    <3>1. \A k \in KeyId : writer'[k] = u => kind'[k] = uPc'[u] /\ uPc'[u] \in Kind
      BY <1>own, <2>1, <2>3 DEF TypeOK
    <3>2. \A q \in Past(uPc'[u]) : batch'[u][q] \subseteq Rows(q)'
      BY <1>past, <2>1
    <3>3. uPc'[u] \in Kind => \A k \in batch'[u][uPc'[u]] :
            k \in rest'[u] \/ k = cur'[u] \/ writer'[k] = u
      BY <1>now, <2>1, <2>3 DEF Pending, TypeOK
    <3> QED BY <3>1, <3>2, <3>3, Zenon DEF BatchOK
  <2>4. CASE v # u
    <3>1. cur'[u] = cur[u]
      BY <2>1, <2>4 DEF TypeOK
    <3>2. \A k \in KeyId : (writer'[k] = u <=> writer[k] = u)
                           /\ (writer[k] = u => kind'[k] = kind[k])
      BY <2>1, <2>2, <2>4 DEF TypeOK
    <3> QED BY <1>a, <2>1, <3>1, <3>2
  <2> QED BY <2>3, <2>4
<1>4. ASSUME NEW v \in Uploader, UploadCommit(v) PROVE BatchOK(u)'
  <2> DEFINE next == NextStep(batch[v], uPc[v])
  <2>1. /\ uPc[v] \in Kind /\ rest[v] = {} /\ cur[v] = NoKey
        /\ writer' = [k \in KeyId |-> IF writer[k] = v THEN NoOne ELSE writer[k]]
        /\ uPc' = [uPc EXCEPT ![v] = next]
        /\ rest' = [rest EXCEPT ![v] = IF next = "count" THEN {} ELSE batch[v][next]]
        /\ UNCHANGED <<kind, batch, cur>>
    BY <1>4 DEF UploadCommit
  <2>2. next \in Kind \cup {"count"}
    BY NextStepType
  <2>3. \A r \in Past(next) : r \in Kind /\ (r \in Past(uPc[v]) \/ r = uPc[v] \/ batch[v][r] = {})
    BY <2>1, NextStepPast
  <2> HIDE DEF next
  <2>4. CASE v = u
    <3>1. uPc'[u] = next /\ rest'[u] = (IF next = "count" THEN {} ELSE batch[u][next])
      BY <2>1, <2>4 DEF TypeOK
    <3>2. \A k \in KeyId : writer'[k] # u
      BY <2>1, <2>4, Distinct
    <3>0. PICK step \in Kind : step = uPc[u]
      BY <2>1, <2>4
    <3>3. batch[u][step] \subseteq Rows(step)'
      <4>1. \A k \in batch[u][step] : k \in KeyId /\ writer[k] = u
        BY <1>now, <2>1, <2>4, <3>0, Distinct DEF Pending
      <4>2. \A k \in batch[u][step] : kind'[k] = step /\ writer'[k] = NoOne
        BY <1>own, <2>1, <2>4, <3>0, <4>1
      <4> QED BY <4>1, <4>2 DEF Rows
    <3>4. \A q \in Past(next) : batch'[u][q] \subseteq Rows(q)'
      <4>1. SUFFICES ASSUME NEW q \in Past(next) PROVE batch[u][q] \subseteq Rows(q)'
        BY <2>1
      <4>2. q \in Past(uPc[u]) \/ q = step \/ batch[u][q] = {}
        BY <2>3, <2>4, <3>0
      <4>3. CASE q \in Past(uPc[u])
        BY <1>past, <2>1, <4>3
      <4> QED BY <3>3, <4>2, <4>3
    <3>5. next \in Kind => rest'[u] = batch'[u][next]
      BY <2>1, <3>1 DEF Kind
    <3> QED BY <3>1, <3>2, <3>4, <3>5 DEF BatchOK
  <2>5. CASE v # u
    <3>1. uPc'[u] = uPc[u] /\ rest'[u] = rest[u] /\ batch'[u] = batch[u] /\ cur'[u] = cur[u]
      BY <2>1, <2>5 DEF TypeOK
    <3>2. \A k \in KeyId : (writer'[k] = u <=> writer[k] = u)
                           /\ (writer[k] = u => kind'[k] = kind[k])
      BY <2>1, <2>5, Distinct
    <3> QED BY <1>a, <3>1, <3>2
  <2> QED BY <2>4, <2>5
<1>5. ASSUME NEW v \in Uploader,
             UploadConflict(v) \/ UploadDeadlock(v) \/ UploadAnswer(v) \/ UploadFails(v)
      PROVE  BatchOK(u)'
  BY <1>5, <1>b DEF UploadConflict, UploadDeadlock, UploadAnswer, UploadFails
<1>6. ASSUME UNCHANGED <<kind, writer, upVars>> PROVE BatchOK(u)'
  BY <1>6, <1>a DEF upVars
<1>7. ASSUME NEW f \in Fetcher,
             \/ FetchBegin(f) \/ FetchNoSigned(f) \/ FetchFallback(f)
             \/ FetchAnswer(f) \/ FetchFails(f)
             \/ \E k \in KeyId : FetchSigned(f, k)
             \/ \E q \in Pool : FetchNone(f, q)
             \/ \E q \in Pool, k \in KeyId : FetchLock(f, q, k) \/ FetchConsume(f, q, k)
      PROVE  BatchOK(u)'
  <2>1. UNCHANGED <<kind, writer, upVars>>
    BY <1>7, Zenon DEF FetchBegin, FetchNoSigned, FetchFallback, FetchAnswer, FetchFails,
                       FetchSigned, FetchNone, FetchLock, FetchConsume, rowVars
  <2> QED BY <1>6, <2>1
<1>8. CASE UNCHANGED vars
  BY <1>6, <1>8 DEF vars, rowVars
<1> QED BY <1>1, <1>2, <1>3, <1>4, <1>5, <1>7, <1>8 DEF Next

\* An upload that answers 201 has stored every key of its payload under the
\* kind it was sent as, and they are still there when it answers.
THEOREM AcceptedStay == Spec => []AcceptedIsStored
<1>1. BatchInv => AcceptedIsStored
  BY DEF BatchInv, BatchOK, AcceptedIsStored, Past
<1> QED BY <1>1, TypeInit, TypeStep, BatchInit, BatchStep, PTL DEF Spec

-----------------------------------------------------------------------------
\* Uploads that wait for each other

\* A set of uploads each of which waits for one of the set contains a circle:
\* a smallest such subset is one, because the uploads its members wait for
\* make up such a subset too.
LEMMA CircleExists ==
    ASSUME NEW S \in SUBSET Uploader, S # {},
           \A u \in S : \E v \in S : WaitsFor(u, v)
    PROVE  \E T \in SUBSET S : T # {} /\ Circle(T)
<1> DEFINE Closed(T) == \A u \in T : \E v \in T : WaitsFor(u, v)
           Family == {T \in SUBSET S : T # {} /\ Closed(T)}
<1>1. IsFiniteSet(S)
  BY FiniteAssumption, FS_Subset
<1>2. IsWellFoundedOn(StrictSubsetOrdering(S), SUBSET S)
  BY <1>1, FS_StrictSubsetOrderingWellFounded, FS_FiniteSubsetsOfFinite
<1>3. (S \in Family) /\ (Family \subseteq SUBSET S)
  OBVIOUS
<1>4. PICK T \in Family : \A R \in Family : ~(<<R, T>> \in StrictSubsetOrdering(S))
  <2> HIDE DEF Family
  <2> QED BY <1>2, <1>3, WFMin
<1>5. \A R \in Family : R \subseteq T => R = T
  BY <1>4, <1>3 DEF StrictSubsetOrdering
<1>6. (T \in SUBSET S) /\ (T # {}) /\ Closed(T)
  OBVIOUS
<1> DEFINE Awaited == {v \in T : \E u \in T : WaitsFor(u, v)}
<1>7. Awaited \in Family
  <2>1. Awaited # {}
    BY <1>6
  <2>2. ASSUME NEW u \in Awaited PROVE \E v \in Awaited : WaitsFor(u, v)
    <3>1. PICK v \in T : WaitsFor(u, v)
      BY <1>6
    <3> QED BY <3>1
  <2> QED BY <1>6, <2>1, <2>2
<1>8. Awaited = T
  BY <1>5, <1>7
<1>9. Circle(T)
  BY <1>6, <1>8 DEF Circle
<1> QED BY <1>6, <1>9

\* Whoever inserted the row an upload waits for is under way: the rows of an
\* upload that is over are committed or gone.
LEMMA AwaitedIsUnderWay ==
    ASSUME TypeOK, BatchInv, NEW u \in Uploader, cur[u] # NoKey, writer[cur[u]] # NoOne
    PROVE  \E v \in Uploader : WaitsFor(u, v) /\ uPc[v] # "idle"
<1>1. cur[u] \in KeyId /\ writer[cur[u]] \in Uploader
  BY DEF TypeOK
<1>2. uPc[writer[cur[u]]] \in Kind
  BY <1>1 DEF BatchInv, BatchOK
<1> QED BY <1>1, <1>2 DEF WaitsFor, Kind

\* However many uploads wait for key ids of each other, they never stand
\* still: of any of them one goes on, is ended by the deadlock detector, or
\* waits for one outside that is under way (key_controller.ts:45-133).
THEOREM UploadsNeverStandStill == Spec => []NoStandstill
<1>1. TypeOK /\ BatchInv => NoStandstill
  <2> SUFFICES ASSUME TypeOK, BatchInv PROVE NoStandstill
    OBVIOUS
  <2> DEFINE Busy == {u \in Uploader : uPc[u] # "idle"}
  <2> SUFFICES ASSUME NEW S \in (SUBSET Busy) \ {{}},
                      \A u \in S : ~CanGoOn(u) /\ \A v \in Busy \ S : ~WaitsFor(u, v)
               PROVE  FALSE
    BY DEF NoStandstill
  <2>1. \A u \in S : \E v \in S : WaitsFor(u, v)
    BY AwaitedIsUnderWay DEF CanGoOn
  <2>2. PICK T \in SUBSET S : T # {} /\ Circle(T)
    BY <2>1, CircleExists
  <2>3. PICK u \in T : Deadlocked(u)
    BY <2>2 DEF Deadlocked
  <2> QED BY <2>3 DEF CanGoOn
<1> QED BY <1>1, TypeInit, TypeStep, BatchInit, BatchStep, PTL DEF Spec

-----------------------------------------------------------------------------
\* The store is a pair of pools.

\* A fetch locks one row at a time, and only while its UPDATE runs.
LockInv ==
    \A k \in KeyId : lock[k] # NoOne =>
        /\ fPc[lock[k]] = Locked(kind[k])
        /\ \A l \in KeyId : lock[l] = lock[k] => l = k

\* A fetch has no key of a pool it did not come to.
HandsInv ==
    \A f \in Fetcher :
        /\ fPc[f] \in {"idle", "signed", "opk", "opkLocked"} => fOpk[f] = NoKey
        /\ fPc[f] # "answer" => fKyber[f] = NoKey

LEMMA LockInit == Init => LockInv /\ HandsInv
BY DEF Init, LockInv, HandsInv

\* What an upload does to the table: locked rows and fetches are left alone.
LEMMA UploadKeepsLocked ==
    ASSUME TypeOK, RowInv, NEW u \in Uploader,
           \/ \E b \in Payload : UploadBegin(u, b)
           \/ \E k \in KeyId : UploadNext(u, k)
           \/ UploadInsert(u) \/ UploadConflict(u) \/ UploadDeadlock(u)
           \/ UploadCommit(u) \/ UploadAnswer(u) \/ UploadFails(u)
    PROVE  /\ UNCHANGED <<lock, consumed, getVars, spent>>
           /\ \A k \in KeyId : lock[k] # NoOne => kind'[k] = kind[k]
<1>1. UNCHANGED <<lock, consumed, getVars, spent>>
  BY Zenon DEF UploadBegin, UploadNext, UploadInsert, UploadConflict, UploadDeadlock,
               UploadCommit, UploadAnswer, UploadFails, rowVars
<1>2. SUFFICES ASSUME NEW k \in KeyId, lock[k] # NoOne PROVE kind'[k] = kind[k]
  BY <1>1
<1>3. kind[k] # "none" /\ writer[k] = NoOne
  BY <1>2 DEF RowInv, RowOK
<1>4. CASE UploadInsert(u)
  BY <1>3, <1>4 DEF UploadInsert, TypeOK
<1>5. CASE UploadEnd(u)
  BY <1>3, <1>5, Distinct DEF UploadEnd
<1>6. CASE UNCHANGED kind
  BY <1>6
<1> QED BY <1>4, <1>5, <1>6 DEF UploadBegin, UploadNext, UploadConflict, UploadDeadlock,
                                UploadCommit, UploadAnswer, UploadFails, rowVars

LEMMA LockStep == TypeOK /\ RowInv /\ LockInv /\ [Next]_vars => LockInv'
<1> SUFFICES ASSUME TypeOK, RowInv, LockInv, [Next]_vars PROVE LockInv'
  OBVIOUS
<1>a. \* Steps that lock nothing and move no fetch that holds a lock.
      ASSUME \A k \in KeyId : lock'[k] # NoOne =>
                /\ lock'[k] = lock[k] /\ kind'[k] = kind[k]
                /\ fPc'[lock[k]] = fPc[lock[k]]
      PROVE  LockInv'
  BY <1>a DEF LockInv
<1>b. \A k \in KeyId : lock[k] \in Fetcher \cup {NoOne}
  BY DEF TypeOK
<1>c. \A k \in KeyId : lock[k] # NoOne => fPc[lock[k]] \in {"opkLocked", "kyberLocked"}
  BY DEF LockInv, Locked
<1>1. ASSUME NEW u \in Uploader,
             \/ \E b \in Payload : UploadBegin(u, b)
             \/ \E k \in KeyId : UploadNext(u, k)
             \/ UploadInsert(u) \/ UploadConflict(u) \/ UploadDeadlock(u)
             \/ UploadCommit(u) \/ UploadAnswer(u) \/ UploadFails(u)
      PROVE  LockInv'
  <2>1. /\ UNCHANGED <<lock, getVars>>
        /\ \A k \in KeyId : lock[k] # NoOne => kind'[k] = kind[k]
    BY <1>1, UploadKeepsLocked
  <2> QED BY <1>a, <2>1 DEF getVars
<1>2. ASSUME NEW f \in Fetcher,
             \/ FetchBegin(f)
             \/ \E k \in KeyId : FetchSigned(f, k)
             \/ \E q \in Pool : FetchNone(f, q)
             \/ FetchFallback(f)
      PROVE  LockInv'
  <2>1. /\ UNCHANGED <<lock, kind>>
        /\ fPc[f] \notin {"opkLocked", "kyberLocked"}
        /\ \A g \in Fetcher \ {f} : fPc'[g] = fPc[g]
    BY <1>2 DEF FetchBegin, FetchSigned, FetchNone, FetchFallback, rowVars, Pool, TypeOK
  <2> QED BY <1>a, <1>b, <1>c, <2>1
<1>3. ASSUME NEW f \in Fetcher, FetchNoSigned(f) \/ FetchAnswer(f) \/ FetchFails(f)
      PROVE  LockInv'
  <2>1. FetchEnd(f) /\ UNCHANGED kind
    BY <1>3 DEF FetchNoSigned, FetchAnswer, FetchFails
  <2>2. /\ \A k \in KeyId : lock'[k] = IF lock[k] = f THEN NoOne ELSE lock[k]
        /\ \A g \in Fetcher \ {f} : fPc'[g] = fPc[g]
    BY <2>1 DEF FetchEnd, TypeOK
  <2> QED BY <1>a, <1>b, <2>1, <2>2
<1>4. ASSUME NEW f \in Fetcher, NEW q \in Pool, NEW k \in KeyId, FetchLock(f, q, k)
      PROVE  LockInv'
  <2>1. /\ kind[k] = q /\ UNCHANGED kind
        /\ fPc[f] \in {"opk", "kyber"}
        /\ lock'[k] = f /\ \A l \in KeyId \ {k} : lock'[l] = lock[l]
        /\ fPc'[f] = Locked(q) /\ \A g \in Fetcher \ {f} : fPc'[g] = fPc[g]
    BY <1>4 DEF FetchLock, IsLowest, Free, Rows, Pool, TypeOK
  <2>2. \A l \in KeyId : lock[l] # f
    BY <1>c, <2>1, Distinct
  <2> QED BY <1>b, <2>1, <2>2 DEF LockInv
<1>5. ASSUME NEW f \in Fetcher, NEW q \in Pool, NEW k \in KeyId, FetchConsume(f, q, k)
      PROVE  LockInv'
  <2>1. /\ lock[k] = f /\ UNCHANGED kind
        /\ lock'[k] = NoOne /\ \A l \in KeyId \ {k} : lock'[l] = lock[l]
        /\ \A g \in Fetcher \ {f} : fPc'[g] = fPc[g]
    BY <1>5 DEF FetchConsume, TypeOK
  <2>2. \A l \in KeyId \ {k} : lock[l] # f
    BY <2>1, Distinct DEF LockInv
  <2> QED BY <1>a, <1>b, <2>1, <2>2
<1>6. CASE UNCHANGED vars
  BY <1>6, <1>a DEF vars, rowVars, getVars
<1> QED BY <1>1, <1>2, <1>3, <1>4, <1>5, <1>6 DEF Next

LEMMA HandsStep == TypeOK /\ HandsInv /\ [Next]_vars => HandsInv'
<1> SUFFICES ASSUME TypeOK, HandsInv, [Next]_vars PROVE HandsInv'
  OBVIOUS
<1>a. ASSUME UNCHANGED <<fPc, fOpk, fKyber>> PROVE HandsInv'
  BY <1>a DEF HandsInv
<1>1. ASSUME NEW u \in Uploader,
             \/ \E b \in Payload : UploadBegin(u, b)
             \/ \E k \in KeyId : UploadNext(u, k)
             \/ UploadInsert(u) \/ UploadConflict(u) \/ UploadDeadlock(u)
             \/ UploadCommit(u) \/ UploadAnswer(u) \/ UploadFails(u)
      PROVE  HandsInv'
  <2>1. UNCHANGED getVars
    BY <1>1, Zenon DEF UploadBegin, UploadNext, UploadInsert, UploadConflict,
                       UploadDeadlock, UploadCommit, UploadAnswer, UploadFails
  <2> QED BY <1>a, <2>1 DEF getVars
<1>2. ASSUME NEW f \in Fetcher,
             \/ FetchBegin(f)
             \/ \E k \in KeyId : FetchSigned(f, k)
             \/ \E q \in Pool, k \in KeyId : FetchLock(f, q, k)
             \/ \E q \in Pool : FetchNone(f, q)
             \/ FetchFallback(f)
      PROVE  HandsInv'
  <2>1. /\ UNCHANGED <<fOpk, fKyber>>
        /\ \A g \in Fetcher \ {f} : fPc'[g] = fPc[g]
        /\ fPc'[f] \in {"signed", "opk", "opkLocked"}
              => fPc[f] \in {"idle", "signed", "opk"}
        /\ fPc'[f] # "idle" /\ fPc[f] # "answer"
    BY <1>2 DEF FetchBegin, FetchSigned, FetchLock, FetchNone, FetchFallback, Locked, Pool,
                TypeOK
  <2> QED BY <2>1 DEF HandsInv
<1>3. ASSUME NEW f \in Fetcher, FetchNoSigned(f) \/ FetchAnswer(f) \/ FetchFails(f)
      PROVE  HandsInv'
  <2>1. FetchEnd(f)
    BY <1>3 DEF FetchNoSigned, FetchAnswer, FetchFails
  <2>2. /\ fOpk'[f] = NoKey /\ fKyber'[f] = NoKey
        /\ \A g \in Fetcher \ {f} :
              fPc'[g] = fPc[g] /\ fOpk'[g] = fOpk[g] /\ fKyber'[g] = fKyber[g]
    BY <2>1 DEF FetchEnd, TypeOK
  <2> QED BY <2>2 DEF HandsInv
<1>4. ASSUME NEW f \in Fetcher, NEW q \in Pool, NEW k \in KeyId, FetchConsume(f, q, k)
      PROVE  HandsInv'
  <2>1. \A g \in Fetcher \ {f} :
            fPc'[g] = fPc[g] /\ fOpk'[g] = fOpk[g] /\ fKyber'[g] = fKyber[g]
    BY <1>4 DEF FetchConsume, TypeOK
  <2>2. \/ fPc[f] = "opkLocked" /\ fPc'[f] = "kyber" /\ fKyber'[f] = fKyber[f]
        \/ fPc'[f] = "answer"
    BY <1>4 DEF FetchConsume, Locked, Pool, TypeOK
  <2> QED BY <2>1, <2>2 DEF HandsInv
<1>5. CASE UNCHANGED vars
  BY <1>5, <1>a DEF vars, getVars
<1> QED BY <1>1, <1>2, <1>3, <1>4, <1>5 DEF Next

LEMMA KeysInit == Init => Keys!Init
<1> SUFFICES ASSUME Init PROVE Keys!Init
  OBVIOUS
<1>1. \A q \in Pool : Rows(q) = {}
  BY DEF Init, Rows, Pool
<1>2. /\ {k \in KeyId : consumed[k]} = {}
      /\ \A f \in Fetcher : fPc[f] = "idle" /\ Tried(f) = {}
      /\ \A f \in Fetcher : {fOpk[f], fKyber[f]} \ {NoKey} = {}
  BY DEF Init, Tried
<1> QED BY <1>1, <1>2 DEF Keys!Init

\* The pools only change when an upload commits.
LEMMA SameRows ==
    ASSUME \A k \in KeyId : \/ kind'[k] = kind[k] /\ writer'[k] = writer[k]
                            \/ ~Committed(k) /\ ~Committed(k)'
    PROVE  \A q \in Pool : Rows(q)' = Rows(q)
BY DEF Rows, Committed, Pool

\* Every step is a step of the two pools or leaves them alone.
LEMMA KeysStep ==
    /\ TypeOK /\ TypeOK' /\ RowInv /\ BatchInv /\ LockInv /\ HandsInv
    /\ [Next]_vars
    => [Keys!Next]_Keys!vars
<1> SUFFICES ASSUME TypeOK, TypeOK', RowInv, BatchInv, LockInv, HandsInv, [Next]_vars
             PROVE  [Keys!Next]_Keys!vars
  OBVIOUS
<1> DEFINE Hand(f) == {fOpk[f], fKyber[f]} \ {NoKey}
           Gone == {k \in KeyId : consumed[k]}
<1>a. \* The table as fetches see it.
      ASSUME \A q \in Pool : Rows(q)' = Rows(q)
      PROVE  [q \in Pool |-> Rows(q)]' = [q \in Pool |-> Rows(q)]
  BY <1>a
<1>b. \* Fetches that do not move.
      ASSUME UNCHANGED <<fPc, fOpk, fKyber>>
      PROVE  /\ [f \in Fetcher |-> fPc[f] # "idle"]' = [f \in Fetcher |-> fPc[f] # "idle"]
             /\ [f \in Fetcher |-> Tried(f)]' = [f \in Fetcher |-> Tried(f)]
             /\ [f \in Fetcher |-> Hand(f)]' = [f \in Fetcher |-> Hand(f)]
  BY <1>b DEF Tried
<1>c. \* Steps that leave the pools and the hands alone.
      ASSUME \A q \in Pool : Rows(q)' = Rows(q), UNCHANGED consumed,
             \A f \in Fetcher : /\ (fPc'[f] # "idle") = (fPc[f] # "idle")
                                /\ Tried(f)' = Tried(f)
                                /\ Hand(f)' = Hand(f)
      PROVE  UNCHANGED Keys!vars
  <2>1. /\ [f \in Fetcher |-> fPc[f] # "idle"]' = [f \in Fetcher |-> fPc[f] # "idle"]
        /\ [f \in Fetcher |-> Tried(f)]' = [f \in Fetcher |-> Tried(f)]
        /\ [f \in Fetcher |-> Hand(f)]' = [f \in Fetcher |-> Hand(f)]
    BY <1>c
  <2> QED BY <1>a, <1>c, <2>1 DEF Keys!vars
<1>1. ASSUME NEW u \in Uploader,
             \/ \E b \in Payload : UploadBegin(u, b)
             \/ \E k \in KeyId : UploadNext(u, k)
             \/ UploadInsert(u) \/ UploadConflict(u) \/ UploadDeadlock(u)
             \/ UploadAnswer(u) \/ UploadFails(u)
      PROVE  UNCHANGED Keys!vars
  <2>1. UNCHANGED <<consumed, fPc, fOpk, fKyber>>
    BY <1>1, UploadKeepsLocked DEF getVars
  <2>2. \A k \in KeyId : \/ kind'[k] = kind[k] /\ writer'[k] = writer[k]
                         \/ ~Committed(k) /\ ~Committed(k)'
    <3>1. CASE UploadInsert(u)
      BY <3>1, Distinct DEF UploadInsert, Committed, TypeOK
    <3>2. CASE UploadEnd(u)
      BY <3>2, Distinct DEF UploadEnd, Committed
    <3>3. CASE UNCHANGED rowVars
      BY <3>3 DEF rowVars
    <3> QED BY <1>1, <3>1, <3>2, <3>3
            DEF UploadBegin, UploadNext, UploadConflict, UploadDeadlock, UploadAnswer, UploadFails
  <2>3. \A q \in Pool : Rows(q)' = Rows(q)
    BY <2>2, SameRows
  <2> QED BY <1>a, <1>b, <2>1, <2>3 DEF Keys!vars
<1>2. ASSUME NEW u \in Uploader, UploadCommit(u) PROVE [Keys!Next]_Keys!vars
  <2>1. /\ UNCHANGED <<kind, consumed, fPc, fOpk, fKyber>>
        /\ uPc[u] \in Kind
        /\ \A k \in KeyId : writer'[k] = IF writer[k] = u THEN NoOne ELSE writer[k]
    BY <1>2 DEF UploadCommit, getVars
  <2>2. \A k \in KeyId : writer[k] = u => kind[k] = uPc[u]
    BY DEF BatchInv, BatchOK
  <2>3. \A q \in Kind : Rows(q) \subseteq Rows(q)' /\ (q # uPc[u] => Rows(q)' = Rows(q))
    BY <2>1, <2>2, Distinct DEF Rows
  <2>4. \A q, r \in Kind : q # r => Rows(q) \cap Rows(r)' = {}
    BY <2>1 DEF Rows
  <2>5. CASE uPc[u] \notin Pool
    <3>1. \A q \in Pool : Rows(q)' = Rows(q)
      BY <2>3, <2>5 DEF Pool, Kind
    <3> QED BY <1>a, <1>b, <2>1, <3>1 DEF Keys!vars
  <2>6. CASE uPc[u] \in Pool
    <3>1. [q \in Pool |-> Rows(q)]' \in [Pool -> SUBSET KeyId]
      BY DEF Rows
    <3>2. \A q \in Pool : q \in Kind
      BY DEF Pool, Kind
    <3>3. Keys!Supply(uPc[u])
      BY <1>b, <2>1, <2>3, <2>4, <2>6, <3>1, <3>2 DEF Keys!Supply
    <3> QED BY <2>6, <3>3 DEF Keys!Next
  <2> QED BY <2>5, <2>6
<1>3. ASSUME NEW f \in Fetcher, NEW q, q \in FetchStep, UNCHANGED <<kind, writer>>,
             \A g \in Fetcher \ {f} :
                 fPc'[g] = fPc[g] /\ fOpk'[g] = fOpk[g] /\ fKyber'[g] = fKyber[g],
             fPc'[f] = q
      PROVE  /\ [p \in Pool |-> Rows(p)]' = [p \in Pool |-> Rows(p)]
             /\ [g \in Fetcher |-> fPc[g] # "idle"]'
                  = [[g \in Fetcher |-> fPc[g] # "idle"] EXCEPT ![f] = (q # "idle")]
             /\ [g \in Fetcher |-> Tried(g)]'
                  = [[g \in Fetcher |-> Tried(g)] EXCEPT ![f] = Tried(f)']
             /\ [g \in Fetcher |-> Hand(g)]'
                  = [[g \in Fetcher |-> Hand(g)] EXCEPT ![f] = Hand(f)']
  <2>1. \A p \in Pool : Rows(p)' = Rows(p)
    BY <1>3 DEF Rows
  <2>2. \A g \in Fetcher \ {f} : Tried(g)' = Tried(g) /\ Hand(g)' = Hand(g)
    BY <1>3 DEF Tried
  <2> HIDE DEF Hand
  <2> QED BY <1>3, <1>a, <2>1, <2>2
<1>4. ASSUME NEW f \in Fetcher,
             \/ \E k \in KeyId : FetchSigned(f, k)
             \/ \E q \in Pool, k \in KeyId : FetchLock(f, q, k)
             \/ FetchFallback(f)
      PROVE  UNCHANGED Keys!vars
  <2>1. /\ UNCHANGED <<kind, writer, consumed, fOpk, fKyber>>
        /\ \A g \in Fetcher \ {f} : fPc'[g] = fPc[g]
        /\ \/ fPc[f] = "signed" /\ fPc'[f] = "opk"
           \/ fPc[f] = "opk" /\ fPc'[f] = "opkLocked"
           \/ fPc[f] = "kyber" /\ fPc'[f] = "kyberLocked"
           \/ fPc[f] = "fallback" /\ fPc'[f] = "answer"
    <3>1. CASE \E k \in KeyId : FetchSigned(f, k)
      BY <3>1 DEF FetchSigned, rowVars, TypeOK
    <3>2. CASE \E q \in Pool, k \in KeyId : FetchLock(f, q, k)
      BY <3>2 DEF FetchLock, Locked, Pool, TypeOK
    <3>3. CASE FetchFallback(f)
      BY <3>3 DEF FetchFallback, rowVars, TypeOK
    <3> QED BY <1>4, <3>1, <3>2, <3>3
  <2>2. \A q \in Pool : Rows(q)' = Rows(q)
    BY <2>1 DEF Rows
  <2>3. \A g \in Fetcher : /\ (fPc'[g] # "idle") = (fPc[g] # "idle")
                           /\ Tried(g)' = Tried(g) /\ Hand(g)' = Hand(g)
    BY <2>1 DEF Tried
  <2> QED BY <1>c, <2>1, <2>2, <2>3
<1>5. ASSUME NEW f \in Fetcher, FetchBegin(f) PROVE Keys!Next
  <2>1. /\ fPc[f] = "idle" /\ fPc'[f] = "signed"
        /\ UNCHANGED <<kind, writer, consumed, fOpk, fKyber>>
        /\ \A g \in Fetcher \ {f} : fPc'[g] = fPc[g]
    BY <1>5 DEF FetchBegin, rowVars, TypeOK
  <2>2. Tried(f)' = Tried(f) /\ Hand(f)' = Hand(f)
    BY <2>1 DEF Tried
  <2>3. Keys!Ask(f)
    <3> HIDE DEF Hand
    <3>1. /\ [p \in Pool |-> Rows(p)]' = [p \in Pool |-> Rows(p)]
          /\ [g \in Fetcher |-> fPc[g] # "idle"]'
               = [[g \in Fetcher |-> fPc[g] # "idle"] EXCEPT ![f] = TRUE]
          /\ [g \in Fetcher |-> Tried(g)]' = [g \in Fetcher |-> Tried(g)]
          /\ [g \in Fetcher |-> Hand(g)]' = [g \in Fetcher |-> Hand(g)]
      BY <1>3, <2>1, <2>2 DEF FetchStep
    <3> QED BY <2>1, <3>1 DEF Keys!Ask, Hand
  <2> QED BY <2>3 DEF Keys!Next
<1>6. ASSUME NEW f \in Fetcher, FetchNoSigned(f) \/ FetchAnswer(f) \/ FetchFails(f)
      PROVE  Keys!Next
  <2>1. /\ fPc[f] # "idle" /\ fPc'[f] = "idle"
        /\ UNCHANGED <<kind, writer, consumed>>
        /\ fOpk'[f] = NoKey /\ fKyber'[f] = NoKey
        /\ \A g \in Fetcher \ {f} :
              fPc'[g] = fPc[g] /\ fOpk'[g] = fOpk[g] /\ fKyber'[g] = fKyber[g]
    BY <1>6 DEF FetchNoSigned, FetchAnswer, FetchFails, FetchEnd, TypeOK
  <2>2. Tried(f)' = {} /\ Hand(f)' = {}
    BY <2>1 DEF Tried
  <2>3. Keys!End(f)
    BY <1>3, <2>1, <2>2 DEF Keys!End, FetchStep
  <2> QED BY <2>3 DEF Keys!Next
<1>7. ASSUME NEW f \in Fetcher, NEW q \in Pool, NEW k \in KeyId, FetchConsume(f, q, k)
      PROVE  Keys!Next
  <2>1. /\ lock[k] = f /\ fPc[f] = Locked(q)
        /\ UNCHANGED <<kind, writer>>
        /\ consumed' = [consumed EXCEPT ![k] = TRUE]
        /\ \A g \in Fetcher \ {f} :
              fPc'[g] = fPc[g] /\ fOpk'[g] = fOpk[g] /\ fKyber'[g] = fKyber[g]
    BY <1>7 DEF FetchConsume, TypeOK
  <2>2. kind[k] = q /\ writer[k] = NoOne /\ ~consumed[k]
    <3>1. lock[k] # NoOne
      BY <2>1, Distinct
    <3>2. kind[k] \in Pool /\ Locked(kind[k]) = Locked(q)
      BY <2>1, <3>1 DEF LockInv, RowInv, RowOK
    <3> QED BY <3>1, <3>2 DEF Locked, Pool, RowInv, RowOK
  <2>3. {l \in KeyId : consumed'[l]} = Gone \cup {k}
    BY <2>1 DEF TypeOK
  <2>4. k \in Rows(q) \ Gone
    BY <2>2 DEF Rows
  <2>5. /\ fPc[f] # "idle" /\ fPc'[f] # "idle" /\ fPc'[f] \in FetchStep
        /\ q \notin Tried(f) /\ Tried(f)' = Tried(f) \cup {q}
        /\ Hand(f)' = Hand(f) \cup {k}
    <3>1. k # NoKey
      BY Distinct
    <3>2. CASE q = "opk"
      <4>1. /\ fPc[f] = "opkLocked" /\ fPc'[f] = "kyber"
            /\ fOpk'[f] = k /\ fKyber'[f] = fKyber[f]
        BY <1>7, <3>2 DEF FetchConsume, Locked, TypeOK
      <4>2. fOpk[f] = NoKey
        BY <4>1 DEF HandsInv
      <4> QED BY <3>1, <3>2, <4>1, <4>2 DEF Tried, FetchStep
    <3>3. CASE q = "kyber"
      <4>1. /\ fPc[f] = "kyberLocked" /\ fPc'[f] = "answer"
            /\ fKyber'[f] = k /\ fOpk'[f] = fOpk[f]
        BY <1>7, <3>3 DEF FetchConsume, Locked, TypeOK
      <4>2. fKyber[f] = NoKey
        BY <4>1 DEF HandsInv
      <4> QED BY <3>1, <3>3, <4>1, <4>2 DEF Tried, FetchStep
    <3> QED BY <3>2, <3>3 DEF Pool
  <2>6. Keys!Serve(f, q, k)
    <3> HIDE DEF Hand, Gone
    <3>1. (fPc'[f] # "idle") = TRUE
      BY <2>5
    <3>2. [g \in Fetcher |-> fPc[g] # "idle"]' = [g \in Fetcher |-> fPc[g] # "idle"]
      BY <1>3, <2>1, <2>5, <3>1
    <3>3. /\ [p \in Pool |-> Rows(p)]' = [p \in Pool |-> Rows(p)]
          /\ [g \in Fetcher |-> Tried(g)]'
               = [[g \in Fetcher |-> Tried(g)] EXCEPT ![f] = Tried(f) \cup {q}]
          /\ [g \in Fetcher |-> Hand(g)]'
               = [[g \in Fetcher |-> Hand(g)] EXCEPT ![f] = Hand(f) \cup {k}]
      BY <1>3, <2>1, <2>5
    <3> QED BY <2>3, <2>5, <3>2, <3>3 DEF Keys!Serve, Hand, Gone
  <2> QED BY <2>4, <2>6 DEF Keys!Next, Keys!Left
<1>8. ASSUME NEW f \in Fetcher, NEW q \in Pool, FetchNone(f, q) PROVE Keys!Next
  <2>1. /\ fPc[f] = q /\ Free(q) = {}
        /\ fPc'[f] = IF q = "opk" THEN "kyber" ELSE "fallback"
        /\ UNCHANGED <<kind, writer, consumed, fOpk, fKyber>>
        /\ \A g \in Fetcher \ {f} : fPc'[g] = fPc[g]
    BY <1>8 DEF FetchNone, rowVars, TypeOK
  <2>2. /\ fPc[f] # "idle" /\ fPc'[f] # "idle" /\ fPc'[f] \in FetchStep
        /\ q \notin Tried(f) /\ Tried(f)' = Tried(f) \cup {q}
        /\ Hand(f)' = Hand(f)
    BY <2>1 DEF Tried, Pool, FetchStep
  <2>3. \A k \in Rows(q) \ Gone :
            /\ lock[k] \in Keys!Rivals(f, q)
            /\ \A l \in Rows(q) \ Gone : lock[l] = lock[k] => l = k
    <3>1. SUFFICES ASSUME NEW k \in Rows(q) \ Gone
                   PROVE  /\ lock[k] \in Keys!Rivals(f, q)
                          /\ \A l \in Rows(q) \ Gone : lock[l] = lock[k] => l = k
      OBVIOUS
    <3>2. k \in KeyId /\ kind[k] = q /\ lock[k] # NoOne
      BY <2>1 DEF Free, Rows
    <3>3. lock[k] \in Fetcher /\ fPc[lock[k]] = Locked(q)
      BY <3>2 DEF LockInv, TypeOK
    <3>4. lock[k] # f /\ fPc[lock[k]] # "idle" /\ q \notin Tried(lock[k])
      BY <2>1, <3>3 DEF Locked, Pool, Tried
    <3> QED BY <3>2, <3>3, <3>4 DEF LockInv, Rows, Keys!Rivals
  <2>4. Keys!Contended(f, q)
    <3> DEFINE rival == [k \in Rows(q) \ Gone |-> lock[k]]
    <3>1. rival \in [Rows(q) \ Gone -> Keys!Rivals(f, q)]
      BY <2>3
    <3>2. \A k, l \in Rows(q) \ Gone : rival[k] = rival[l] => k = l
      BY <2>3
    <3> HIDE DEF rival
    <3>3. Keys!Left(q) = Rows(q) \ Gone
      BY DEF Keys!Left
    <3> HIDE DEF Gone
    <3> QED BY <3>1, <3>2, <3>3 DEF Keys!Contended
  <2>5. Keys!Miss(f, q)
    <3> HIDE DEF Hand, Gone
    <3>1. (fPc'[f] # "idle") = TRUE
      BY <2>2
    <3>2. [g \in Fetcher |-> fPc[g] # "idle"]' = [g \in Fetcher |-> fPc[g] # "idle"]
      BY <1>3, <2>1, <2>2, <3>1
    <3>3. /\ [p \in Pool |-> Rows(p)]' = [p \in Pool |-> Rows(p)]
          /\ [g \in Fetcher |-> Tried(g)]'
               = [[g \in Fetcher |-> Tried(g)] EXCEPT ![f] = Tried(f) \cup {q}]
          /\ [g \in Fetcher |-> Hand(g)]' = [g \in Fetcher |-> Hand(g)]
      BY <1>3, <2>1, <2>2
    <3> QED BY <2>1, <2>2, <2>4, <3>2, <3>3 DEF Keys!Miss, Hand
  <2> QED BY <2>5 DEF Keys!Next
<1>9. CASE UNCHANGED vars
  <2>1. \A q \in Pool : Rows(q)' = Rows(q)
    BY <1>9 DEF vars, rowVars, Rows
  <2> QED BY <1>9, <1>a, <1>b, <2>1 DEF vars, rowVars, getVars, Keys!vars
<1> HIDE DEF Hand, Gone
<1> QED BY <1>1, <1>2, <1>4, <1>5, <1>6, <1>7, <1>8, <1>9 DEF Next

\* The pre-key store is a pair of pools: key ids that arrive by many INSERTs and
\* leave by a lock, a skip and an UPDATE show a client nothing that module
\* KeyPool does not allow (key_controller.ts:45-265).
THEOREM StoreIsAKeyPool == Spec => ImplementsKeyPool
<1> DEFINE Inv == TypeOK /\ RowInv /\ BatchInv /\ LockInv /\ HandsInv
<1>1. Init => Inv
  BY TypeInit, RowInit, BatchInit, LockInit
<1>2. Inv /\ [Next]_vars => Inv'
  BY TypeStep, RowStep, BatchStep, LockStep, HandsStep
<1>3. Init => Keys!Init
  BY KeysInit
<1>4. Inv /\ Inv' /\ [Next]_vars => [Keys!Next]_Keys!vars
  BY KeysStep
<1> HIDE DEF Inv
<1> QED BY <1>1, <1>2, <1>3, <1>4, PTL DEF Spec, ImplementsKeyPool, Keys!Spec

\* The fetches that are taking a key of the pool q.
At(q) == {f \in Fetcher : fPc[f] \in {q, Locked(q)}}

\* A fetch goes without a key of a pool only at a moment when fewer keys are
\* left than fetches are taking one: a key a rival has locked costs nobody else
\* a key, and n keys see n concurrent fetches through.
EnoughKeys ==
    [][\A f \in Fetcher, q \in Pool :
          fPc[f] = q /\ fPc'[f] \notin {q, Locked(q), "idle"} =>
             Cardinality({k \in Rows(q) : ~consumed[k]}) < Cardinality(At(q))]_vars

\* n unconsumed keys see n concurrent fetches through, for any n: a fetch that
\* finds no row to lock has a rival for each key that is left, and they differ
\* (key_controller.ts:291-364).
THEOREM KeysForEverybody == Spec => EnoughKeys
<1> DEFINE Left(q) == {k \in Rows(q) : ~consumed[k]}
           Inv == TypeOK /\ RowInv /\ LockInv
<1>1. ASSUME Inv, NEW f \in Fetcher, NEW q \in Pool, FetchNone(f, q)
      PROVE  Cardinality(Left(q)) < Cardinality(At(q))
  <2>1. \A k \in Left(q) : lock[k] \in At(q) \ {f}
    <3> SUFFICES ASSUME NEW k \in Left(q) PROVE lock[k] \in At(q) \ {f}
      OBVIOUS
    <3>1. k \in KeyId /\ kind[k] = q /\ lock[k] # NoOne
      BY <1>1 DEF FetchNone, Free, Rows
    <3>2. lock[k] \in Fetcher /\ fPc[lock[k]] = Locked(q)
      BY <1>1, <3>1 DEF TypeOK, LockInv
    <3>3. fPc[f] # Locked(q)
      BY <1>1 DEF FetchNone, Locked, Pool
    <3> QED BY <3>2, <3>3 DEF At
  <2> DEFINE rival == [k \in Left(q) |-> lock[k]]
  <2>2. rival \in Injection(Left(q), At(q) \ {f})
    <3>1. \A k \in Left(q) : k \in KeyId /\ lock[k] # NoOne
      BY <1>1 DEF FetchNone, Free, Rows
    <3>2. \A k, l \in Left(q) : lock[k] = lock[l] => k = l
      BY <1>1, <3>1 DEF LockInv
    <3>3. rival \in [Left(q) -> At(q) \ {f}]
      BY <2>1
    <3> QED BY <3>2, <3>3 DEF Injection, IsInjective
  <2>3. f \in At(q)
    BY <1>1 DEF FetchNone, At
  <2>4. IsFiniteSet(At(q))
    BY FiniteAssumption, FS_Subset DEF At
  <2>5. /\ IsFiniteSet(At(q) \ {f})
        /\ Cardinality(At(q) \ {f}) = Cardinality(At(q)) - 1
    BY <2>3, <2>4, FS_RemoveElement
  <2>6. IsFiniteSet(Left(q)) /\ Cardinality(Left(q)) =< Cardinality(At(q) \ {f})
    <3> HIDE DEF rival, Left
    <3> QED BY <2>2, <2>5, FS_Injection
  <2>7. Cardinality(Left(q)) \in Nat /\ Cardinality(At(q)) \in Nat
    BY <2>4, <2>6, FS_CardinalityType
  <2> QED BY <2>5, <2>6, <2>7
<1>2. ASSUME TypeOK, [Next]_vars, NEW f \in Fetcher, NEW q \in Pool,
             fPc[f] = q, fPc'[f] \notin {q, Locked(q), "idle"}
      PROVE  FetchNone(f, q)
  <2>1. fPc'[f] # fPc[f]
    BY <1>2
  <2>2. CASE UNCHANGED fPc
    BY <2>1, <2>2
  <2>3. ASSUME NEW g \in Fetcher,
               \/ FetchBegin(g)
               \/ \E k \in KeyId : FetchSigned(g, k)
               \/ FetchNoSigned(g) \/ FetchFallback(g) \/ FetchAnswer(g) \/ FetchFails(g)
        PROVE  FALSE
    BY <1>2, <2>1, <2>3 DEF FetchBegin, FetchSigned, FetchNoSigned, FetchFallback,
                            FetchAnswer, FetchFails, FetchEnd, Pool, TypeOK
  <2>4. ASSUME NEW g \in Fetcher, NEW r \in Pool, NEW k \in KeyId,
               FetchLock(g, r, k) \/ FetchConsume(g, r, k)
        PROVE  FALSE
    BY <1>2, <2>1, <2>4 DEF FetchLock, FetchConsume, Locked, Pool, TypeOK
  <2>5. ASSUME NEW g \in Fetcher, NEW r \in Pool, FetchNone(g, r)
        PROVE  FetchNone(f, q)
    BY <1>2, <2>1, <2>5 DEF FetchNone, TypeOK
  <2>6. \/ UNCHANGED fPc
        \/ \E g \in Fetcher :
              \/ FetchBegin(g) \/ FetchNoSigned(g) \/ FetchFallback(g)
              \/ FetchAnswer(g) \/ FetchFails(g)
              \/ \E k \in KeyId : FetchSigned(g, k)
              \/ \E r \in Pool, k \in KeyId : FetchLock(g, r, k) \/ FetchConsume(g, r, k)
              \/ \E r \in Pool : FetchNone(g, r)
    BY <1>2, Zenon DEF Next, UploadBegin, UploadNext, UploadInsert, UploadConflict,
                UploadDeadlock, UploadCommit, UploadAnswer, UploadFails, getVars, vars
  <2> QED BY <2>2, <2>3, <2>4, <2>5, <2>6
<1>3. Inv /\ [Next]_vars =>
        [\A f \in Fetcher, q \in Pool :
            fPc[f] = q /\ fPc'[f] \notin {q, Locked(q), "idle"} =>
               Cardinality({k \in Rows(q) : ~consumed[k]}) < Cardinality(At(q))]_vars
  BY <1>1, <1>2
<1>4. Init => Inv
  BY TypeInit, RowInit, LockInit
<1>5. Inv /\ [Next]_vars => Inv'
  BY TypeStep, RowStep, LockStep
<1> HIDE DEF Inv
<1> QED BY <1>3, <1>4, <1>5, PTL DEF Spec, EnoughKeys

=============================================================================
