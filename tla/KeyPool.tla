------------------------------- MODULE KeyPool -------------------------------
(***************************************************************************)
(* What the pre-key store promises about one-time keys: two pools of keys,  *)
(* each key taken by one request at most, and a request that goes without a *)
(* key of a pool only while other requests could take all that are left.    *)
(* There are no rows, locks, transactions or statements here: taking a key  *)
(* is one step.  PreKeys implements this module.                            *)
(***************************************************************************)
CONSTANTS
    KeyId,      \* the keys there may be
    Pool,       \* the kinds of one-time key
    Client      \* requests that may be under way at once

VARIABLES
    known,      \* known[q]: the keys that were supplied to the pool q
    taken,      \* the keys some request took
    busy,       \* busy[c]: the request c is under way
    tried,      \* tried[c]: the pools it is through with
    got         \* got[c]: the keys it took

vars == <<known, taken, busy, tried, got>>

Left(q) == known[q] \ taken

Init ==
    /\ known = [q \in Pool |-> {}]
    /\ taken = {}
    /\ busy = [c \in Client |-> FALSE]
    /\ tried = [c \in Client |-> {}]
    /\ got = [c \in Client |-> {}]

\* Keys that were in no pool before join the pool q at once.
Supply(q) ==
    /\ UNCHANGED <<taken, busy, tried, got>>
    /\ known' \in [Pool -> SUBSET KeyId]
    /\ known[q] \subseteq known'[q]
    /\ \A r \in Pool \ {q} : known'[r] = known[r] /\ known[r] \cap known'[q] = {}

Ask(c) ==
    /\ ~busy[c]
    /\ busy' = [busy EXCEPT ![c] = TRUE]
    /\ UNCHANGED <<known, taken, tried, got>>

\* The request takes k, one of the keys left in the pool q.
Serve(c, q, k) ==
    /\ busy[c] /\ q \notin tried[c]
    /\ tried' = [tried EXCEPT ![c] = @ \cup {q}]
    /\ taken' = taken \cup {k}
    /\ got' = [got EXCEPT ![c] = @ \cup {k}]
    /\ UNCHANGED <<known, busy>>

\* The requests other than c that may still take a key of the pool q.
Rivals(c, q) == {d \in Client \ {c} : busy[d] /\ q \notin tried[d]}

\* For each key left there is a rival of its own.
Contended(c, q) ==
    \E rival \in [Left(q) -> Rivals(c, q)] :
        \A k, l \in Left(q) : rival[k] = rival[l] => k = l

Miss(c, q) ==
    /\ busy[c] /\ q \notin tried[c]
    /\ tried' = [tried EXCEPT ![c] = @ \cup {q}]
    /\ Contended(c, q)
    /\ UNCHANGED <<known, taken, busy, got>>

\* The request ends, answered or not; the keys it took are gone.
End(c) ==
    /\ busy[c]
    /\ busy' = [busy EXCEPT ![c] = FALSE]
    /\ tried' = [tried EXCEPT ![c] = {}]
    /\ got' = [got EXCEPT ![c] = {}]
    /\ UNCHANGED <<known, taken>>

Next ==
    \/ \E q \in Pool : Supply(q)
    \/ \E c \in Client : Ask(c)
    \/ \E c \in Client, q \in Pool : \E k \in Left(q) : Serve(c, q, k)
    \/ \E c \in Client, q \in Pool : Miss(c, q)
    \/ \E c \in Client : End(c)

Spec == Init /\ [][Next]_vars

=============================================================================
