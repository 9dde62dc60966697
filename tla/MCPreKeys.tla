----------------------------- MODULE MCPreKeys -----------------------------
(* PreKeys on small instances: a handful of key ids and two kinds of upload. *)
EXTENDS PreKeys, TLC

CONSTANTS f1, f2, f3, u1, u2

Batch(opk, signed, kyber, last) ==
    [q \in Kind |-> CASE q = "opk" -> opk [] q = "signed" -> signed
                      [] q = "kyber" -> kyber [] q = "last" -> last]

\* A first upload, and a refill that reuses the id of the signed pre-key for
\* a Kyber key: its last step but one fails once the first upload is in.
Overlapping == {Batch({1, 2}, {3}, {}, {4}), Batch({5}, {}, {3}, {6})}

\* One key of each kind but the last-resort one, then one more one-time
\* pre-key with a rotation of the signed pre-key.
Refill == {Batch({1}, {3}, {2}, {}), Batch({4}, {5}, {}, {})}

Handlers == Permutations({f1, f2, f3}) \cup Permutations({u1, u2})
=============================================================================
