---------------------------- MODULE MCAccounts ----------------------------
(* Accounts on small instances: one account, one username.                   *)
EXTENDS Accounts, TLC

CONSTANTS a1, p1, alice, w1, d1, r1, v1, u1, u2, g1

LowerCase == [n \in Name |-> alice]

Hide     == [vis |-> "private"]
Restrict == [vis |-> "contacts", details |-> d1]
Reveal   == [wallets |-> {w1}, details |-> d1]
Rename   == [name |-> alice, vis |-> "contacts"]

Bodies     == {Hide, Reveal, Rename}
Restricted == {Restrict}

Handlers == Permutations({u1, u2})
===========================================================================
