---------------------------- MODULE MCRateLimit ----------------------------
(* RateLimit on a small instance: two routes with different limits, the one   *)
(* that needs no token with the larger.                                      *)
EXTENDS RateLimit, TLC

CONSTANTS h1, h2, pending, health

Limits   == (health :> 2) @@ (pending :> 1)
\* The date of a token that gets too old during the run, and of one of a
\* device whose clock is ahead.
Tokens   == {-1, 3}
Handlers == Permutations({h1, h2})
=============================================================================
