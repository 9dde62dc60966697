---------------------------- MODULE MCChainProxy ----------------------------
(* ChainProxy on small instances: addresses on a chain of two usable         *)
(* providers out of three.                                                   *)
EXTENDS ChainProxy, TLC

CONSTANTS a1, a2, h1, h2, alchemy, infura, public, ethereum

Address    == [k \in Key |-> ethereum]
NoInfura   == (ethereum :> <<alchemy, infura, public>>)
Handlers   == Permutations({h1, h2})
=============================================================================
