-------------------------- MODULE MCMarketRegistry --------------------------
(* A small instance of the registry: the two keys play creator, adapter or *)
(* both, and the clock runs past the end of a resolution window.           *)
EXTENDS MarketRegistry, TLC

CONSTANTS k1, k2

Symmetry == Permutations({k1, k2})
=============================================================================
