---------------------------- MODULE MCHydraMarket ---------------------------
(* Small instances of the three programs together.                         *)
EXTENDS HydraMarket, TLC

CONSTANTS h1, h2

(* One pair's collateral and a bond for h1; a bond or the reward for h2.   *)
PairAndBonds == h1 :> Unit + 1 @@ h2 :> 1
=============================================================================
