------------------------- MODULE MCResolutionAdapter ------------------------
(* Small instances of the adapter over the registry: two holders, each of  *)
(* whom may propose, dispute, win and sign for the reward.                 *)
EXTENDS ResolutionAdapter, TLC

CONSTANTS oracle, rival

(* Enough for a proposal and three disputes, or for bonds of three sizes.  *)
Wallets == oracle :> 1 @@ rival :> 3
=============================================================================
