----------------------------- MODULE HydraMarket ----------------------------
(***************************************************************************)
(* The three programs together: vaults and resolutions over one registry,  *)
(* one clock and the same USDC wallets.  Bonds are locked with the money   *)
(* pairs are minted with, and what the adapter finalizes is what the vault *)
(* pays by.                                                                *)
(***************************************************************************)
EXTENDS EscrowVault, ResolutionAdapter

bondVars == <<resolution, bondVault>>
hydraVars == <<vars, bondVars>>

HydraInit == EscrowInit /\ AdapterInit

EscrowStep(m) ==
    /\ EscrowInstruction(m) \/ TokenOwnerStep(m)
    /\ UNCHANGED bondVars

AdapterStep(m) ==
    /\ ParticipantInstruction(m) \/ AuthorityInstruction(m)
    /\ UNCHANGED <<vault, usdcVault, tokenVars>>

HydraNext ==
    \/ RegistryStep /\ UNCHANGED bondVars
    \/ \E m \in Market : EscrowStep(m) \/ AdapterStep(m)

HydraSpec == HydraInit /\ [][HydraNext]_hydraVars

(* Fairness is the registry's and the escrow's: nobody need propose,       *)
(* dispute or finalize.                                                    *)
FairHydraSpec == HydraSpec /\ RegistryFairness /\ EscrowFairness

-----------------------------------------------------------------------------
(* Properties.                                                             *)

(* A market's decision is what the registry has recorded, and its bonds    *)
(* are paid out by finalize_outcome only.                                  *)
Decision == [m \in Market |-> market[m].outcome]
Awarded == [m \in Market |-> resolution[m].finalized /\ ~resolution[m].emergency]

System == INSTANCE PredictionMarket WITH
    Contract <- Market, Owner <- Holder, InitialFunds <- InitialUsdc, Stake <- Unit,
    Reward <- OracleReward, funds <- usdc, pot <- Pot, long <- yesHeld,
    short <- noHeld, verdict <- VerdictGiven, decision <- Decision,
    bonds <- bondVault, awarded <- Awarded

(* However the programs' instructions interleave, holders are paid by one  *)
(* decision; a payment of bonds and reward and the decision it is for      *)
(* happen both or neither, and never a second time.                        *)
KeepsMarketPromise == System!MarketSpec
=============================================================================
