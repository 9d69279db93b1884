----------------------- MODULE EscrowRefinementProofs -----------------------
(***************************************************************************)
(* The vaults implement ConditionalTokens: every initial state maps to an  *)
(* initial state, every step to one of the abstract steps or to none.      *)
(***************************************************************************)
EXTENDS EscrowVaultProofs

AbstractStutter == UNCHANGED <<usdc, Pot, yesHeld, noHeld, VerdictGiven>>

(* A transfer within one market, written as one update of the balances.    *)
LEMMA MoveWithin ==
  ASSUME NEW S, NEW T, NEW f \in [S -> [T -> Nat]], NEW m \in S,
         NEW h \in T, NEW g \in T, h # g, NEW n \in Nat
  PROVE  [f EXCEPT ![m] = Move(f[m], h, g, n)]
           = [f EXCEPT ![m][h] = f[m][h] - n, ![m][g] = f[m][g] + n]
<1> DEFINE taken == [f[m] EXCEPT ![h] = f[m][h] - n]
           between == [f EXCEPT ![m] = taken]
<1>1. between[m] = taken /\ taken[g] = f[m][g]
  OBVIOUS
<1>2. Move(f[m], h, g, n) = [taken EXCEPT ![g] = taken[g] + n]
  BY DEF Move, Credit, Debit
<1>3. [f EXCEPT ![m][h] = f[m][h] - n, ![m][g] = f[m][g] + n]
        = [between EXCEPT ![m] = [between[m] EXCEPT ![g] = f[m][g] + n]]
  OBVIOUS
<1> HIDE DEF taken
<1>4. [between EXCEPT ![m] = [taken EXCEPT ![g] = taken[g] + n]]
        = [f EXCEPT ![m] = [taken EXCEPT ![g] = taken[g] + n]]
  OBVIOUS
<1> HIDE DEF between
<1> QED BY <1>1, <1>2, <1>3, <1>4

(* What of the invariant the steps below use.                              *)
LEMMA EscrowTypes ==
  ASSUME EscrowInv
  PROVE  /\ vault \in [Market -> VaultAccount]
         /\ usdc \in [Holder -> Nat]
         /\ yesHeld \in [Market -> [Holder -> Nat]] /\ noHeld \in [Market -> [Holder -> Nat]]
         /\ \A m \in Market : vault[m] \in VaultAccount /\ vault[m].locked \in Nat
BY DEF EscrowInv, EscrowTypeOK, VaultAccount

(* No contract has a stake or a verdict at first.                          *)
LEMMA InitRefines == EscrowInit => Promise!Init
<1> SUFFICES ASSUME EscrowInit PROVE Promise!Init
  OBVIOUS
<1>1. \A m \in Market : vault[m].locked = 0 /\ vault[m].settled = FALSE
  BY DEF EscrowInit, NoVault
<1>2. Pot = [m \in Market |-> 0] /\ VerdictGiven = [m \in Market |-> "None"]
  BY <1>1 DEF Pot, VerdictGiven
<1> QED
  BY <1>2 DEF Promise!Init, EscrowInit, LedgerInit, NoneHeld

(* A vault's worth is the payout the escrow computes.                      *)
LEMMA WorthIsPayout ==
  ASSUME NEW o, NEW y, NEW n
  PROVE  Promise!Worth(o, y, n) = PayoutFor(o, y, n)
BY DEF Promise!Worth, PayoutFor

(* Pot and verdict depend on locked collateral, settlement and outcome.    *)
LEMMA SameMapping ==
  ASSUME \A m \in Market :
            /\ vault'[m].locked = vault[m].locked
            /\ vault'[m].settled = vault[m].settled
            /\ vault[m].settled => market'[m].outcome = market[m].outcome
  PROVE  Pot' = Pot /\ VerdictGiven' = VerdictGiven
BY DEF Pot, VerdictGiven

(* The registry's steps are invisible: a settled vault's market is         *)
(* resolved, and its outcome final.                                        *)
LEMMA RegistryStepRefines ==
  ASSUME EscrowInv, [RegistryNext]_registryVars, UNCHANGED escrowVars
  PROVE  AbstractStutter
<1>1. \A m \in Market : vault[m].settled => market'[m] = market[m]
  BY ResolvedIsFinal DEF EscrowInv, Books
<1>2. UNCHANGED <<vault, usdc, yesHeld, noHeld>>
  BY DEF escrowVars, tokenVars
<1> QED
  BY <1>1, <1>2, SameMapping DEF AbstractStutter

(* So are the creation of a vault, whose collateral starts from zero, and  *)
(* its pauses.                                                             *)
LEMMA AdminStepRefines ==
  ASSUME EscrowInv, NEW m \in Market, NEW k \in Key,
         InitializeVault(m, k) \/ PauseMinting(m, k) \/ ResumeMinting(m, k)
  PROVE  AbstractStutter
<1>0. vault \in [Market -> VaultAccount] /\ vault[m] \in VaultAccount
  BY EscrowTypes
<1>1. UNCHANGED <<market, usdc, yesHeld, noHeld>>
  BY DEF InitializeVault, PauseMinting, ResumeMinting, registryVars, tokenVars
<1>2. \A n \in Market : n # m => vault'[n] = vault[n]
  BY <1>0 DEF InitializeVault, PauseMinting, ResumeMinting
<1>3. vault'[m].locked = vault[m].locked /\ vault'[m].settled = vault[m].settled
  <2>1. CASE InitializeVault(m, k)
    <3>1. vault[m] = NoVault /\ vault'[m] = [NoVault EXCEPT !.admin = k]
      BY <1>0, <2>1 DEF InitializeVault, EscrowInv, Books
    <3> QED BY <3>1 DEF NoVault
  <2>2. CASE PauseMinting(m, k) \/ ResumeMinting(m, k)
    BY <1>0, <2>2 DEF PauseMinting, ResumeMinting, VaultAccount
  <2> QED BY <2>1, <2>2
<1> QED
  BY <1>1, <1>2, <1>3, SameMapping DEF AbstractStutter

(* mint_pairs issues pairs, and only from a contract without a verdict.    *)
LEMMA MintPairsRefines ==
  ASSUME EscrowInv, NEW m \in Market, NEW asserted \in Market,
         NEW payer \in Holder, NEW yesTo \in Holder, NEW noTo \in Holder,
         NEW pairs \in Amount, MintPairs(m, asserted, payer, yesTo, noTo, pairs)
  PROVE  pairs \in 1..usdc[payer] /\ Promise!Issue(m, payer, yesTo, noTo, pairs)
<1> DEFINE collateral == pairs * Unit
<1>0. /\ vault \in [Market -> VaultAccount] /\ vault[m] \in VaultAccount
      /\ usdc \in [Holder -> Nat]
      /\ yesHeld \in [Market -> [Holder -> Nat]] /\ noHeld \in [Market -> [Holder -> Nat]]
  BY EscrowTypes
<1>1. pairs \in Nat /\ collateral \in Nat /\ pairs <= collateral
  BY LedgerAssumption, UnitAssumption DEF Amount
<1>2. /\ pairs > 0 /\ ~vault[m].settled
      /\ collateral <= usdc[payer]
      /\ usdc' = [usdc EXCEPT ![payer] = @ - collateral]
      /\ yesHeld' = [yesHeld EXCEPT ![m][yesTo] = @ + pairs]
      /\ noHeld' = [noHeld EXCEPT ![m][noTo] = @ + pairs]
      /\ vault' = [vault EXCEPT ![m] = Minted(vault[m], pairs)]
      /\ market' = market
  BY DEF MintPairs, CanMint, Debit, Credit, registryVars
<1>3. /\ Minted(vault[m], pairs).locked = vault[m].locked + collateral
      /\ Minted(vault[m], pairs).settled = vault[m].settled
  <2> HIDE DEF collateral
  <2>1. Minted(vault[m], pairs) =
          [vault[m] EXCEPT !.locked = vault[m].locked + collateral,
                           !.yesMinted = vault[m].yesMinted + pairs,
                           !.noMinted = vault[m].noMinted + pairs]
    BY <1>0 DEF Minted, VaultAccount, collateral
  <2> QED BY <1>0, <2>1 DEF VaultAccount
<1> HIDE DEF collateral
<1>4. Pot' = [Pot EXCEPT ![m] = @ + collateral]
  BY <1>0, <1>2, <1>3 DEF Pot
<1>5. VerdictGiven' = VerdictGiven /\ VerdictGiven[m] = "None"
  BY <1>0, <1>2, <1>3 DEF VerdictGiven
<1>6. pairs \in 1..usdc[payer]
  BY <1>0, <1>1, <1>2
<1>7. Promise!Issue(m, payer, yesTo, noTo, pairs)
  BY <1>2, <1>4, <1>5 DEF Promise!Issue, collateral
<1> QED
  BY <1>6, <1>7

(* settle closes the contract with the outcome recorded.                   *)
LEMMA SettleRefines ==
  ASSUME EscrowInv, NEW m \in Market, Settle(m)
  PROVE  market[m].outcome \in Promise!Verdict /\ Promise!Close(m, market[m].outcome)
<1>0. vault \in [Market -> VaultAccount] /\ vault[m] \in VaultAccount
  BY EscrowTypes
<1>1. market[m].outcome \in Promise!Verdict
  BY ResolvedOutcome DEF EscrowInv, Settle, AssertMarketResolved, IsResolved,
                         Outcome, Promise!Verdict
<1>2. /\ ~vault[m].settled
      /\ vault' = [vault EXCEPT ![m].settled = TRUE]
      /\ UNCHANGED <<market, usdc, yesHeld, noHeld>>
  BY DEF Settle, registryVars, tokenVars
<1>3. /\ vault'[m].locked = vault[m].locked /\ vault'[m].settled = TRUE
      /\ \A n \in Market : n # m => vault'[n] = vault[n]
  BY <1>0, <1>2 DEF VaultAccount
<1>4. Pot' = Pot
  BY <1>3 DEF Pot
<1>5. /\ VerdictGiven[m] = "None"
      /\ VerdictGiven' = [VerdictGiven EXCEPT ![m] = market[m].outcome]
  BY <1>2, <1>3 DEF VerdictGiven
<1>6. Promise!Close(m, market[m].outcome)
  BY <1>2, <1>4, <1>5 DEF Promise!Close
<1> QED
  BY <1>1, <1>6

(* claim_payout redeems all the user holds, at its worth.                  *)
LEMMA ClaimPayoutRefines ==
  ASSUME EscrowInv, NEW m \in Market, NEW h \in Holder, ClaimPayout(m, h)
  PROVE  Promise!Redeem(m, h)
<1> DEFINE payout == PayoutFor(market[m].outcome, yesHeld[m][h], noHeld[m][h])
<1>0. vault \in [Market -> VaultAccount] /\ vault[m] \in VaultAccount
  BY EscrowTypes
<1>1. /\ vault[m].settled /\ market[m].outcome # "None"
      /\ yesHeld[m][h] > 0 \/ noHeld[m][h] > 0
      /\ yesHeld' = [yesHeld EXCEPT ![m][h] = 0]
      /\ noHeld' = [noHeld EXCEPT ![m][h] = 0]
      /\ usdc' = [usdc EXCEPT ![h] = @ + payout]
      /\ vault' = [vault EXCEPT ![m].locked = @ - payout]
      /\ market' = market
  BY DEF ClaimPayout, BurnAll, PayOut, Credit, registryVars
<1> HIDE DEF payout
<1>2. /\ vault'[m].locked = vault[m].locked - payout
      /\ vault'[m].settled = vault[m].settled
      /\ \A n \in Market : n # m => vault'[n] = vault[n]
  BY <1>0, <1>1 DEF VaultAccount
<1>3. Pot' = [Pot EXCEPT ![m] = @ - payout]
  BY <1>2 DEF Pot
<1>4. VerdictGiven' = VerdictGiven /\ VerdictGiven[m] = market[m].outcome
  BY <1>1, <1>2 DEF VerdictGiven
<1>5. Promise!Worth(VerdictGiven[m], yesHeld[m][h], noHeld[m][h]) = payout
  BY <1>4, WorthIsPayout DEF payout
<1> QED
  BY <1>1, <1>3, <1>4, <1>5 DEF Promise!Redeem

(* Tokens passed on or burnt by their owner, USDC spent on a gift.         *)
LEMMA TokenOwnerStepRefines ==
  ASSUME EscrowInv, NEW m \in Market, TokenOwnerStep(m)
  PROVE  Promise!PassOn(m) \/ Promise!Destroy(m) \/ Promise!Spend
<1>0. /\ usdc \in [Holder -> Nat]
      /\ yesHeld \in [Market -> [Holder -> Nat]] /\ noHeld \in [Market -> [Holder -> Nat]]
  BY EscrowTypes
<1>a. UNCHANGED <<market, vault>>
  BY DEF TokenOwnerStep, TokensChangeHands, TransferYes, TransferNo, BurnYes, BurnNo,
         DepositUsdc, registryVars
<1>b. Pot' = Pot /\ VerdictGiven' = VerdictGiven
  BY <1>a, SameMapping
<1>c. PICK n \in Amount \ {0}, h \in Holder :
        \/ \E to \in Holder : TransferYes(m, h, to, n) \/ TransferNo(m, h, to, n)
        \/ BurnYes(m, h, n)
        \/ BurnNo(m, h, n)
        \/ DepositUsdc(m, h, n)
  BY DEF TokenOwnerStep, TokensChangeHands
<1>d. n \in Nat /\ n > 0
  BY LedgerAssumption DEF Amount
<1>1. ASSUME NEW to \in Holder, TransferYes(m, h, to, n)
      PROVE  Promise!PassOn(m)
  <2>1. n \in 1..yesHeld[m][h]
    BY <1>0, <1>1, <1>d DEF TransferYes
  <2>2. yesHeld' = [yesHeld EXCEPT ![m][h] = yesHeld[m][h] - n,
                                   ![m][to] = yesHeld[m][to] + n]
    BY <1>0, <1>1, <1>d, MoveWithin DEF TransferYes
  <2>3. h # to /\ UNCHANGED <<noHeld, usdc>>
    BY <1>1 DEF TransferYes
  <2>4. \E k \in 1..yesHeld[m][h] :
          yesHeld' = [yesHeld EXCEPT ![m][h] = yesHeld[m][h] - k,
                                   ![m][to] = yesHeld[m][to] + k]
    BY <2>1, <2>2, Zenon
  <2> QED
    BY <1>b, <2>3, <2>4, Zenon DEF Promise!PassOn
<1>2. ASSUME NEW to \in Holder, TransferNo(m, h, to, n)
      PROVE  Promise!PassOn(m)
  <2>1. n \in 1..noHeld[m][h]
    BY <1>0, <1>2, <1>d DEF TransferNo
  <2>2. noHeld' = [noHeld EXCEPT ![m][h] = noHeld[m][h] - n,
                                 ![m][to] = noHeld[m][to] + n]
    BY <1>0, <1>2, <1>d, MoveWithin DEF TransferNo
  <2>3. h # to /\ UNCHANGED <<yesHeld, usdc>>
    BY <1>2 DEF TransferNo
  <2>4. \E k \in 1..noHeld[m][h] :
          noHeld' = [noHeld EXCEPT ![m][h] = noHeld[m][h] - k,
                                  ![m][to] = noHeld[m][to] + k]
    BY <2>1, <2>2, Zenon
  <2> QED
    BY <1>b, <2>3, <2>4, Zenon DEF Promise!PassOn
<1>3. CASE BurnYes(m, h, n)
  <2>1. n \in 1..yesHeld[m][h]
    BY <1>0, <1>3, <1>d DEF BurnYes
  <2>2. yesHeld' = [yesHeld EXCEPT ![m][h] = @ - n]
    BY <1>3 DEF BurnYes, Debit
  <2>3. Promise!Destroy(m)
    BY <1>3, <1>b, <2>1, <2>2 DEF Promise!Destroy, BurnYes
  <2> QED BY <2>3
<1>4. CASE BurnNo(m, h, n)
  <2>1. n \in 1..noHeld[m][h]
    BY <1>0, <1>4, <1>d DEF BurnNo
  <2>2. noHeld' = [noHeld EXCEPT ![m][h] = @ - n]
    BY <1>4 DEF BurnNo, Debit
  <2>3. Promise!Destroy(m)
    BY <1>4, <1>b, <2>1, <2>2 DEF Promise!Destroy, BurnNo
  <2> QED BY <2>3
<1>5. CASE DepositUsdc(m, h, n)
  <2>1. n \in 1..usdc[h]
    BY <1>0, <1>5, <1>d DEF DepositUsdc
  <2>2. Promise!Spend
    BY <1>5, <1>b, <2>1 DEF Promise!Spend, DepositUsdc, Debit, tokenVars
  <2> QED BY <2>2
<1> QED
  BY <1>c, <1>1, <1>2, <1>3, <1>4, <1>5

(* Every step of the escrow is a step of ConditionalTokens or none.        *)
LEMMA StepRefines ==
  EscrowInv /\ [EscrowNext]_vars => [Promise!Next]_(Promise!abstractVars)
<1> SUFFICES ASSUME EscrowInv, [EscrowNext]_vars
             PROVE  Promise!Next \/ AbstractStutter
  BY DEF AbstractStutter, Promise!abstractVars
<1>1. CASE RegistryStep \/ UNCHANGED vars
  BY <1>1, RegistryStepRefines DEF RegistryStep, vars
<1>2. ASSUME NEW m \in Market, EscrowInstruction(m)
      PROVE  Promise!Next \/ AbstractStutter
  BY <1>2, AdminStepRefines, MintPairsRefines, SettleRefines, ClaimPayoutRefines
     DEF EscrowInstruction, Promise!Next
<1>3. ASSUME NEW m \in Market, TokenOwnerStep(m)
      PROVE  Promise!Next
  BY <1>3, TokenOwnerStepRefines DEF Promise!Next
<1> QED
  BY <1>1, <1>2, <1>3 DEF EscrowNext

(* The escrow keeps its promise: pairs are issued against their stake      *)
(* until a contract closes, verdicts are final, and every claim is paid by *)
(* them.                                                                   *)
THEOREM EscrowImplementsPromise == EscrowSpec => KeepsPromise
<1> QED
  BY InitRefines, StepRefines, EscrowInitInv, EscrowStepInv, PTL
     DEF EscrowSpec, KeepsPromise, Promise!Spec
=============================================================================
