---------------------------- MODULE EscrowVault -----------------------------
(***************************************************************************)
(* The escrow-vault program: one vault per market locks Unit of USDC for   *)
(* every pair of one YES and one NO token it mints, and pays the tokens    *)
(* out of that collateral once the registry has recorded an outcome.  It   *)
(* reads the registry by cross-program calls and never writes it.          *)
(***************************************************************************)
EXTENDS MarketRegistry, TokenLedger

CONSTANT Unit        \* USDC_UNIT and COLLATERAL_PER_PAIR

ASSUME UnitAssumption == Unit \in Nat /\ Unit > 0

(* It is 1_000_000, so it has two halves, and PayoutFor never rounds.      *)
ASSUME UnitHasHalves == Unit % 2 = 0

VARIABLES
    vault,           \* the EscrowVault account of every market
    usdcVault,       \* the USDC the vault's token account holds
    yesHeld,         \* YES tokens, by market and holder
    noHeld,
    yesSupply,       \* the supply field of the YES mint, by market
    noSupply

tokenVars == <<yesHeld, noHeld, yesSupply, noSupply>>
escrowVars == <<vault, usdcVault, usdc, tokenVars>>
vars == <<registryVars, escrowVars>>

(* A vault whose admin is Blank has not been initialized.                  *)
VaultAccount ==
    [admin         : Key \cup {Blank},
     locked        : Nat,
     yesMinted     : Nat,
     noMinted      : Nat,
     settled       : BOOLEAN,
     mintingPaused : BOOLEAN]

NoVault ==
    [admin |-> Blank, locked |-> 0, yesMinted |-> 0, noMinted |-> 0,
     settled |-> FALSE, mintingPaused |-> FALSE]

NoneHeld == [m \in Market |-> [h \in Holder |-> 0]]

EscrowInit ==
    /\ RegistryInit
    /\ LedgerInit
    /\ vault = [m \in Market |-> NoVault]
    /\ usdcVault = [m \in Market |-> 0]
    /\ yesHeld = NoneHeld
    /\ noHeld = NoneHeld
    /\ yesSupply = [m \in Market |-> 0]
    /\ noSupply = [m \in Market |-> 0]

VaultExists(m) == vault[m].admin # Blank

CanMint_IgnoresSettled(m) == VaultExists(m) /\ ~vault[m].mintingPaused
CanMint(m) == VaultExists(m) /\ ~vault[m].mintingPaused /\ ~vault[m].settled

(* What y YES and n NO tokens are worth under an outcome.                  *)
PayoutFor_InvalidInFull(outcome, y, n) ==
    CASE outcome = "Yes" -> y * Unit
      [] outcome = "No"  -> n * Unit
      [] outcome = "Invalid" -> y * Unit + n * Unit

PayoutFor(outcome, y, n) ==
    CASE outcome = "Yes" -> y * Unit
      [] outcome = "No"  -> n * Unit
      [] outcome = "Invalid" -> (y * Unit) \div 2 + (n * Unit) \div 2

(* The intermediate products and sums PayoutFor computes with checked      *)
(* arithmetic.                                                             *)
PayoutFits(outcome, y, n) ==
    /\ outcome # "No"  => FitsU64(y * Unit)
    /\ outcome # "Yes" => FitsU64(n * Unit)
    /\ FitsU64(PayoutFor(outcome, y, n))

-----------------------------------------------------------------------------
(* The instructions.                                                       *)

(* The market account is not read, but its mints must exist, so the market *)
(* has been created; the mints passed in are taken to be those, with no    *)
(* supply yet.  The handler compares only their decimals: with tokens that *)
(* were there before, the vault would owe what it never received.          *)
InitializeVault(m, admin) ==
    /\ Initialized(m)
    /\ ~VaultExists(m)
    /\ vault' = [vault EXCEPT ![m] = [NoVault EXCEPT !.admin = admin]]
    /\ UNCHANGED <<registryVars, usdcVault, usdc, tokenVars>>

VaultInvariantHolds(v) ==
    /\ v.yesMinted = v.noMinted
    /\ FitsU64(v.yesMinted * Unit)
    /\ v.locked = v.yesMinted * Unit

(* What mint_pairs makes of a vault account.                               *)
Minted(v, pairs) ==
    [v EXCEPT !.locked = @ + pairs * Unit,
              !.yesMinted = @ + pairs,
              !.noMinted = @ + pairs]

(* The vault's balance is read again after the transfer.                   *)
CollateralReceived(before, after, expected) ==
    after >= before /\ after - before = expected

(* asserted is the market account handed to assert_market_open: nothing    *)
(* ties it to vault.market.                                                *)
MintPairs(m, asserted, payer, yesTo, noTo, pairs) ==
    LET collateral == pairs * Unit
        minted == Minted(vault[m], pairs)
    IN /\ pairs > 0
       /\ CanMint(m)
       /\ AssertMarketOpen(asserted)
       /\ FitsU64(collateral)
       /\ collateral <= usdc[payer]
       /\ usdc' = Debit(usdc, payer, collateral)
       /\ usdcVault' = Credit(usdcVault, m, collateral)
       /\ CollateralReceived(usdcVault[m], usdcVault'[m], collateral)
       /\ yesHeld' = [yesHeld EXCEPT ![m] = Credit(yesHeld[m], yesTo, pairs)]
       /\ noHeld' = [noHeld EXCEPT ![m] = Credit(noHeld[m], noTo, pairs)]
       /\ yesSupply' = Credit(yesSupply, m, pairs)
       /\ noSupply' = Credit(noSupply, m, pairs)
       /\ FitsU64(minted.locked) /\ FitsU64(minted.yesMinted)
       /\ VaultInvariantHolds(minted)
       /\ vault' = [vault EXCEPT ![m] = minted]
       /\ UNCHANGED registryVars

PauseMinting(m, admin) ==
    /\ VaultExists(m)
    /\ vault[m].admin = admin
    /\ ~vault[m].mintingPaused
    /\ vault' = [vault EXCEPT ![m].mintingPaused = TRUE]
    /\ UNCHANGED <<registryVars, usdcVault, usdc, tokenVars>>

ResumeMinting(m, admin) ==
    /\ VaultExists(m)
    /\ vault[m].admin = admin
    /\ vault[m].mintingPaused
    /\ ~vault[m].settled
    /\ vault' = [vault EXCEPT ![m].mintingPaused = FALSE]
    /\ UNCHANGED <<registryVars, usdcVault, usdc, tokenVars>>

Settle_BeforeResolution(m) ==
    /\ VaultExists(m)
    /\ ~vault[m].settled
    /\ AssertMarketOpen(m) \/ AssertMarketResolved(m)
    /\ vault' = [vault EXCEPT ![m].settled = TRUE]
    /\ UNCHANGED <<registryVars, usdcVault, usdc, tokenVars>>

(* Anyone may sign settle.                                                 *)
Settle(m) ==
    /\ VaultExists(m)
    /\ ~vault[m].settled
    /\ AssertMarketResolved(m)
    /\ vault' = [vault EXCEPT ![m].settled = TRUE]
    /\ UNCHANGED <<registryVars, usdcVault, usdc, tokenVars>>

(* All of the user's tokens are burned, the worthless ones too.            *)
BurnAll_SupplyOnly(m, user) ==
    /\ yesSupply' = Debit(yesSupply, m, yesHeld[m][user])
    /\ noSupply' = Debit(noSupply, m, noHeld[m][user])
    /\ UNCHANGED <<yesHeld, noHeld>>

BurnAll_OnlyNo(m, user) ==
    /\ noHeld' = [noHeld EXCEPT ![m][user] = 0]
    /\ noSupply' = Debit(noSupply, m, noHeld[m][user])
    /\ UNCHANGED <<yesHeld, yesSupply>>

BurnAll(m, user) ==
    /\ yesHeld[m][user] <= yesSupply[m] /\ noHeld[m][user] <= noSupply[m]
    /\ yesHeld' = [yesHeld EXCEPT ![m][user] = 0]
    /\ noHeld' = [noHeld EXCEPT ![m][user] = 0]
    /\ yesSupply' = Debit(yesSupply, m, yesHeld[m][user])
    /\ noSupply' = Debit(noSupply, m, noHeld[m][user])

(* The transfer, and the checked subtraction from the locked collateral.   *)
PayOut(m, user, payout) ==
    /\ payout <= usdcVault[m]
    /\ usdcVault' = Debit(usdcVault, m, payout)
    /\ usdc' = Credit(usdc, user, payout)
    /\ payout <= vault[m].locked
    /\ vault' = [vault EXCEPT ![m].locked = @ - payout]

(* The burn and the transfer fail, and the instruction with them, unless   *)
(* supply and vault balance cover them; the minted totals stay.            *)
ClaimPayout(m, user) ==
    LET outcome == market[m].outcome
        y == yesHeld[m][user]
        n == noHeld[m][user]
    IN /\ vault[m].settled
       /\ y > 0 \/ n > 0
       /\ IsResolved(m) /\ outcome # "None"
       /\ PayoutFits(outcome, y, n)
       /\ BurnAll(m, user)
       /\ PayOut(m, user, PayoutFor(outcome, y, n))
       /\ UNCHANGED registryVars

-----------------------------------------------------------------------------
(* What token owners can do without these programs.                        *)

TransferYes(m, from, to, n) ==
    /\ n <= yesHeld[m][from] /\ from # to
    /\ yesHeld' = [yesHeld EXCEPT ![m] = Move(yesHeld[m], from, to, n)]
    /\ UNCHANGED <<registryVars, vault, usdcVault, usdc, noHeld, yesSupply, noSupply>>

TransferNo(m, from, to, n) ==
    /\ n <= noHeld[m][from] /\ from # to
    /\ noHeld' = [noHeld EXCEPT ![m] = Move(noHeld[m], from, to, n)]
    /\ UNCHANGED <<registryVars, vault, usdcVault, usdc, yesHeld, yesSupply, noSupply>>

BurnYes(m, h, n) ==
    /\ n <= yesHeld[m][h] /\ n <= yesSupply[m]
    /\ yesHeld' = [yesHeld EXCEPT ![m] = Debit(yesHeld[m], h, n)]
    /\ yesSupply' = Debit(yesSupply, m, n)
    /\ UNCHANGED <<registryVars, vault, usdcVault, usdc, noHeld, noSupply>>

BurnNo(m, h, n) ==
    /\ n <= noHeld[m][h] /\ n <= noSupply[m]
    /\ noHeld' = [noHeld EXCEPT ![m] = Debit(noHeld[m], h, n)]
    /\ noSupply' = Debit(noSupply, m, n)
    /\ UNCHANGED <<registryVars, vault, usdcVault, usdc, yesHeld, yesSupply>>

(* USDC sent to a vault's token account, not through mint_pairs.           *)
DepositUsdc(m, h, n) ==
    /\ VaultExists(m) /\ n <= usdc[h]
    /\ usdc' = Debit(usdc, h, n)
    /\ usdcVault' = Credit(usdcVault, m, n)
    /\ UNCHANGED <<registryVars, vault, tokenVars>>

TokensChangeHands(m) ==
    \E n \in Amount \ {0}, from, to \in Holder :
       TransferYes(m, from, to, n) \/ TransferNo(m, from, to, n)

TokenOwnerStep(m) ==
    \/ TokensChangeHands(m)
    \/ \E n \in Amount \ {0}, h \in Holder :
          BurnYes(m, h, n) \/ BurnNo(m, h, n) \/ DepositUsdc(m, h, n)

-----------------------------------------------------------------------------
EscrowInstruction(m) ==
    \/ \E admin \in Key :
          InitializeVault(m, admin) \/ PauseMinting(m, admin) \/ ResumeMinting(m, admin)
    \/ \E asserted \in Market, payer, yesTo, noTo \in Holder, pairs \in Amount :
          MintPairs(m, asserted, payer, yesTo, noTo, pairs)
    \/ Settle(m)
    \/ \E user \in Holder : ClaimPayout(m, user)

RegistryStep == RegistryNext /\ UNCHANGED escrowVars

EscrowNext ==
    \/ RegistryStep
    \/ \E m \in Market : EscrowInstruction(m) \/ TokenOwnerStep(m)

EscrowSpec == EscrowInit /\ [][EscrowNext]_vars

(* The same, but owners neither burn tokens nor send stray USDC.           *)
ClosedEscrowNext ==
    \/ RegistryStep
    \/ \E m \in Market : EscrowInstruction(m) \/ TokensChangeHands(m)

ClosedEscrowSpec == EscrowInit /\ [][ClosedEscrowNext]_vars

(* Beside the clock and the creator (RegistryFairness), somebody settles a *)
(* vault that can be settled, and a holder who keeps submitting            *)
(* claim_payout has it executed; SF because between two tries the tokens   *)
(* may have been lent out and returned.                                    *)
EscrowFairness ==
    \A m \in Market :
       /\ WF_vars(Settle(m))
       /\ \A h \in Holder : SF_vars(ClaimPayout(m, h))

FairEscrowSpec == EscrowSpec /\ RegistryFairness /\ EscrowFairness

-----------------------------------------------------------------------------
(* Properties.                                                             *)

(* Every account and balance holds values of its type.                     *)
EscrowTypeOK ==
    /\ RegistryTypeOK
    /\ vault \in [Market -> VaultAccount]
    /\ usdcVault \in [Market -> Nat]
    /\ usdc \in [Holder -> Nat]
    /\ yesHeld \in [Market -> [Holder -> Nat]]
    /\ noHeld \in [Market -> [Holder -> Nat]]
    /\ yesSupply \in [Market -> Nat]
    /\ noSupply \in [Market -> Nat]

Backed(m, outcome) == PayoutFor(outcome, yesSupply[m], noSupply[m]) <= vault[m].locked

(* The collateral a vault counts as locked, and really holds, covers every *)
(* outstanding token: under any outcome while the vault is not settled,    *)
(* and under the recorded one while claims drain it in any order.          *)
CollateralCoversTokens ==
    \A m \in Market :
       /\ vault[m].locked <= usdcVault[m]
       /\ IF vault[m].settled
            THEN Backed(m, market[m].outcome)
            ELSE \A outcome \in Outcome : Backed(m, outcome)

(* Nobody who holds a token of a settled vault can be turned away: the     *)
(* outcome is there, no checked operation overflows, and supply, vault     *)
(* balance and locked collateral suffice, whoever claimed before.          *)
EveryClaimSucceeds ==
    \A m \in Market, h \in Holder :
       LET y == yesHeld[m][h]
           n == noHeld[m][h]
           payout == PayoutFor(market[m].outcome, y, n)
       IN vault[m].settled /\ (y > 0 \/ n > 0) =>
            /\ IsResolved(m) /\ market[m].outcome # "None"
            /\ PayoutFits(market[m].outcome, y, n)
            /\ y <= yesSupply[m] /\ n <= noSupply[m]
            /\ payout <= usdcVault[m] /\ payout <= vault[m].locked

(* Where tokens may change hands but no owner burns any or sends stray     *)
(* USDC, the vault holds what it counts as locked and, once settled,       *)
(* exactly what its tokens are worth: whichever market was open when they  *)
(* were minted, nothing is left over and the last claim empties the vault. *)
LockedExactlyOwed ==
    \A m \in Market :
       /\ vault[m].locked = usdcVault[m]
       /\ vault[m].settled =>
            vault[m].locked = PayoutFor(market[m].outcome, yesSupply[m], noSupply[m])

(* No collateral is locked for ever: whatever the adapter does, every      *)
(* vault is settled in the end and every token, winning, losing or half,   *)
(* redeemed (or burnt by its owner).                                       *)
EveryTokenRedeemed ==
    \A m \in Market :
       VaultExists(m) ~> vault[m].settled /\ yesSupply[m] = 0 /\ noSupply[m] = 0

(* "Should Failed to Mint after Market is Resolved", says the integration  *)
(* test.                                                                   *)
NoMintAfterResolution ==
    [][\A m \in Market :
         vault'[m].yesMinted > vault[m].yesMinted => ~IsResolved(m)]_vars

-----------------------------------------------------------------------------
(* The vault implements ConditionalTokens: a contract's pot is its locked  *)
(* collateral, and settling the vault is what closes it, with the outcome  *)
(* the registry has recorded by then.                                      *)
Pot == [m \in Market |-> vault[m].locked]
VerdictGiven == [m \in Market |-> IF vault[m].settled THEN market[m].outcome ELSE "None"]

Promise == INSTANCE ConditionalTokens WITH
    Contract <- Market, Owner <- Holder, InitialFunds <- InitialUsdc, Stake <- Unit,
    funds <- usdc, pot <- Pot, long <- yesHeld, short <- noHeld, verdict <- VerdictGiven

(* Every behaviour of the escrow, seen through that mapping, is one of     *)
(* ConditionalTokens: pairs are issued against their full stake and never  *)
(* after closing, a verdict never changes, and every claim pays by it.     *)
KeepsPromise == Promise!Spec
=============================================================================
