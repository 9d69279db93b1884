-------------------------- MODULE EscrowVaultProofs -------------------------
(***************************************************************************)
(* Solvency of every vault, for every set of markets, keys and holders and *)
(* every unit of collateral.                                               *)
(***************************************************************************)
EXTENDS EscrowVault, MarketRegistryProofs, TokenLedgerProofs

-----------------------------------------------------------------------------
(* Arithmetic of payouts.                                                  *)

(* Multiplying by the unit is monotone and distributes.                    *)
LEMMA TimesUnit ==
  ASSUME NEW a \in Nat, NEW b \in Nat
  PROVE  /\ a * Unit \in Nat
         /\ (a + b) * Unit = a * Unit + b * Unit
         /\ a <= b => a * Unit <= b * Unit /\ (b - a) * Unit = b * Unit - a * Unit
BY UnitAssumption

(* Halves round down, so two halves never exceed the half of the sum.      *)
LEMMA Halves ==
  ASSUME NEW a \in Nat, NEW b \in Nat
  PROVE  /\ a \div 2 \in Nat /\ (a \div 2) + (b \div 2) <= (a + b) \div 2
         /\ a <= b => (a \div 2) + (a \div 2) <= b
         /\ a <= b => a \div 2 <= b \div 2
OBVIOUS

LEMMA PayoutIsNat ==
  ASSUME NEW o \in Outcome, NEW y \in Nat, NEW n \in Nat
  PROVE  PayoutFor(o, y, n) \in Nat
<1>1. y * Unit \in Nat /\ n * Unit \in Nat
  BY TimesUnit
<1>2. (y * Unit) \div 2 \in Nat /\ (n * Unit) \div 2 \in Nat
  BY <1>1, Halves
<1> QED
  BY <1>1, <1>2 DEF PayoutFor, Outcome

(* At most c tokens of each side are worth at most c units, whatever the   *)
(* outcome.                                                                *)
LEMMA PayoutBounded ==
  ASSUME NEW o \in Outcome, NEW y \in Nat, NEW n \in Nat, NEW c \in Nat, y <= c, n <= c
  PROVE  PayoutFor(o, y, n) <= c * Unit
<1> DEFINE yu == y * Unit
           nu == n * Unit
           cu == c * Unit
<1>1. /\ yu \in Nat /\ nu \in Nat /\ cu \in Nat
      /\ yu <= cu /\ nu <= cu
  BY TimesUnit
<1>2. (yu \div 2) + (nu \div 2) <= cu
  <2> HIDE DEF yu, nu, cu
  <2> QED BY <1>1
<1> QED
  BY <1>1, <1>2 DEF PayoutFor, Outcome

(* Paying part of the tokens first never makes the whole dearer.           *)
LEMMA PayoutInParts ==
  ASSUME NEW o \in Outcome, NEW y \in Nat, NEW n \in Nat, NEW y1 \in Nat, NEW n1 \in Nat,
         y1 <= y, n1 <= n
  PROVE  PayoutFor(o, y1, n1) + PayoutFor(o, y - y1, n - n1) <= PayoutFor(o, y, n)
<1> DEFINE a == y1 * Unit
           b == n1 * Unit
           c == y * Unit
           d == n * Unit
           e == (y - y1) * Unit
           f == (n - n1) * Unit
<1>0. y - y1 \in Nat /\ n - n1 \in Nat
  OBVIOUS
<1>1. /\ a \in Nat /\ b \in Nat /\ c \in Nat /\ d \in Nat /\ e \in Nat /\ f \in Nat
      /\ e = c - a /\ f = d - b
  BY <1>0, TimesUnit
<1>2. ((a \div 2) + (b \div 2)) + ((e \div 2) + (f \div 2)) <= (c \div 2) + (d \div 2)
  <2> HIDE DEF a, b, c, d, e, f
  <2> QED BY <1>1
<1>3. a + e = c /\ b + f = d
  <2> HIDE DEF a, b, c, d, e, f
  <2> QED BY <1>1
<1>4. CASE o = "Yes"
  <2>1. /\ PayoutFor(o, y1, n1) = a /\ PayoutFor(o, y, n) = c
        /\ PayoutFor(o, y - y1, n - n1) = e
    BY <1>4 DEF PayoutFor
  <2> HIDE DEF a, b, c, d, e, f
  <2> QED BY <2>1, <1>1, <1>3
<1>5. CASE o = "No"
  <2>1. /\ PayoutFor(o, y1, n1) = b /\ PayoutFor(o, y, n) = d
        /\ PayoutFor(o, y - y1, n - n1) = f
    BY <1>5 DEF PayoutFor
  <2> HIDE DEF a, b, c, d, e, f
  <2> QED BY <2>1, <1>1, <1>3
<1>6. CASE o = "Invalid"
  <2>1. /\ PayoutFor(o, y1, n1) = (a \div 2) + (b \div 2)
        /\ PayoutFor(o, y, n) = (c \div 2) + (d \div 2)
        /\ PayoutFor(o, y - y1, n - n1) = (e \div 2) + (f \div 2)
    BY <1>6 DEF PayoutFor
  <2> HIDE DEF a, b, c, d, e, f
  <2> QED BY <2>1, <1>2
<1> QED
  BY <1>4, <1>5, <1>6 DEF Outcome

-----------------------------------------------------------------------------
(* The inductive invariant.  Solvency alone is not inductive: before       *)
(* settlement it follows from locked collateral being exactly the pairs    *)
(* minted, and no supply exceeding them; after it, from every claim taking *)
(* its own share only, which needs the recorded outcome to be final.       *)

Books(m) ==
    LET v == vault[m] IN
    /\ v.locked <= usdcVault[m]
    /\ yesSupply[m] <= v.yesMinted
    /\ noSupply[m] <= v.noMinted
    /\ ~v.settled => v.yesMinted = v.noMinted /\ v.locked = v.yesMinted * Unit
    /\ v.settled => IsResolved(m) /\ Backed(m, market[m].outcome)
    /\ ~VaultExists(m) => v = NoVault

EscrowInv ==
    /\ RegistryInv
    /\ EscrowTypeOK
    /\ \A m \in Market : Books(m)

(* A market that has been resolved has one of the three outcomes.          *)
LEMMA ResolvedOutcome ==
  ASSUME RegistryInv, NEW m \in Market, IsResolved(m)
  PROVE  market[m].outcome \in Outcome
BY DEF RegistryInv, RegistryTypeOK, ResolutionRecorded, MarketAccount

LEMMA EscrowInitInv == EscrowInit => EscrowInv
<1> SUFFICES ASSUME EscrowInit PROVE EscrowInv
  OBVIOUS
<1>1. RegistryInv
  BY RegistryInitInv DEF EscrowInit
<1>2. NoVault \in VaultAccount
  BY DEF NoVault, VaultAccount
<1>3. EscrowTypeOK
  BY <1>1, <1>2, LedgerAssumption
     DEF EscrowInit, EscrowTypeOK, LedgerInit, NoneHeld, RegistryInv
<1>4. 0 * Unit = 0
  BY UnitAssumption
<1>5. ASSUME NEW m \in Market PROVE Books(m)
  <2>1. vault[m] = NoVault /\ usdcVault[m] = 0 /\ yesSupply[m] = 0 /\ noSupply[m] = 0
    BY DEF EscrowInit
  <2>2. /\ NoVault.locked = 0 /\ NoVault.yesMinted = 0 /\ NoVault.noMinted = 0
        /\ NoVault.settled = FALSE
    BY DEF NoVault
  <2> QED
    BY <1>4, <2>1, <2>2 DEF Books
<1> QED
  BY <1>1, <1>3, <1>5 DEF EscrowInv

(* Only the books of the vault a step touches need looking at.             *)
LEMMA OtherBooks ==
  ASSUME EscrowInv, NEW m \in Market, NEW n \in Market, market' = market,
         vault'[n] = vault[n], usdcVault'[n] = usdcVault[n],
         yesSupply'[n] = yesSupply[n], noSupply'[n] = noSupply[n]
  PROVE  Books(n)'
BY DEF EscrowInv, Books, IsResolved, Backed, VaultExists

(* Registry steps, and steps that only move USDC between wallets, leave    *)
(* the books in order: what a settled vault reads of its market is final.  *)
LEMMA RegistryStepBooks ==
  ASSUME EscrowInv, [RegistryNext]_registryVars,
         UNCHANGED <<vault, usdcVault, tokenVars>>, usdc' \in [Holder -> Nat]
  PROVE  EscrowInv'
<1>1. RegistryInv'
  BY RegistryStepInv DEF EscrowInv
<1>2. EscrowTypeOK'
  BY <1>1 DEF EscrowInv, EscrowTypeOK, tokenVars, RegistryInv
<1>3. ASSUME NEW m \in Market PROVE Books(m)'
  <2>1. IsResolved(m) => market'[m] = market[m]
    BY ResolvedIsFinal DEF EscrowInv
  <2>2. /\ vault' = vault /\ usdcVault' = usdcVault
        /\ yesSupply' = yesSupply /\ noSupply' = noSupply
    BY DEF tokenVars
  <2>3. Books(m)
    BY DEF EscrowInv
  <2>4. vault[m].settled => (IsResolved(m) /\ Backed(m, market[m].outcome))'
    BY <2>1, <2>2, <2>3 DEF Books, IsResolved, Backed
  <2> QED
    BY <2>2, <2>3, <2>4 DEF Books, VaultExists
<1> QED
  BY <1>1, <1>2, <1>3 DEF EscrowInv

(* The registry's part of the invariant when only the vaults move.         *)
LEMMA RegistryUnchanged ==
  ASSUME EscrowInv, UNCHANGED registryVars
  PROVE  RegistryInv' /\ market' = market
BY RegistryStepInv DEF EscrowInv, registryVars

-----------------------------------------------------------------------------
(* One lemma per instruction.                                              *)

LEMMA InitializeVaultInv ==
  ASSUME EscrowInv, NEW m \in Market, NEW k \in Key, InitializeVault(m, k)
  PROVE  EscrowInv'
<1>1. /\ RegistryInv' /\ market' = market
      /\ vault' = [vault EXCEPT ![m] = [NoVault EXCEPT !.admin = k]]
      /\ vault[m] = NoVault
      /\ UNCHANGED <<usdcVault, usdc, yesHeld, noHeld, yesSupply, noSupply>>
  BY RegistryUnchanged DEF InitializeVault, tokenVars, EscrowInv, Books
<1>2. [NoVault EXCEPT !.admin = k] \in VaultAccount
  BY DEF NoVault, VaultAccount
<1>3. EscrowTypeOK'
  BY <1>1, <1>2 DEF EscrowInv, EscrowTypeOK, RegistryInv
<1>4. \A n \in Market : n # m => vault'[n] = vault[n]
  BY <1>1 DEF EscrowInv, EscrowTypeOK
<1>5. /\ vault'[m].locked = 0 /\ vault'[m].yesMinted = 0 /\ vault'[m].noMinted = 0
      /\ vault'[m].settled = FALSE /\ vault'[m].admin = k /\ k # Blank
  BY <1>1, BlankAssumption DEF EscrowInv, EscrowTypeOK, NoVault
<1>6. Books(m)'
  BY <1>1, <1>5 DEF EscrowInv, Books, NoVault, VaultExists
<1> QED
  BY <1>1, <1>3, <1>4, <1>6, OtherBooks DEF EscrowInv

LEMMA PauseResumeInv ==
  ASSUME EscrowInv, NEW m \in Market, NEW k \in Key,
         PauseMinting(m, k) \/ ResumeMinting(m, k)
  PROVE  EscrowInv'
<1>1. PICK b \in BOOLEAN :
        /\ VaultExists(m)
        /\ vault' = [vault EXCEPT ![m].mintingPaused = b]
        /\ UNCHANGED <<usdcVault, usdc, yesHeld, noHeld, yesSupply, noSupply>>
  BY DEF PauseMinting, ResumeMinting, tokenVars
<1>2. RegistryInv' /\ market' = market
  BY RegistryUnchanged DEF PauseMinting, ResumeMinting
<1>3. vault \in [Market -> VaultAccount]
  BY DEF EscrowInv, EscrowTypeOK
<1>4. vault' \in [Market -> VaultAccount]
  BY <1>1, <1>3 DEF VaultAccount
<1>5. EscrowTypeOK'
  BY <1>1, <1>2, <1>4 DEF EscrowInv, EscrowTypeOK, RegistryInv
<1>6. \A n \in Market : n # m => vault'[n] = vault[n]
  BY <1>1, <1>3
<1>7. /\ vault'[m].locked = vault[m].locked /\ vault'[m].yesMinted = vault[m].yesMinted
      /\ vault'[m].noMinted = vault[m].noMinted /\ vault'[m].settled = vault[m].settled
      /\ vault'[m].admin = vault[m].admin
  BY <1>1, <1>3 DEF VaultAccount
<1>8. Books(m)'
  BY <1>1, <1>2, <1>7 DEF EscrowInv, Books, VaultExists, IsResolved, Backed
<1> QED
  BY <1>1, <1>2, <1>5, <1>6, <1>8, OtherBooks DEF EscrowInv


LEMMA MintPairsInv ==
  ASSUME EscrowInv, NEW m \in Market, NEW asserted \in Market,
         NEW payer \in Holder, NEW yesTo \in Holder, NEW noTo \in Holder,
         NEW pairs \in Amount, MintPairs(m, asserted, payer, yesTo, noTo, pairs)
  PROVE  EscrowInv'
<1> DEFINE collateral == pairs * Unit
           minted == Minted(vault[m], pairs)
<1>1. pairs \in Nat /\ collateral \in Nat
  BY LedgerAssumption, TimesUnit DEF Amount
<1>2. /\ collateral <= usdc[payer]
      /\ usdc' = Debit(usdc, payer, collateral)
      /\ usdcVault' = Credit(usdcVault, m, collateral)
      /\ yesHeld' = [yesHeld EXCEPT ![m] = Credit(yesHeld[m], yesTo, pairs)]
      /\ noHeld' = [noHeld EXCEPT ![m] = Credit(noHeld[m], noTo, pairs)]
      /\ yesSupply' = Credit(yesSupply, m, pairs)
      /\ noSupply' = Credit(noSupply, m, pairs)
      /\ VaultInvariantHolds(minted)
      /\ vault' = [vault EXCEPT ![m] = minted]
      /\ VaultExists(m) /\ ~vault[m].settled
  BY DEF MintPairs, CanMint
<1>3. RegistryInv' /\ market' = market
  BY RegistryUnchanged DEF MintPairs
<1>4. /\ vault \in [Market -> VaultAccount] /\ vault[m] \in VaultAccount
      /\ usdcVault \in [Market -> Nat] /\ usdc \in [Holder -> Nat]
      /\ yesHeld \in [Market -> [Holder -> Nat]] /\ noHeld \in [Market -> [Holder -> Nat]]
      /\ yesSupply \in [Market -> Nat] /\ noSupply \in [Market -> Nat]
  BY DEF EscrowInv, EscrowTypeOK
<1> HIDE DEF collateral
<1>a. /\ vault[m].locked \in Nat /\ vault[m].yesMinted \in Nat
      /\ vault[m].noMinted \in Nat
  BY <1>4 DEF VaultAccount
<1>b. minted = [vault[m] EXCEPT !.locked = vault[m].locked + collateral,
                                !.yesMinted = vault[m].yesMinted + pairs,
                                !.noMinted = vault[m].noMinted + pairs]
  BY <1>4 DEF Minted, VaultAccount, collateral
<1>5. /\ minted \in VaultAccount
      /\ minted.locked = vault[m].locked + collateral
      /\ minted.yesMinted = vault[m].yesMinted + pairs
      /\ minted.noMinted = vault[m].noMinted + pairs
      /\ minted.settled = vault[m].settled
      /\ minted.admin = vault[m].admin
  <2>1. /\ vault[m].locked + collateral \in Nat
        /\ vault[m].yesMinted + pairs \in Nat /\ vault[m].noMinted + pairs \in Nat
    BY <1>1, <1>a
  <2> QED
    BY <1>4, <1>b, <2>1 DEF VaultAccount
<1> HIDE DEF minted
<1>6. EscrowTypeOK'
  <2>1. /\ usdc' \in [Holder -> Nat] /\ usdcVault' \in [Market -> Nat]
        /\ yesSupply' \in [Market -> Nat] /\ noSupply' \in [Market -> Nat]
    BY <1>1, <1>2, <1>4, CreditAccount, DebitAccount
  <2>2. /\ Credit(yesHeld[m], yesTo, pairs) \in [Holder -> Nat]
        /\ Credit(noHeld[m], noTo, pairs) \in [Holder -> Nat]
    BY <1>1, <1>4, CreditAccount
  <2>3. yesHeld' \in [Market -> [Holder -> Nat]] /\ noHeld' \in [Market -> [Holder -> Nat]]
    BY <1>2, <1>4, <2>2
  <2>4. vault' \in [Market -> VaultAccount]
    BY <1>2, <1>4, <1>5
  <2> QED
    BY <1>3, <2>1, <2>3, <2>4 DEF EscrowTypeOK, RegistryInv
<1>7. \A n \in Market : n # m =>
        /\ vault'[n] = vault[n] /\ usdcVault'[n] = usdcVault[n]
        /\ yesSupply'[n] = yesSupply[n] /\ noSupply'[n] = noSupply[n]
  BY <1>2, <1>4 DEF Credit
<1>8. Books(m)'
  <2>1. /\ usdcVault'[m] = usdcVault[m] + collateral
        /\ yesSupply'[m] = yesSupply[m] + pairs
        /\ noSupply'[m] = noSupply[m] + pairs
        /\ vault'[m] = minted
    BY <1>2, <1>4 DEF Credit
  <2>2. /\ vault[m].locked \in Nat /\ vault[m].yesMinted \in Nat
        /\ vault[m].noMinted \in Nat /\ usdcVault[m] \in Nat
        /\ yesSupply[m] \in Nat /\ noSupply[m] \in Nat
    BY <1>4 DEF VaultAccount
  <2>3. /\ vault[m].locked <= usdcVault[m] /\ yesSupply[m] <= vault[m].yesMinted
        /\ noSupply[m] <= vault[m].noMinted
    BY DEF EscrowInv, Books
  <2>4. /\ minted.locked <= usdcVault'[m] /\ yesSupply'[m] <= minted.yesMinted
        /\ noSupply'[m] <= minted.noMinted
    BY <1>1, <1>5, <2>1, <2>2, <2>3
  <2>5. minted.yesMinted = minted.noMinted /\ minted.locked = minted.yesMinted * Unit
    BY <1>2 DEF VaultInvariantHolds
  <2> QED
    BY <1>2, <1>5, <2>1, <2>4, <2>5 DEF Books, VaultExists
<1> QED
  BY <1>3, <1>6, <1>7, <1>8, OtherBooks DEF EscrowInv

LEMMA SettleInv ==
  ASSUME EscrowInv, NEW m \in Market, Settle(m)
  PROVE  EscrowInv'
<1>1. /\ VaultExists(m) /\ ~vault[m].settled /\ IsResolved(m)
      /\ vault' = [vault EXCEPT ![m].settled = TRUE]
      /\ UNCHANGED <<usdcVault, usdc, yesHeld, noHeld, yesSupply, noSupply>>
  BY DEF Settle, AssertMarketResolved, IsResolved, tokenVars
<1>2. RegistryInv' /\ market' = market
  BY RegistryUnchanged DEF Settle
<1>3. /\ vault \in [Market -> VaultAccount] /\ vault[m] \in VaultAccount
      /\ yesSupply[m] \in Nat /\ noSupply[m] \in Nat
  BY DEF EscrowInv, EscrowTypeOK
<1>4. vault' \in [Market -> VaultAccount]
  BY <1>1, <1>3 DEF VaultAccount
<1>5. EscrowTypeOK'
  BY <1>1, <1>2, <1>4 DEF EscrowInv, EscrowTypeOK, RegistryInv
<1>6. /\ \A n \in Market : n # m => vault'[n] = vault[n]
      /\ vault'[m].locked = vault[m].locked /\ vault'[m].yesMinted = vault[m].yesMinted
      /\ vault'[m].noMinted = vault[m].noMinted /\ vault'[m].settled = TRUE
      /\ vault'[m].admin = vault[m].admin
  BY <1>1, <1>3 DEF VaultAccount
<1>7. PayoutFor(market[m].outcome, yesSupply[m], noSupply[m]) <= vault[m].locked
  <2>1. /\ yesSupply[m] <= vault[m].yesMinted /\ noSupply[m] <= vault[m].yesMinted
        /\ vault[m].locked = vault[m].yesMinted * Unit
    BY <1>1 DEF EscrowInv, Books
  <2>2. vault[m].yesMinted \in Nat
    BY <1>3 DEF VaultAccount
  <2>3. market[m].outcome \in Outcome
    BY <1>1, ResolvedOutcome DEF EscrowInv
  <2> QED BY <1>3, <2>1, <2>2, <2>3, PayoutBounded
<1>8. Books(m)'
  BY <1>1, <1>2, <1>6, <1>7 DEF EscrowInv, Books, VaultExists, IsResolved, Backed
<1> QED
  BY <1>1, <1>2, <1>5, <1>6, <1>8, OtherBooks DEF EscrowInv


(* A claim takes at most its own share: what is left covers what is left.  *)
LEMMA ClaimPayoutInv ==
  ASSUME EscrowInv, NEW m \in Market, NEW h \in Holder, ClaimPayout(m, h)
  PROVE  EscrowInv'
<1> DEFINE o == market[m].outcome
           y == yesHeld[m][h]
           n == noHeld[m][h]
           payout == PayoutFor(o, y, n)
<1>1. /\ vault \in [Market -> VaultAccount] /\ vault[m] \in VaultAccount
      /\ usdcVault \in [Market -> Nat] /\ usdc \in [Holder -> Nat]
      /\ yesHeld \in [Market -> [Holder -> Nat]] /\ noHeld \in [Market -> [Holder -> Nat]]
      /\ yesSupply \in [Market -> Nat] /\ noSupply \in [Market -> Nat]
  BY DEF EscrowInv, EscrowTypeOK
<1>2. o \in Outcome
  BY ResolvedOutcome DEF EscrowInv, ClaimPayout
<1>3. y \in Nat /\ n \in Nat /\ payout \in Nat
  BY <1>1, <1>2, PayoutIsNat
<1>4. RegistryInv' /\ market' = market
  BY RegistryUnchanged DEF ClaimPayout
<1>5. /\ vault[m].settled
      /\ y <= yesSupply[m] /\ n <= noSupply[m]
      /\ yesHeld' = [yesHeld EXCEPT ![m][h] = 0]
      /\ noHeld' = [noHeld EXCEPT ![m][h] = 0]
      /\ yesSupply' = Debit(yesSupply, m, y)
      /\ noSupply' = Debit(noSupply, m, n)
      /\ payout <= usdcVault[m]
      /\ usdcVault' = Debit(usdcVault, m, payout)
      /\ usdc' = Credit(usdc, h, payout)
      /\ payout <= vault[m].locked
      /\ vault' = [vault EXCEPT ![m].locked = vault[m].locked - payout]
  BY <1>1 DEF ClaimPayout, BurnAll, PayOut
<1>6. /\ \A c \in Market : c # m =>
            /\ vault'[c] = vault[c] /\ usdcVault'[c] = usdcVault[c]
            /\ yesSupply'[c] = yesSupply[c] /\ noSupply'[c] = noSupply[c]
      /\ yesSupply'[m] = yesSupply[m] - y /\ noSupply'[m] = noSupply[m] - n
      /\ usdcVault'[m] = usdcVault[m] - payout
  BY <1>1, <1>5 DEF Debit
<1> HIDE DEF payout, y, n, o
<1>7. /\ vault[m].locked \in Nat /\ vault[m].yesMinted \in Nat /\ vault[m].noMinted \in Nat
      /\ vault[m].locked - payout \in Nat
  BY <1>1, <1>3, <1>5 DEF VaultAccount
<1>8. /\ vault' \in [Market -> VaultAccount]
      /\ vault'[m].locked = vault[m].locked - payout
      /\ vault'[m].yesMinted = vault[m].yesMinted /\ vault'[m].noMinted = vault[m].noMinted
      /\ vault'[m].settled = vault[m].settled /\ vault'[m].admin = vault[m].admin
  BY <1>1, <1>5, <1>7 DEF VaultAccount
<1>9. EscrowTypeOK'
  <2>1. /\ usdc' \in [Holder -> Nat] /\ usdcVault' \in [Market -> Nat]
        /\ yesSupply' \in [Market -> Nat] /\ noSupply' \in [Market -> Nat]
    BY <1>1, <1>3, <1>5, CreditAccount, DebitAccount
  <2>2. yesHeld' \in [Market -> [Holder -> Nat]] /\ noHeld' \in [Market -> [Holder -> Nat]]
    BY <1>1, <1>5
  <2> QED
    BY <1>4, <1>8, <2>1, <2>2 DEF EscrowTypeOK, RegistryInv
<1>10. Books(m)'
  <2>1. /\ yesSupply[m] \in Nat /\ noSupply[m] \in Nat /\ usdcVault[m] \in Nat
    BY <1>1
  <2>2. /\ vault[m].locked <= usdcVault[m] /\ yesSupply[m] <= vault[m].yesMinted
        /\ noSupply[m] <= vault[m].noMinted /\ IsResolved(m) /\ VaultExists(m)
        /\ PayoutFor(o, yesSupply[m], noSupply[m]) <= vault[m].locked
    BY <1>5 DEF EscrowInv, Books, Backed, NoVault, o
  <2>3. /\ payout + PayoutFor(o, yesSupply[m] - y, noSupply[m] - n)
             <= PayoutFor(o, yesSupply[m], noSupply[m])
        /\ PayoutFor(o, yesSupply[m] - y, noSupply[m] - n) \in Nat
        /\ PayoutFor(o, yesSupply[m], noSupply[m]) \in Nat
    <3>1. yesSupply[m] - y \in Nat /\ noSupply[m] - n \in Nat
      BY <1>3, <1>5, <2>1
    <3> QED
      BY <1>2, <1>3, <1>5, <2>1, <3>1, PayoutInParts, PayoutIsNat DEF payout
  <2>4. PayoutFor(o, yesSupply'[m], noSupply'[m]) <= vault'[m].locked
    BY <1>3, <1>6, <1>7, <1>8, <2>2, <2>3
  <2>5. /\ vault'[m].locked <= usdcVault'[m]
        /\ yesSupply'[m] <= vault'[m].yesMinted /\ noSupply'[m] <= vault'[m].noMinted
    BY <1>3, <1>6, <1>7, <1>8, <2>1, <2>2
  <2> QED
    BY <1>4, <1>5, <1>8, <2>2, <2>4, <2>5 DEF Books, Backed, IsResolved, VaultExists, o
<1> QED
  BY <1>4, <1>6, <1>9, <1>10, OtherBooks DEF EscrowInv

(* Passing tokens on changes no supply.                                    *)
LEMMA TransferInv ==
  ASSUME EscrowInv, NEW m \in Market, NEW h \in Holder, NEW g \in Holder, NEW n \in Amount,
         TransferYes(m, h, g, n) \/ TransferNo(m, h, g, n)
  PROVE  EscrowInv'
<1>1. n \in Nat
  BY LedgerAssumption DEF Amount
<1>2. RegistryInv' /\ market' = market
  BY RegistryUnchanged DEF TransferYes, TransferNo
<1>3. /\ yesHeld' \in [Market -> [Holder -> Nat]] /\ noHeld' \in [Market -> [Holder -> Nat]]
      /\ UNCHANGED <<vault, usdcVault, usdc, yesSupply, noSupply>>
  <2>1. yesHeld[m] \in [Holder -> Nat] /\ noHeld[m] \in [Holder -> Nat]
    BY DEF EscrowInv, EscrowTypeOK
  <2>2. /\ n <= yesHeld[m][h] => Move(yesHeld[m], h, g, n) \in [Holder -> Nat]
        /\ n <= noHeld[m][h] => Move(noHeld[m], h, g, n) \in [Holder -> Nat]
    BY <1>1, <2>1, MoveAccount
  <2> QED
    BY <2>2 DEF EscrowInv, EscrowTypeOK, TransferYes, TransferNo
<1>4. EscrowTypeOK'
  BY <1>2, <1>3 DEF EscrowInv, EscrowTypeOK, RegistryInv
<1> QED
  BY <1>2, <1>3, <1>4, OtherBooks DEF EscrowInv

(* Fewer tokens are owed no more.                                          *)
LEMMA FewerTokensBacked ==
  ASSUME NEW o \in Outcome, NEW y \in Nat, NEW n \in Nat, NEW y1 \in Nat, NEW n1 \in Nat,
         y1 <= y, n1 <= n, NEW c \in Nat, PayoutFor(o, y, n) <= c
  PROVE  PayoutFor(o, y1, n1) <= c
<1>1. y - y1 \in Nat /\ n - n1 \in Nat
  OBVIOUS
<1>2. /\ PayoutFor(o, y1, n1) \in Nat /\ PayoutFor(o, y - y1, n - n1) \in Nat
      /\ PayoutFor(o, y, n) \in Nat
      /\ PayoutFor(o, y1, n1) + PayoutFor(o, y - y1, n - n1) <= PayoutFor(o, y, n)
  BY <1>1, PayoutIsNat, PayoutInParts
<1> QED BY <1>2

LEMMA BurnInv ==
  ASSUME EscrowInv, NEW m \in Market, NEW h \in Holder, NEW n \in Amount,
         BurnYes(m, h, n) \/ BurnNo(m, h, n)
  PROVE  EscrowInv'
<1>1. n \in Nat
  BY LedgerAssumption DEF Amount
<1>2. RegistryInv' /\ market' = market
  BY RegistryUnchanged DEF BurnYes, BurnNo
<1>3. /\ vault[m] \in VaultAccount /\ yesSupply \in [Market -> Nat]
      /\ noSupply \in [Market -> Nat]
      /\ yesHeld[m] \in [Holder -> Nat] /\ noHeld[m] \in [Holder -> Nat]
      /\ yesHeld \in [Market -> [Holder -> Nat]] /\ noHeld \in [Market -> [Holder -> Nat]]
  BY DEF EscrowInv, EscrowTypeOK
<1>4. UNCHANGED <<vault, usdcVault, usdc>>
  BY DEF BurnYes, BurnNo
<1>5. /\ yesHeld' \in [Market -> [Holder -> Nat]] /\ noHeld' \in [Market -> [Holder -> Nat]]
      /\ yesSupply' \in [Market -> Nat] /\ noSupply' \in [Market -> Nat]
  <2>1. CASE BurnYes(m, h, n)
    <3>1. /\ Debit(yesHeld[m], h, n) \in [Holder -> Nat]
          /\ Debit(yesSupply, m, n) \in [Market -> Nat]
      BY <1>1, <1>3, <2>1, DebitAccount DEF BurnYes
    <3> QED BY <1>3, <2>1, <3>1 DEF BurnYes
  <2>2. CASE BurnNo(m, h, n)
    <3>1. /\ Debit(noHeld[m], h, n) \in [Holder -> Nat]
          /\ Debit(noSupply, m, n) \in [Market -> Nat]
      BY <1>1, <1>3, <2>2, DebitAccount DEF BurnNo
    <3> QED BY <1>3, <2>2, <3>1 DEF BurnNo
  <2> QED BY <2>1, <2>2
<1>6. /\ \A c \in Market : c # m => yesSupply'[c] = yesSupply[c] /\ noSupply'[c] = noSupply[c]
      /\ yesSupply'[m] <= yesSupply[m] /\ noSupply'[m] <= noSupply[m]
  BY <1>1, <1>3 DEF BurnYes, BurnNo, Debit
<1>7. EscrowTypeOK'
  BY <1>2, <1>4, <1>5 DEF EscrowInv, EscrowTypeOK, RegistryInv
<1>8. Books(m)'
  <2>1. /\ vault[m].locked \in Nat /\ vault[m].yesMinted \in Nat /\ vault[m].noMinted \in Nat
        /\ yesSupply[m] \in Nat /\ noSupply[m] \in Nat
        /\ yesSupply'[m] \in Nat /\ noSupply'[m] \in Nat
    BY <1>3, <1>5 DEF VaultAccount
  <2>2. Books(m)
    BY DEF EscrowInv
  <2>3. vault[m].settled =>
          PayoutFor(market[m].outcome, yesSupply'[m], noSupply'[m]) <= vault[m].locked
    <3> SUFFICES ASSUME vault[m].settled
                 PROVE  PayoutFor(market[m].outcome, yesSupply'[m], noSupply'[m])
                          <= vault[m].locked
      OBVIOUS
    <3>1. market[m].outcome \in Outcome
      BY <2>2, ResolvedOutcome DEF Books, EscrowInv
    <3>2. PayoutFor(market[m].outcome, yesSupply[m], noSupply[m]) <= vault[m].locked
      BY <2>2 DEF Books, Backed
    <3> QED BY <1>6, <2>1, <3>1, <3>2, FewerTokensBacked
  <2>4. yesSupply'[m] <= vault[m].yesMinted /\ noSupply'[m] <= vault[m].noMinted
    BY <1>6, <2>1, <2>2 DEF Books
  <2> QED
    BY <1>2, <1>4, <2>2, <2>3, <2>4 DEF Books, Backed, IsResolved, VaultExists
<1> QED
  BY <1>2, <1>4, <1>6, <1>7, <1>8, OtherBooks DEF EscrowInv

LEMMA DepositUsdcInv ==
  ASSUME EscrowInv, NEW m \in Market, NEW h \in Holder, NEW n \in Amount, DepositUsdc(m, h, n)
  PROVE  EscrowInv'
<1>1. n \in Nat
  BY LedgerAssumption DEF Amount
<1>2. RegistryInv' /\ market' = market
  BY RegistryUnchanged DEF DepositUsdc
<1>3. /\ vault[m] \in VaultAccount /\ usdcVault \in [Market -> Nat] /\ usdc \in [Holder -> Nat]
  BY DEF EscrowInv, EscrowTypeOK
<1>4. /\ n <= usdc[h] /\ usdc' = Debit(usdc, h, n) /\ usdcVault' = Credit(usdcVault, m, n)
      /\ UNCHANGED <<vault, yesHeld, noHeld, yesSupply, noSupply>>
  BY DEF DepositUsdc, tokenVars
<1>5. usdc' \in [Holder -> Nat] /\ usdcVault' \in [Market -> Nat]
  BY <1>1, <1>3, <1>4, CreditAccount, DebitAccount
<1>6. /\ \A c \in Market : c # m => usdcVault'[c] = usdcVault[c]
      /\ usdcVault'[m] = usdcVault[m] + n
  BY <1>3, <1>4 DEF Credit
<1>7. EscrowTypeOK'
  BY <1>2, <1>4, <1>5 DEF EscrowInv, EscrowTypeOK, RegistryInv
<1>8. Books(m)'
  <2>1. vault[m].locked \in Nat /\ usdcVault[m] \in Nat
    BY <1>3 DEF VaultAccount
  <2>2. Books(m)
    BY DEF EscrowInv
  <2>3. vault[m].locked <= usdcVault'[m]
    BY <1>1, <1>6, <2>1, <2>2 DEF Books
  <2> QED
    BY <1>2, <1>4, <2>2, <2>3 DEF Books, Backed, IsResolved, VaultExists
<1> QED
  BY <1>2, <1>4, <1>6, <1>7, <1>8, OtherBooks DEF EscrowInv

-----------------------------------------------------------------------------
(* Every step keeps the invariant.                                         *)
LEMMA EscrowStepInv == EscrowInv /\ [EscrowNext]_vars => EscrowInv'
<1> SUFFICES ASSUME EscrowInv, [EscrowNext]_vars
             PROVE  EscrowInv'
  OBVIOUS
<1>1. CASE RegistryStep
  BY <1>1, RegistryStepBooks DEF RegistryStep, escrowVars, EscrowInv, EscrowTypeOK
<1>2. ASSUME NEW m \in Market, EscrowInstruction(m)
      PROVE  EscrowInv'
  BY <1>2, InitializeVaultInv, PauseResumeInv, MintPairsInv, SettleInv, ClaimPayoutInv
     DEF EscrowInstruction
<1>3. ASSUME NEW m \in Market, TokenOwnerStep(m)
      PROVE  EscrowInv'
  BY <1>3, TransferInv, BurnInv, DepositUsdcInv DEF TokenOwnerStep, TokensChangeHands
<1>4. CASE UNCHANGED vars
  BY <1>4, RegistryStepBooks DEF vars, escrowVars, EscrowInv, EscrowTypeOK
<1> QED
  BY <1>1, <1>2, <1>3, <1>4 DEF EscrowNext

(* The books imply solvency.                                               *)
LEMMA BooksCoverTokens == EscrowInv => CollateralCoversTokens
<1> SUFFICES ASSUME EscrowInv, NEW m \in Market
             PROVE  /\ vault[m].locked <= usdcVault[m]
                    /\ vault[m].settled => Backed(m, market[m].outcome)
                    /\ ~vault[m].settled => \A o \in Outcome : Backed(m, o)
  BY DEF CollateralCoversTokens
<1>1. Books(m)
  BY DEF EscrowInv
<1>2. /\ yesSupply[m] \in Nat /\ noSupply[m] \in Nat /\ vault[m].yesMinted \in Nat
  BY DEF EscrowInv, EscrowTypeOK, VaultAccount
<1>3. ASSUME ~vault[m].settled, NEW o \in Outcome
      PROVE  Backed(m, o)
  BY <1>1, <1>2, <1>3, PayoutBounded DEF Books, Backed
<1> QED
  BY <1>1, <1>3 DEF Books

(* Accounts and balances always hold values of their types; in particular  *)
(* no balance, supply or locked amount is ever driven below zero.          *)
THEOREM EscrowTypeCorrect == EscrowSpec => []EscrowTypeOK
<1>1. EscrowInv => EscrowTypeOK
  BY DEF EscrowInv
<1> QED
  BY <1>1, EscrowInitInv, EscrowStepInv, PTL DEF EscrowSpec

(* Every vault is solvent at every moment: its locked collateral, which    *)
(* its USDC account holds, covers all outstanding tokens.                  *)
THEOREM VaultsAreSolvent == EscrowSpec => []CollateralCoversTokens
BY BooksCoverTokens, EscrowInitInv, EscrowStepInv, PTL DEF EscrowSpec

=============================================================================
