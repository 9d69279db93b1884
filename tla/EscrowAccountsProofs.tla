----------------------- MODULE EscrowAccountsProofs -------------------------
(***************************************************************************)
(* What the vaults' books and the holders' accounts say of each other: the *)
(* supply of a mint is what its holders hold, so every claim succeeds; and *)
(* a vault whose owners burn no tokens and send it no stray USDC is        *)
(* emptied exactly.                                                        *)
(***************************************************************************)
EXTENDS EscrowVaultProofs

-----------------------------------------------------------------------------
(* Supplies.                                                               *)

Supplied(held, supply) == \A m \in Market : supply[m] = SumOver(Holder, held[m])

(* Minting n tokens to one holder.                                         *)
LEMMA SuppliedMint ==
  ASSUME NEW held \in [Market -> [Holder -> Nat]], NEW supply \in [Market -> Nat],
         Supplied(held, supply), NEW m \in Market, NEW h \in Holder, NEW n \in Nat
  PROVE  Supplied([held EXCEPT ![m] = Credit(held[m], h, n)], Credit(supply, m, n))
<1>1. SumOver(Holder, Credit(held[m], h, n)) = SumOver(Holder, held[m]) + n
  BY SumCredit, HoldersFinite
<1>2. /\ Credit(supply, m, n)[m] = supply[m] + n
      /\ \A c \in Market : c # m => Credit(supply, m, n)[c] = supply[c]
  BY DEF Credit
<1> DEFINE acc == Credit(held[m], h, n)
           s == Credit(supply, m, n)
<1> HIDE DEF acc, s
<1>3. /\ [held EXCEPT ![m] = acc][m] = acc
      /\ \A c \in Market : c # m => [held EXCEPT ![m] = acc][c] = held[c]
  OBVIOUS
<1>4. s[m] = SumOver(Holder, acc) /\ \A c \in Market : c # m => s[c] = supply[c]
  BY <1>1, <1>2 DEF acc, s, Supplied
<1>5. Supplied([held EXCEPT ![m] = acc], s)
  BY <1>3, <1>4 DEF Supplied
<1> QED
  BY <1>5 DEF acc, s

(* Burning n of a holder's tokens.                                         *)
LEMMA SuppliedBurn ==
  ASSUME NEW held \in [Market -> [Holder -> Nat]], NEW supply \in [Market -> Nat],
         Supplied(held, supply), NEW m \in Market, NEW h \in Holder, NEW n \in Nat,
         n <= held[m][h], n <= supply[m]
  PROVE  Supplied([held EXCEPT ![m] = Debit(held[m], h, n)], Debit(supply, m, n))
<1>1. SumOver(Holder, Debit(held[m], h, n)) = SumOver(Holder, held[m]) - n
  BY SumDebit, HoldersFinite
<1>2. /\ Debit(supply, m, n)[m] = supply[m] - n
      /\ \A c \in Market : c # m => Debit(supply, m, n)[c] = supply[c]
  BY DEF Debit
<1> DEFINE acc == Debit(held[m], h, n)
           s == Debit(supply, m, n)
<1> HIDE DEF acc, s
<1>3. /\ [held EXCEPT ![m] = acc][m] = acc
      /\ \A c \in Market : c # m => [held EXCEPT ![m] = acc][c] = held[c]
  OBVIOUS
<1>4. s[m] = SumOver(Holder, acc) /\ \A c \in Market : c # m => s[c] = supply[c]
  BY <1>1, <1>2 DEF acc, s, Supplied
<1>5. Supplied([held EXCEPT ![m] = acc], s)
  BY <1>3, <1>4 DEF Supplied
<1> QED
  BY <1>5 DEF acc, s

(* Passing n tokens on.                                                    *)
LEMMA SuppliedMove ==
  ASSUME NEW held \in [Market -> [Holder -> Nat]], NEW supply \in [Market -> Nat],
         Supplied(held, supply), NEW m \in Market, NEW h \in Holder, NEW g \in Holder,
         NEW n \in Nat, n <= held[m][h]
  PROVE  Supplied([held EXCEPT ![m] = Move(held[m], h, g, n)], supply)
<1>1. SumOver(Holder, Move(held[m], h, g, n)) = SumOver(Holder, held[m])
  BY SumMove, HoldersFinite
<1> QED
  BY <1>1 DEF Supplied

(* Burning all a holder has.                                               *)
LEMMA SuppliedBurnAll ==
  ASSUME NEW held \in [Market -> [Holder -> Nat]], NEW supply \in [Market -> Nat],
         Supplied(held, supply), NEW m \in Market, NEW h \in Holder,
         held[m][h] <= supply[m]
  PROVE  Supplied([held EXCEPT ![m][h] = 0], Debit(supply, m, held[m][h]))
<1>1. SumOver(Holder, [held[m] EXCEPT ![h] = 0]) = SumOver(Holder, held[m]) - held[m][h]
  BY SumEmptied, HoldersFinite
<1>2. held[m][h] \in Nat
  OBVIOUS
<1>3. /\ Debit(supply, m, held[m][h])[m] = supply[m] - held[m][h]
      /\ \A c \in Market : c # m => Debit(supply, m, held[m][h])[c] = supply[c]
  BY <1>2, DebitAccount
<1>4. /\ [held EXCEPT ![m][h] = 0][m] = [held[m] EXCEPT ![h] = 0]
      /\ \A c \in Market : c # m => [held EXCEPT ![m][h] = 0][c] = held[c]
  OBVIOUS
<1> QED
  BY <1>1, <1>3, <1>4 DEF Supplied

(* Every supply is what the holders hold, and what was minted of the two   *)
(* tokens is as much, and priced in u64.                                   *)
Ledgers ==
    /\ Supplied(yesHeld, yesSupply)
    /\ Supplied(noHeld, noSupply)
    /\ \A m \in Market :
          /\ vault[m].yesMinted = vault[m].noMinted
          /\ FitsU64(vault[m].yesMinted * Unit)

(* Before the first vault nobody holds a token and nothing is minted.      *)
LEMMA LedgersInit == EscrowInit => Ledgers
<1> SUFFICES ASSUME EscrowInit PROVE Ledgers
  OBVIOUS
<1>1. \A m \in Market : yesHeld[m] = [h \in Holder |-> 0] /\ noHeld[m] = [h \in Holder |-> 0]
  BY DEF EscrowInit, NoneHeld
<1>2. SumOver(Holder, [h \in Holder |-> 0]) = 0
  BY SumOfZeros, HoldersFinite
<1>3. \A m \in Market : vault[m].yesMinted = 0 /\ vault[m].noMinted = 0
  BY DEF EscrowInit, NoVault
<1>4. FitsU64(0 * Unit)
  BY UnitAssumption, LedgerAssumption DEF FitsU64
<1> QED
  BY <1>1, <1>2, <1>3, <1>4 DEF Ledgers, Supplied, EscrowInit

(* Steps that write neither tokens nor minted totals.                      *)
LEMMA LedgersUntouched ==
  ASSUME Ledgers, UNCHANGED tokenVars,
         \A m \in Market : vault'[m].yesMinted = vault[m].yesMinted
                             /\ vault'[m].noMinted = vault[m].noMinted
  PROVE  Ledgers'
BY DEF Ledgers, Supplied, tokenVars

(* Minting credits one YES and one NO holder with what it adds to the      *)
(* supplies.                                                               *)
LEMMA MintPairsLedgers ==
  ASSUME EscrowInv, Ledgers, NEW m \in Market, NEW asserted \in Market,
         NEW payer \in Holder, NEW yesTo \in Holder, NEW noTo \in Holder,
         NEW pairs \in Amount, MintPairs(m, asserted, payer, yesTo, noTo, pairs)
  PROVE  Ledgers'
<1> DEFINE minted == Minted(vault[m], pairs)
<1>1. pairs \in Nat
  BY LedgerAssumption DEF Amount
<1>2. /\ vault \in [Market -> VaultAccount] /\ vault[m] \in VaultAccount
      /\ yesHeld \in [Market -> [Holder -> Nat]] /\ noHeld \in [Market -> [Holder -> Nat]]
      /\ yesSupply \in [Market -> Nat] /\ noSupply \in [Market -> Nat]
  BY DEF EscrowInv, EscrowTypeOK
<1>3. /\ yesHeld' = [yesHeld EXCEPT ![m] = Credit(yesHeld[m], yesTo, pairs)]
      /\ noHeld' = [noHeld EXCEPT ![m] = Credit(noHeld[m], noTo, pairs)]
      /\ yesSupply' = Credit(yesSupply, m, pairs)
      /\ noSupply' = Credit(noSupply, m, pairs)
      /\ VaultInvariantHolds(minted)
      /\ vault' = [vault EXCEPT ![m] = minted]
  BY DEF MintPairs
<1>4. Supplied(yesHeld', yesSupply') /\ Supplied(noHeld', noSupply')
  BY <1>1, <1>2, <1>3, SuppliedMint DEF Ledgers
<1>5. minted.yesMinted = minted.noMinted /\ FitsU64(minted.yesMinted * Unit)
  BY <1>3 DEF VaultInvariantHolds
<1> HIDE DEF minted
<1>6. /\ vault'[m] = minted
      /\ \A c \in Market : c # m => vault'[c] = vault[c]
  BY <1>2, <1>3
<1> QED
  BY <1>4, <1>5, <1>6 DEF Ledgers, Supplied

(* A claim burns all that one holder has, and the supplies fall by that.   *)
LEMMA ClaimPayoutLedgers ==
  ASSUME EscrowInv, Ledgers, NEW m \in Market, NEW h \in Holder, ClaimPayout(m, h)
  PROVE  Ledgers'
<1>1. /\ vault \in [Market -> VaultAccount] /\ vault[m] \in VaultAccount
      /\ yesHeld \in [Market -> [Holder -> Nat]] /\ noHeld \in [Market -> [Holder -> Nat]]
      /\ yesSupply \in [Market -> Nat] /\ noSupply \in [Market -> Nat]
  BY DEF EscrowInv, EscrowTypeOK
<1>2. /\ yesHeld[m][h] <= yesSupply[m] /\ noHeld[m][h] <= noSupply[m]
      /\ yesHeld' = [yesHeld EXCEPT ![m][h] = 0]
      /\ noHeld' = [noHeld EXCEPT ![m][h] = 0]
      /\ yesSupply' = Debit(yesSupply, m, yesHeld[m][h])
      /\ noSupply' = Debit(noSupply, m, noHeld[m][h])
  BY DEF ClaimPayout, BurnAll
<1>3. Supplied(yesHeld', yesSupply') /\ Supplied(noHeld', noSupply')
  BY <1>1, <1>2, SuppliedBurnAll DEF Ledgers
<1>4. \A c \in Market : vault'[c].yesMinted = vault[c].yesMinted
                          /\ vault'[c].noMinted = vault[c].noMinted
  <2>1. PICK k : vault' = [vault EXCEPT ![m].locked = k]
    BY DEF ClaimPayout, PayOut
  <2> QED BY <1>1, <2>1 DEF VaultAccount
<1> QED
  BY <1>3, <1>4 DEF Ledgers, Supplied

(* Transfers move tokens between holders, burns take them from the supply. *)
LEMMA TokenOwnerStepLedgers ==
  ASSUME EscrowInv, Ledgers, NEW m \in Market, TokenOwnerStep(m)
  PROVE  Ledgers'
<1>1. /\ yesHeld \in [Market -> [Holder -> Nat]] /\ noHeld \in [Market -> [Holder -> Nat]]
      /\ yesSupply \in [Market -> Nat] /\ noSupply \in [Market -> Nat]
  BY DEF EscrowInv, EscrowTypeOK
<1>2. vault' = vault
  BY DEF TokenOwnerStep, TokensChangeHands, TransferYes, TransferNo, BurnYes, BurnNo,
         DepositUsdc
<1>3. PICK n \in Amount \ {0}, h \in Holder :
        \/ \E to \in Holder : TransferYes(m, h, to, n) \/ TransferNo(m, h, to, n)
        \/ BurnYes(m, h, n)
        \/ BurnNo(m, h, n)
        \/ DepositUsdc(m, h, n)
  BY DEF TokenOwnerStep, TokensChangeHands
<1>4. n \in Nat
  BY LedgerAssumption DEF Amount
<1>5. ASSUME NEW to \in Holder, TransferYes(m, h, to, n) \/ TransferNo(m, h, to, n)
      PROVE  Supplied(yesHeld', yesSupply') /\ Supplied(noHeld', noSupply')
  <2>1. CASE TransferYes(m, h, to, n)
    BY <1>1, <1>4, <2>1, SuppliedMove DEF Ledgers, TransferYes
  <2>2. CASE TransferNo(m, h, to, n)
    BY <1>1, <1>4, <2>2, SuppliedMove DEF Ledgers, TransferNo
  <2> QED BY <1>5, <2>1, <2>2
<1>6. CASE BurnYes(m, h, n)
  <2>1. Supplied(yesHeld', yesSupply') /\ Supplied(noHeld', noSupply')
    BY <1>1, <1>4, <1>6, SuppliedBurn DEF Ledgers, BurnYes
  <2> QED BY <1>2, <2>1 DEF Ledgers, Supplied
<1>7. CASE BurnNo(m, h, n)
  <2>1. Supplied(yesHeld', yesSupply') /\ Supplied(noHeld', noSupply')
    BY <1>1, <1>4, <1>7, SuppliedBurn DEF Ledgers, BurnNo
  <2> QED BY <1>2, <2>1 DEF Ledgers, Supplied
<1>8. CASE DepositUsdc(m, h, n)
  BY <1>2, <1>8, LedgersUntouched DEF DepositUsdc
<1> QED
  BY <1>2, <1>3, <1>5, <1>6, <1>7, <1>8 DEF Ledgers, Supplied

(* Every step keeps the ledgers in agreement.                              *)
LEMMA LedgersStep ==
  ASSUME EscrowInv, Ledgers, [EscrowNext]_vars
  PROVE  Ledgers'
<1>1. CASE RegistryStep \/ UNCHANGED vars
  BY <1>1, LedgersUntouched DEF RegistryStep, vars, escrowVars
<1>2. ASSUME NEW m \in Market, NEW k \in Key,
             InitializeVault(m, k) \/ PauseMinting(m, k) \/ ResumeMinting(m, k)
      PROVE  Ledgers'
  <2>1. vault \in [Market -> VaultAccount] /\ vault[m] \in VaultAccount
    BY DEF EscrowInv, EscrowTypeOK
  <2>2. /\ \A c \in Market : c # m => vault'[c] = vault[c]
        /\ vault'[m].yesMinted = vault[m].yesMinted /\ vault'[m].noMinted = vault[m].noMinted
    <3>1. CASE InitializeVault(m, k)
      BY <2>1, <3>1 DEF InitializeVault, EscrowInv, Books, NoVault
    <3>2. CASE PauseMinting(m, k) \/ ResumeMinting(m, k)
      BY <2>1, <3>2 DEF PauseMinting, ResumeMinting, VaultAccount
    <3> QED BY <1>2, <3>1, <3>2
  <2>3. UNCHANGED tokenVars
    BY <1>2 DEF InitializeVault, PauseMinting, ResumeMinting
  <2> QED BY <2>2, <2>3, LedgersUntouched
<1>3. ASSUME NEW m \in Market, Settle(m)
      PROVE  Ledgers'
  <2>1. vault \in [Market -> VaultAccount]
    BY DEF EscrowInv, EscrowTypeOK
  <2> QED BY <1>3, <2>1, LedgersUntouched DEF Settle, VaultAccount
<1>4. ASSUME NEW m \in Market, EscrowInstruction(m)
      PROVE  Ledgers'
  BY <1>2, <1>3, <1>4, MintPairsLedgers, ClaimPayoutLedgers DEF EscrowInstruction
<1> QED
  BY <1>1, <1>4, TokenOwnerStepLedgers DEF EscrowNext

(* What a holder has, the supply covers; what the supply is worth, the     *)
(* vault holds; and what was minted was priced without overflow.           *)
LEMMA LedgersHonourClaims == EscrowInv /\ Ledgers => EveryClaimSucceeds
<1> SUFFICES ASSUME EscrowInv, Ledgers, NEW m \in Market, NEW h \in Holder,
                    vault[m].settled
             PROVE  LET o == market[m].outcome
                        y == yesHeld[m][h]
                        n == noHeld[m][h]
                    IN /\ IsResolved(m) /\ o # "None"
                       /\ PayoutFits(o, y, n)
                       /\ y <= yesSupply[m] /\ n <= noSupply[m]
                       /\ PayoutFor(o, y, n) <= usdcVault[m]
                       /\ PayoutFor(o, y, n) <= vault[m].locked
  BY DEF EveryClaimSucceeds
<1> DEFINE o == market[m].outcome
           y == yesHeld[m][h]
           n == noHeld[m][h]
           c == vault[m].yesMinted
<1>1. /\ yesHeld[m] \in [Holder -> Nat] /\ noHeld[m] \in [Holder -> Nat]
      /\ y \in Nat /\ n \in Nat /\ yesSupply[m] \in Nat /\ noSupply[m] \in Nat
      /\ usdcVault[m] \in Nat /\ vault[m].locked \in Nat /\ c \in Nat
  BY DEF EscrowInv, EscrowTypeOK, VaultAccount
<1>2. Books(m)
  BY DEF EscrowInv
<1>3. IsResolved(m) /\ o \in Outcome /\ o # "None"
  BY <1>2, ResolvedOutcome DEF Books, EscrowInv, Outcome
<1>4. y <= yesSupply[m] /\ n <= noSupply[m]
  BY <1>1, SumCovers, HoldersFinite DEF Ledgers, Supplied
<1>5. y <= c /\ n <= c
  <2>1. /\ yesSupply[m] <= c /\ noSupply[m] <= vault[m].noMinted
        /\ vault[m].noMinted = c
    BY <1>2 DEF Books, Ledgers
  <2> HIDE DEF y, n, c
  <2> QED BY <1>1, <1>4, <2>1
<1>6. PayoutFor(o, y, n) \in Nat /\ PayoutFor(o, y, n) <= vault[m].locked
  <2>1. PayoutFor(o, yesSupply[m], noSupply[m]) <= vault[m].locked
    BY <1>2 DEF Books, Backed
  <2> DEFINE ys == yesSupply[m]
             ns == noSupply[m]
             k == vault[m].locked
  <2>2. /\ ys \in Nat /\ ns \in Nat /\ k \in Nat /\ y <= ys /\ n <= ns
        /\ PayoutFor(o, ys, ns) <= k
    BY <1>1, <1>4, <2>1
  <2> HIDE DEF o, y, n, ys, ns, k
  <2>3. PayoutFor(o, y, n) \in Nat
    BY <1>1, <1>3, PayoutIsNat
  <2>4. PayoutFor(o, y, n) <= k
    BY <1>1, <1>3, <2>2, FewerTokensBacked
  <2> QED BY <2>3, <2>4 DEF k
<1>7. PayoutFor(o, y, n) <= usdcVault[m]
  BY <1>1, <1>2, <1>6 DEF Books
<1>8. PayoutFits(o, y, n)
  <2>1. /\ y * Unit \in Nat /\ n * Unit \in Nat /\ c * Unit \in Nat
        /\ y * Unit <= c * Unit /\ n * Unit <= c * Unit
    BY <1>1, <1>5, TimesUnit
  <2>2. PayoutFor(o, y, n) <= c * Unit
    BY <1>1, <1>3, <1>5, PayoutBounded
  <2>3. c * Unit <= MaxU64
    BY DEF Ledgers, FitsU64
  <2> DEFINE p == PayoutFor(o, y, n)
             yu == y * Unit
             nu == n * Unit
             cu == c * Unit
  <2> HIDE DEF p, yu, nu, cu
  <2>4. yu <= MaxU64 /\ nu <= MaxU64 /\ p <= MaxU64
    BY <1>6, <2>1, <2>2, <2>3, LedgerAssumption DEF p, yu, nu, cu
  <2> QED BY <2>4 DEF PayoutFits, FitsU64, p, yu, nu
<1> QED
  BY <1>3, <1>4, <1>6, <1>7, <1>8

(* Nobody who holds a token of a settled vault is turned away.             *)
THEOREM NoClaimRefused == EscrowSpec => []EveryClaimSucceeds
<1>1. EscrowInv /\ Ledgers /\ [EscrowNext]_vars => (EscrowInv /\ Ledgers)'
  BY EscrowStepInv, LedgersStep
<1> QED
  BY <1>1, EscrowInitInv, LedgersInit, LedgersHonourClaims, PTL DEF EscrowSpec

-----------------------------------------------------------------------------
(* No dust.  Where owners burn no tokens, supplies are what was            *)
(* minted until claims begin, and every claim takes exactly its share:     *)
(* a unit has two halves, so halves of tokens are exact.                   *)

LEMMA ExactHalves ==
  ASSUME NEW a \in Nat
  PROVE  /\ a * Unit \in Nat
         /\ (a * Unit) \div 2 \in Nat
         /\ (a * Unit) \div 2 + (a * Unit) \div 2 = a * Unit
<1> DEFINE u == Unit \div 2
<1>1. u \in Nat /\ Unit = u + u
  BY UnitAssumption, UnitHasHalves
<1> HIDE DEF u
<1>2. a * u \in Nat /\ a * Unit = a * u + a * u
  BY <1>1
<1> DEFINE k == a * u
           w == a * Unit
<1>3. k \in Nat /\ w = k + k
  BY <1>2
<1> HIDE DEF k, w
<1>4. w \in Nat /\ w \div 2 = k
  BY <1>3
<1> QED
  BY <1>3, <1>4 DEF w

(* As many YES as NO tokens are worth a unit a pair, whatever the outcome. *)
LEMMA PairsWorthUnits ==
  ASSUME NEW o \in Outcome, NEW c \in Nat
  PROVE  PayoutFor(o, c, c) = c * Unit
BY ExactHalves DEF PayoutFor, Outcome

(* What is left after a claim is worth what all was worth less the claim.  *)
LEMMA PayoutSplitsExactly ==
  ASSUME NEW o \in Outcome, NEW y \in Nat, NEW n \in Nat, NEW y1 \in Nat, NEW n1 \in Nat,
         y1 <= y, n1 <= n
  PROVE  PayoutFor(o, y, n) - PayoutFor(o, y1, n1) = PayoutFor(o, y - y1, n - n1)
<1> DEFINE a == y1 * Unit
           b == n1 * Unit
           c == y * Unit
           d == n * Unit
           e == (y - y1) * Unit
           f == (n - n1) * Unit
<1>0. y - y1 \in Nat /\ n - n1 \in Nat
  OBVIOUS
<1>1. /\ a \in Nat /\ b \in Nat /\ c \in Nat /\ d \in Nat /\ e \in Nat /\ f \in Nat
      /\ e = c - a /\ f = d - b
  BY <1>0, TimesUnit
<1>2. /\ a \div 2 + a \div 2 = a /\ b \div 2 + b \div 2 = b
      /\ c \div 2 + c \div 2 = c /\ d \div 2 + d \div 2 = d
      /\ e \div 2 + e \div 2 = e /\ f \div 2 + f \div 2 = f
  BY <1>0, ExactHalves
<1>3. /\ a \div 2 \in Nat /\ b \div 2 \in Nat /\ c \div 2 \in Nat
      /\ d \div 2 \in Nat /\ e \div 2 \in Nat /\ f \div 2 \in Nat
  BY <1>0, ExactHalves
<1>4. ((c \div 2) + (d \div 2)) - ((a \div 2) + (b \div 2)) = (e \div 2) + (f \div 2)
  <2> DEFINE p == a \div 2
             q == b \div 2
             r == c \div 2
             s == d \div 2
             t == e \div 2
             v == f \div 2
  <2> HIDE DEF a, b, c, d, e, f, p, q, r, s, t, v
  <2>1. (r + s) - (p + q) = t + v
    BY <1>1, <1>2, <1>3 DEF p, q, r, s, t, v
  <2> QED BY <2>1 DEF p, q, r, s, t, v
<1>5. CASE o = "Yes"
  BY <1>1, <1>5 DEF PayoutFor
<1>6. CASE o = "No"
  BY <1>1, <1>6 DEF PayoutFor
<1>7. CASE o = "Invalid"
  <2>1. /\ PayoutFor(o, y1, n1) = (a \div 2) + (b \div 2)
        /\ PayoutFor(o, y, n) = (c \div 2) + (d \div 2)
        /\ PayoutFor(o, y - y1, n - n1) = (e \div 2) + (f \div 2)
    BY <1>7 DEF PayoutFor
  <2> HIDE DEF a, b, c, d, e, f
  <2> QED BY <2>1, <1>4
<1> QED
  BY <1>5, <1>6, <1>7 DEF Outcome

Exact(m) ==
    /\ vault[m].locked = usdcVault[m]
    /\ ~vault[m].settled =>
         yesSupply[m] = vault[m].yesMinted /\ noSupply[m] = vault[m].noMinted
    /\ vault[m].settled =>
         vault[m].locked = PayoutFor(market[m].outcome, yesSupply[m], noSupply[m])

(* A vault that was never created owes nothing and locks nothing.          *)
LEMMA ExactInit ==
  ASSUME EscrowInit, NEW m \in Market
  PROVE  Exact(m)
BY DEF EscrowInit, NoVault, Exact

(* What is not written stays exact: a settled vault's outcome is final.    *)
LEMMA ExactUnwritten ==
  ASSUME EscrowInv, [RegistryNext]_registryVars, NEW m \in Market, Exact(m),
         vault'[m] = vault[m], usdcVault'[m] = usdcVault[m],
         yesSupply'[m] = yesSupply[m], noSupply'[m] = noSupply[m]
  PROVE  Exact(m)'
<1>1. vault[m].settled => market'[m] = market[m]
  BY ResolvedIsFinal DEF EscrowInv, Books
<1> QED BY <1>1 DEF Exact

(* Minting locks a unit for every pair it adds.                            *)
LEMMA MintPairsExact ==
  ASSUME EscrowInv, NEW m \in Market, Exact(m), NEW asserted \in Market,
         NEW payer \in Holder, NEW yesTo \in Holder, NEW noTo \in Holder,
         NEW pairs \in Amount, MintPairs(m, asserted, payer, yesTo, noTo, pairs)
  PROVE  Exact(m)'
<1> DEFINE collateral == pairs * Unit
           minted == Minted(vault[m], pairs)
<1>1. /\ vault \in [Market -> VaultAccount] /\ vault[m] \in VaultAccount
      /\ usdcVault \in [Market -> Nat]
      /\ yesSupply \in [Market -> Nat] /\ noSupply \in [Market -> Nat]
  BY DEF EscrowInv, EscrowTypeOK
<1>2. /\ minted.locked = vault[m].locked + collateral
      /\ minted.yesMinted = vault[m].yesMinted + pairs
      /\ minted.noMinted = vault[m].noMinted + pairs
      /\ minted.settled = vault[m].settled
  <2> HIDE DEF collateral
  <2>1. minted = [vault[m] EXCEPT !.locked = vault[m].locked + collateral,
                                  !.yesMinted = vault[m].yesMinted + pairs,
                                  !.noMinted = vault[m].noMinted + pairs]
    BY <1>1 DEF Minted, VaultAccount, collateral
  <2> QED BY <1>1, <2>1 DEF VaultAccount
<1>3. /\ usdcVault' = Credit(usdcVault, m, collateral)
      /\ yesSupply' = Credit(yesSupply, m, pairs)
      /\ noSupply' = Credit(noSupply, m, pairs)
      /\ vault' = [vault EXCEPT ![m] = minted]
      /\ ~vault[m].settled
  BY DEF MintPairs, CanMint
<1> HIDE DEF collateral, minted
<1>4. /\ usdcVault'[m] = usdcVault[m] + collateral
      /\ yesSupply'[m] = yesSupply[m] + pairs
      /\ noSupply'[m] = noSupply[m] + pairs
      /\ vault'[m] = minted
  BY <1>1, <1>3 DEF Credit
<1> QED
  BY <1>2, <1>3, <1>4 DEF Exact

(* Settlement fixes the outcome; pairs are worth their units under each.   *)
LEMMA SettleExact ==
  ASSUME EscrowInv, NEW m \in Market, Exact(m), Settle(m)
  PROVE  Exact(m)'
<1>1. /\ vault \in [Market -> VaultAccount] /\ vault[m].yesMinted \in Nat
      /\ Books(m)
  BY DEF EscrowInv, EscrowTypeOK, VaultAccount
<1>2. /\ IsResolved(m) /\ ~vault[m].settled
      /\ vault' = [vault EXCEPT ![m].settled = TRUE]
      /\ market' = market /\ usdcVault' = usdcVault
      /\ yesSupply' = yesSupply /\ noSupply' = noSupply
  BY DEF Settle, AssertMarketResolved, IsResolved, registryVars, tokenVars
<1>3. vault'[m].locked = vault[m].locked /\ vault'[m].settled = TRUE
  BY <1>1, <1>2 DEF VaultAccount
<1>4. market[m].outcome \in Outcome
  BY <1>2, ResolvedOutcome DEF EscrowInv
<1>5. /\ yesSupply[m] = vault[m].yesMinted /\ noSupply[m] = vault[m].yesMinted
      /\ vault[m].locked = vault[m].yesMinted * Unit
  BY <1>1, <1>2 DEF Books, Exact
<1>6. PayoutFor(market[m].outcome, yesSupply[m], noSupply[m]) = vault[m].locked
  BY <1>1, <1>4, <1>5, PairsWorthUnits
<1> QED
  BY <1>2, <1>3, <1>6 DEF Exact

(* A claim takes from the vault what its tokens were worth.                *)
LEMMA ClaimPayoutExact ==
  ASSUME EscrowInv, NEW m \in Market, Exact(m), NEW h \in Holder, ClaimPayout(m, h)
  PROVE  Exact(m)'
<1> DEFINE o == market[m].outcome
           y == yesHeld[m][h]
           n == noHeld[m][h]
           payout == PayoutFor(o, y, n)
           ys == yesSupply[m]
           ns == noSupply[m]
<1>1. /\ vault \in [Market -> VaultAccount] /\ vault[m] \in VaultAccount
      /\ usdcVault \in [Market -> Nat]
      /\ yesHeld[m] \in [Holder -> Nat] /\ noHeld[m] \in [Holder -> Nat]
      /\ yesSupply \in [Market -> Nat] /\ noSupply \in [Market -> Nat]
  BY DEF EscrowInv, EscrowTypeOK
<1>2. o \in Outcome
  BY ResolvedOutcome DEF EscrowInv, ClaimPayout
<1>3. /\ vault[m].settled /\ market' = market
      /\ y <= ys /\ n <= ns
      /\ yesSupply' = Debit(yesSupply, m, y)
      /\ noSupply' = Debit(noSupply, m, n)
      /\ usdcVault' = Debit(usdcVault, m, payout)
      /\ vault' = [vault EXCEPT ![m].locked = vault[m].locked - payout]
  BY <1>1 DEF ClaimPayout, BurnAll, PayOut, registryVars
<1>4. y \in Nat /\ n \in Nat /\ ys \in Nat /\ ns \in Nat
  BY <1>1
<1>5. PayoutFor(o, ys, ns) - payout = PayoutFor(o, ys - y, ns - n)
  <2> HIDE DEF o, y, n, ys, ns
  <2> QED BY <1>2, <1>3, <1>4, PayoutSplitsExactly
<1>6. /\ yesSupply'[m] = ys - y /\ noSupply'[m] = ns - n
      /\ usdcVault'[m] = usdcVault[m] - payout
      /\ vault'[m].locked = vault[m].locked - payout
      /\ vault'[m].settled = vault[m].settled
  <2> HIDE DEF payout, y, n
  <2> QED BY <1>1, <1>3 DEF Debit, VaultAccount
<1>7. vault[m].locked = PayoutFor(o, ys, ns) /\ vault[m].locked = usdcVault[m]
  BY <1>3 DEF Exact
<1>8. vault'[m].locked = PayoutFor(market'[m].outcome, yesSupply'[m], noSupply'[m])
  BY <1>3, <1>5, <1>6, <1>7
<1> QED
  BY <1>3, <1>6, <1>7, <1>8 DEF Exact

(* An instruction writes the books and accounts of its own vault only.     *)
LEMMA InstructionExact ==
  ASSUME EscrowInv, \A n \in Market : Exact(n), NEW m \in Market, EscrowInstruction(m)
  PROVE  \A n \in Market : Exact(n)'
<1>1. /\ vault \in [Market -> VaultAccount] /\ vault[m] \in VaultAccount
      /\ usdcVault \in [Market -> Nat]
      /\ yesSupply \in [Market -> Nat] /\ noSupply \in [Market -> Nat]
  BY DEF EscrowInv, EscrowTypeOK
<1>2. UNCHANGED registryVars
  BY DEF EscrowInstruction, InitializeVault, PauseMinting, ResumeMinting, MintPairs,
         Settle, ClaimPayout
<1>3. \A n \in Market : n # m =>
        /\ vault'[n] = vault[n] /\ usdcVault'[n] = usdcVault[n]
        /\ yesSupply'[n] = yesSupply[n] /\ noSupply'[n] = noSupply[n]
  BY <1>1 DEF EscrowInstruction, InitializeVault, PauseMinting, ResumeMinting, MintPairs,
              Settle, ClaimPayout, BurnAll, PayOut, Credit, Debit, tokenVars
<1>4. ASSUME NEW k \in Key,
             InitializeVault(m, k) \/ PauseMinting(m, k) \/ ResumeMinting(m, k)
      PROVE  Exact(m)'
  <2>1. /\ vault'[m].locked = vault[m].locked /\ vault'[m].settled = vault[m].settled
        /\ vault'[m].yesMinted = vault[m].yesMinted
        /\ vault'[m].noMinted = vault[m].noMinted
    <3>1. CASE InitializeVault(m, k)
      BY <1>1, <3>1 DEF InitializeVault, EscrowInv, Books, NoVault
    <3>2. CASE PauseMinting(m, k) \/ ResumeMinting(m, k)
      BY <1>1, <3>2 DEF PauseMinting, ResumeMinting, VaultAccount
    <3> QED BY <1>4, <3>1, <3>2
  <2>2. /\ market' = market /\ usdcVault' = usdcVault
        /\ yesSupply' = yesSupply /\ noSupply' = noSupply
    BY <1>4 DEF InitializeVault, PauseMinting, ResumeMinting, registryVars, tokenVars
  <2> QED BY <2>1, <2>2 DEF Exact
<1>5. Exact(m)'
  BY <1>4, MintPairsExact, SettleExact, ClaimPayoutExact DEF EscrowInstruction
<1> QED
  BY <1>2, <1>3, <1>5, ExactUnwritten

(* Who holds the tokens makes no difference to what a vault owes.          *)
LEMMA ChangeOfHandsExact ==
  ASSUME EscrowInv, \A n \in Market : Exact(n), NEW m \in Market, TokensChangeHands(m)
  PROVE  \A n \in Market : Exact(n)'
<1>1. /\ UNCHANGED registryVars /\ vault' = vault /\ usdcVault' = usdcVault
      /\ yesSupply' = yesSupply /\ noSupply' = noSupply
  BY DEF TokensChangeHands, TransferYes, TransferNo
<1> QED
  BY <1>1, ExactUnwritten

(* Where nobody burns tokens or gives USDC away, claims empty a settled    *)
(* vault to the last half token.                                           *)
THEOREM ClosedVaultsExact == ClosedEscrowSpec => []LockedExactlyOwed
<1> DEFINE Inv == EscrowInv /\ \A m \in Market : Exact(m)
<1>1. EscrowInit => Inv
  BY EscrowInitInv, ExactInit
<1>2. Inv /\ [ClosedEscrowNext]_vars => Inv'
  <2> SUFFICES ASSUME Inv, [ClosedEscrowNext]_vars PROVE Inv'
    OBVIOUS
  <2>1. EscrowInv'
    BY EscrowStepInv DEF ClosedEscrowNext, EscrowNext, TokenOwnerStep
  <2>2. CASE RegistryStep \/ UNCHANGED vars
    BY <2>1, <2>2, ExactUnwritten DEF RegistryStep, vars, escrowVars, tokenVars
  <2>3. CASE \E m \in Market : EscrowInstruction(m)
    BY <2>1, <2>3, InstructionExact
  <2>4. CASE \E m \in Market : TokensChangeHands(m)
    BY <2>1, <2>4, ChangeOfHandsExact
  <2> QED BY <2>2, <2>3, <2>4 DEF ClosedEscrowNext
<1>3. Inv => LockedExactlyOwed
  BY DEF Exact, LockedExactlyOwed
<1> HIDE DEF Inv
<1> QED
  BY <1>1, <1>2, <1>3, PTL DEF ClosedEscrowSpec
=============================================================================
