---------------------------- MODULE TokenLedger -----------------------------
(***************************************************************************)
(* The part of the SPL token program the contracts rely on, outside the    *)
(* repository: u64 balances, moved, minted and burned by exact amounts.    *)
(* USDC wallets live here; the accounts of a program live in its module.   *)
(***************************************************************************)
EXTENDS Integers, FiniteSets, Functions

CONSTANTS
    Holder,          \* owners of token accounts
    InitialUsdc,     \* their USDC before any instruction
    MaxU64           \* 2^64 - 1

ASSUME LedgerAssumption ==
    /\ MaxU64 \in Nat
    /\ InitialUsdc \in [Holder -> 0..MaxU64]

(* An address has 32 bytes, so there is an end to them.                    *)
ASSUME HoldersFinite == IsFiniteSet(Holder)

VARIABLE usdc        \* the USDC account of every holder

Amount == 0..MaxU64

(* Rust's checked_mul and checked_add return an error outside u64.         *)
FitsU64(n) == n <= MaxU64

LedgerInit == usdc = InitialUsdc

Credit(account, h, n) == [account EXCEPT ![h] = @ + n]
Debit(account, h, n) == [account EXCEPT ![h] = @ - n]
SumOver(S, account) == FoldFunctionOnSet(LAMBDA a, b : a + b, 0, account, S)

Move(account, from, to, n) == Credit(Debit(account, from, n), to, n)
=============================================================================
