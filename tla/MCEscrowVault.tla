---------------------------- MODULE MCEscrowVault ---------------------------
(* Small instances of the vault over the registry.                         *)
EXTENDS EscrowVault, TLC

CONSTANTS h1, h2

(* h1 is the hot wallet and pays for every pair; h2 owns no USDC.          *)
OneWallet == h1 :> 2 * Unit @@ h2 :> 0
BothPay == h1 :> 2 * Unit @@ h2 :> Unit
=============================================================================
