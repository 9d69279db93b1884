--------------------------- MODULE ProposalOracles --------------------------
(***************************************************************************)
(* Both oracles of the resolution adapter.  The category a resolution was  *)
(* initialized with says which of the two propose instructions, and so     *)
(* which oracle, may give it its outcome.                                  *)
(***************************************************************************)
EXTENDS CryptoOracle, SportsOracle

VARIABLE category

cryptoOnly == <<prices, condition>>
sportsOnly == <<results, eventType>>
oracleVars == <<category, outcome, cryptoOnly, sportsOnly>>

OracleInit ==
    /\ category \in {"Crypto", "Sports"}
    /\ CryptoInit
    /\ SportsInit

ProposeCrypto == category = "Crypto" /\ CryptoNext /\ UNCHANGED <<category, sportsOnly>>
ProposeSports == category = "Sports" /\ SportsNext /\ UNCHANGED <<category, cryptoOnly>>

OracleSpec == OracleInit /\ [][ProposeCrypto \/ ProposeSports]_oracleVars
=============================================================================
