--------------------------- MODULE ProposalOracle ---------------------------
(* What both kinds of oracle share: limits on their sources, and what a    *)
(* propose instruction arrives at.                                         *)
EXTENDS Integers

CONSTANTS
    MaxDataSources,
    MaxOracleStaleness       \* MAX_ORACLE_STALENESS_SECONDS

ASSUME SourcesAssumption == MaxDataSources \in Nat \ {0}

VARIABLE outcome             \* "None" until the sources have been reduced to one
=============================================================================
