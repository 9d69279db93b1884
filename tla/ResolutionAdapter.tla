-------------------------- MODULE ResolutionAdapter -------------------------
(***************************************************************************)
(* The resolution-adapter program.  An oracle proposes an outcome for an   *)
(* expired market against a bond; others may dispute it with bonds of      *)
(* their own until a deadline each dispute pushes back; after it the       *)
(* market's adapter key finalizes, the bonds going to one account and the  *)
(* outcome to the registry in the same instruction.  The registry's own    *)
(* instructions, which the adapter does not see, run beside it.            *)
(***************************************************************************)
EXTENDS MarketRegistry, TokenLedger, Sequences

CONSTANTS
    MinProposalBond,
    DisputeWindow,           \* DISPUTE_WINDOW_SECONDS
    DisputeExtension,        \* DISPUTE_EXTENSION_SECONDS
    OracleReward,
    SourceBytes,             \* sizes the data sources of a proposal serialize to
    ReasonBytes              \* lengths of a dispute's reason

(* Holders sign proposals and disputes; Pubkey::default() is Blank.        *)
ASSUME AdapterAssumption ==
    /\ MinProposalBond \in Nat /\ MinProposalBond > 0
    /\ DisputeWindow \in Nat /\ DisputeWindow > 0
    /\ DisputeExtension \in Nat /\ DisputeExtension >= DisputeWindow
    /\ OracleReward \in Nat
    /\ Blank \notin Holder
    /\ SourceBytes \subseteq Nat
    /\ ReasonBytes \subseteq 1..100

VARIABLES
    resolution,              \* the ResolutionProposal account of every market
    bondVault                \* the USDC in its bond vault

adapterVars == <<resolution, bondVault, usdc>>
allVars == <<registryVars, adapterVars>>

Category == {"Crypto", "Sports"}
MaxDisputes == 3
MaxDataSources == 5

Dispute == [disputer : Holder, counter : Outcome, bond : Nat, reason : ReasonBytes]
Contributor == [participant : Holder, amount : Nat]

(* is_disputed is set with the first dispute and never reset, so it is     *)
(* read off the disputes; reasons and data sources are only their sizes.   *)
ResolutionAccount ==
    [category     : Category \cup {"None"},
     proposer     : Holder \cup {Blank},
     proposed     : Outcome \cup {"None"},
     bond         : Nat,
     proposedAt   : Nat,
     deadline     : Nat,
     sources      : SourceBytes \cup {0},
     disputes     : Seq(Dispute),
     contributors : Seq(Contributor),
     finalized    : BOOLEAN,
     emergency    : BOOLEAN]

NewResolution(category) ==
    [category |-> category, proposer |-> Blank, proposed |-> "None",
     bond |-> 0, proposedAt |-> 0, deadline |-> 0, sources |-> 0,
     disputes |-> <<>>, contributors |-> <<>>,
     finalized |-> FALSE, emergency |-> FALSE]

AdapterInit ==
    /\ RegistryInit
    /\ LedgerInit
    /\ resolution = [m \in Market |-> NewResolution("None")]
    /\ bondVault = [m \in Market |-> 0]

ResolutionExists(m) == resolution[m].category # "None"
Disputed(m) == resolution[m].disputes # <<>>
DisputeWindowOpen(m) == now < resolution[m].deadline /\ ~resolution[m].finalized
DisputeWindowClosed_Strictly(m) == now > resolution[m].deadline \/ resolution[m].finalized
DisputeWindowClosed(m) == now >= resolution[m].deadline \/ resolution[m].finalized

CounterOutcomes(m) ==
    {resolution[m].disputes[i].counter : i \in DOMAIN resolution[m].disputes}

-----------------------------------------------------------------------------
(* The account has the size it was created with for good; an instruction   *)
(* that leaves it larger than that fails.                                  *)

ContributorLen == 32 + 8
OracleValueLen == 1 + 8 + (4 + 32)
DataSourceLen == 1 + (4 + 32) + (1 + 32) + OracleValueLen + 8
DisputeLen == 32 + 1 + 8 + (4 + 100) + 8

ResolutionLen_OneDispute ==
    8 + 32 + 32 + 1 + 8 + 8 + 8 + 1 + (4 + 5 * DataSourceLen) + 1 + 1
      + (4 + DisputeLen) + 32 + 1 + (4 + 10 * ContributorLen) + 1

ResolutionLen ==
    8 + 32 + 32 + 1 + 8 + 8 + 8 + 1 + (4 + 5 * DataSourceLen) + 1 + 1
      + (4 + 3 * DisputeLen) + 32 + 1 + (4 + 10 * ContributorLen) + 1

(* What a resolution really takes; Some is a byte longer than None.        *)
SerializedDispute(reason) == DisputeLen - 100 + reason

SerializedLen(r) ==
    8 + 32 + 32 + (IF r.proposed = "None" THEN 1 ELSE 2) + 8 + 8 + 8 + 1
      + (4 + r.sources) + 1 + 1
      + (4 + SumOver(DOMAIN r.disputes,
                     [i \in DOMAIN r.disputes |-> SerializedDispute(r.disputes[i].reason)]))
      + 32 + 1 + (4 + ContributorLen * Len(r.contributors)) + 1

(* Writes the account back, as every instruction does when it ends.        *)
Store(m, r) ==
    /\ SerializedLen(r) <= ResolutionLen
    /\ resolution' = [resolution EXCEPT ![m] = r]

-----------------------------------------------------------------------------
(* The instructions.                                                       *)

InitializeResolution(m, category) ==
    /\ ~ResolutionExists(m)
    /\ resolution' = [resolution EXCEPT ![m] = NewResolution(category)]
    /\ UNCHANGED <<registryVars, bondVault, usdc>>

LockBond(m, participant, amount) ==
    /\ amount <= usdc[participant]
    /\ usdc' = Debit(usdc, participant, amount)
    /\ bondVault' = Credit(bondVault, m, amount)

Contribution(participant, amount) == [participant |-> participant, amount |-> amount]

(* The part both propose instructions share once the sources have been     *)
(* read, found fresh and in agreement, and reduced to an outcome.          *)
ProposeOutcome(m, category, proposer, outcome, amount, sources) ==
    LET r == resolution[m] IN
    /\ r.category = category
    /\ ~r.finalized
    /\ amount >= MinProposalBond
    /\ r.bond = 0
    /\ AssertMarketExpired(m)
    /\ LockBond(m, proposer, amount)
    /\ now + DisputeWindow <= MaxTime
    /\ Store(m, [r EXCEPT !.proposer = proposer,
                          !.proposed = outcome,
                          !.bond = amount,
                          !.proposedAt = now,
                          !.deadline = now + DisputeWindow,
                          !.sources = sources,
                          !.contributors = Append(r.contributors, Contribution(proposer, amount))])
    /\ UNCHANGED registryVars

(* A price condition is met or not; only a sports event can be invalid.    *)
ProposeCryptoOutcome(m, proposer, outcome, amount, sources) ==
    /\ outcome \in {"Yes", "No"}
    /\ ProposeOutcome(m, "Crypto", proposer, outcome, amount, sources)

ProposeSportsOutcome(m, proposer, outcome, amount, sources) ==
    ProposeOutcome(m, "Sports", proposer, outcome, amount, sources)

ExtendedDeadline_HalfWay(m) == now + DisputeWindow \div 2
ExtendedDeadline_FromDeadline(m) == resolution[m].deadline + DisputeExtension
ExtendedDeadline(m) == now + DisputeExtension

MayAddDispute(m) == Len(resolution[m].disputes) < MaxDisputes

(* The market is not consulted: a proposal can be disputed after its       *)
(* market was resolved some other way.                                     *)
DisputeProposal(m, disputer, counter, amount, reason) ==
    LET r == resolution[m] IN
    /\ ~r.finalized
    /\ DisputeWindowOpen(m)
    /\ disputer # r.proposer
    /\ amount >= r.bond
    /\ LockBond(m, disputer, amount)
    /\ ExtendedDeadline(m) <= MaxTime
    /\ MayAddDispute(m)
    /\ Store(m, [r EXCEPT
         !.contributors = Append(r.contributors, Contribution(disputer, amount)),
         !.deadline = ExtendedDeadline(m),
         !.disputes = Append(r.disputes, [disputer |-> disputer, counter |-> counter,
                                          bond |-> amount, reason |-> reason])])
    /\ UNCHANGED registryVars

(* Without a dispute any outcome passes; with one it must be the proposed  *)
(* outcome or one a dispute asserts.                                       *)
AcceptableOutcome(m, outcome) ==
    Disputed(m) => outcome = resolution[m].proposed \/ outcome \in CounterOutcomes(m)

(* The whole vault, then the reward, go to winnerAccount, which nothing    *)
(* ties to the winning proposer; rewarder signs for the treasury account.  *)
PayWinner_RewardOnly(m, winnerAccount, rewarder) ==
    /\ OracleReward <= usdc[rewarder]
    /\ usdc' = Move(usdc, rewarder, winnerAccount, OracleReward)
    /\ UNCHANGED bondVault

PayWinner_TotalFromVault(m, winnerAccount, rewarder) ==
    /\ bondVault' = Debit(bondVault, m, bondVault[m] + OracleReward)
    /\ usdc' = Credit(usdc, winnerAccount, bondVault[m] + OracleReward)

PayWinner(m, winnerAccount, rewarder) ==
    LET bondsPaid == Credit(usdc, winnerAccount, bondVault[m]) IN
    /\ FitsU64(bondVault[m] + OracleReward)
    /\ bondVault' = [bondVault EXCEPT ![m] = 0]
    /\ OracleReward <= bondsPaid[rewarder]
    /\ usdc' = Move(bondsPaid, rewarder, winnerAccount, OracleReward)

FinalizeOutcome_PaidAnyway(m, authority, outcome, winnerAccount, rewarder) ==
    /\ ResolutionExists(m)
    /\ ~resolution[m].finalized
    /\ DisputeWindowClosed(m)
    /\ AcceptableOutcome(m, outcome)
    /\ PayWinner(m, winnerAccount, rewarder)
    /\ FinalizeMarket(m, authority, outcome) \/ UNCHANGED registryVars
    /\ resolution' = [resolution EXCEPT ![m].finalized = TRUE]

FinalizeOutcome_WindowOpen(m, authority, outcome, winnerAccount, rewarder) ==
    /\ ResolutionExists(m)
    /\ ~resolution[m].finalized
    /\ AcceptableOutcome(m, outcome)
    /\ PayWinner(m, winnerAccount, rewarder)
    /\ FinalizeMarket(m, authority, outcome)
    /\ resolution' = [resolution EXCEPT ![m].finalized = TRUE]

FinalizeOutcome(m, authority, outcome, winnerAccount, rewarder) ==
    /\ ResolutionExists(m)
    /\ ~resolution[m].finalized
    /\ DisputeWindowClosed(m)
    /\ AcceptableOutcome(m, outcome)
    /\ PayWinner(m, winnerAccount, rewarder)
    /\ FinalizeMarket(m, authority, outcome)
    /\ resolution' = [resolution EXCEPT ![m].finalized = TRUE]

(* The bonds stay where they are.                                          *)
EmergencyResolve(m, admin, outcome) ==
    /\ ResolutionExists(m)
    /\ EmergencyFinalizeMarket(m, admin, outcome)
    /\ resolution' = [resolution EXCEPT ![m].finalized = TRUE, ![m].emergency = TRUE]
    /\ UNCHANGED <<bondVault, usdc>>

-----------------------------------------------------------------------------
ParticipantInstruction(m) ==
    \E h \in Holder, outcome \in Outcome, amount \in Amount :
       \/ \E sources \in SourceBytes :
             \/ ProposeCryptoOutcome(m, h, outcome, amount, sources)
             \/ ProposeSportsOutcome(m, h, outcome, amount, sources)
       \/ \E reason \in ReasonBytes : DisputeProposal(m, h, outcome, amount, reason)

AuthorityInstruction(m) ==
    \/ \E category \in Category : InitializeResolution(m, category)
    \/ \E k \in Key, outcome \in Outcome :
          \/ \E winnerAccount, rewarder \in Holder :
                FinalizeOutcome(m, k, outcome, winnerAccount, rewarder)
          \/ EmergencyResolve(m, k, outcome)

AdapterNext ==
    \/ RegistryNext /\ UNCHANGED adapterVars
    \/ \E m \in Market : ParticipantInstruction(m) \/ AuthorityInstruction(m)

AdapterSpec == AdapterInit /\ [][AdapterNext]_allVars

Asserted(m) == {resolution[m].proposed} \cup CounterOutcomes(m)

(* The authority confirming what was proposed or asserted in a dispute,    *)
(* the best an honest proposer or disputer can hope for.                   *)
ConfirmAssertion(m) ==
    /\ resolution[m].proposed # "None"
    /\ \E k \in Key, outcome \in Asserted(m), winnerAccount, rewarder \in Holder :
         FinalizeOutcome(m, k, outcome, winnerAccount, rewarder)

(* Time passes, and the authority misses no second in which it could       *)
(* conclude a proposal.                                                    *)
OnTime == now' # now => \A m \in Market : ~ENABLED ConfirmAssertion(m)

AdapterFairness ==
    /\ WF_allVars(Tick /\ OnTime /\ UNCHANGED adapterVars)
    /\ \A m \in Market : WF_allVars(ConfirmAssertion(m))

FairAdapterSpec ==
    /\ AdapterInit
    /\ [][AdapterNext /\ OnTime]_allVars
    /\ AdapterFairness

(* A bond vault is owned by its resolution account, so its bonds leave by  *)
(* an instruction of this program or not at all.                           *)
BondsLeave(m) ==
    /\ ParticipantInstruction(m) \/ AuthorityInstruction(m)
    /\ bondVault'[m] < bondVault[m]

(* Whoever may take bonds out of a vault does so, if it goes on being      *)
(* possible, by whatever instruction there is.                             *)
PayingAdapterSpec ==
    /\ AdapterSpec
    /\ WF_allVars(Tick /\ UNCHANGED adapterVars)
    /\ \A m \in Market : SF_allVars(BondsLeave(m))

-----------------------------------------------------------------------------
(* Properties.                                                             *)

(* Every account and balance holds values of its type.                     *)
AdapterTypeOK ==
    /\ RegistryTypeOK
    /\ resolution \in [Market -> ResolutionAccount]
    /\ bondVault \in [Market -> Nat]
    /\ usdc \in [Holder -> Nat]

ContributedTo(m) ==
    LET c == resolution[m].contributors IN
    SumOver(DOMAIN c, [i \in DOMAIN c |-> c[i].amount])

(* Until finalize_outcome empties it in one transfer, a bond vault holds   *)
(* exactly what its contributors put in, one contribution for the proposal *)
(* and one for each dispute; afterwards it is empty for good.              *)
BondsAccountedFor ==
    \A m \in Market :
       LET r == resolution[m] IN
       /\ bondVault[m] = IF r.finalized /\ ~r.emergency THEN 0 ELSE ContributedTo(m)
       /\ Len(r.contributors) = Len(r.disputes) + (IF r.proposed = "None" THEN 0 ELSE 1)

(* A dispute, however late, never brings the deadline forward, so nobody   *)
(* who counted on the old one is shut out.                                 *)
DeadlineNeverRecedes ==
    [][\A m \in Market : resolution'[m].deadline >= resolution[m].deadline]_allVars

LongestDispute == DisputeWindow + MaxDisputes * (DisputeExtension - 1)

EarlyProposal(m) ==
    resolution[m].proposed # "None" /\ resolution[m].proposedAt + LongestDispute <= WindowEnd(m)

(* Three disputes in a row, each a second before the last moment, cannot   *)
(* hold a proposal open beyond the registry's window if it was made this   *)
(* long before the window's end.                                           *)
DisputesLeaveTimeToFinalize ==
    \A m \in Market :
       EarlyProposal(m) => resolution[m].deadline <= WindowEnd(m)

(* What the adapter finalizes is what the registry pays by: the market is  *)
(* resolved, not before the last deadline nor after the window, and after  *)
(* a dispute with an outcome somebody put a bond behind.                   *)
FinalizedOutcomeStands ==
    \A m \in Market :
       LET r == resolution[m]
           a == market[m]
       IN r.finalized =>
            /\ IsResolved(m)
            /\ ~r.emergency =>
                 /\ a.resolvedAt >= r.deadline /\ a.resolvedAt <= WindowEnd(m)
                 /\ Disputed(m) => a.outcome \in Asserted(m)

(* A finalized resolution is never touched again, although                 *)
(* emergency_resolve itself does not look: the registry turns it away.     *)
FinalizedIsFrozen ==
    [][\A m \in Market :
         resolution[m].finalized =>
           resolution'[m] = resolution[m] /\ bondVault'[m] = bondVault[m]]_allVars

RoomForDispute(m) ==
    LET r == resolution[m] IN
    r.proposed # "None" /\ MayAddDispute(m) =>
      \A reason \in ReasonBytes :
         SerializedLen(r) + SerializedDispute(reason) + ContributorLen <= ResolutionLen

(* A proposal whose sources are no longer than their comments say leaves   *)
(* its account room for every dispute the checks allow, each with a reason *)
(* of any length allowed, until there are three.                           *)
DocumentedSourcesLeaveRoom ==
    \A m \in Market :
       resolution[m].sources <= MaxDataSources * DataSourceLen => RoomForDispute(m)

(* "disputes (vec with max 3)" and "identifier (String, max 32 chars)" say *)
(* the comments on LEN; nothing holds an identifier to that length, so     *)
(* only some proposals leave the room that the first of them promises.     *)
DisputesHaveRoom == \A m \in Market : RoomForDispute(m)

(* "NO DISPUTE: Accept original proposal", finalize_outcome says.          *)
UndisputedProposalAccepted ==
    \A m \in Market :
       LET r == resolution[m] IN
       r.finalized /\ ~r.emergency /\ r.proposed # "None" /\ ~Disputed(m)
         => market[m].outcome = r.proposed

RewardFunded == \E h \in Holder : usdc[h] >= OracleReward

SettledOtherwise(m) == Disputed(m) \/ IsResolved(m) \/ ~RewardFunded

(* An undisputed proposal made no later than one dispute window before the *)
(* registry's window ends can be finalized, even in that window's very     *)
(* last second, and is, while somebody has the reward to pay.              *)
TimelyProposalFinalized ==
    \A m \in Market :
       resolution[m].proposed # "None" /\ resolution[m].proposedAt + DisputeWindow <= WindowEnd(m)
         ~> SettledOtherwise(m)

(* Made early enough, a proposal comes to an end through the adapter       *)
(* however it is disputed: no chain of disputes, each at the last moment,  *)
(* outlasts the registry's window, or the bonds' way out.                  *)
EarlyProposalConcluded ==
    \A m \in Market : EarlyProposal(m) ~> IsResolved(m) \/ ~RewardFunded

(* "Correct + Undisputed -> Get 1000 USDC + 100 USDC" is what the README   *)
(* promises any proposer.                                                  *)
UndisputedProposalFinalized ==
    \A m \in Market : resolution[m].proposed # "None" ~> SettledOtherwise(m)

(* "Bonds remain in vault for manual distribution" and "Admin must         *)
(* manually refund participants", says emergency_resolve of its bonds.     *)
EmergencyBondsRefunded ==
    \A m \in Market : resolution[m].emergency ~> bondVault[m] = 0
=============================================================================
