-------------------------- MODULE HydraMarketProofs -------------------------
(***************************************************************************)
(* The three programs together.  Each program's invariant survives the     *)
(* others' steps: the escrow never writes a bond, the adapter never a      *)
(* vault or a token, and both leave wallets with whole amounts.  So what   *)
(* was proved of each program stands, and every step of the three is one   *)
(* of PredictionMarket.                                                    *)
(***************************************************************************)
EXTENDS HydraMarket, EscrowRefinementProofs, EscrowAccountsProofs, ResolutionAdapterProofs

HydraInv ==
    /\ EscrowInv
    /\ AdapterInv
    /\ \A m \in Market : Accounted(m)

(* Each program's invariant holds at first.                                *)
LEMMA HydraInitInv == HydraInit => HydraInv
BY EscrowInitInv, AdapterInitInv, AccountedInit DEF HydraInit, HydraInv

(* The escrow only reads the registry.                                     *)
LEMMA EscrowReadsOnly ==
  ASSUME NEW m \in Market, EscrowInstruction(m) \/ TokenOwnerStep(m)
  PROVE  UNCHANGED registryVars
BY DEF EscrowInstruction, InitializeVault, PauseMinting, ResumeMinting, MintPairs, Settle,
       ClaimPayout, TokenOwnerStep, TokensChangeHands, TransferYes, TransferNo, BurnYes,
       BurnNo, DepositUsdc

(* A step that leaves resolutions and bonds alone.                         *)
LEMMA BondsUntouched ==
  ASSUME HydraInv, [RegistryNext]_registryVars, UNCHANGED bondVars,
         usdc' \in [Holder -> Nat]
  PROVE  AdapterInv' /\ \A m \in Market : Accounted(m)'
<1>1. resolution' = resolution /\ bondVault' = bondVault
  BY DEF bondVars
<1>2. RegistryInv'
  BY RegistryStepInv DEF HydraInv, EscrowInv
<1>3. AdapterTypeOK'
  BY <1>1, <1>2 DEF HydraInv, AdapterInv, AdapterTypeOK, RegistryInv
<1>4. \A m \in Market : Sound(m)'
  BY <1>1, SoundUnwritten DEF HydraInv
<1>5. \A m \in Market : Accounted(m)'
  BY <1>1, AccountedUnwritten DEF HydraInv
<1> QED
  BY <1>2, <1>3, <1>4, <1>5 DEF AdapterInv

(* Every program's steps keep the invariants of all three.                 *)
LEMMA HydraStepInv == HydraInv /\ [HydraNext]_hydraVars => HydraInv'
<1> SUFFICES ASSUME HydraInv, [HydraNext]_hydraVars PROVE HydraInv'
  OBVIOUS
<1>0. EscrowInv /\ AdapterInv
  BY DEF HydraInv
<1>1. ASSUME [EscrowNext]_vars, [RegistryNext]_registryVars, UNCHANGED bondVars
      PROVE  HydraInv'
  <2>1. EscrowInv'
    BY <1>0, <1>1, EscrowStepInv
  <2>2. usdc' \in [Holder -> Nat]
    BY <2>1 DEF EscrowInv, EscrowTypeOK
  <2> QED BY <1>1, <2>1, <2>2, BondsUntouched DEF HydraInv
<1>2. CASE RegistryStep /\ UNCHANGED bondVars
  BY <1>1, <1>2 DEF RegistryStep, EscrowNext
<1>3. ASSUME NEW m \in Market, EscrowStep(m)
      PROVE  HydraInv'
  BY <1>1, <1>3, EscrowReadsOnly DEF EscrowStep, EscrowNext
<1>4. ASSUME NEW m \in Market, AdapterStep(m)
      PROVE  HydraInv'
  <2>1. ParticipantInstruction(m) \/ AuthorityInstruction(m)
    BY <1>4 DEF AdapterStep
  <2>2. AdapterInv'
    BY <1>0, <2>1, AdapterStepInv DEF AdapterNext
  <2>3. \A n \in Market : Accounted(n)'
    BY <1>0, <2>1, ResolutionStepAccounted DEF HydraInv
  <2>4. usdc' \in [Holder -> Nat]
    BY <2>2 DEF AdapterInv, AdapterTypeOK
  <2>5. EscrowInv'
    BY <1>0, <1>4, <2>1, <2>4, AdapterCallsRegistry, RegistryStepBooks DEF AdapterStep
  <2> QED BY <2>2, <2>3, <2>5 DEF HydraInv
<1>5. CASE UNCHANGED hydraVars
  BY <1>1, <1>5 DEF hydraVars, vars
<1> QED
  BY <1>2, <1>3, <1>4, <1>5 DEF HydraNext

-----------------------------------------------------------------------------
(* What was proved of a program on its own stands beside the others.       *)

(* To the registry the other programs are callers like any.                *)
THEOREM HydraUsesRegistry == HydraSpec => RegistrySpec
<1>1. HydraInit => RegistryInit
  BY DEF HydraInit, EscrowInit
<1>2. [HydraNext]_hydraVars => [RegistryNext]_registryVars
  <2>1. ASSUME NEW m \in Market, EscrowStep(m)
        PROVE  UNCHANGED registryVars
    BY <2>1, EscrowReadsOnly DEF EscrowStep
  <2>2. ASSUME NEW m \in Market, AdapterStep(m)
        PROVE  [RegistryNext]_registryVars
    BY <2>2, AdapterCallsRegistry DEF AdapterStep
  <2> QED BY <2>1, <2>2 DEF HydraNext, RegistryStep, hydraVars, vars
<1> QED
  BY <1>1, <1>2, PTL DEF HydraSpec, RegistrySpec

(* So a resolution is recorded once and for all whichever program or key   *)
(* makes it, and what expiry shuts stays shut to vaults and proposals.     *)
THEOREM RegistryStandsTogether ==
  HydraSpec => /\ []ResolutionRecorded
               /\ ResolutionIrrevocable
               /\ ShutAfterExpiryForGood
               /\ UnproposableForGood
               /\ TermsFixedOnceOpened
BY HydraUsesRegistry, ResolutionRecordedAlways, FirstResolutionWins, ExpiryShutsMarkets,
   UnproposableStaysSo, TermsAreKept, PTL

(* No step of any program brings a deadline forward or touches a finalized *)
(* resolution.                                                             *)
LEMMA HydraMonotone ==
  ASSUME HydraInv, [HydraNext]_hydraVars
  PROVE  \A m \in Market : Monotone(m)
<1>0. AdapterInv
  BY DEF HydraInv
<1>1. ASSUME UNCHANGED bondVars
      PROVE  \A m \in Market : Monotone(m)
  BY <1>0, <1>1, MonotoneUnwritten DEF bondVars
<1>2. ASSUME NEW m \in Market, AdapterStep(m)
      PROVE  \A n \in Market : Monotone(n)
  BY <1>0, <1>2, AdapterStepInv DEF AdapterStep, AdapterNext
<1> QED
  BY <1>1, <1>2 DEF HydraNext, EscrowStep, hydraVars

(* Beside vaults that spend from the same wallets, bonds are accounted     *)
(* for, disputes end in time and have room, and what is finalized stands.  *)
THEOREM AdapterStandsTogether ==
  HydraSpec => /\ [](/\ BondsAccountedFor
                    /\ DisputesLeaveTimeToFinalize
                    /\ FinalizedOutcomeStands
                    /\ DocumentedSourcesLeaveRoom)
               /\ DeadlineNeverRecedes
               /\ FinalizedIsFrozen
<1> DEFINE Later == [\A m \in Market : resolution'[m].deadline >= resolution[m].deadline]_allVars
           Frozen == [\A m \in Market :
                        resolution[m].finalized =>
                          resolution'[m] = resolution[m] /\ bondVault'[m] = bondVault[m]]_allVars
<1>1. HydraInv => /\ BondsAccountedFor /\ DisputesLeaveTimeToFinalize
                  /\ FinalizedOutcomeStands /\ DocumentedSourcesLeaveRoom
  <2>1. AdapterInv => FinalizedOutcomeStands
    BY DEF AdapterInv, Sound, Outcomes, FinalizedOutcomeStands
  <2> QED BY <2>1, BalancesAccountedFor, ScheduleEndsInTime, DocumentedSourcesFit DEF HydraInv
<1>2. HydraInv /\ [HydraNext]_hydraVars => HydraInv' /\ Later /\ Frozen
  BY HydraStepInv, HydraMonotone DEF Monotone
<1> QED
  BY <1>1, <1>2, HydraInitInv, PTL
     DEF HydraSpec, DeadlineNeverRecedes, FinalizedIsFrozen

-----------------------------------------------------------------------------
(* Beside proposals, disputes and finalizations, the escrow's promise to   *)
(* token holders holds as it does alone.                                   *)

(* Supplies are what holders hold, after other programs' steps too.        *)
LEMMA HydraLedgers ==
  ASSUME HydraInv, Ledgers, [HydraNext]_hydraVars
  PROVE  Ledgers'
<1>1. CASE [EscrowNext]_vars
  BY <1>1, LedgersStep DEF HydraInv
<1>2. ASSUME UNCHANGED <<vault, tokenVars>>
      PROVE  Ledgers'
  BY <1>2, LedgersUntouched
<1> QED
  BY <1>1, <1>2 DEF HydraNext, EscrowNext, EscrowStep, AdapterStep, hydraVars

(* No holder's claim can be refused, nor the collateral fall short,        *)
(* because of anything the adapter does.                                   *)
THEOREM ClaimsStandTogether == HydraSpec => [](CollateralCoversTokens /\ EveryClaimSucceeds)
<1> DEFINE Inv == HydraInv /\ Ledgers
<1>1. HydraInit => Inv
  BY HydraInitInv, LedgersInit DEF HydraInit
<1>2. Inv /\ [HydraNext]_hydraVars => Inv'
  BY HydraStepInv, HydraLedgers
<1>3. Inv => CollateralCoversTokens /\ EveryClaimSucceeds
  BY BooksCoverTokens, LedgersHonourClaims DEF HydraInv
<1> HIDE DEF Inv
<1> QED
  BY <1>1, <1>2, <1>3, PTL DEF HydraSpec

-----------------------------------------------------------------------------
(* The refinement.  What ConditionalTokens does through the escrow's       *)
(* mapping it does through this one, beside decisions and bonds that do    *)
(* not move.                                                               *)

BondsStill == UNCHANGED <<Decision, bondVault, Awarded>>

AllStill == AbstractStutter /\ BondsStill

(* An initial state promises nothing yet.                                  *)
LEMMA SystemInit == HydraInit => System!MarketInit
<1> SUFFICES ASSUME HydraInit PROVE System!MarketInit
  OBVIOUS
<1>1. Promise!Init
  BY InitRefines DEF HydraInit
<1>2. Decision = [m \in Market |-> "None"]
  BY DEF HydraInit, EscrowInit, RegistryInit, NoMarket, Decision
<1>3. Awarded = [m \in Market |-> FALSE] /\ bondVault = [m \in Market |-> 0]
  BY DEF HydraInit, AdapterInit, NewResolution, Awarded
<1> QED
  BY <1>1, <1>2, <1>3 DEF System!MarketInit, System!Init, Promise!Init

(* Minting and what owners do to their tokens are trade.                   *)
LEMMA TradeRefines ==
  ASSUME BondsStill, NEW m \in Market,
         \/ \E payer, a, b \in Holder : \E n \in 1..usdc[payer] : Promise!Issue(m, payer, a, b, n)
         \/ Promise!PassOn(m)
         \/ Promise!Destroy(m)
         \/ Promise!Spend
  PROVE  System!Trade
<1>1. ASSUME NEW payer, NEW a, NEW b, NEW n, Promise!Issue(m, payer, a, b, n)
      PROVE  System!Issue(m, payer, a, b, n)
  BY <1>1 DEF Promise!Issue, System!Issue
<1>2. Promise!PassOn(m) => System!PassOn(m)
  BY Zenon DEF Promise!PassOn, System!PassOn
<1>3. Promise!Destroy(m) => System!Destroy(m)
  BY Zenon DEF Promise!Destroy, System!Destroy
<1>4. Promise!Spend => System!Spend
  BY Zenon DEF Promise!Spend, System!Spend
<1>5. UNCHANGED <<Decision, bondVault, Awarded>>
  BY DEF BondsStill
<1>6. CASE \E payer, a, b \in Holder : \E n \in 1..usdc[payer] : Promise!Issue(m, payer, a, b, n)
  <2>1. PICK payer \in Holder, a \in Holder, b \in Holder :
               \E n \in 1..usdc[payer] : Promise!Issue(m, payer, a, b, n)
    BY <1>6
  <2>2. PICK n \in 1..usdc[payer] : Promise!Issue(m, payer, a, b, n)
    BY <2>1
  <2>3. System!Issue(m, payer, a, b, n)
    BY <1>1, <2>2
  <2> QED BY <1>5, <2>3, Zenon DEF System!Trade
<1>7. CASE Promise!PassOn(m)
  BY <1>2, <1>5, <1>7, Zenon DEF System!Trade
<1>8. CASE Promise!Destroy(m)
  BY <1>3, <1>5, <1>8, Zenon DEF System!Trade
<1>9. CASE Promise!Spend
  BY <1>4, <1>5, <1>9, Zenon DEF System!Trade
<1> QED
  BY <1>6, <1>7, <1>8, <1>9

(* An escrow step.                                                         *)
LEMMA EscrowStepRefines ==
  ASSUME HydraInv, NEW m \in Market, EscrowStep(m)
  PROVE  System!MarketNext \/ AllStill
<1>0. EscrowInv
  BY DEF HydraInv
<1>1. BondsStill
  <2>1. UNCHANGED <<market, resolution, bondVault>>
    BY EscrowReadsOnly DEF EscrowStep, registryVars, bondVars
  <2> QED BY <2>1 DEF BondsStill, Decision, Awarded
<1>2. CASE TokenOwnerStep(m)
  BY <1>0, <1>1, <1>2, TokenOwnerStepRefines, TradeRefines DEF System!MarketNext
<1>3. ASSUME NEW k \in Key, InitializeVault(m, k) \/ PauseMinting(m, k) \/ ResumeMinting(m, k)
      PROVE  AllStill
  BY <1>0, <1>1, <1>3, AdminStepRefines DEF AllStill
<1>4. ASSUME NEW asserted \in Market, NEW payer \in Holder, NEW yesTo \in Holder,
             NEW noTo \in Holder, NEW pairs \in Amount,
             MintPairs(m, asserted, payer, yesTo, noTo, pairs)
      PROVE  System!Trade
  BY <1>0, <1>1, <1>4, MintPairsRefines, TradeRefines
<1>5. CASE Settle(m)
  <2>1. Promise!Close(m, market[m].outcome)
    BY <1>0, <1>5, SettleRefines
  <2>2. Decision[m] = market[m].outcome /\ Decision[m] # "None"
    BY <1>0, <1>5, ResolvedOutcome
       DEF Decision, Settle, AssertMarketResolved, IsResolved, EscrowInv, Outcome
  <2>3. System!CloseAsDecided(m)
    BY <1>1, <2>1, <2>2 DEF System!CloseAsDecided, System!Close, Promise!Close, BondsStill
  <2> QED BY <2>3 DEF System!MarketNext
<1>6. ASSUME NEW h \in Holder, ClaimPayout(m, h)
      PROVE  System!PayHolder(m, h)
  <2>1. Promise!Redeem(m, h)
    BY <1>0, <1>6, ClaimPayoutRefines
  <2>2. System!Redeem(m, h)
    BY <2>1 DEF System!Redeem, Promise!Redeem, System!Worth, Promise!Worth
  <2> QED BY <1>1, <2>2 DEF System!PayHolder, BondsStill
<1> QED
  BY <1>2, <1>3, <1>4, <1>5, <1>6 DEF EscrowStep, EscrowInstruction, System!MarketNext

-----------------------------------------------------------------------------
(* Decisions.  A market has one once it is resolved, so the instructions   *)
(* that resolve a market are the only ones that decide it, and none        *)
(* decides it twice.                                                       *)

(* Recording an outcome decides a market that was undecided.               *)
LEMMA RecordDecides ==
  ASSUME RegistryInv, NEW m \in Market, NEW outcome, ~IsResolved(m), RecordOutcome(m, outcome)
  PROVE  Decision[m] = "None" /\ Decision' = [Decision EXCEPT ![m] = outcome]
<1>1. market[m].outcome = "None"
  BY UnresolvedFields
<1>2. market \in [Market -> MarketAccount] /\ market[m] \in MarketAccount
  BY DEF RegistryInv, RegistryTypeOK
<1>3. market' = [market EXCEPT ![m] =
        [market[m] EXCEPT !.outcome = outcome, !.resolvedAt = now, !.state = "Resolved"]]
  BY <1>2 DEF RecordOutcome
<1>4. market'[m].outcome = outcome /\ \A n \in Market : n # m => market'[n] = market[n]
  BY <1>2, <1>3 DEF MarketAccount
<1> QED
  BY <1>1, <1>4 DEF Decision

(* A registry step decides one undecided market or none.                   *)
LEMMA RegistryStepDecides ==
  ASSUME RegistryInv, [RegistryNext]_registryVars
  PROVE  \/ Decision' = Decision
         \/ \E m \in Market, v \in Outcome :
               Decision[m] = "None" /\ Decision' = [Decision EXCEPT ![m] = v]
<1>1. CASE market' = market
  BY <1>1 DEF Decision
<1>0. market \in [Market -> MarketAccount]
  BY DEF RegistryInv, RegistryTypeOK
<1>2. ASSUME NEW m \in Market, NEW r, market' = [market EXCEPT ![m] = r],
             r.outcome = market[m].outcome
      PROVE  Decision' = Decision
  <2>1. \A n \in Market : market'[n].outcome = market[n].outcome
    BY <1>0, <1>2
  <2> QED BY <2>1 DEF Decision
<1>3. ASSUME NEW m \in Market, CreateMarket(m)
      PROVE  Decision' = Decision
  <2>1. market[m].outcome = "None"
    BY <1>3, UnresolvedFields DEF CreateMarket, InitializeMarket, Initialized, IsResolved
  <2> QED BY <1>2, <1>3, <2>1 DEF CreateMarket, InitializeMarket
<1>4. ASSUME NEW m \in Market, NEW k \in Key,
             \/ OpenMarket(m, k) \/ PauseMarket(m, k) \/ ResumeMarket(m, k)
             \/ ResolvingMarket(m, k)
             \/ \E description, category : UpdateMarketMetadata(m, k, description, category)
      PROVE  Decision' = Decision
  <2>1. market[m] \in MarketAccount
    BY <1>0
  <2>2. \E r : market' = [market EXCEPT ![m] = r] /\ r.outcome = market[m].outcome
    <3>1. ASSUME NEW s, market' = [market EXCEPT ![m].state = s]
          PROVE  \E r : market' = [market EXCEPT ![m] = r] /\ r.outcome = market[m].outcome
      <4>1. market' = [market EXCEPT ![m] = [market[m] EXCEPT !.state = s]]
        BY <1>0, <3>1
      <4>2. [market[m] EXCEPT !.state = s].outcome = market[m].outcome
        BY <2>1 DEF MarketAccount
      <4> QED BY <4>1, <4>2
    <3>2. ASSUME NEW a, NEW b,
                 market' = [market EXCEPT ![m] =
                              [market[m] EXCEPT !.category = a, !.description = b]]
          PROVE  \E r : market' = [market EXCEPT ![m] = r] /\ r.outcome = market[m].outcome
      <4>1. [market[m] EXCEPT !.category = a, !.description = b].outcome = market[m].outcome
        BY <2>1 DEF MarketAccount
      <4> QED BY <3>2, <4>1
    <3> QED BY <1>4, <3>1, <3>2
               DEF OpenMarket, PauseMarket, ResumeMarket, ResolvingMarket, UpdateMarketMetadata
  <2> QED BY <1>2, <2>2
<1>5. ASSUME NEW m \in Market, NEW k \in Key, NEW v \in Outcome,
             CancelMarket(m, k) \/ EmergencyFinalizeMarket(m, k, v) \/ FinalizeMarket(m, k, v)
      PROVE  \E o \in Outcome : Decision[m] = "None" /\ Decision' = [Decision EXCEPT ![m] = o]
  <2>1. ~IsResolved(m) /\ \E o \in Outcome : RecordOutcome(m, o)
    BY <1>5 DEF CancelMarket, EmergencyFinalizeMarket, FinalizeMarket, Outcome
  <2> QED BY <2>1, RecordDecides
<1>6. CASE RegistryInstruction
  <2>1. PICK m \in Market :
          \/ CreateMarket(m)
          \/ \E k \in Key : CreatorInstruction(m, k) \/ AdapterInstruction(m, k)
    BY <1>6 DEF RegistryInstruction
  <2>2. ASSUME NEW k \in Key, CreatorInstruction(m, k)
        PROVE  \/ Decision' = Decision
               \/ \E v \in Outcome :
                     Decision[m] = "None" /\ Decision' = [Decision EXCEPT ![m] = v]
    <3>1. "Invalid" \in Outcome
      BY DEF Outcome
    <3> QED BY <1>4, <1>5, <2>2, <3>1, Zenon DEF CreatorInstruction
  <2>3. ASSUME NEW k \in Key, AdapterInstruction(m, k)
        PROVE  \E v \in Outcome : Decision[m] = "None" /\ Decision' = [Decision EXCEPT ![m] = v]
    BY <1>5, <2>3 DEF AdapterInstruction
  <2> QED BY <1>3, <2>1, <2>2, <2>3
<1> QED
  BY <1>1, <1>6 DEF RegistryNext, Tick, registryVars

-----------------------------------------------------------------------------
(* What the adapter and the registry do is invisible to token holders: a   *)
(* verdict given is a resolved market's outcome.                           *)

(* A settled market is resolved, and a resolved one is never written       *)
(* again.                                                                  *)
LEMMA HoldersUnaffected ==
  ASSUME HydraInv, [RegistryNext]_registryVars, UNCHANGED <<vault, tokenVars>>
  PROVE  UNCHANGED <<Pot, yesHeld, noHeld, VerdictGiven>>
<1>1. \A m \in Market : vault[m].settled => market'[m] = market[m]
  BY ResolvedIsFinal DEF HydraInv, EscrowInv, Books
<1> QED
  BY <1>1, SameMapping DEF tokenVars

(* A registry step is a decision or invisible.                             *)
LEMMA RegistryStepKeepsPromise ==
  ASSUME HydraInv, [RegistryNext]_registryVars, UNCHANGED <<escrowVars, bondVars>>
  PROVE  System!MarketNext \/ AllStill
<1>1. UNCHANGED <<usdc, Pot, yesHeld, noHeld, VerdictGiven, bondVault, Awarded>>
  BY HoldersUnaffected DEF escrowVars, bondVars, Awarded
<1>2. CASE Decision' = Decision
  BY <1>1, <1>2 DEF AllStill, AbstractStutter, BondsStill
<1>3. ASSUME NEW m \in Market, NEW v \in Outcome,
             Decision[m] = "None" /\ Decision' = [Decision EXCEPT ![m] = v]
      PROVE  System!MarketNext
  <2>1. System!Decide(m, v)
    BY <1>1, <1>3 DEF System!Decide, System!abstractVars
  <2>2. v \in System!Verdict
    BY DEF Outcome, System!Verdict
  <2> QED BY <2>1, <2>2 DEF System!MarketNext
<1> QED
  BY <1>2, <1>3, RegistryStepDecides DEF HydraInv, EscrowInv

(* All balances are whole amounts of USDC.                                 *)
LEMMA HydraBalances ==
  ASSUME HydraInv
  PROVE  usdc \in [Holder -> Nat] /\ bondVault \in [Market -> Nat]
BY DEF HydraInv, AdapterInv, AdapterTypeOK

(* A bond is pledged, a whole one, while none of the market's is paid out. *)
LEMMA LockBondRefines ==
  ASSUME HydraInv, NEW m \in Market, NEW h \in Holder, NEW amount \in Amount,
         amount > 0, LockBond(m, h, amount),
         ~resolution[m].finalized, UNCHANGED <<registryVars, vault, tokenVars>>,
         NEW r, resolution' = [resolution EXCEPT ![m] = r],
         r.finalized = resolution[m].finalized, r.emergency = resolution[m].emergency
  PROVE  System!Pledge(m, h)
<1>1. amount \in 1..usdc[h]
  BY HydraBalances, LedgerAssumption DEF LockBond, Amount
<1>2. /\ usdc' = [usdc EXCEPT ![h] = @ - amount]
      /\ bondVault' = [bondVault EXCEPT ![m] = @ + amount]
  BY DEF LockBond, Debit, Credit
<1>3. UNCHANGED <<Pot, yesHeld, noHeld, VerdictGiven, Decision>>
  BY HoldersUnaffected, RegistryStutters DEF Decision
<1>4. Awarded' = Awarded /\ ~Awarded[m]
  <2>1. resolution \in [Market -> ResolutionAccount]
    BY DEF HydraInv, AdapterInv, AdapterTypeOK
  <2>2. \A n \in Market : /\ resolution'[n].finalized = resolution[n].finalized
                          /\ resolution'[n].emergency = resolution[n].emergency
    BY <2>1
  <2> QED BY <2>2 DEF Awarded
<1> QED
  BY <1>1, <1>2, <1>3, <1>4, Zenon DEF System!Pledge

(* Proposing and disputing pledge a bond.                                  *)
LEMMA ParticipantRefines ==
  ASSUME HydraInv, NEW m \in Market, ParticipantInstruction(m), UNCHANGED <<vault, tokenVars>>
  PROVE  \E h \in Holder : System!Pledge(m, h)
<1>0. AdapterInv /\ resolution[m] \in ResolutionAccount
  BY AccountFields DEF HydraInv
<1>1. ASSUME NEW h \in Holder, NEW outcome \in Outcome, NEW amount \in Amount,
             NEW category, NEW sources \in SourceBytes,
             ProposeOutcome(m, category, h, outcome, amount, sources)
      PROVE  System!Pledge(m, h)
  <2> DEFINE r == resolution[m]
             s == [r EXCEPT !.proposer = h, !.proposed = outcome, !.bond = amount,
                            !.proposedAt = now, !.deadline = now + DisputeWindow,
                            !.sources = sources,
                            !.contributors = Append(r.contributors, Contribution(h, amount))]
  <2>1. /\ LockBond(m, h, amount) /\ ~r.finalized /\ amount >= MinProposalBond
        /\ resolution' = [resolution EXCEPT ![m] = s] /\ UNCHANGED registryVars
    BY <1>1 DEF ProposeOutcome, Store
  <2>2. amount > 0
    BY <2>1, LedgerAssumption, AdapterAssumption DEF Amount
  <2>3. s.finalized = r.finalized /\ s.emergency = r.emergency
    BY <1>0 DEF ResolutionAccount
  <2> HIDE DEF s
  <2> QED BY <2>1, <2>2, <2>3, LockBondRefines
<1>2. ASSUME NEW h \in Holder, NEW outcome \in Outcome, NEW amount \in Amount,
             NEW reason \in ReasonBytes, DisputeProposal(m, h, outcome, amount, reason)
      PROVE  System!Pledge(m, h)
  <2> DEFINE r == resolution[m]
             s == [r EXCEPT
                     !.contributors = Append(r.contributors, Contribution(h, amount)),
                     !.deadline = ExtendedDeadline(m),
                     !.disputes = Append(r.disputes, [disputer |-> h, counter |-> outcome,
                                                      bond |-> amount, reason |-> reason])]
  <2>1. /\ LockBond(m, h, amount) /\ ~r.finalized /\ amount >= r.bond /\ now < r.deadline
        /\ resolution' = [resolution EXCEPT ![m] = s] /\ UNCHANGED registryVars
    BY <1>2 DEF DisputeProposal, DisputeWindowOpen, Store
  <2>2. r.bond > 0
    <3>1. Schedule(m) /\ now \in Nat /\ r.deadline \in Nat
      BY <1>0, AccountFields
         DEF AdapterInv, Sound, RegistryInv, RegistryTypeOK, Timestamp, DurationAssumption
    <3> QED BY <2>1, <3>1 DEF Schedule
  <2>3. amount > 0
    BY <2>1, <2>2, <1>0, LedgerAssumption DEF Amount, ResolutionAccount
  <2>4. s.finalized = r.finalized /\ s.emergency = r.emergency
    BY <1>0 DEF ResolutionAccount
  <2> HIDE DEF s
  <2> QED BY <2>1, <2>3, <2>4, LockBondRefines
<1> QED
  BY <1>1, <1>2 DEF ParticipantInstruction, ProposeCryptoOutcome, ProposeSportsOutcome

(* The prize and the reward, credited and debited one after the other,     *)
(* come to what the award says, whoever is the sponsor.                    *)
LEMMA PayWinnerFunds ==
  ASSUME HydraInv, NEW m \in Market, NEW winner \in Holder, NEW rewarder \in Holder,
         PayWinner(m, winner, rewarder)
  PROVE  usdc' = [h \in Holder |-> usdc[h]
                    + (IF h = winner THEN bondVault[m] + OracleReward ELSE 0)
                    - (IF h = rewarder THEN OracleReward ELSE 0)]
<1> DEFINE b == bondVault[m]
           paid == Credit(usdc, winner, b)
           left == Debit(paid, rewarder, OracleReward)
           award(h) == usdc[h] + (IF h = winner THEN b + OracleReward ELSE 0)
                         - (IF h = rewarder THEN OracleReward ELSE 0)
<1>1. b \in Nat /\ usdc \in [Holder -> Nat] /\ OracleReward \in Nat
  BY HydraBalances, AdapterAssumption
<1>2. usdc' = Credit(left, winner, OracleReward) /\ OracleReward <= paid[rewarder]
  BY DEF PayWinner, Move
<1> SUFFICES usdc' = [h \in Holder |-> award(h)]
  OBVIOUS
<1> HIDE DEF b
<1>3. /\ paid \in [Holder -> Nat]
      /\ paid[winner] = usdc[winner] + b
      /\ \A h \in Holder : h # winner => paid[h] = usdc[h]
  BY <1>1 DEF Credit
<1> HIDE DEF paid
<1>4. /\ left \in [Holder -> Nat]
      /\ left[rewarder] = paid[rewarder] - OracleReward
      /\ \A h \in Holder : h # rewarder => left[h] = paid[h]
  BY <1>1, <1>2, <1>3, DebitAccount
<1> HIDE DEF left
<1>5. /\ usdc' \in [Holder -> Nat]
      /\ usdc'[winner] = left[winner] + OracleReward
      /\ \A h \in Holder : h # winner => usdc'[h] = left[h]
  <2> DEFINE done == Credit(left, winner, OracleReward)
  <2>1. /\ done \in [Holder -> Nat]
        /\ done[winner] = left[winner] + OracleReward
        /\ \A h \in Holder : h # winner => done[h] = left[h]
    <3>1. left \in [Holder -> Nat] /\ OracleReward \in Nat
      BY <1>1, <1>4
    <3> QED BY <3>1 DEF Credit
  <2>2. usdc' = done
    BY <1>2
  <2> HIDE DEF done
  <2> QED BY <2>1, <2>2
<1>6. ASSUME NEW h \in Holder
      PROVE  usdc'[h] = award(h)
  <2>0. usdc[h] \in Nat
    BY <1>1
  <2>1. CASE h = winner /\ h = rewarder
    BY <1>1, <1>3, <1>4, <1>5, <2>0, <2>1
  <2>2. CASE h = winner /\ h # rewarder
    BY <1>1, <1>3, <1>4, <1>5, <2>0, <2>2
  <2>3. CASE h # winner /\ h = rewarder
    BY <1>1, <1>3, <1>4, <1>5, <2>0, <2>3
  <2>4. CASE h # winner /\ h # rewarder
    BY <1>1, <1>3, <1>4, <1>5, <2>0, <2>4
  <2> QED BY <2>1, <2>2, <2>3, <2>4
<1> HIDE DEF award
<1> QED
  BY <1>5, <1>6

(* finalize_outcome decides and awards in one step.                        *)
LEMMA FinalizeOutcomeRefines ==
  ASSUME HydraInv, NEW m \in Market, NEW k \in Key, NEW outcome \in Outcome,
         NEW winner \in Holder, NEW rewarder \in Holder,
         FinalizeOutcome(m, k, outcome, winner, rewarder), UNCHANGED <<vault, tokenVars>>
  PROVE  System!Award(m, outcome, winner, rewarder)
<1>0. RegistryInv /\ resolution \in [Market -> ResolutionAccount] /\ Accounted(m)
  BY DEF HydraInv, AdapterInv, AdapterTypeOK
<1>1. /\ ~resolution[m].finalized /\ ~IsResolved(m)
      /\ PayWinner(m, winner, rewarder) /\ RecordOutcome(m, outcome)
      /\ resolution' = [resolution EXCEPT ![m].finalized = TRUE]
      /\ bondVault' = [bondVault EXCEPT ![m] = 0]
  BY DEF FinalizeOutcome, FinalizeMarket, PayWinner
<1>2. [RegistryNext]_registryVars
  BY DEF FinalizeOutcome, RegistryNext, RegistryInstruction, AdapterInstruction
<1>3. UNCHANGED <<Pot, yesHeld, noHeld, VerdictGiven>>
  BY <1>2, HoldersUnaffected
<1>4. Decision[m] = "None" /\ Decision' = [Decision EXCEPT ![m] = outcome]
  BY <1>0, <1>1, RecordDecides
<1>5. Awarded' = [Awarded EXCEPT ![m] = TRUE]
  <2>1. resolution[m].emergency = FALSE
    BY <1>0, <1>1 DEF Accounted, ResolutionAccount
  <2>2. /\ resolution'[m].finalized = TRUE
        /\ resolution'[m].emergency = resolution[m].emergency
        /\ \A n \in Market : n # m => resolution'[n] = resolution[n]
    BY <1>0, <1>1 DEF ResolutionAccount
  <2> QED BY <2>1, <2>2 DEF Awarded
<1>6. usdc' = [h \in Holder |-> usdc[h]
                 + (IF h = winner THEN bondVault[m] + OracleReward ELSE 0)
                 - (IF h = rewarder THEN OracleReward ELSE 0)]
  BY <1>1, PayWinnerFunds
<1> QED
  BY <1>1, <1>3, <1>4, <1>5, <1>6 DEF System!Award

(* emergency_resolve decides; what it leaves in the bond vault is not      *)
(* awarded.                                                                *)
LEMMA EmergencyResolveRefines ==
  ASSUME HydraInv, NEW m \in Market, NEW k \in Key, NEW outcome \in Outcome,
         EmergencyResolve(m, k, outcome), UNCHANGED <<vault, tokenVars>>
  PROVE  System!Decide(m, outcome)
<1>0. RegistryInv /\ resolution \in [Market -> ResolutionAccount]
  BY DEF HydraInv, AdapterInv, AdapterTypeOK
<1>1. /\ ~IsResolved(m) /\ RecordOutcome(m, outcome)
      /\ resolution' = [resolution EXCEPT ![m].finalized = TRUE, ![m].emergency = TRUE]
      /\ bondVault' = bondVault /\ usdc' = usdc
  BY DEF EmergencyResolve, EmergencyFinalizeMarket
<1>2. [RegistryNext]_registryVars
  BY DEF EmergencyResolve, RegistryNext, RegistryInstruction, CreatorInstruction
<1>3. UNCHANGED <<Pot, yesHeld, noHeld, VerdictGiven>>
  BY <1>2, HoldersUnaffected
<1>4. Decision[m] = "None" /\ Decision' = [Decision EXCEPT ![m] = outcome]
  BY <1>0, <1>1, RecordDecides
<1>5. Awarded' = Awarded
  <2>1. ~resolution[m].finalized
    BY <1>1 DEF HydraInv, AdapterInv, Sound, Outcomes
  <2>2. /\ resolution'[m].emergency = TRUE
        /\ \A n \in Market : n # m => resolution'[n] = resolution[n]
    BY <1>0, <1>1 DEF ResolutionAccount
  <2> QED BY <2>1, <2>2 DEF Awarded
<1> QED
  BY <1>1, <1>3, <1>4, <1>5 DEF System!Decide, System!abstractVars

(* A new resolution is neither finalized nor has it a bond.                *)
LEMMA InitializeResolutionRefines ==
  ASSUME HydraInv, NEW m \in Market, NEW category \in Category,
         InitializeResolution(m, category), UNCHANGED <<vault, tokenVars>>
  PROVE  AllStill
<1>0. resolution \in [Market -> ResolutionAccount]
  BY DEF HydraInv, AdapterInv, AdapterTypeOK
<1>1. /\ resolution' = [resolution EXCEPT ![m] = NewResolution(category)]
      /\ UNCHANGED <<registryVars, bondVault, usdc>>
  BY DEF InitializeResolution
<1>2. UNCHANGED <<Pot, yesHeld, noHeld, VerdictGiven, Decision>>
  BY <1>1, HoldersUnaffected, RegistryStutters DEF Decision
<1>3. Awarded' = Awarded
  <2>1. ~resolution[m].finalized
    BY DEF InitializeResolution, HydraInv, AdapterInv, Sound, Unused, NewResolution
  <2>2. /\ resolution'[m].finalized = FALSE
        /\ \A n \in Market : n # m => resolution'[n] = resolution[n]
    BY <1>0, <1>1 DEF NewResolution
  <2> QED BY <2>1, <2>2 DEF Awarded
<1> QED
  BY <1>1, <1>2, <1>3 DEF AllStill, AbstractStutter, BondsStill

(* An adapter step.                                                        *)
LEMMA AdapterStepRefines ==
  ASSUME HydraInv, NEW m \in Market, AdapterStep(m)
  PROVE  System!MarketNext \/ AllStill
<1>1. UNCHANGED <<vault, tokenVars>> /\ (ParticipantInstruction(m) \/ AuthorityInstruction(m))
  BY DEF AdapterStep
<1>2. CASE ParticipantInstruction(m)
  BY <1>1, <1>2, ParticipantRefines DEF System!MarketNext
<1>3. \A v \in Outcome : v \in System!Verdict
  BY DEF Outcome, System!Verdict
<1>4. CASE AuthorityInstruction(m)
  BY <1>1, <1>3, <1>4, InitializeResolutionRefines, FinalizeOutcomeRefines,
     EmergencyResolveRefines DEF AuthorityInstruction, System!MarketNext
<1> QED
  BY <1>1, <1>2, <1>4

(* Every step of the three programs is one of PredictionMarket, or a       *)
(* stutter.                                                                *)
LEMMA HydraStepRefines ==
  HydraInv /\ [HydraNext]_hydraVars => [System!MarketNext]_(System!marketVars)
<1> SUFFICES ASSUME HydraInv, [HydraNext]_hydraVars
             PROVE  System!MarketNext \/ AllStill
  BY DEF AllStill, AbstractStutter, BondsStill, System!marketVars, System!abstractVars
<1>1. CASE RegistryStep /\ UNCHANGED bondVars
  BY <1>1, RegistryStepKeepsPromise DEF RegistryStep
<1>2. CASE UNCHANGED hydraVars
  BY <1>2, RegistryStepKeepsPromise DEF hydraVars, vars
<1> QED
  BY <1>1, <1>2, EscrowStepRefines, AdapterStepRefines DEF HydraNext

(* The three programs keep the promise of PredictionMarket: one decision   *)
(* per market, which pays every holder, and bonds that leave only with it  *)
(* and with the reward.                                                    *)
THEOREM HydraImplementsPromise == HydraSpec => KeepsMarketPromise
<1> QED
  BY SystemInit, HydraStepRefines, HydraInitInv, HydraStepInv, PTL
     DEF HydraSpec, KeepsMarketPromise, System!MarketSpec
=============================================================================
