------------------------ MODULE MarketRegistryProofs ------------------------
(***************************************************************************)
(* Type correctness of the registry, the agreement of a market's three     *)
(* resolution fields, and the finality of a resolution, for every set of   *)
(* markets and keys, every duration and every bound on the clock.          *)
(***************************************************************************)
EXTENDS MarketRegistry, TLAPS

(* Inductive: RecordOutcome sets the three fields together, and a creation *)
(* time in the past, which the types do not give, orders them.             *)
CreatedInPast == \A m \in Market : market[m].createdAt <= now

RegistryInv == RegistryTypeOK /\ ResolutionRecorded /\ CreatedInPast

(* The initial accounts are blank, so the invariant holds of them.         *)
LEMMA RegistryInitInv == RegistryInit => RegistryInv
BY BlankAssumption, DurationAssumption
   DEF RegistryInit, RegistryInv, RegistryTypeOK, ResolutionRecorded, CreatedInPast,
       NoMarket, MarketAccount, MarketState, Timestamp, NotYet, IsResolved, Outcome

(* The one way a resolved account comes about keeps the invariant.         *)
LEMMA RecordOutcomeInv ==
  ASSUME RegistryInv, NEW m \in Market, NEW outcome \in Outcome,
         ~IsResolved(m), RecordOutcome(m, outcome), now' = now
  PROVE  RegistryInv'
<1>1. /\ now \in Timestamp
      /\ market \in [Market -> MarketAccount]
  BY DEF RegistryInv, RegistryTypeOK
<1>2. now # NotYet /\ outcome # "None"
  BY <1>1, DurationAssumption DEF Timestamp, NotYet, Outcome
<1>3. market' \in [Market -> MarketAccount]
  <2>1. market[m] \in MarketAccount
    BY <1>1
  <2>2. [market[m] EXCEPT !.outcome = outcome, !.resolvedAt = now, !.state = "Resolved"]
          \in MarketAccount
    BY <1>1, <2>1 DEF MarketAccount, MarketState
  <2> QED BY <1>1, <2>2 DEF RecordOutcome
<1>4. \A n \in Market : n # m => market'[n] = market[n]
  BY <1>1 DEF RecordOutcome
<1>5. /\ market'[m].state = "Resolved" /\ market'[m].outcome = outcome
      /\ market'[m].resolvedAt = now /\ market'[m].createdAt = market[m].createdAt
  BY <1>1 DEF RecordOutcome, MarketAccount
<1>6. CreatedInPast'
  BY <1>4, <1>5 DEF RegistryInv, CreatedInPast
<1>7. ResolutionRecorded'
  <2>1. market[m].createdAt <= now
    BY DEF RegistryInv, CreatedInPast
  <2> SUFFICES ASSUME NEW n \in Market
               PROVE  LET a == market'[n] IN
                      /\ a.state = "Resolved" <=> a.outcome # "None"
                      /\ a.state = "Resolved" <=> a.resolvedAt # NotYet
                      /\ a.state = "Resolved" =>
                           a.createdAt <= a.resolvedAt /\ a.resolvedAt <= now'
    BY DEF ResolutionRecorded, IsResolved
  <2>2. CASE n = m
    BY <2>1, <2>2, <1>1, <1>2, <1>5 DEF Timestamp
  <2>3. CASE n # m
    BY <2>3, <1>4 DEF RegistryInv, ResolutionRecorded, IsResolved
  <2> QED BY <2>2, <2>3
<1> QED
  BY <1>1, <1>3, <1>6, <1>7 DEF RegistryInv, RegistryTypeOK

(* A step that leaves a market's outcome and times alone and does not make *)
(* or unmake the state Resolved keeps the invariant.                       *)
LEMMA QuietStepInv ==
  ASSUME RegistryInv, NEW m \in Market,
         market[m].state # "Resolved",
         now' = now,
         market' \in [Market -> MarketAccount],
         \A n \in Market : n # m => market'[n] = market[n],
         market'[m].state # "Resolved",
         market'[m].outcome = "None",
         market'[m].resolvedAt = NotYet,
         market'[m].createdAt <= now
  PROVE  RegistryInv'
<1>1. RegistryTypeOK' /\ CreatedInPast'
  BY DEF RegistryInv, RegistryTypeOK, CreatedInPast
<1>2. ResolutionRecorded'
  BY DEF RegistryInv, ResolutionRecorded, IsResolved
<1> QED BY <1>1, <1>2 DEF RegistryInv

(* An unresolved account is blank in its resolution fields.                *)
LEMMA UnresolvedFields ==
  ASSUME RegistryInv, NEW m \in Market, ~IsResolved(m)
  PROVE  /\ market[m].outcome = "None" /\ market[m].resolvedAt = NotYet
         /\ market[m].createdAt <= now
BY DEF RegistryInv, ResolutionRecorded, CreatedInPast

(* Every instruction of a creator keeps the invariant.                     *)
LEMMA CreatorInstructionInv ==
  ASSUME RegistryInv, NEW m \in Market, NEW k \in Key, CreatorInstruction(m, k)
  PROVE  RegistryInv'
<1>0. /\ now \in Timestamp
      /\ market \in [Market -> MarketAccount]
      /\ market[m] \in MarketAccount
  BY DEF RegistryInv, RegistryTypeOK
<1>a. ASSUME NEW s \in MarketState \ {"Resolved"},
             ~IsResolved(m),
             market' = [market EXCEPT ![m].state = s], now' = now
      PROVE  RegistryInv'
  <2>1. market' \in [Market -> MarketAccount]
    BY <1>0, <1>a DEF MarketAccount
  <2>2. /\ market'[m].state = s /\ market'[m].outcome = market[m].outcome
        /\ market'[m].resolvedAt = market[m].resolvedAt
        /\ market'[m].createdAt = market[m].createdAt
    BY <1>0, <1>a DEF MarketAccount
  <2>3. \A n \in Market : n # m => market'[n] = market[n]
    BY <1>0, <1>a
  <2> QED BY <1>a, <2>1, <2>2, <2>3, UnresolvedFields, QuietStepInv DEF IsResolved
<1>1. CASE OpenMarket(m, k)
  BY <1>1, <1>a DEF OpenMarket, MarketState, IsResolved
<1>2. CASE PauseMarket(m, k)
  BY <1>2, <1>a DEF PauseMarket, MarketState, IsResolved
<1>3. CASE ResumeMarket(m, k)
  BY <1>3, <1>a DEF ResumeMarket, MarketState, IsResolved
<1>4. CASE ResolvingMarket(m, k)
  BY <1>4, <1>a DEF ResolvingMarket, MarketState, IsResolved
<1>5. CASE CancelMarket(m, k)
  BY <1>5, RecordOutcomeInv DEF CancelMarket, Outcome
<1>6. ASSUME NEW outcome \in Outcome, EmergencyFinalizeMarket(m, k, outcome)
      PROVE  RegistryInv'
  BY <1>6, RecordOutcomeInv DEF EmergencyFinalizeMarket
<1>7. ASSUME NEW description \in Text \cup {Blank}, NEW category \in Text \cup {Blank},
             UpdateMarketMetadata(m, k, description, category)
      PROVE  RegistryInv'
  <2>1. /\ ~IsResolved(m) /\ now' = now
        /\ market' = [market EXCEPT ![m] =
             [market[m] EXCEPT !.category = OrElse(category, market[m].category),
                               !.description = OrElse(description, market[m].description)]]
    BY <1>7 DEF UpdateMarketMetadata, IsResolved
  <2>2. /\ OrElse(category, market[m].category) \in Text \cup {Blank}
        /\ OrElse(description, market[m].description) \in Text \cup {Blank}
    BY <1>0 DEF OrElse, MarketAccount
  <2>6. [market[m] EXCEPT !.category = OrElse(category, market[m].category),
                          !.description = OrElse(description, market[m].description)]
          \in MarketAccount
    BY <1>0, <2>2 DEF MarketAccount
  <2>3. market' \in [Market -> MarketAccount]
    BY <1>0, <2>1, <2>6
  <2>4. /\ market'[m].state = market[m].state /\ market'[m].outcome = market[m].outcome
        /\ market'[m].resolvedAt = market[m].resolvedAt
        /\ market'[m].createdAt = market[m].createdAt
    BY <1>0, <2>1 DEF MarketAccount
  <2>5. \A n \in Market : n # m => market'[n] = market[n]
    BY <1>0, <2>1
  <2> QED BY <2>1, <2>3, <2>4, <2>5, UnresolvedFields, QuietStepInv DEF IsResolved
<1> QED
  BY <1>1, <1>2, <1>3, <1>4, <1>5, <1>6, <1>7 DEF CreatorInstruction

(* The invariant is inductive.                                             *)
LEMMA RegistryStepInv == RegistryInv /\ [RegistryNext]_registryVars => RegistryInv'
<1> SUFFICES ASSUME RegistryInv, [RegistryNext]_registryVars
             PROVE  RegistryInv'
  OBVIOUS
<1>0. /\ now \in Timestamp
      /\ market \in [Market -> MarketAccount]
  BY DEF RegistryInv, RegistryTypeOK
<1>1. CASE Tick
  <2>1. /\ now' = now + 1 /\ now' \in Timestamp /\ market' = market
    BY <1>1, <1>0, DurationAssumption DEF Tick, Timestamp
  <2>2. \A m \in Market :
          /\ market[m].resolvedAt <= now => market[m].resolvedAt <= now'
          /\ market[m].createdAt <= now'
    BY <2>1, <1>0 DEF RegistryInv, CreatedInPast, MarketAccount, Timestamp, NotYet
  <2> QED
    BY <2>1, <2>2 DEF RegistryInv, RegistryTypeOK, ResolutionRecorded, CreatedInPast, IsResolved
<1>2. ASSUME NEW m \in Market, CreateMarket(m)
      PROVE  RegistryInv'
  <2>1. PICK admin \in Key, adapter \in Key, expireAt \in Timestamp,
             description \in Text, category \in Text :
               InitializeMarket(m, admin, adapter, expireAt, description, category)
    BY <1>2 DEF CreateMarket
  <2>2. /\ market[m].state # "Resolved" /\ now' = now
        /\ market' = [market EXCEPT ![m] =
             [state |-> "Created", creator |-> admin, adapter |-> adapter,
              createdAt |-> now, expireAt |-> expireAt,
              description |-> description, category |-> category,
              outcome |-> "None", resolvedAt |-> NotYet]]
    BY <2>1 DEF InitializeMarket, Initialized
  <2>3. market' \in [Market -> MarketAccount]
    BY <1>0, <2>2 DEF MarketAccount, MarketState
  <2>4. /\ market'[m].state = "Created" /\ market'[m].outcome = "None"
        /\ market'[m].resolvedAt = NotYet /\ market'[m].createdAt <= now
    BY <1>0, <2>2, DurationAssumption DEF Timestamp
  <2>5. \A n \in Market : n # m => market'[n] = market[n]
    BY <1>0, <2>2
  <2> QED BY <2>2, <2>3, <2>4, <2>5, QuietStepInv
<1>3. ASSUME NEW m \in Market, NEW k \in Key, CreatorInstruction(m, k)
      PROVE  RegistryInv'
  BY <1>3, CreatorInstructionInv
<1>4. ASSUME NEW m \in Market, NEW k \in Key, AdapterInstruction(m, k)
      PROVE  RegistryInv'
  BY <1>4, RecordOutcomeInv DEF AdapterInstruction, FinalizeMarket
<1>5. CASE UNCHANGED registryVars
  BY <1>5 DEF registryVars, RegistryInv, RegistryTypeOK, ResolutionRecorded, CreatedInPast,
              IsResolved
<1> QED
  BY <1>1, <1>2, <1>3, <1>4, <1>5 DEF RegistryNext, RegistryInstruction

(* No step changes the account of a resolved market.                       *)
LEMMA ResolvedIsFinal ==
  ASSUME RegistryInv, [RegistryNext]_registryVars, NEW m \in Market, IsResolved(m)
  PROVE  market'[m] = market[m]
<1>0. market \in [Market -> MarketAccount]
  BY DEF RegistryInv, RegistryTypeOK
<1>1. ASSUME NEW n \in Market, CreateMarket(n)
      PROVE  market'[m] = market[m]
  BY <1>0, <1>1 DEF CreateMarket, InitializeMarket, Initialized, IsResolved
<1>2. ASSUME NEW n \in Market, NEW k \in Key, CreatorInstruction(n, k)
      PROVE  market'[m] = market[m]
  <2>1. market[n].state # "Resolved"
    BY <1>2 DEF CreatorInstruction, OpenMarket, PauseMarket, ResumeMarket, ResolvingMarket,
                CancelMarket, EmergencyFinalizeMarket, UpdateMarketMetadata, IsResolved
  <2>2. n # m
    BY <2>1 DEF IsResolved
  <2> QED
    BY <1>0, <1>2, <2>2
       DEF CreatorInstruction, OpenMarket, PauseMarket, ResumeMarket, ResolvingMarket,
           CancelMarket, EmergencyFinalizeMarket, UpdateMarketMetadata, RecordOutcome
<1>3. ASSUME NEW n \in Market, NEW k \in Key, AdapterInstruction(n, k)
      PROVE  market'[m] = market[m]
  BY <1>0, <1>3 DEF AdapterInstruction, FinalizeMarket, IsResolved, RecordOutcome
<1> QED
  BY <1>1, <1>2, <1>3 DEF RegistryNext, RegistryInstruction, Tick, registryVars

(* Every account always holds values of its declared field types.          *)
THEOREM RegistryTypeCorrect == RegistrySpec => []RegistryTypeOK
<1>1. RegistryInv => RegistryTypeOK
  BY DEF RegistryInv
<1> QED
  BY <1>1, RegistryInitInv, RegistryStepInv, PTL DEF RegistrySpec

(* State, outcome and resolution time of a market always agree, whichever  *)
(* of the three resolving instructions ended it.                           *)
THEOREM ResolutionRecordedAlways == RegistrySpec => []ResolutionRecorded
<1>1. RegistryInv => ResolutionRecorded
  BY DEF RegistryInv
<1> QED
  BY <1>1, RegistryInitInv, RegistryStepInv, PTL DEF RegistrySpec

(* The first resolution of a market is final.                              *)
THEOREM FirstResolutionWins == RegistrySpec => ResolutionIrrevocable
<1>1. RegistryInv /\ [RegistryNext]_registryVars =>
        [\A m \in Market : IsResolved(m) => market'[m] = market[m]]_registryVars
  BY ResolvedIsFinal
<1> QED
  BY <1>1, RegistryInitInv, RegistryStepInv, PTL DEF RegistrySpec, ResolutionIrrevocable

(* What a step may do to a market's state, given its account before.       *)
LifeCycleMove(m) ==
    \/ market'[m].state \in {market[m].state, "Resolved"}
    \/ ~IsExpired(m) /\ market'[m].state = "Open"
    \/ market[m].state = "Open" /\ market'[m].state \in {"Paused", "Resolving"}

(* A step leaves the dates and keys of an existing market alone, edits its *)
(* metadata only while it is Created, and moves its state only one way.    *)
LEMMA StepOfMarket ==
  ASSUME RegistryInv, [RegistryNext]_registryVars, NEW m \in Market, Initialized(m)
  PROVE  /\ LifeCycleMove(m)
         /\ market'[m].expireAt = market[m].expireAt
         /\ market[m].state # "Created" => Terms(m)' = Terms(m)
<1>0. market \in [Market -> MarketAccount] /\ market[m] \in MarketAccount
  BY DEF RegistryInv, RegistryTypeOK
<1>1. CASE market'[m] = market[m]
  BY <1>1 DEF LifeCycleMove, Terms
<1>2. ASSUME NEW n \in Market, CreateMarket(n)
      PROVE  market'[m] = market[m]
  BY <1>0, <1>2 DEF CreateMarket, InitializeMarket, Initialized
<1>3. ASSUME NEW s \in MarketState,
             \/ s = "Open" /\ ~IsExpired(m)
             \/ s \in {"Paused", "Resolving"} /\ market[m].state = "Open",
             market' = [market EXCEPT ![m].state = s]
      PROVE  /\ LifeCycleMove(m)
             /\ market'[m].expireAt = market[m].expireAt
             /\ Terms(m)' = Terms(m)
  <2>1. /\ market'[m].state = s
        /\ market'[m].creator = market[m].creator
        /\ market'[m].adapter = market[m].adapter
        /\ market'[m].createdAt = market[m].createdAt
        /\ market'[m].expireAt = market[m].expireAt
        /\ market'[m].description = market[m].description
        /\ market'[m].category = market[m].category
    BY <1>0, <1>3 DEF MarketAccount
  <2> QED BY <1>3, <2>1 DEF LifeCycleMove, Terms
<1>4. ASSUME NEW outcome \in Outcome, RecordOutcome(m, outcome)
      PROVE  /\ LifeCycleMove(m)
             /\ market'[m].expireAt = market[m].expireAt
             /\ Terms(m)' = Terms(m)
  <2>1. /\ market'[m].state = "Resolved"
        /\ market'[m].creator = market[m].creator
        /\ market'[m].adapter = market[m].adapter
        /\ market'[m].createdAt = market[m].createdAt
        /\ market'[m].expireAt = market[m].expireAt
        /\ market'[m].description = market[m].description
        /\ market'[m].category = market[m].category
    BY <1>0, <1>4 DEF MarketAccount, RecordOutcome
  <2> QED BY <2>1 DEF LifeCycleMove, Terms
<1>5. ASSUME NEW k \in Key, NEW description \in Text \cup {Blank},
             NEW category \in Text \cup {Blank},
             UpdateMarketMetadata(m, k, description, category)
      PROVE  /\ LifeCycleMove(m)
             /\ market'[m].expireAt = market[m].expireAt
             /\ market[m].state = "Created"
  <2>1. /\ market'[m].state = market[m].state
        /\ market'[m].expireAt = market[m].expireAt
    BY <1>0, <1>5 DEF MarketAccount, UpdateMarketMetadata
  <2> QED BY <1>5, <2>1 DEF LifeCycleMove, UpdateMarketMetadata
<1>6. ASSUME NEW k \in Key, CreatorInstruction(m, k)
      PROVE  /\ LifeCycleMove(m)
             /\ market'[m].expireAt = market[m].expireAt
             /\ market[m].state # "Created" => Terms(m)' = Terms(m)
  <2>1. CASE OpenMarket(m, k)
    BY <2>1, <1>3 DEF OpenMarket, MarketState
  <2>2. CASE PauseMarket(m, k)
    BY <2>2, <1>3 DEF PauseMarket, MarketState
  <2>3. CASE ResumeMarket(m, k)
    BY <2>3, <1>3 DEF ResumeMarket, MarketState
  <2>4. CASE ResolvingMarket(m, k)
    BY <2>4, <1>3 DEF ResolvingMarket, MarketState
  <2>5. CASE CancelMarket(m, k)
    BY <2>5, <1>4 DEF CancelMarket, Outcome
  <2>6. CASE \E outcome \in Outcome : EmergencyFinalizeMarket(m, k, outcome)
    BY <2>6, <1>4 DEF EmergencyFinalizeMarket
  <2>7. CASE \E description, category \in Text \cup {Blank} :
               UpdateMarketMetadata(m, k, description, category)
    BY <2>7, <1>5
  <2> QED
    BY <1>6, <2>1, <2>2, <2>3, <2>4, <2>5, <2>6, <2>7 DEF CreatorInstruction
<1>7. ASSUME NEW n \in Market, NEW k \in Key, CreatorInstruction(n, k), n # m
      PROVE  market'[m] = market[m]
  BY <1>0, <1>7
     DEF CreatorInstruction, OpenMarket, PauseMarket, ResumeMarket, ResolvingMarket,
         CancelMarket, EmergencyFinalizeMarket, UpdateMarketMetadata, RecordOutcome
<1>8. ASSUME NEW n \in Market, NEW k \in Key, AdapterInstruction(n, k)
      PROVE  \/ market'[m] = market[m]
             \/ \E outcome \in Outcome : RecordOutcome(m, outcome)
  BY <1>0, <1>8 DEF AdapterInstruction, FinalizeMarket, RecordOutcome
<1>9. CASE Tick \/ UNCHANGED registryVars
  BY <1>1, <1>9 DEF Tick, registryVars
<1> QED
  BY <1>1, <1>2, <1>4, <1>6, <1>7, <1>8, <1>9 DEF RegistryNext, RegistryInstruction

(* An expired market that is not open never opens again.                   *)
THEOREM ExpiryShutsMarkets == RegistrySpec => ShutAfterExpiryForGood
<1>1. RegistryInv /\ [RegistryNext]_registryVars =>
        [\A m \in Market :
           Initialized(m) /\ IsExpired(m) /\ market[m].state # "Open"
             => market'[m].state # "Open"]_registryVars
  BY StepOfMarket DEF LifeCycleMove
<1> QED
  BY <1>1, RegistryInitInv, RegistryStepInv, PTL DEF RegistrySpec, ShutAfterExpiryForGood

(* A market no outcome can be proposed for once it has expired stays so.   *)
THEOREM UnproposableStaysSo == RegistrySpec => UnproposableForGood
<1>1. RegistryInv /\ [RegistryNext]_registryVars =>
        [\A m \in Market :
           Initialized(m) /\ IsExpired(m) /\ ~AssertMarketExpired(m)
             => ~AssertMarketExpired(m)']_registryVars
  BY StepOfMarket DEF LifeCycleMove, AssertMarketExpired
<1> QED
  BY <1>1, RegistryInitInv, RegistryStepInv, PTL DEF RegistrySpec, UnproposableForGood

(* Once opened, a market keeps its metadata, keys and dates.               *)
THEOREM TermsAreKept == RegistrySpec => TermsFixedOnceOpened
<1>1. RegistryInv /\ [RegistryNext]_registryVars =>
        [\A m \in Market :
           market[m].state \notin {"Absent", "Created"} => Terms(m)' = Terms(m)]_registryVars
  BY StepOfMarket DEF Initialized
<1> QED
  BY <1>1, RegistryInitInv, RegistryStepInv, PTL DEF RegistrySpec, TermsFixedOnceOpened
=============================================================================
