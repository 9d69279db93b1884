----------------------- MODULE ResolutionAdapterProofs ----------------------
(***************************************************************************)
(* What the adapter guarantees of deadlines, bonds and finalized outcomes, *)
(* for every set of markets, keys and holders, every bond, reward and      *)
(* duration, and any registry instruction in between.                      *)
(***************************************************************************)
EXTENDS ResolutionAdapter, MarketRegistryProofs, TokenLedgerProofs

(* What k disputes, each a second before its deadline, add to a deadline.  *)
Delay(k) == k * (DisputeExtension - 1)

(* One more dispute adds no more than an extension less a second, and as   *)
(* many as are allowed no more than the longest chain.                     *)
LEMMA DelayGrows ==
  ASSUME NEW k \in Nat
  PROVE  /\ Delay(k) \in Nat
         /\ Delay(k + 1) = Delay(k) + (DisputeExtension - 1)
         /\ k <= MaxDisputes => DisputeWindow + Delay(k) <= LongestDispute
<1> DEFINE d == DisputeExtension - 1
<1>1. d \in Nat
  BY AdapterAssumption
<1>2. k * d \in Nat /\ (k + 1) * d = k * d + d
  <2> HIDE DEF d
  <2> QED BY <1>1
<1>3. k <= 3 => k * d <= 3 * d
  <2> HIDE DEF d
  <2>1. 0 * d = 0 /\ 1 * d = d /\ 2 * d = d + d /\ 3 * d = d + d + d
    BY <1>1
  <2>2. k <= 3 => k = 0 \/ k = 1 \/ k = 2 \/ k = 3
    OBVIOUS
  <2> QED BY <1>1, <2>1, <2>2
<1>4. 3 * d \in Nat
  <2> HIDE DEF d
  <2> QED BY <1>1
<1>5. DisputeWindow + 3 * d = LongestDispute
  BY DEF LongestDispute, MaxDisputes
<1>6. Delay(k) = k * d /\ Delay(k + 1) = (k + 1) * d
  BY DEF Delay
<1> HIDE DEF d
<1> QED
  BY <1>1, <1>2, <1>3, <1>4, <1>5, <1>6, AdapterAssumption DEF d, MaxDisputes

-----------------------------------------------------------------------------
(* The inductive invariant.  A finalized outcome stands because its market *)
(* is resolved, and a resolution is final; a deadline is never far enough  *)
(* ahead of the clock for a dispute to bring it forward; and it is as late *)
(* as the disputes so far explain, no later.                               *)

Unused(m) == resolution[m] = NewResolution("None")

Proposed(m) == resolution[m].proposed # "None"

Schedule(m) ==
    LET r == resolution[m] IN
    /\ r.deadline <= now + DisputeExtension
    /\ Len(r.disputes) <= MaxDisputes
    /\ ~Proposed(m) => r.bond = 0 /\ r.deadline = 0
    /\ Proposed(m) =>
         /\ r.bond > 0
         /\ Initialized(m)
         /\ r.deadline <= r.proposedAt + DisputeWindow + Delay(Len(r.disputes))

Outcomes(m) ==
    LET r == resolution[m]
        a == market[m]
    IN r.finalized =>
         /\ IsResolved(m)
         /\ ~r.emergency =>
              /\ a.resolvedAt >= r.deadline /\ a.resolvedAt <= WindowEnd(m)
              /\ Disputed(m) => a.outcome \in Asserted(m)

Sound(m) ==
    /\ ~ResolutionExists(m) => Unused(m)
    /\ Schedule(m)
    /\ Outcomes(m)

AdapterInv ==
    /\ RegistryInv
    /\ AdapterTypeOK
    /\ \A m \in Market : Sound(m)

(* The blank account is one the invariant allows.                          *)
LEMMA NewResolutionFacts ==
  ASSUME NEW category \in Category \cup {"None"}
  PROVE  LET r == NewResolution(category) IN
         /\ r \in ResolutionAccount
         /\ r.category = category
         /\ r.deadline = 0 /\ r.bond = 0 /\ r.proposed = "None"
         /\ r.disputes = <<>> /\ r.finalized = FALSE
BY DEF NewResolution, ResolutionAccount

(* Every account is blank at first.                                        *)
LEMMA AdapterInitInv == AdapterInit => AdapterInv
<1> SUFFICES ASSUME AdapterInit PROVE AdapterInv
  OBVIOUS
<1>1. RegistryInv
  BY RegistryInitInv DEF AdapterInit
<1>2. /\ NewResolution("None") \in ResolutionAccount
      /\ NewResolution("None").category = "None"
      /\ NewResolution("None").deadline = 0
      /\ NewResolution("None").bond = 0
      /\ NewResolution("None").proposed = "None"
      /\ NewResolution("None").disputes = <<>>
      /\ NewResolution("None").finalized = FALSE
  <2>1. "None" \in Category \cup {"None"}
    OBVIOUS
  <2> QED BY <2>1, NewResolutionFacts
<1>3. AdapterTypeOK
  BY <1>1, <1>2, LedgerAssumption
     DEF AdapterInit, AdapterTypeOK, LedgerInit, RegistryInv
<1>4. ASSUME NEW m \in Market PROVE Sound(m)
  <2>1. resolution[m] = NewResolution("None")
    BY DEF AdapterInit
  <2>2. now \in Nat
    BY <1>1, DurationAssumption DEF RegistryInv, RegistryTypeOK, Timestamp
  <2>3. Len(resolution[m].disputes) = 0
    BY <1>2, <2>1
  <2>4. ~Proposed(m)
    BY <1>2, <2>1 DEF Proposed
  <2>5. 0 <= now + DisputeExtension /\ 0 <= MaxDisputes
    BY <2>2, AdapterAssumption DEF MaxDisputes
  <2>6. Schedule(m)
    BY <1>2, <2>1, <2>3, <2>4, <2>5 DEF Schedule
  <2>7. Outcomes(m)
    BY <1>2, <2>1 DEF Outcomes
  <2> QED BY <2>1, <2>6, <2>7 DEF Sound, Unused
<1> QED
  BY <1>1, <1>3, <1>4 DEF AdapterInv

(* The clock never runs backwards.                                         *)
LEMMA ClockAdvances ==
  ASSUME RegistryInv, [RegistryNext]_registryVars
  PROVE  now \in Nat /\ now' \in Nat /\ now <= now'
<1>1. now \in Timestamp /\ now' \in Timestamp
  BY RegistryStepInv DEF RegistryInv, RegistryTypeOK
<1>2. now' = now \/ now' = now + 1
  BY DEF RegistryNext, RegistryInstruction, Tick, CreateMarket, InitializeMarket,
         CreatorInstruction, OpenMarket, PauseMarket, ResumeMarket, ResolvingMarket,
         CancelMarket, EmergencyFinalizeMarket, UpdateMarketMetadata,
         AdapterInstruction, FinalizeMarket, registryVars
<1> QED
  BY <1>1, <1>2, DurationAssumption DEF Timestamp

(* Whatever the registry does, a resolution that is not written stays      *)
(* sound.                                                                  *)
LEMMA SoundUnwritten ==
  ASSUME AdapterInv, [RegistryNext]_registryVars, NEW m \in Market,
         resolution'[m] = resolution[m]
  PROVE  Sound(m)'
<1>1. Sound(m) /\ RegistryInv
  BY DEF AdapterInv
<1>2. now \in Nat /\ now' \in Nat /\ now <= now'
  BY <1>1, ClockAdvances
<1>3. IsResolved(m) => market'[m] = market[m]
  BY <1>1, ResolvedIsFinal
<1>4. Initialized(m) => Initialized(m)'
  BY <1>1, StepOfMarket DEF LifeCycleMove, Initialized
<1>5. resolution[m].deadline \in Nat
  BY DEF AdapterInv, AdapterTypeOK, ResolutionAccount
<1>6. Schedule(m)'
  BY <1>1, <1>2, <1>4, <1>5, AdapterAssumption DEF Sound, Schedule, Proposed
<1>7. Outcomes(m)'
  BY <1>1, <1>3
     DEF Sound, Outcomes, IsResolved, WindowEnd, Disputed, Asserted, CounterOutcomes
<1> QED
  BY <1>1, <1>6, <1>7 DEF Sound, Unused, ResolutionExists

(* A step that writes one account and is a registry step, or none, needs   *)
(* looking at for that account only.                                       *)
LEMMA OneWritten ==
  ASSUME AdapterInv, [RegistryNext]_registryVars, NEW m \in Market,
         NEW r \in ResolutionAccount,
         resolution' = [resolution EXCEPT ![m] = r],
         bondVault' \in [Market -> Nat],
         usdc' \in [Holder -> Nat],
         Sound(m)'
  PROVE  AdapterInv'
<1>1. RegistryInv'
  BY RegistryStepInv DEF AdapterInv
<1>2. resolution \in [Market -> ResolutionAccount]
  BY DEF AdapterInv, AdapterTypeOK
<1>3. resolution' \in [Market -> ResolutionAccount]
  BY <1>2
<1>4. \A n \in Market : n # m => resolution'[n] = resolution[n]
  BY <1>2
<1>5. \A n \in Market : Sound(n)'
  BY <1>4, SoundUnwritten
<1> QED
  BY <1>1, <1>3, <1>5 DEF AdapterInv, AdapterTypeOK, RegistryInv

(* The types of an account's fields.                                       *)
LEMMA AccountFields ==
  ASSUME AdapterInv, NEW m \in Market
  PROVE  LET r == resolution[m] IN
         /\ r \in ResolutionAccount
         /\ r.category \in Category \cup {"None"}
         /\ r.bond \in Nat /\ r.proposedAt \in Nat /\ r.deadline \in Nat
         /\ r.disputes \in Seq(Dispute) /\ Len(r.disputes) \in Nat
         /\ r.contributors \in Seq(Contributor)
         /\ r.finalized \in BOOLEAN
BY DEF AdapterInv, AdapterTypeOK, ResolutionAccount

(* A bond moves from a wallet into one vault.                              *)
LEMMA LockBondEffect ==
  ASSUME AdapterInv, NEW m \in Market, NEW h \in Holder, NEW amount \in Amount,
         LockBond(m, h, amount)
  PROVE  /\ amount \in Nat
         /\ usdc' \in [Holder -> Nat]
         /\ bondVault' \in [Market -> Nat]
         /\ \A n \in Market : bondVault'[n] >= bondVault[n]
         /\ \A n \in Market : n # m => bondVault'[n] = bondVault[n]
<1>1. usdc \in [Holder -> Nat] /\ bondVault \in [Market -> Nat]
  BY DEF AdapterInv, AdapterTypeOK
<1>2. amount \in Nat
  BY LedgerAssumption DEF Amount
<1>3. usdc' \in [Holder -> Nat]
  BY <1>1, <1>2, DebitAccount DEF LockBond
<1>4. /\ bondVault' \in [Market -> Nat]
      /\ bondVault'[m] = bondVault[m] + amount
      /\ \A n \in Market : n # m => bondVault'[n] = bondVault[n]
  BY <1>1, <1>2, CreditAccount DEF LockBond
<1> QED
  BY <1>1, <1>2, <1>3, <1>4
-----------------------------------------------------------------------------
(* One lemma per instruction.  Each also says what becomes of the account  *)
(* and the bond vault it writes.                                           *)

(* A deadline does not recede, and nothing happens to what is finalized or *)
(* out of a vault whose market is resolved.                                *)
Monotone(m) ==
    /\ resolution'[m].deadline >= resolution[m].deadline
    /\ resolution[m].finalized =>
         resolution'[m] = resolution[m] /\ bondVault'[m] = bondVault[m]
    /\ IsResolved(m) => bondVault'[m] >= bondVault[m]

(* What is not written is not disturbed.                                   *)
LEMMA MonotoneUnwritten ==
  ASSUME AdapterInv, NEW m \in Market,
         resolution'[m] = resolution[m], bondVault'[m] = bondVault[m]
  PROVE  Monotone(m)
<1>1. resolution[m].deadline \in Nat /\ bondVault[m] \in Nat
  BY DEF AdapterInv, AdapterTypeOK, ResolutionAccount
<1> QED BY <1>1 DEF Monotone

(* Instructions that leave the registry alone are registry stutters.       *)
LEMMA RegistryStutters ==
  ASSUME UNCHANGED registryVars
  PROVE  [RegistryNext]_registryVars /\ now' = now /\ market' = market
BY DEF registryVars

(* A resolution starts blank, on a market that had none.                   *)
LEMMA InitializeResolutionStep ==
  ASSUME AdapterInv, NEW m \in Market, NEW category \in Category,
         InitializeResolution(m, category)
  PROVE  AdapterInv' /\ \A n \in Market : Monotone(n)
<1> DEFINE r == NewResolution(category)
<1>1. /\ Unused(m)
      /\ resolution' = [resolution EXCEPT ![m] = r]
      /\ UNCHANGED registryVars /\ bondVault' = bondVault /\ usdc' = usdc
  BY DEF InitializeResolution, AdapterInv, Sound
<1>2. /\ resolution \in [Market -> ResolutionAccount]
      /\ bondVault \in [Market -> Nat] /\ usdc \in [Holder -> Nat]
  BY DEF AdapterInv, AdapterTypeOK
<1>3. /\ r \in ResolutionAccount /\ r.category = category
      /\ r.deadline = 0 /\ r.bond = 0 /\ r.proposed = "None"
      /\ r.disputes = <<>> /\ r.finalized = FALSE
  BY NewResolutionFacts
<1>4. /\ resolution[m].deadline = 0 /\ resolution[m].finalized = FALSE
  BY <1>1, NewResolutionFacts DEF Unused
<1> HIDE DEF r
<1>5. resolution'[m] = r
  BY <1>1, <1>2
<1>6. Sound(m)'
  <2>1. now' \in Nat
    BY <1>1, RegistryStutters, ClockAdvances DEF AdapterInv
  <2>2. Schedule(m)'
    BY <1>3, <1>5, <2>1, AdapterAssumption DEF Schedule, Proposed, MaxDisputes
  <2>3. Outcomes(m)'
    BY <1>3, <1>5 DEF Outcomes
  <2>4. ResolutionExists(m)'
    BY <1>3, <1>5 DEF ResolutionExists, Category
  <2> QED BY <2>2, <2>3, <2>4 DEF Sound
<1>7. AdapterInv'
  BY <1>1, <1>2, <1>3, <1>6, RegistryStutters, OneWritten
<1>8. Monotone(m)
  BY <1>1, <1>2, <1>3, <1>4, <1>5 DEF Monotone
<1>9. \A n \in Market : n # m => Monotone(n)
  BY <1>1, <1>2, MonotoneUnwritten
<1> QED BY <1>7, <1>8, <1>9

(* A proposal is the first, so the deadline it sets replaces none.         *)
LEMMA ProposeOutcomeStep ==
  ASSUME AdapterInv, NEW m \in Market, NEW category \in Category,
         NEW proposer \in Holder, NEW outcome \in Outcome, NEW amount \in Amount,
         NEW sources \in SourceBytes,
         ProposeOutcome(m, category, proposer, outcome, amount, sources)
  PROVE  AdapterInv' /\ \A n \in Market : Monotone(n)
<1> DEFINE r == resolution[m]
           c == Contribution(proposer, amount)
           s == [r EXCEPT !.proposer = proposer,
                          !.proposed = outcome,
                          !.bond = amount,
                          !.proposedAt = now,
                          !.deadline = now + DisputeWindow,
                          !.sources = sources,
                          !.contributors = Append(r.contributors, c)]
<1>1. /\ r.category = category /\ ~r.finalized /\ amount >= MinProposalBond /\ r.bond = 0
      /\ Initialized(m) /\ LockBond(m, proposer, amount)
      /\ resolution' = [resolution EXCEPT ![m] = s]
      /\ UNCHANGED registryVars
  BY DEF ProposeOutcome, AssertMarketExpired, Store
<1>2. /\ [RegistryNext]_registryVars /\ now' = now /\ market' = market
      /\ now \in Nat
  BY <1>1, RegistryStutters, ClockAdvances DEF AdapterInv
<1>3. /\ r \in ResolutionAccount /\ r.contributors \in Seq(Contributor)
      /\ r.disputes \in Seq(Dispute) /\ Len(r.disputes) \in Nat
  BY AccountFields
<1>4. /\ amount \in Nat /\ usdc' \in [Holder -> Nat] /\ bondVault' \in [Market -> Nat]
      /\ \A n \in Market : bondVault'[n] >= bondVault[n]
      /\ \A n \in Market : n # m => bondVault'[n] = bondVault[n]
  BY <1>1, LockBondEffect
<1>5. /\ s \in ResolutionAccount
      /\ s.category = category /\ s.proposed = outcome /\ s.bond = amount
      /\ s.proposedAt = now /\ s.deadline = now + DisputeWindow
      /\ s.disputes = r.disputes /\ s.finalized = FALSE
  <2>1. c \in Contributor
    BY <1>4 DEF Contribution, Contributor
  <2>2. Append(r.contributors, c) \in Seq(Contributor)
    BY <1>3, <2>1
  <2>3. now + DisputeWindow \in Nat
    BY <1>2, AdapterAssumption
  <2>4. r.finalized = FALSE
    BY <1>1, AccountFields
  <2> HIDE DEF c
  <2> QED BY <1>1, <1>2, <1>3, <1>4, <2>2, <2>3, <2>4 DEF ResolutionAccount
<1>6. /\ resolution \in [Market -> ResolutionAccount]
      /\ Sound(m)
  BY DEF AdapterInv, AdapterTypeOK
<1> HIDE DEF s
<1>7. resolution'[m] = s
  BY <1>1, <1>6
<1>8. ~Proposed(m) /\ r.deadline = 0 /\ Len(r.disputes) <= MaxDisputes
  BY <1>1, <1>6 DEF Sound, Schedule
<1>9. Sound(m)'
  <2>1. Delay(Len(r.disputes)) \in Nat
    BY <1>3, DelayGrows
  <2>2. amount > 0
    BY <1>1, <1>4, AdapterAssumption
  <2>3. Initialized(m)'
    BY <1>1, <1>2 DEF Initialized
  <2>4. outcome # "None"
    BY DEF Outcome
  <2>5. Schedule(m)'
    BY <1>2, <1>3, <1>5, <1>7, <1>8, <2>1, <2>2, <2>3, <2>4, AdapterAssumption
       DEF Schedule, Proposed
  <2>6. Outcomes(m)'
    BY <1>5, <1>7 DEF Outcomes
  <2>7. ResolutionExists(m)'
    BY <1>5, <1>7 DEF ResolutionExists, Category
  <2> QED BY <2>5, <2>6, <2>7 DEF Sound
<1>10. AdapterInv'
  BY <1>1, <1>2, <1>4, <1>5, <1>9, OneWritten
<1>11. Monotone(m)
  BY <1>1, <1>2, <1>4, <1>5, <1>7, <1>8, AdapterAssumption DEF Monotone
<1>12. \A n \in Market : n # m => Monotone(n)
  BY <1>1, <1>4, <1>6, MonotoneUnwritten
<1> QED BY <1>10, <1>11, <1>12

(* A dispute comes before the deadline, so it moves it by at least the     *)
(* second left and at most an extension less that second.                  *)
LEMMA DisputeProposalStep ==
  ASSUME AdapterInv, NEW m \in Market, NEW disputer \in Holder,
         NEW counter \in Outcome, NEW amount \in Amount, NEW reason \in ReasonBytes,
         DisputeProposal(m, disputer, counter, amount, reason)
  PROVE  AdapterInv' /\ \A n \in Market : Monotone(n)
<1> DEFINE r == resolution[m]
           c == Contribution(disputer, amount)
           d == [disputer |-> disputer, counter |-> counter,
                 bond |-> amount, reason |-> reason]
           s == [r EXCEPT !.contributors = Append(r.contributors, c),
                          !.deadline = ExtendedDeadline(m),
                          !.disputes = Append(r.disputes, d)]
<1>1. /\ ~r.finalized /\ now < r.deadline /\ Len(r.disputes) < MaxDisputes
      /\ LockBond(m, disputer, amount)
      /\ resolution' = [resolution EXCEPT ![m] = s]
      /\ UNCHANGED registryVars
  BY DEF DisputeProposal, DisputeWindowOpen, MayAddDispute, Store
<1>2. /\ [RegistryNext]_registryVars /\ now' = now /\ market' = market
      /\ now \in Nat
  BY <1>1, RegistryStutters, ClockAdvances DEF AdapterInv
<1>3. /\ r \in ResolutionAccount /\ r.contributors \in Seq(Contributor)
      /\ r.disputes \in Seq(Dispute) /\ Len(r.disputes) \in Nat
      /\ r.deadline \in Nat /\ r.proposedAt \in Nat /\ r.bond \in Nat
  BY AccountFields
<1>4. /\ amount \in Nat /\ usdc' \in [Holder -> Nat] /\ bondVault' \in [Market -> Nat]
      /\ \A n \in Market : bondVault'[n] >= bondVault[n]
      /\ \A n \in Market : n # m => bondVault'[n] = bondVault[n]
  BY <1>1, LockBondEffect
<1>5. /\ s \in ResolutionAccount
      /\ s.category = r.category /\ s.proposed = r.proposed /\ s.bond = r.bond
      /\ s.proposedAt = r.proposedAt /\ s.deadline = now + DisputeExtension
      /\ Len(s.disputes) = Len(r.disputes) + 1 /\ s.finalized = FALSE
  <2>1. c \in Contributor /\ d \in Dispute
    BY <1>4 DEF Contribution, Contributor, Dispute
  <2>2. /\ Append(r.contributors, c) \in Seq(Contributor)
        /\ Append(r.disputes, d) \in Seq(Dispute)
        /\ Len(Append(r.disputes, d)) = Len(r.disputes) + 1
    BY <1>3, <2>1
  <2>3. ExtendedDeadline(m) = now + DisputeExtension /\ now + DisputeExtension \in Nat
    BY <1>2, AdapterAssumption DEF ExtendedDeadline
  <2>4. r.finalized = FALSE
    BY <1>1, AccountFields
  <2> HIDE DEF c, d
  <2> QED BY <1>3, <2>2, <2>3, <2>4 DEF ResolutionAccount
<1>6. /\ resolution \in [Market -> ResolutionAccount]
      /\ Sound(m)
  BY DEF AdapterInv, AdapterTypeOK
<1> HIDE DEF s
<1>7. resolution'[m] = s
  BY <1>1, <1>6
<1>8. /\ Proposed(m) /\ r.bond > 0 /\ Initialized(m)
      /\ r.deadline <= r.proposedAt + DisputeWindow + Delay(Len(r.disputes))
      /\ r.deadline <= now + DisputeExtension
  BY <1>1, <1>2, <1>6 DEF Sound, Schedule
<1>9. Sound(m)'
  <2>1. /\ Delay(Len(r.disputes)) \in Nat
        /\ Delay(Len(r.disputes) + 1) = Delay(Len(r.disputes)) + (DisputeExtension - 1)
    BY <1>3, DelayGrows
  <2>2. s.deadline <= s.proposedAt + DisputeWindow + Delay(Len(s.disputes))
    <3>1. Delay(Len(s.disputes)) = Delay(Len(r.disputes)) + (DisputeExtension - 1)
      BY <1>5, <2>1
    <3>2. /\ DisputeExtension \in Nat /\ DisputeWindow \in Nat
          /\ now \in Nat /\ now < r.deadline
          /\ s.deadline = now + DisputeExtension /\ s.proposedAt = r.proposedAt
      BY <1>1, <1>2, <1>5, AdapterAssumption
    <3>3. now + DisputeExtension
            <= r.proposedAt + DisputeWindow
                 + (Delay(Len(r.disputes)) + (DisputeExtension - 1))
      <4> DEFINE k == Delay(Len(r.disputes))
                 p == r.proposedAt
                 e == r.deadline
      <4>1. k \in Nat /\ p \in Nat /\ e \in Nat /\ now < e /\ e <= p + DisputeWindow + k
        BY <1>3, <1>8, <2>1, <3>2
      <4> HIDE DEF k, p, e
      <4>2. now + DisputeExtension <= p + DisputeWindow + (k + (DisputeExtension - 1))
        BY <3>2, <4>1
      <4> QED BY <4>2 DEF k, p
    <3> QED BY <3>1, <3>2, <3>3
  <2>3. Len(s.disputes) <= MaxDisputes
    BY <1>1, <1>3, <1>5 DEF MaxDisputes
  <2>4. Initialized(m)'
    BY <1>2, <1>8 DEF Initialized
  <2>5. s.deadline <= now' + DisputeExtension
    BY <1>2, <1>5, AdapterAssumption
  <2>6. Schedule(m)'
    BY <1>5, <1>7, <1>8, <2>2, <2>3, <2>4, <2>5 DEF Schedule, Proposed
  <2>7. Outcomes(m)'
    BY <1>5, <1>7 DEF Outcomes
  <2>8. ResolutionExists(m)'
    <3>1. NewResolution("None").proposed = "None"
      BY NewResolutionFacts
    <3> QED
      BY <1>5, <1>6, <1>7, <1>8, <3>1 DEF Sound, Unused, Proposed, ResolutionExists
  <2> QED BY <2>6, <2>7, <2>8 DEF Sound
<1>10. AdapterInv'
  BY <1>1, <1>2, <1>4, <1>5, <1>9, OneWritten
<1>11. Monotone(m)
  BY <1>1, <1>3, <1>4, <1>5, <1>7, <1>8 DEF Monotone
<1>12. \A n \in Market : n # m => Monotone(n)
  BY <1>1, <1>4, <1>6, MonotoneUnwritten
<1> QED BY <1>10, <1>11, <1>12

(* The winner takes the vault and the reward; wallets stay natural.        *)
LEMMA PayWinnerEffect ==
  ASSUME AdapterInv, NEW m \in Market, NEW winner \in Holder, NEW rewarder \in Holder,
         PayWinner(m, winner, rewarder)
  PROVE  /\ usdc' \in [Holder -> Nat]
         /\ bondVault' \in [Market -> Nat]
         /\ \A n \in Market : n # m => bondVault'[n] = bondVault[n]
<1> DEFINE paid == Credit(usdc, winner, bondVault[m])
<1>1. usdc \in [Holder -> Nat] /\ bondVault \in [Market -> Nat] /\ bondVault[m] \in Nat
  BY DEF AdapterInv, AdapterTypeOK
<1>2. /\ bondVault' = [bondVault EXCEPT ![m] = 0]
      /\ OracleReward <= paid[rewarder]
      /\ usdc' = Move(paid, rewarder, winner, OracleReward)
  BY DEF PayWinner
<1>3. paid \in [Holder -> Nat]
  BY <1>1, CreditAccount
<1> HIDE DEF paid
<1>4. usdc' \in [Holder -> Nat]
  BY <1>2, <1>3, AdapterAssumption, MoveAccount
<1> QED BY <1>1, <1>2, <1>4

(* What both instructions that resolve a market write to the registry.     *)
LEMMA RecordOutcomeEffect ==
  ASSUME RegistryInv, NEW m \in Market, NEW outcome \in Outcome,
         RecordOutcome(m, outcome), now' = now
  PROVE  /\ IsResolved(m)' /\ market'[m].outcome = outcome
         /\ market'[m].resolvedAt = now /\ WindowEnd(m)' = WindowEnd(m)
<1>1. market \in [Market -> MarketAccount]
  BY DEF RegistryInv, RegistryTypeOK
<1>2. /\ market'[m].state = "Resolved" /\ market'[m].outcome = outcome
      /\ market'[m].resolvedAt = now /\ market'[m].expireAt = market[m].expireAt
  BY <1>1 DEF RecordOutcome, MarketAccount
<1> QED BY <1>2 DEF IsResolved, WindowEnd

(* Marking a resolution finalized changes nothing else the invariant reads *)
(* but perhaps the mark of an emergency.                                   *)
LEMMA FinalizedAccount ==
  ASSUME AdapterInv, NEW m \in Market, NEW e \in BOOLEAN
  PROVE  LET r == resolution[m]
             s == [r EXCEPT !.finalized = TRUE, !.emergency = e]
         IN /\ s \in ResolutionAccount
            /\ s.category = r.category /\ s.proposed = r.proposed /\ s.bond = r.bond
            /\ s.proposedAt = r.proposedAt /\ s.deadline = r.deadline
            /\ s.disputes = r.disputes /\ s.finalized = TRUE /\ s.emergency = e
BY AccountFields DEF ResolutionAccount

(* The two ways a resolution comes to be finalized: its market was not     *)
(* resolved, and now is, with everything else of its schedule as before.   *)
LEMMA FinalizingStep ==
  ASSUME AdapterInv, [RegistryNext]_registryVars, NEW m \in Market, NEW e \in BOOLEAN,
         ResolutionExists(m), ~IsResolved(m), now' = now,
         NEW outcome \in Outcome, RecordOutcome(m, outcome),
         resolution' = [resolution EXCEPT ![m] =
                          [resolution[m] EXCEPT !.finalized = TRUE, !.emergency = e]],
         usdc' \in [Holder -> Nat], bondVault' \in [Market -> Nat],
         \A n \in Market : n # m => bondVault'[n] = bondVault[n],
         ~e => /\ now >= resolution[m].deadline /\ now <= WindowEnd(m)
               /\ AcceptableOutcome(m, outcome)
  PROVE  AdapterInv' /\ \A n \in Market : Monotone(n)
<1> DEFINE r == resolution[m]
           s == [r EXCEPT !.finalized = TRUE, !.emergency = e]
<1>1. /\ s \in ResolutionAccount
      /\ s.category = r.category /\ s.proposed = r.proposed /\ s.bond = r.bond
      /\ s.proposedAt = r.proposedAt /\ s.deadline = r.deadline
      /\ s.disputes = r.disputes /\ s.finalized = TRUE /\ s.emergency = e
  BY FinalizedAccount
<1>2. resolution \in [Market -> ResolutionAccount] /\ Sound(m) /\ r.deadline \in Nat
  BY AccountFields DEF AdapterInv, AdapterTypeOK
<1>3. resolution' = [resolution EXCEPT ![m] = s]
  OBVIOUS
<1> HIDE DEF s
<1>4. resolution'[m] = s
  BY <1>2, <1>3
<1>5. /\ IsResolved(m)' /\ market'[m].outcome = outcome
      /\ market'[m].resolvedAt = now /\ WindowEnd(m)' = WindowEnd(m)
  BY RecordOutcomeEffect DEF AdapterInv
<1>6. ~r.finalized
  BY <1>2 DEF Sound, Outcomes
<1>7. Sound(m)'
  <2>1. Initialized(m)'
    BY <1>5 DEF Initialized, IsResolved
  <2>2. Schedule(m)'
    BY <1>1, <1>2, <1>4, <2>1 DEF Sound, Schedule, Proposed
  <2>3. Disputed(m)' = Disputed(m) /\ Asserted(m)' = Asserted(m)
    BY <1>1, <1>4 DEF Disputed, Asserted, CounterOutcomes
  <2>4. ~e /\ Disputed(m) => outcome \in Asserted(m)
    BY DEF AcceptableOutcome, Asserted
  <2>5. Outcomes(m)'
    BY <1>1, <1>4, <1>5, <2>3, <2>4 DEF Outcomes
  <2>6. ResolutionExists(m)'
    BY <1>1, <1>4 DEF ResolutionExists
  <2> QED BY <2>2, <2>5, <2>6 DEF Sound
<1>8. AdapterInv'
  BY <1>1, <1>3, <1>7, OneWritten
<1>9. Monotone(m)
  BY <1>1, <1>2, <1>4, <1>6 DEF Monotone
<1>10. \A n \in Market : n # m => Monotone(n)
  BY <1>2, <1>3, MonotoneUnwritten
<1> QED BY <1>8, <1>9, <1>10

(* finalize_outcome records its winner between the deadline and the end of *)
(* the registry's window.                                                  *)
LEMMA FinalizeOutcomeStep ==
  ASSUME AdapterInv, NEW m \in Market, NEW k \in Key, NEW outcome \in Outcome,
         NEW winner \in Holder, NEW rewarder \in Holder,
         FinalizeOutcome(m, k, outcome, winner, rewarder)
  PROVE  AdapterInv' /\ \A n \in Market : Monotone(n)
<1>1. FinalizeMarket(m, k, outcome)
  BY DEF FinalizeOutcome
<1>2. [RegistryNext]_registryVars
  BY <1>1 DEF RegistryNext, RegistryInstruction, AdapterInstruction
<1>3. /\ ~IsResolved(m) /\ now' = now /\ now <= WindowEnd(m) /\ RecordOutcome(m, outcome)
  BY <1>1 DEF FinalizeMarket, InResolutionWindow
<1>4. /\ ResolutionExists(m) /\ AcceptableOutcome(m, outcome)
      /\ now >= resolution[m].deadline
      /\ resolution' = [resolution EXCEPT ![m].finalized = TRUE]
      /\ PayWinner(m, winner, rewarder)
  BY DEF FinalizeOutcome, DisputeWindowClosed
<1>5. /\ usdc' \in [Holder -> Nat] /\ bondVault' \in [Market -> Nat]
      /\ \A n \in Market : n # m => bondVault'[n] = bondVault[n]
  BY <1>4, PayWinnerEffect
<1>6. resolution[m] \in ResolutionAccount /\ resolution[m].emergency \in BOOLEAN
  BY AccountFields DEF ResolutionAccount
<1>7. [resolution[m] EXCEPT !.finalized = TRUE, !.emergency = resolution[m].emergency]
        = [resolution[m] EXCEPT !.finalized = TRUE]
  BY <1>6 DEF ResolutionAccount
<1>8. resolution' = [resolution EXCEPT ![m] =
        [resolution[m] EXCEPT !.finalized = TRUE, !.emergency = resolution[m].emergency]]
  BY <1>4, <1>7
<1> QED
  BY <1>2, <1>3, <1>4, <1>5, <1>6, <1>8, FinalizingStep

(* emergency_resolve marks what it finalizes as an emergency.              *)
LEMMA EmergencyResolveStep ==
  ASSUME AdapterInv, NEW m \in Market, NEW k \in Key, NEW outcome \in Outcome,
         EmergencyResolve(m, k, outcome)
  PROVE  AdapterInv' /\ \A n \in Market : Monotone(n)
<1>1. EmergencyFinalizeMarket(m, k, outcome)
  BY DEF EmergencyResolve
<1>2. [RegistryNext]_registryVars
  BY <1>1 DEF RegistryNext, RegistryInstruction, CreatorInstruction
<1>3. ~IsResolved(m) /\ now' = now /\ RecordOutcome(m, outcome)
  BY <1>1 DEF EmergencyFinalizeMarket
<1>4. /\ ResolutionExists(m)
      /\ resolution' = [resolution EXCEPT ![m].finalized = TRUE, ![m].emergency = TRUE]
      /\ bondVault' = bondVault /\ usdc' = usdc
  BY DEF EmergencyResolve
<1>5. /\ resolution \in [Market -> ResolutionAccount]
      /\ bondVault' \in [Market -> Nat] /\ usdc' \in [Holder -> Nat]
  BY <1>4 DEF AdapterInv, AdapterTypeOK
<1>6. resolution' = [resolution EXCEPT ![m] =
        [resolution[m] EXCEPT !.finalized = TRUE, !.emergency = TRUE]]
  BY <1>4, <1>5
<1> QED
  BY <1>2, <1>3, <1>4, <1>5, <1>6, FinalizingStep

(* The registry's own instructions leave every resolution sound.           *)
LEMMA RegistryStepSound ==
  ASSUME AdapterInv, [RegistryNext]_registryVars, UNCHANGED adapterVars
  PROVE  AdapterInv' /\ \A n \in Market : Monotone(n)
<1>1. resolution' = resolution /\ bondVault' = bondVault /\ usdc' = usdc
  BY DEF adapterVars
<1>2. RegistryInv'
  BY RegistryStepInv DEF AdapterInv
<1>3. \A m \in Market : Sound(m)'
  BY <1>1, SoundUnwritten
<1>4. AdapterTypeOK'
  BY <1>1, <1>2 DEF AdapterInv, AdapterTypeOK, RegistryInv
<1> QED
  BY <1>1, <1>2, <1>3, <1>4, MonotoneUnwritten DEF AdapterInv

-----------------------------------------------------------------------------
(* The invariant is inductive, and every step is monotone.                 *)
LEMMA AdapterStepInv ==
  ASSUME AdapterInv, [AdapterNext]_allVars
  PROVE  AdapterInv' /\ \A n \in Market : Monotone(n)
<1>1. CASE RegistryNext /\ UNCHANGED adapterVars
  BY <1>1, RegistryStepSound
<1>2. CASE UNCHANGED allVars
  BY <1>2, RegistryStepSound DEF allVars
<1>3. ASSUME NEW m \in Market, ParticipantInstruction(m)
      PROVE  AdapterInv' /\ \A n \in Market : Monotone(n)
  <2>1. PICK h \in Holder, outcome \in Outcome, amount \in Amount :
          \/ \E sources \in SourceBytes :
                \/ ProposeCryptoOutcome(m, h, outcome, amount, sources)
                \/ ProposeSportsOutcome(m, h, outcome, amount, sources)
          \/ \E reason \in ReasonBytes : DisputeProposal(m, h, outcome, amount, reason)
    BY <1>3 DEF ParticipantInstruction
  <2>2. ASSUME NEW sources \in SourceBytes,
               \/ ProposeCryptoOutcome(m, h, outcome, amount, sources)
               \/ ProposeSportsOutcome(m, h, outcome, amount, sources)
        PROVE  AdapterInv' /\ \A n \in Market : Monotone(n)
    <3>1. PICK category \in Category :
            ProposeOutcome(m, category, h, outcome, amount, sources)
      BY <2>2 DEF ProposeCryptoOutcome, ProposeSportsOutcome, Category
    <3> QED BY <3>1, ProposeOutcomeStep
  <2>3. ASSUME NEW reason \in ReasonBytes,
               DisputeProposal(m, h, outcome, amount, reason)
        PROVE  AdapterInv' /\ \A n \in Market : Monotone(n)
    BY <2>3, DisputeProposalStep
  <2> QED BY <2>1, <2>2, <2>3
<1>4. ASSUME NEW m \in Market, AuthorityInstruction(m)
      PROVE  AdapterInv' /\ \A n \in Market : Monotone(n)
  BY <1>4, InitializeResolutionStep, FinalizeOutcomeStep, EmergencyResolveStep
     DEF AuthorityInstruction
<1> QED
  BY <1>1, <1>2, <1>3, <1>4 DEF AdapterNext

(* Every account and balance always holds values of its type.              *)
THEOREM AdapterTypeCorrect == AdapterSpec => []AdapterTypeOK
<1>1. AdapterInv => AdapterTypeOK
  BY DEF AdapterInv
<1>2. AdapterInv /\ [AdapterNext]_allVars => AdapterInv'
  BY AdapterStepInv
<1> QED
  BY <1>1, <1>2, AdapterInitInv, PTL DEF AdapterSpec

(* What disputes can delay fits between an early proposal and the end of   *)
(* the registry's window.                                                  *)
LEMMA ScheduleEndsInTime == AdapterInv => DisputesLeaveTimeToFinalize
<1> SUFFICES ASSUME AdapterInv, NEW m \in Market, EarlyProposal(m)
             PROVE  resolution[m].deadline <= WindowEnd(m)
  BY DEF DisputesLeaveTimeToFinalize
<1> DEFINE r == resolution[m]
<1>1. /\ r.deadline \in Nat /\ r.proposedAt \in Nat /\ Len(r.disputes) \in Nat
  BY AccountFields
<1>2. /\ r.deadline <= r.proposedAt + DisputeWindow + Delay(Len(r.disputes))
      /\ Len(r.disputes) <= MaxDisputes
  BY DEF AdapterInv, Sound, Schedule, Proposed, EarlyProposal
<1>3. /\ Delay(Len(r.disputes)) \in Nat
      /\ DisputeWindow + Delay(Len(r.disputes)) <= LongestDispute
  BY <1>1, <1>2, DelayGrows
<1>4. r.proposedAt + LongestDispute <= WindowEnd(m)
  BY DEF EarlyProposal
<1>5. LongestDispute \in Int
  BY AdapterAssumption DEF LongestDispute, MaxDisputes
<1>6. WindowEnd(m) \in Int
  <2>1. market[m].expireAt \in Int
    BY DurationAssumption
       DEF AdapterInv, RegistryInv, RegistryTypeOK, MarketAccount, Timestamp, NotYet
  <2> QED BY <2>1, DurationAssumption DEF WindowEnd
<1>7. r.deadline <= WindowEnd(m)
  <2> DEFINE k == Delay(Len(r.disputes))
             p == r.proposedAt
             e == r.deadline
             end == WindowEnd(m)
             long == LongestDispute
  <2>1. /\ k \in Nat /\ p \in Nat /\ e \in Nat /\ DisputeWindow \in Nat
        /\ end \in Int /\ long \in Int
        /\ e <= p + DisputeWindow + k /\ DisputeWindow + k <= long /\ p + long <= end
    BY <1>1, <1>2, <1>3, <1>4, <1>5, <1>6, AdapterAssumption
  <2> HIDE DEF k, p, e, end, long
  <2>2. e <= end
    BY <2>1
  <2> QED BY <2>2 DEF e, end
<1> QED BY <1>7

(* No chain of disputes takes an early proposal past the registry's        *)
(* window.                                                                 *)
THEOREM DisputesEndInTime == AdapterSpec => []DisputesLeaveTimeToFinalize
<1>1. AdapterInv /\ [AdapterNext]_allVars => AdapterInv'
  BY AdapterStepInv
<1> QED
  BY <1>1, ScheduleEndsInTime, AdapterInitInv, PTL DEF AdapterSpec

(* What the adapter has finalized is what the registry pays by.            *)
THEOREM FinalizedOutcomesStand == AdapterSpec => []FinalizedOutcomeStands
<1>1. AdapterInv => FinalizedOutcomeStands
  BY DEF AdapterInv, Sound, Outcomes, FinalizedOutcomeStands
<1>2. AdapterInv /\ [AdapterNext]_allVars => AdapterInv'
  BY AdapterStepInv
<1> QED
  BY <1>1, <1>2, AdapterInitInv, PTL DEF AdapterSpec

(* No dispute brings a deadline forward.                                   *)
THEOREM DeadlinesOnlyExtend == AdapterSpec => DeadlineNeverRecedes
<1>1. AdapterInv /\ [AdapterNext]_allVars =>
        AdapterInv' /\ [\A m \in Market :
                          resolution'[m].deadline >= resolution[m].deadline]_allVars
  BY AdapterStepInv DEF Monotone
<1> QED
  BY <1>1, AdapterInitInv, PTL DEF AdapterSpec, DeadlineNeverRecedes

(* A finalized resolution and its empty, or stranded, vault never change.  *)
THEOREM FinalizedForGood == AdapterSpec => FinalizedIsFrozen
<1>1. AdapterInv /\ [AdapterNext]_allVars =>
        AdapterInv' /\ [\A m \in Market :
                          resolution[m].finalized =>
                            resolution'[m] = resolution[m] /\ bondVault'[m] = bondVault[m]]_allVars
  BY AdapterStepInv DEF Monotone
<1> QED
  BY <1>1, AdapterInitInv, PTL DEF AdapterSpec, FinalizedIsFrozen

(* The adapter changes a market only as the registry would.                *)
LEMMA AdapterCallsRegistry ==
  ASSUME NEW m \in Market, ParticipantInstruction(m) \/ AuthorityInstruction(m)
  PROVE  [RegistryNext]_registryVars
<1>1. CASE ParticipantInstruction(m)
  <2>1. ASSUME NEW category, NEW h, NEW outcome, NEW amount, NEW sources,
               ProposeOutcome(m, category, h, outcome, amount, sources)
        PROVE  UNCHANGED registryVars
    BY <2>1 DEF ProposeOutcome
  <2>2. ASSUME NEW h, NEW outcome, NEW amount, NEW reason,
               DisputeProposal(m, h, outcome, amount, reason)
        PROVE  UNCHANGED registryVars
    BY <2>2 DEF DisputeProposal
  <2> QED
    BY <1>1, <2>1, <2>2, Zenon
       DEF ParticipantInstruction, ProposeCryptoOutcome, ProposeSportsOutcome
<1>2. CASE AuthorityInstruction(m)
  <2>1. ASSUME NEW category \in Category, InitializeResolution(m, category)
        PROVE  UNCHANGED registryVars
    BY <2>1 DEF InitializeResolution
  <2>2. ASSUME NEW k \in Key, NEW outcome \in Outcome,
               NEW winnerAccount \in Holder, NEW rewarder \in Holder,
               FinalizeOutcome(m, k, outcome, winnerAccount, rewarder)
        PROVE  RegistryNext
    BY <2>2 DEF FinalizeOutcome, RegistryNext, RegistryInstruction, AdapterInstruction
  <2>3. ASSUME NEW k \in Key, NEW outcome \in Outcome, EmergencyResolve(m, k, outcome)
        PROVE  RegistryNext
    BY <2>3 DEF EmergencyResolve, RegistryNext, RegistryInstruction, CreatorInstruction
  <2> QED BY <1>2, <2>1, <2>2, <2>3 DEF AuthorityInstruction
<1> QED
  BY <1>1, <1>2

(* What a bond vault holds when its market is resolved around              *)
(* finalize_outcome, by emergency_resolve, cancel_market or its adapter    *)
(* key's own finalize_market, it holds for ever, whatever the program's    *)
(* users do: no instruction makes the refund emergency_resolve asks for.   *)
THEOREM BypassedBondsStay ==
  ASSUME NEW m \in Market, NEW b \in Nat
  PROVE  AdapterSpec => [](IsResolved(m) /\ bondVault[m] >= b => [](bondVault[m] >= b))
<1> DEFINE Shut == IsResolved(m) /\ bondVault[m] >= b
<1>1. AdapterInv /\ Shut /\ [AdapterNext]_allVars => AdapterInv' /\ Shut'
  <2> SUFFICES ASSUME AdapterInv, Shut, [AdapterNext]_allVars
               PROVE  AdapterInv' /\ Shut'
    OBVIOUS
  <2>1. AdapterInv' /\ bondVault'[m] >= bondVault[m]
    BY AdapterStepInv DEF Monotone
  <2>2. market'[m] = market[m]
    <3>1. [RegistryNext]_registryVars
      BY AdapterCallsRegistry DEF AdapterNext, allVars
    <3> QED BY <3>1, ResolvedIsFinal DEF AdapterInv
  <2>3. bondVault[m] \in Nat /\ bondVault'[m] \in Nat
    BY <2>1 DEF AdapterInv, AdapterTypeOK
  <2> QED BY <2>1, <2>2, <2>3 DEF IsResolved
<1>2. AdapterInv /\ [AdapterNext]_allVars => AdapterInv'
  BY AdapterStepInv
<1>3. Shut => bondVault[m] >= b
  OBVIOUS
<1> QED
  BY <1>1, <1>2, <1>3, AdapterInitInv, PTL DEF AdapterSpec

-----------------------------------------------------------------------------
(* Contributions.  A bond vault's books need one more fact to be           *)
(* inductive: only a finalized resolution is marked an emergency, so       *)
(* finalize_outcome, which empties the vault, leaves no such mark.         *)

Total(c) == SumOver(DOMAIN c, [i \in DOMAIN c |-> c[i].amount])

PaidOut(m) == resolution[m].finalized /\ ~resolution[m].emergency

Accounted(m) ==
    LET r == resolution[m] IN
    /\ PaidOut(m) => bondVault[m] = 0
    /\ ~PaidOut(m) => bondVault[m] = Total(r.contributors)
    /\ ~Proposed(m) => Len(r.contributors) = Len(r.disputes)
    /\ Proposed(m) => Len(r.contributors) = Len(r.disputes) + 1
    /\ r.emergency => r.finalized

(* A contribution adds its amount.                                         *)
LEMMA ContributionAdds ==
  ASSUME NEW c \in Seq(Contributor), NEW h \in Holder, NEW amount \in Nat
  PROVE  LET d == Append(c, Contribution(h, amount)) IN
         Total(d) = Total(c) + amount /\ Len(d) = Len(c) + 1
<1> DEFINE d == Append(c, Contribution(h, amount))
           n == Len(c)
           a == [i \in DOMAIN c |-> c[i].amount]
           b == [i \in DOMAIN d |-> d[i].amount]
<1>1. n \in Nat /\ DOMAIN c = 1..n /\ DOMAIN d = 1..(n + 1) /\ Len(d) = n + 1
  OBVIOUS
<1>2. /\ \A i \in 1..n : c[i] \in Contributor /\ d[i] = c[i]
      /\ d[n + 1] = Contribution(h, amount)
  OBVIOUS
<1> HIDE DEF d, n
<1>3. \A i \in 1..n : a[i] \in Nat /\ b[i] = a[i]
  BY <1>1, <1>2 DEF Contributor
<1>4. b[n + 1] = amount
  BY <1>1, <1>2 DEF Contribution
<1> HIDE DEF a, b
<1>5. SumOver(1..(n + 1), b) = SumOver(1..n, a) + b[n + 1]
  BY <1>1, <1>3, <1>4, SumAppended
<1>6. Total(d) = Total(c) + amount
  BY <1>1, <1>4, <1>5 DEF Total, a, b
<1> QED
  BY <1>1, <1>6 DEF d, n

(* Where nothing was proposed the bond vault is empty.                     *)
LEMMA AccountedInit ==
  ASSUME AdapterInit, NEW m \in Market
  PROVE  Accounted(m)
<1>1. /\ resolution[m] = NewResolution("None") /\ bondVault[m] = 0
  BY DEF AdapterInit
<1>2. Total(<<>>) = 0
  <2>1. DOMAIN <<>> = {}
    OBVIOUS
  <2> QED BY <2>1, SumOfNone DEF Total
<1> QED
  BY <1>1, <1>2 DEF Accounted, PaidOut, Proposed, NewResolution

(* A market whose resolution and bonds are untouched stays accounted for.  *)
LEMMA AccountedUnwritten ==
  ASSUME NEW m \in Market, Accounted(m),
         resolution'[m] = resolution[m], bondVault'[m] = bondVault[m]
  PROVE  Accounted(m)'
BY DEF Accounted, PaidOut, Proposed

(* A proposal or a dispute: one contribution, of what enters the vault.    *)
LEMMA ContributingStep ==
  ASSUME AdapterInv, NEW m \in Market, Accounted(m),
         NEW h \in Holder, NEW amount \in Amount, LockBond(m, h, amount),
         NEW s, resolution' = [resolution EXCEPT ![m] = s],
         ~resolution[m].finalized, s.finalized = FALSE,
         s.emergency = resolution[m].emergency,
         s.contributors = Append(resolution[m].contributors, Contribution(h, amount)),
         s.proposed = "None" => Len(s.contributors) = Len(s.disputes),
         s.proposed # "None" => Len(s.contributors) = Len(s.disputes) + 1
  PROVE  \A n \in Market : Accounted(n) => Accounted(n)'
<1> DEFINE c == resolution[m].contributors
<1>1. resolution \in [Market -> ResolutionAccount] /\ bondVault \in [Market -> Nat]
  BY DEF AdapterInv, AdapterTypeOK
<1>2. c \in Seq(Contributor) /\ amount \in Nat
  BY AccountFields, LockBondEffect
<1>3. /\ resolution'[m] = s
      /\ \A n \in Market : n # m => resolution'[n] = resolution[n]
  BY <1>1
<1>4. /\ bondVault'[m] = bondVault[m] + amount
      /\ \A n \in Market : n # m => bondVault'[n] = bondVault[n]
  BY <1>1 DEF LockBond, Credit
<1>5. bondVault[m] = Total(c) /\ resolution[m].emergency = FALSE
  <2>1. resolution[m].emergency \in BOOLEAN
    BY <1>1 DEF ResolutionAccount
  <2> QED BY <2>1 DEF Accounted, PaidOut, Proposed
<1> HIDE DEF c
<1>6. Total(s.contributors) = Total(c) + amount
  <2>1. s.contributors = Append(c, Contribution(h, amount))
    BY DEF c
  <2> QED BY <1>2, <2>1, ContributionAdds
<1>7. Accounted(m)'
  BY <1>3, <1>4, <1>5, <1>6 DEF Accounted, PaidOut, Proposed
<1> QED
  BY <1>3, <1>4, <1>7, AccountedUnwritten

(* The first contribution is the bond that comes with it.                  *)
LEMMA ProposeOutcomeAccounted ==
  ASSUME AdapterInv, \A n \in Market : Accounted(n), NEW m \in Market,
         NEW category \in Category,
         NEW proposer \in Holder, NEW outcome \in Outcome, NEW amount \in Amount,
         NEW sources \in SourceBytes,
         ProposeOutcome(m, category, proposer, outcome, amount, sources)
  PROVE  \A n \in Market : Accounted(n)'
<1> DEFINE r == resolution[m]
           c == Contribution(proposer, amount)
           s == [r EXCEPT !.proposer = proposer,
                          !.proposed = outcome,
                          !.bond = amount,
                          !.proposedAt = now,
                          !.deadline = now + DisputeWindow,
                          !.sources = sources,
                          !.contributors = Append(r.contributors, c)]
<1>1. /\ ~r.finalized /\ r.bond = 0 /\ LockBond(m, proposer, amount)
      /\ resolution' = [resolution EXCEPT ![m] = s]
  BY DEF ProposeOutcome, Store
<1>2. /\ r \in ResolutionAccount /\ r.contributors \in Seq(Contributor)
      /\ r.finalized \in BOOLEAN
  BY AccountFields
<1> HIDE DEF c
<1>3. /\ s.proposed = outcome /\ s.disputes = r.disputes /\ s.finalized = r.finalized
      /\ s.emergency = r.emergency
      /\ s.contributors = Append(r.contributors, c)
  BY <1>2 DEF ResolutionAccount
<1> HIDE DEF s
<1>4. r.proposed = "None"
  BY <1>1 DEF AdapterInv, Sound, Schedule, Proposed
<1>5. Len(s.contributors) = Len(s.disputes) + 1 /\ s.proposed # "None"
  <2>1. Len(r.contributors) = Len(r.disputes)
    <3>1. Len(r.disputes) \in Nat
      BY AccountFields
    <3> QED BY <1>4, <3>1 DEF Accounted, PaidOut, Proposed
  <2>2. Len(Append(r.contributors, c)) = Len(r.contributors) + 1
    BY <1>2
  <2> QED BY <1>3, <2>1, <2>2 DEF Outcome
<1> QED
  BY <1>1, <1>2, <1>3, <1>5, ContributingStep DEF c

(* A dispute adds one contribution of the bond that comes with it.         *)
LEMMA DisputeProposalAccounted ==
  ASSUME AdapterInv, \A n \in Market : Accounted(n), NEW m \in Market,
         NEW disputer \in Holder,
         NEW counter \in Outcome, NEW amount \in Amount, NEW reason \in ReasonBytes,
         DisputeProposal(m, disputer, counter, amount, reason)
  PROVE  \A n \in Market : Accounted(n)'
<1> DEFINE r == resolution[m]
           c == Contribution(disputer, amount)
           d == [disputer |-> disputer, counter |-> counter,
                 bond |-> amount, reason |-> reason]
           s == [r EXCEPT !.contributors = Append(r.contributors, c),
                          !.deadline = ExtendedDeadline(m),
                          !.disputes = Append(r.disputes, d)]
<1>1. /\ ~r.finalized /\ now < r.deadline /\ LockBond(m, disputer, amount)
      /\ resolution' = [resolution EXCEPT ![m] = s]
  BY DEF DisputeProposal, DisputeWindowOpen, Store
<1>2. /\ r \in ResolutionAccount /\ r.contributors \in Seq(Contributor)
      /\ r.disputes \in Seq(Dispute) /\ Len(r.disputes) \in Nat
      /\ r.finalized \in BOOLEAN
  BY AccountFields
<1> HIDE DEF c, d
<1>3. /\ s.proposed = r.proposed /\ s.finalized = r.finalized
      /\ s.emergency = r.emergency
      /\ s.disputes = Append(r.disputes, d)
      /\ s.contributors = Append(r.contributors, c)
  BY <1>2 DEF ResolutionAccount
<1> HIDE DEF s
<1>4. /\ s.proposed = "None" => Len(s.contributors) = Len(s.disputes)
      /\ s.proposed # "None" => Len(s.contributors) = Len(s.disputes) + 1
  <2>1. /\ r.proposed = "None" => Len(r.contributors) = Len(r.disputes)
        /\ r.proposed # "None" => Len(r.contributors) = Len(r.disputes) + 1
    <3>1. Accounted(m)
      OBVIOUS
    <3> QED BY <3>1 DEF Accounted, Proposed
  <2>2. /\ Len(Append(r.contributors, c)) = Len(r.contributors) + 1
        /\ Len(Append(r.disputes, d)) = Len(r.disputes) + 1
    BY <1>2
  <2> QED BY <1>3, <2>1, <2>2
<1> QED
  BY <1>1, <1>2, <1>3, <1>4, ContributingStep DEF c

(* Creating a resolution adds neither a contribution nor a bond.           *)
LEMMA InitializeResolutionAccounted ==
  ASSUME AdapterInv, \A n \in Market : Accounted(n), NEW m \in Market,
         NEW category \in Category, InitializeResolution(m, category)
  PROVE  \A n \in Market : Accounted(n)'
<1>1. resolution \in [Market -> ResolutionAccount]
  BY DEF AdapterInv, AdapterTypeOK
<1>2. /\ resolution[m] = NewResolution("None") /\ bondVault' = bondVault
      /\ resolution'[m] = NewResolution(category)
      /\ \A n \in Market : n # m => resolution'[n] = resolution[n]
  BY <1>1 DEF InitializeResolution, AdapterInv, Sound, Unused
<1>3. Accounted(m)'
  BY <1>2 DEF Accounted, PaidOut, Proposed, NewResolution
<1> QED
  BY <1>2, <1>3, AccountedUnwritten

(* finalize_outcome empties the vault; emergency_resolve leaves it alone.  *)
LEMMA FinalizeOutcomeAccounted ==
  ASSUME AdapterInv, \A n \in Market : Accounted(n), NEW m \in Market,
         NEW k \in Key, NEW outcome \in Outcome,
         NEW winner \in Holder, NEW rewarder \in Holder,
         FinalizeOutcome(m, k, outcome, winner, rewarder)
  PROVE  \A n \in Market : Accounted(n)'
<1>1. resolution \in [Market -> ResolutionAccount] /\ bondVault \in [Market -> Nat]
  BY DEF AdapterInv, AdapterTypeOK
<1>2. /\ ~resolution[m].finalized
      /\ resolution' = [resolution EXCEPT ![m].finalized = TRUE]
      /\ bondVault' = [bondVault EXCEPT ![m] = 0]
  BY DEF FinalizeOutcome, PayWinner
<1>3. /\ bondVault'[m] = 0 /\ resolution'[m].finalized = TRUE
      /\ resolution'[m].emergency = resolution[m].emergency
      /\ resolution'[m].disputes = resolution[m].disputes
      /\ resolution'[m].contributors = resolution[m].contributors
      /\ resolution'[m].proposed = resolution[m].proposed
      /\ \A n \in Market : n # m =>
            resolution'[n] = resolution[n] /\ bondVault'[n] = bondVault[n]
  BY <1>1, <1>2 DEF ResolutionAccount
<1>4. Accounted(m)'
  BY <1>2, <1>3 DEF Accounted, PaidOut, Proposed
<1> QED
  BY <1>3, <1>4, AccountedUnwritten

(* emergency_resolve leaves contributions and bonds where they are.        *)
LEMMA EmergencyResolveAccounted ==
  ASSUME AdapterInv, \A n \in Market : Accounted(n), NEW m \in Market,
         NEW k \in Key, NEW outcome \in Outcome, EmergencyResolve(m, k, outcome)
  PROVE  \A n \in Market : Accounted(n)'
<1>1. resolution \in [Market -> ResolutionAccount]
  BY DEF AdapterInv, AdapterTypeOK
<1>2. /\ resolution' = [resolution EXCEPT ![m].finalized = TRUE, ![m].emergency = TRUE]
      /\ bondVault' = bondVault /\ ~IsResolved(m)
  BY DEF EmergencyResolve, EmergencyFinalizeMarket
<1>3. /\ resolution'[m].finalized = TRUE /\ resolution'[m].emergency = TRUE
      /\ resolution'[m].disputes = resolution[m].disputes
      /\ resolution'[m].contributors = resolution[m].contributors
      /\ resolution'[m].proposed = resolution[m].proposed
      /\ \A n \in Market : n # m => resolution'[n] = resolution[n]
  BY <1>1, <1>2 DEF ResolutionAccount
<1>4. ~resolution[m].finalized
  BY <1>2 DEF AdapterInv, Sound, Outcomes
<1>5. Accounted(m)'
  BY <1>2, <1>3, <1>4 DEF Accounted, PaidOut, Proposed
<1> QED
  BY <1>2, <1>3, <1>5, AccountedUnwritten

(* Every instruction of the adapter keeps every market accounted for.      *)
LEMMA ResolutionStepAccounted ==
  ASSUME AdapterInv, \A n \in Market : Accounted(n), NEW m \in Market,
         ParticipantInstruction(m) \/ AuthorityInstruction(m)
  PROVE  \A n \in Market : Accounted(n)'
<1>1. ASSUME NEW h \in Holder, NEW outcome \in Outcome, NEW amount \in Amount,
             NEW sources \in SourceBytes,
             \/ ProposeCryptoOutcome(m, h, outcome, amount, sources)
             \/ ProposeSportsOutcome(m, h, outcome, amount, sources)
      PROVE  \A n \in Market : Accounted(n)'
  <2>1. PICK category \in Category :
          ProposeOutcome(m, category, h, outcome, amount, sources)
    BY <1>1 DEF ProposeCryptoOutcome, ProposeSportsOutcome, Category
  <2> QED BY <2>1, ProposeOutcomeAccounted
<1>2. CASE ParticipantInstruction(m)
  BY <1>1, <1>2, DisputeProposalAccounted DEF ParticipantInstruction
<1>3. CASE AuthorityInstruction(m)
  BY <1>3, InitializeResolutionAccounted, FinalizeOutcomeAccounted, EmergencyResolveAccounted
     DEF AuthorityInstruction
<1> QED
  BY <1>2, <1>3

(* So does every step of the adapter over its registry.                    *)
LEMMA AccountedStep ==
  ASSUME AdapterInv, \A m \in Market : Accounted(m), [AdapterNext]_allVars
  PROVE  \A m \in Market : Accounted(m)'
<1>1. CASE UNCHANGED adapterVars
  BY <1>1, AccountedUnwritten DEF adapterVars
<1>2. CASE UNCHANGED allVars
  BY <1>1, <1>2 DEF allVars
<1> QED
  BY <1>1, <1>2, ResolutionStepAccounted DEF AdapterNext

(* The books kept by Accounted are what the vault holds.                   *)
LEMMA BalancesAccountedFor ==
  AdapterInv /\ (\A m \in Market : Accounted(m)) => BondsAccountedFor
<1> SUFFICES ASSUME AdapterInv, \A n \in Market : Accounted(n), NEW m \in Market
             PROVE  LET r == resolution[m] IN
                    /\ bondVault[m] = IF r.finalized /\ ~r.emergency THEN 0 ELSE ContributedTo(m)
                    /\ Len(r.contributors)
                         = Len(r.disputes) + (IF r.proposed = "None" THEN 0 ELSE 1)
  BY DEF BondsAccountedFor
<1>1. Accounted(m)
  OBVIOUS
<1>2. bondVault[m] = IF PaidOut(m) THEN 0 ELSE ContributedTo(m)
  BY <1>1 DEF Accounted, Total, ContributedTo
<1>3. Len(resolution[m].disputes) \in Nat
  BY AccountFields
<1>4. Len(resolution[m].contributors)
        = Len(resolution[m].disputes) + (IF resolution[m].proposed = "None" THEN 0 ELSE 1)
  <2>1. CASE Proposed(m)
    BY <1>1, <2>1 DEF Accounted, Proposed
  <2>2. CASE ~Proposed(m)
    <3> DEFINE k == Len(resolution[m].disputes)
               j == Len(resolution[m].contributors)
    <3>1. j = k /\ k \in Nat /\ resolution[m].proposed = "None"
      BY <1>1, <1>3, <2>2 DEF Accounted, Proposed
    <3> HIDE DEF k, j
    <3>2. j = k + 0
      BY <3>1
    <3> QED BY <3>1, <3>2 DEF k, j
  <2> QED BY <2>1, <2>2
<1> QED BY <1>2, <1>4 DEF PaidOut

(* No bond goes astray: a vault holds its contributions, one for every     *)
(* proposal and dispute, until one transfer empties it.                    *)
THEOREM BondsAreAccountedFor == AdapterSpec => []BondsAccountedFor
<1> DEFINE Inv == AdapterInv /\ \A m \in Market : Accounted(m)
<1>1. AdapterInit => Inv
  BY AdapterInitInv, AccountedInit
<1>2. Inv /\ [AdapterNext]_allVars => Inv'
  BY AdapterStepInv, AccountedStep
<1>3. Inv => BondsAccountedFor
  BY BalancesAccountedFor
<1> HIDE DEF Inv
<1> QED
  BY <1>1, <1>2, <1>3, PTL DEF AdapterSpec

-----------------------------------------------------------------------------
(* Room.                                                                   *)

(* Disputes take at most what the account was created with for as many.    *)
LEMMA DisputesTake ==
  ASSUME NEW d \in Seq(Dispute), Len(d) <= 2
  PROVE  LET a == [i \in DOMAIN d |-> SerializedDispute(d[i].reason)] IN
         SumOver(DOMAIN d, a) \in Nat /\ SumOver(DOMAIN d, a) <= 2 * DisputeLen
<1> DEFINE a == [i \in DOMAIN d |-> SerializedDispute(d[i].reason)]
<1>1. /\ DOMAIN d = 1..Len(d) /\ Len(d) \in Nat
      /\ \A i \in DOMAIN d : d[i] \in Dispute
  OBVIOUS
<1>2. \A i \in DOMAIN d : a[i] \in Nat /\ a[i] <= DisputeLen
  <2> SUFFICES ASSUME NEW i \in DOMAIN d
               PROVE  a[i] \in Nat /\ a[i] <= DisputeLen
    OBVIOUS
  <2>1. d[i].reason \in 1..100
    BY <1>1, AdapterAssumption DEF Dispute
  <2>2. a[i] = SerializedDispute(d[i].reason)
    OBVIOUS
  <2>3. \A k \in 1..100 : SerializedDispute(k) \in Nat /\ SerializedDispute(k) <= DisputeLen
    BY DEF SerializedDispute, DisputeLen
  <2> QED BY <2>1, <2>2, <2>3
<1>3. IsFiniteSet(DOMAIN d) /\ Cardinality(DOMAIN d) = Len(d)
  <2> DEFINE n == Len(d)
  <2>1. DOMAIN d = 1..n /\ n \in Nat
    BY <1>1
  <2> HIDE DEF n
  <2>2. IsFiniteSet(1..n) /\ Cardinality(1..n) = n
    BY <2>1, FS_Interval
  <2> QED BY <2>1, <2>2 DEF n
<1>4. DisputeLen \in Nat
  BY DEF DisputeLen
<1> HIDE DEF a
<1>5. /\ SumOver(DOMAIN d, a) \in Nat
      /\ SumOver(DOMAIN d, a) <= Len(d) * DisputeLen
  BY <1>2, <1>3, <1>4, SumType, SumBounded
<1>6. Len(d) * DisputeLen <= 2 * DisputeLen
  BY <1>1 DEF DisputeLen
<1>7. SumOver(DOMAIN d, a) <= 2 * DisputeLen
  BY <1>1, <1>5, <1>6 DEF DisputeLen
<1> QED
  BY <1>5, <1>7 DEF a

(* The account's parts, at their longest, add up to no more than its space.*)
LEMMA DocumentedSourcesFit ==
  AdapterInv /\ (\A m \in Market : Accounted(m)) => DocumentedSourcesLeaveRoom
<1> SUFFICES ASSUME AdapterInv, \A n \in Market : Accounted(n), NEW m \in Market,
                    resolution[m].sources <= MaxDataSources * DataSourceLen,
                    resolution[m].proposed # "None", MayAddDispute(m),
                    NEW reason \in ReasonBytes
             PROVE  SerializedLen(resolution[m]) + SerializedDispute(reason)
                      + ContributorLen <= ResolutionLen
  BY DEF DocumentedSourcesLeaveRoom, RoomForDispute
<1> DEFINE r == resolution[m]
           d == SumOver(DOMAIN r.disputes,
                        [i \in DOMAIN r.disputes |->
                           SerializedDispute(r.disputes[i].reason)])
           n == Len(r.contributors)
<1>1. /\ r.disputes \in Seq(Dispute) /\ Len(r.disputes) \in Nat
      /\ Len(r.disputes) <= 2
  BY AccountFields DEF MayAddDispute, MaxDisputes
<1>2. d \in Nat /\ d <= 2 * DisputeLen
  BY <1>1, DisputesTake
<1>3. n \in Nat /\ n <= 3
  BY <1>1 DEF Accounted, PaidOut, Proposed
<1>4. r.sources \in Nat
  <2>1. resolution[m] \in ResolutionAccount
    BY AccountFields
  <2>2. resolution[m].sources \in SourceBytes \cup {0}
    BY <2>1 DEF ResolutionAccount
  <2>3. CASE resolution[m].sources \in SourceBytes
    BY <2>3, AdapterAssumption
  <2> QED BY <2>2, <2>3
<1>5. reason \in 1..100
  BY AdapterAssumption
<1>6. SerializedLen(r)
        = 8 + 32 + 32 + 2 + 8 + 8 + 8 + 1 + (4 + r.sources) + 1 + 1
            + (4 + d) + 32 + 1 + (4 + ContributorLen * n) + 1
  BY DEF SerializedLen
<1> DEFINE q == r.sources
           l == SerializedLen(r)
<1>7. q <= MaxDataSources * DataSourceLen /\ q \in Nat
  BY <1>4
<1> HIDE DEF r, d, n, q
<1>8. l = 8 + 32 + 32 + 2 + 8 + 8 + 8 + 1 + (4 + q) + 1 + 1
            + (4 + d) + 32 + 1 + (4 + ContributorLen * n) + 1
  BY <1>6 DEF q
<1> HIDE DEF l
<1>9. l + SerializedDispute(reason) + ContributorLen <= ResolutionLen
  BY <1>2, <1>3, <1>5, <1>7, <1>8
     DEF SerializedDispute, ResolutionLen, DisputeLen, ContributorLen, DataSourceLen,
         OracleValueLen, MaxDataSources
<1> QED BY <1>9 DEF l, r

(* Where the sources are as short as the comments on the account's size    *)
(* say, no dispute within the limit fails for want of room.                *)
THEOREM DisputesFitDocumentedSources == AdapterSpec => []DocumentedSourcesLeaveRoom
<1> DEFINE Inv == AdapterInv /\ \A m \in Market : Accounted(m)
<1>1. AdapterInit => Inv
  BY AdapterInitInv, AccountedInit
<1>2. Inv /\ [AdapterNext]_allVars => Inv'
  BY AdapterStepInv, AccountedStep
<1>3. Inv => DocumentedSourcesLeaveRoom
  BY DocumentedSourcesFit
<1> HIDE DEF Inv
<1> QED
  BY <1>1, <1>2, <1>3, PTL DEF AdapterSpec
=============================================================================
