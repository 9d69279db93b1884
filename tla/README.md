# HydraMarket in TLA+

This directory specifies the three Solana programs of HydraMarket, binary
prediction markets settled in USDC, and says what has been checked with TLC
and proved with TLAPS about them. Paths below are relative to the repository's
`programs/`.

Summary: `MarketRegistry`, `EscrowVault`, `ResolutionAdapter`, `CryptoOracle` and
`SportsOracle` model every instruction of the programs, and `HydraMarket` puts
them together. Seven runs pass, five exhibit a disagreement between the code and
what it says of itself. Twenty-seven listed theorems hold for every value of the
constants; among them is every safety property the passing runs check.

## The system

| Part | State | Operations | Talks to |
|---|---|---|---|
| market-registry | one `Market` account per market: state, creator, adapter, expiry, metadata, outcome, resolution time | `initialize_market`, `open_market`, `pause_market`, `resume_market`, `resolving_market`, `finalize_market`, `cancel_market`, `emergency_finalize_market`, `update_market_metadata`; `assert_market_open / resolved / expired` | called by the two programs below |
| escrow-vault | one `EscrowVault` account per market, its USDC token account, the YES and NO mints and their holders' accounts | `initialize_vault`, `mint_pairs`, `settle`, `claim_payout`, `pause_minting`, `resume_minting` | reads the registry: `assert_market_open` in `mint_pairs`, `assert_market_resolved` in `settle`, the `Market` account itself in `claim_payout` |
| resolution-adapter | one `ResolutionProposal` account per market and its bond vault | `initialize_resolution`, `propose_crypto_outcome`, `propose_sports_outcome`, `dispute_proposal`, `finalize_outcome`, `emergency_resolve` | `assert_market_expired` in the propose instructions; `finalize_market` and `emergency_finalize_market` write the registry |
| oracle utilities (of the adapter) | none beyond an instruction | reading and normalizing Pyth prices, median, agreement; counting answers of sports sources | called by the propose instructions |
| SPL token program, Solana runtime | balances, mints, clock | transfer, mint, burn | everything above; outside the repository |

The hard part is not inside one instruction: an instruction is atomic, and a
failing one leaves no trace. It is the order of instructions, which nobody
controls. Every signer may submit any instruction at any time, several keys can
resolve one market, token owners move tokens without asking, clients choose
which accounts they pass, and windows of time open and close under all of
them. What makes each part correct:

- *registry*: a resolution happens once and is final; what expiry shuts stays
  shut; terms are fixed when trading starts; every market can be ended.
- *escrow*: collateral covers the outstanding tokens whatever the outcome, in
  whatever order they are redeemed; no claim is ever turned away.
- *adapter*: a bond vault holds what was put in until it is paid out, once; disputes extend the deadline
  but not beyond the registry's window; what is finalized is what the registry
  records.
- *oracles*: the decision is that of a majority, or of a central price, and does
  not depend on how a proposer lists the sources.
- *together*: holders are paid by the one decision the bonds were paid for;
  nothing that happens in the adapter keeps collateral from its holders.

## Modules

| Module | Models | How |
|---|---|---|
| `MarketRegistry` | market-registry | `market[m]` is the account, `now` the clock. One action per handler: account constraints and `require!`s are the guard, assignments the new record. `RecordOutcome` is the triple of assignments that three handlers share. `Tick` is the clock. |
| `TokenLedger` | SPL token, USDC wallets | external; `Credit`, `Debit`, `Move` |
| `EscrowVault` | escrow-vault over the registry | extends `MarketRegistry`: `RegistryStep` interleaves every registry instruction. `BurnAll` and `PayOut` are the halves of `claim_payout`; the `require!`s, the checked arithmetic and the token program's own conditions are all guards. `TokenOwnerStep` is what holders do without the program. |
| `ConditionalTokens` | what the escrow promises | abstract: issue, close, redeem |
| `ResolutionAdapter` | resolution-adapter over the registry | `FinalizeOutcome` and `EmergencyResolve` contain the registry's action, as the handlers contain the cross-program call. Both propose handlers share `ProposeOutcome`. |
| `HydraMarket` | the three programs over one registry, clock and set of wallets | extends `EscrowVault` and `ResolutionAdapter`, which share `market`, `now` and `usdc`: a step of one leaves the other's own accounts unchanged |
| `PredictionMarket` | what the three promise together | abstract: extends `ConditionalTokens` by a decision made once, and bonds that leave in the step that decides |
| `CryptoOracle` | the loop over price feeds in `propose_crypto_outcome` and `utils/crypto_oracle.rs` | `ReadFeed` is one pass of the loop, `DecideCondition` what follows it; checked 64-bit arithmetic with the widths as constants. `Sorted` puts every price in its `Place`, a count, because the prover can expand a count and not `SortSeq` |
| `SportsOracle` | the loop over sources in `propose_sports_outcome` and `utils/sports_oracle.rs` | likewise |
| `ProposalOracle`, `ProposalOracles` | what the two oracles share; both of them, chosen by the resolution's category | |
| `MarketRegistryProofs`, `TokenLedgerProofs`, `EscrowVaultProofs`, `EscrowRefinementProofs`, `EscrowAccountsProofs`, `ResolutionAdapterProofs`, `HydraMarketProofs`, `OracleProofs` | | theorems and their lemmas |
| `MC*` | | instances for TLC |

A definition whose name ends in an underscore and a fault
(`CancelMarket_KeepsTime`) is a faulty variant of the definition it precedes. It
is part of no specification; put in its place it shows that a property notices
the fault.

Abstractions common to all modules:

- Questions, descriptions and categories are model values or left out, and so are
  the checks of their lengths; a dispute's reason and a proposal's data sources
  are the numbers of bytes they take.
- An account that has not been created is a state of its own (`Absent`, a vault
  with admin `Blank`, a resolution with category `None`).
- Key checks are kept wherever the code has them. A signer nobody checks
  (`settle`, `initialize_resolution`, the `reward_authority`) is any.
- A market's mints are taken to be those `initialize_market` made for it, with
  no supply at first and the vault as their authority. `initialize_vault`
  compares their decimals only. With tokens minted beforehand a vault could owe
  more than it ever received, so what is said of collateral below
  (`CollateralCoversTokens`, `EveryClaimSucceeds`, `LockedExactlyOwed`,
  `EveryTokenRedeemed`, the two refinements, and the theorems on them) holds
  under this assumption.
- A unit of a YES or NO token is what `claim_payout` reads as an amount of 1 and
  pays 1 USDC for, although the mints declare six decimals.

In the adapter, moreover, the winner's account is a holder's wallet, not a bond
vault; nobody sends USDC to a bond vault by other means; `is_disputed`, which is
set with the first dispute and never reset, is read off the disputes; and the
outcome a proposal arrives at is any that `CryptoOracle` (Yes, No) and
`SportsOracle` (Yes, No, Invalid) can produce. Its account has the space
`ResolutionProposal::LEN` gave it when it was created, and an instruction that
would leave it larger fails (`Store`): `SerializedLen` counts its bytes, those
of the variable parts as they are.
`emergency_resolve` does not declare its market `mut`, which the registry's
instruction needs: `EmergencyResolve` stands for the calls in which the
transaction marks it writable all the same.

## What TLC checks

Deadlock checking is off in every run, because behaviours do stop: the clock
at `MaxTime`, an oracle's evaluation when it has decided.

### Registry: `registry_safety`

Two keys, each of which may be creator or adapter, one market (markets do not
share state), clock up to `MaxTime`, with expiries and window short enough that
every order of opening, pausing, expiry, window end and the three resolutions
occurs; 8063 states up to the symmetry of the keys.

- `ResolutionRecorded`, `ResolutionIrrevocable`: three instructions of two
  signers race to resolve; the fields agree and the first one is final.
- `ShutAfterExpiryForGood`: pausing across expiry cannot reopen a market.
- `UnproposableForGood`: a market that expires paused or unopened is
  closed to proposals for ever. The property records a consequence of the code
  an operator should know: such a market is left to `finalize_market` and to its
  creator, which is why `EveryTokenRedeemed` rests on the creator alone.
- `TermsFixedOnceOpened`.

### Escrow: `escrow_solvency`, `escrow_two_vaults`, `escrow_late_mint`

- `escrow_solvency`: one vault, two holders, collateral for up to three pairs,
  with transfers, burns and stray deposits by their owners (141,854 states).
  `CollateralCoversTokens` is the solvency invariant. `EveryClaimSucceeds` says
  that every guard of `claim_payout` after settlement is true of every holder,
  the checked arithmetic and the token program's conditions too.

  The same run checks that no collateral stays locked (`EveryTokenRedeemed`). The
  clock runs, and a creator who can still use `emergency_finalize_market` does in
  the end (`RegistryFairness`); nothing is assumed of the adapter, because its
  window may pass unused. Then somebody settles, and holders who keep claiming
  are served (strong fairness, as owners may lend tokens out and get them back
  between two tries): every token, worthless ones too, is redeemed. The programs
  give none of this by themselves; it is what a diligent creator and diligent
  holders can count on, provided `emergency_finalize_market` asks nothing of the
  market but that it is unresolved. The registry's window is 0 here, one second
  long, so that by time 3 a market has been before, in and past it.
- `escrow_two_vaults`: two markets, so that `mint_pairs` can be handed the wrong
  one (479,321 states). Tokens change hands, but nobody burns them or sends stray
  USDC, so the vault's books are exact (`LockedExactlyOwed`), also when an Invalid
  market pays halves. The unit, 1,000,000 in the code and 2 here, is even, so the
  halving in `claim_payout` never rounds.
- `KeepsPromise`, in both runs: `EscrowVault` implements `ConditionalTokens` under
  the mapping at the end of the module. One run has every action of the owners, the
  other the two markets that can be mistaken for one another. The refinement is
  about the verdict: pairs are issued before it only, it is given once, and
  each redemption pays what it says. It asks nothing of the pot and would allow
  claims to be refused; that is what `CollateralCoversTokens` and
  `EveryClaimSucceeds` are for.

The amounts are small because collateral is linear in them: one pair against
two, even against odd, and equal against unequal holdings are the cases.

### Adapter: `adapter_safety`, `adapter_liveness`, `adapter_late_proposal`, `adapter_undisputed`, `adapter_space`, `adapter_refund`

One market and two holders, with USDC for a proposal and three disputes or for
bonds of three sizes; a dispute window of 1 and an extension of 2, so that a
dispute really moves the deadline; and a registry window of 4, exactly what the
longest chain of disputes takes (1 + 3(2 - 1)). 499,620 states.

- `BondsAccountedFor` sums the contributions against the vault.
- `DisputesLeaveTimeToFinalize` bounds the longest chain of disputes;
  `DeadlineNeverRecedes` relies on the extension being no shorter than the
  window.
- `FinalizedOutcomeStands`, `FinalizedIsFrozen`: the adapter's flag and the
  registry's record agree although either program resolves on its own, and
  `emergency_resolve` relies on the registry to be turned away.
- `DocumentedSourcesLeaveRoom`: the sizes `LEN` adds up leave room for every
  dispute and contribution, provided the sources keep to their documented
  lengths. Lengths are not checked, so `adapter_space` fails.
- `adapter_liveness`: under `FairAdapterSpec` the clock runs, and the authority
  misses no second in which it could confirm what was proposed or asserted. That
  is an assumption on an operator, the strongest a proposer can hope for; it
  makes the counterexample to `UndisputedProposalFinalized` the code's and not
  the operator's. `TimelyProposalFinalized` is about undisputed proposals,
  up to the last second; `EarlyProposalConcluded` about disputed ones, with the
  longest chain of disputes. The reward is 0 in this run, so that the treasury is
  never empty and neither property is excused by that.
- `adapter_refund`: `emergency_resolve` leaves the bonds in the vault and says that
  the admin must refund them. A bond vault's authority is the resolution account,
  so only this program's instructions move what is in it. `PayingAdapterSpec`
  lets the clock run and lets any instruction that takes bonds out of a vault be
  executed if it keeps being possible (`BondsLeave`, strong fairness, whoever signs
  it). `EmergencyBondsRefunded` fails all the same. `BypassedBondsStay`, below,
  proves that this is no accident of the bounds.

### Oracles: `oracle_consensus`

All lists of up to five sources (`MAX_DATA_SOURCES`), of either category.

- `CryptoOracle` is run in 20-bit arithmetic over prices around 100, one ten times too
  small, some negative, one whose confidence product overflows, and three
  exponents. `MedianIsCentral` is the reference definition of a median, by
  counting. `DissentOnlyNearLimit`: a feed that alone would have decided
  otherwise only does so because a limit of the condition is within the
  deviation of the consensus.
- `SportsOracle` is run over nine answers, with every arm of
  `determine_sports_outcome` among them. `OrderDoesNotMatter` is what the
  threshold is for: `find_consensus` breaks ties by order.

### Together: `hydra_market`

One market, a pair's collateral and bonds in the same wallets, one second of
registry window, a clock up to 3; 225,670 states. The safety properties were also
checked with a clock up to 4 and a window of 2 (830,525 states).

- `KeepsMarketPromise`: `HydraMarket` implements `PredictionMarket`. `Award` is
  the abstract step of `finalize_outcome`: all bonds, the reward and the decision
  at once, never twice. A market decided around the adapter is a `Decide`, and
  its bonds stay. An instruction is atomic, so paying before the registry is asked
  is no hazard: `FinalizeOutcome` is one action with the registry's guard in it.
- `EveryTokenRedeemed` again, under the escrow's fairness only: whatever
  happens in the adapter, a disputed proposal, a wrong category or a treasury
  without the reward, cannot keep collateral from its holders while the creator
  persists.

### Disagreements

Five are runs that must be violated; `PROJECT.json` quotes the lines.

| Run | The code says | The code does |
|---|---|---|
| `escrow_late_mint` | no minting after resolution | mints if another market is open |
| `adapter_late_proposal` | an undisputed correct proposer is paid | not if the dispute window outlasts the registry's |
| `adapter_undisputed` | accepts the original proposal | accepts any outcome |
| `adapter_space` | identifiers of at most 32 characters, three disputes | identifiers of any length; five sources of 286 bytes are accepted and leave no room for a dispute |
| `adapter_refund` | after an emergency the admin refunds the bonds | no instruction can move them |

The models show the following too, and follow the code; there is no run for them.

| Where | The code says | The code does |
|---|---|---|
| `finalize_market.rs:29` | Resolving *and* expired | *or*: an expired market is finalized from any state |
| `finalize_outcome.rs:39` | pays the winner | pays the account it is handed; the winner computed is only logged |
| `finalize_outcome.rs:109` | slashes wrong disputers | a second disputer who was right, too: one transfer empties the vault |
| `dispute_proposal.rs:95` | extends by 24 hours | sets the deadline to 24 hours from now |
| `cancel_market.rs:38` | all users receive full refunds | half a unit per token: a full refund only to who holds as many YES as NO tokens |
| `propose_crypto_outcome.rs:97` | prices normalized to 8 decimals | negative exponents are ignored, others scaled to units |
| `propose_sports_outcome.rs:113` | a majority only for more than three sources | two of three suffice |
| `sports_oracle.rs:70` | "Invalid" is an answer | compared after lowercasing, never equal |

Seen while reading, and outside the models: `pause_market` emits
`MarketCancelled`; `initialize_resolution` takes any signer, category and bond
mint; `initialize_vault` fails if its token account was created before.

## What TLAPS proves

Assumptions are the named ASSUMEs of the modules; every run evaluates those of
the modules it extends. Durations, bounds and units are naturals, the unit, the
least bond and the dispute window are positive, an extension is no shorter than a
window (a day for both, or a window of ten seconds in the testing build), `Blank`
is no key. The others are needed for sums, halves and prices only:

| Assumption | Why the code justifies it | What needs it |
|---|---|---|
| `HoldersFinite` | addresses have 32 bytes | `EveryClaimSucceeds`, for the sum of a mint's accounts |
| `UnitHasHalves` | a unit is 1,000,000 | `LockedExactlyOwed`, which an odd unit would break: halves would round |
| `FeedAssumption` | prices and exponents are integers, the deviation is 500 | `MedianIsCentral`, `DissentOnlyNearLimit` |
| `ConditionAssumption` | `PriceCondition` has three variants with integer limits | `DissentOnlyNearLimit` |

Nothing else is assumed of how many markets, keys and holders there are: the
other theorems hold of infinitely many too.

`MarketRegistryProofs`:

- `RegistryTypeCorrect`, `ResolutionRecordedAlways`. `ResolutionRecorded` is not
  inductive: that a resolution is not earlier than its market's creation needs
  `CreatedInPast`, which with the types makes up `RegistryInv`. Every step
  writes at most one account, and `RecordOutcomeInv` covers the three that
  resolve.
- `FirstResolutionWins`, from the same invariant: every action's guard is false
  of a resolved market.
- `ExpiryShutsMarkets`, `UnproposableStaysSo`, `TermsAreKept`, from one lemma on
  what a step may do to an existing market (`StepOfMarket`): no date or key
  moves, metadata only while it is Created, and the state only to Open before
  expiry, from Open to Paused or Resolving, or to Resolved.

`EscrowVaultProofs`:

- `EscrowTypeCorrect`, `VaultsAreSolvent`. The solvency invariant alone is not
  inductive. `EscrowInv` adds, for every market, `Books`: before settlement the
  minted totals are equal and times the unit are the locked collateral, while
  supplies are at most those totals, because owners may burn; a settled vault's
  market is resolved. Settlement turns the first form into the
  second; a claim takes from both sides of the second the same amount, which for
  an Invalid market needs that halves rounded down are superadditive.

`EscrowRefinementProofs`:

- `EscrowImplementsPromise`: the refinement `escrow_solvency` and `escrow_two_vaults`
  check, for every value of the constants. One lemma per kind of step names the abstract step it
  is; registry steps are invisible because a settled vault's market is resolved
  (`EscrowInv`) and its outcome final (`ResolvedIsFinal`).

`ResolutionAdapterProofs`, with any registry instruction between two of the
adapter's:

- `AdapterTypeCorrect`, `DisputesEndInTime`, `FinalizedOutcomesStand`,
  `DeadlinesOnlyExtend`, `FinalizedForGood`. The invariant is
  `AdapterInv`. Its `Schedule` says that a deadline is never further ahead of the
  clock than one extension, so a dispute, which sets it to now plus an extension,
  cannot bring it forward; and that it is no later than the proposal, a window and
  an extension less a second for every dispute so far. A dispute comes strictly
  before the deadline, which is where that second goes, and three disputes are the
  most. Its `Outcomes` says that a finalized resolution's market is resolved, after
  the deadline unless by emergency. That is what makes the frozen account true of
  `emergency_resolve`: the handler does not look at `is_finalized`, and the
  registry refuses the second resolution.
- `BypassedBondsStay`: what a bond vault holds once its market is resolved, it
  holds for ever, because only `finalize_outcome` takes bonds out and the
  registry refuses it. It makes the counterexample of `adapter_refund` general, and
  says the same of bonds left by `cancel_market` or a direct `finalize_market`.
- `BondsAreAccountedFor`: the invariant grows by `Accounted`. A vault holds the
  sum of its contributions until it is emptied, and there is one contribution for
  every dispute and one for the proposal, which is what the next theorem counts.
- `DisputesFitDocumentedSources`: with sources of documented length and at most
  three disputes, `SerializedLen` never exceeds `ResolutionLen`, by adding
  up the most that sources, disputes and contributors can take.

`TokenLedgerProofs`, for the other modules:

- What crediting and debiting do to one account, and to the sum of all of them.
  The sum is a fold over a set, and the prover has no induction to open it with.
  Instead `CountingFolds` shows that counting an account's units
  (`Units`, the pairs of a holder and a number up to its balance) satisfies the
  fold's equation, and `SumCountsUnits` that whatever satisfies it counts them,
  because the smallest set on which they differ cannot exist. Cardinalities of
  finite sets do the rest.

`EscrowAccountsProofs`:

- `NoClaimRefused`, from `EscrowInv` and `Ledgers`: a mint's supply is the sum of
  its holders' accounts, and what was ever minted fits the integer width once
  priced. So a holder has no more than the supply, the supply no more than was
  minted, and none of the checked products in `claim_payout` overflows.
- `ClosedVaultsExact`, from `EscrowInv` and `Exact`: without burns, though
  tokens change hands, the supplies are what was minted until settlement and the locked collateral is what they are worth
  after it. A claim takes exactly its share because with an even unit halves of
  tokens add up without rounding (`PayoutSplitsExactly`).

`HydraMarketProofs`. `HydraInv` is `EscrowInv`, `AdapterInv` and `Accounted`
together: none is disturbed by the other program, which writes neither its
accounts nor anything but whole amounts into the wallets, and reaches the
registry only as the registry allows (`AdapterCallsRegistry`, in
`ResolutionAdapterProofs`).

- `HydraUsesRegistry`: the composition implements `RegistrySpec`, so everything proved
  of the registry holds of it (`RegistryStandsTogether`).
- `AdapterStandsTogether`: so does everything proved of the adapter, with
  vaults spending from the wallets its bonds come from.
- `ClaimsStandTogether`: solvency and the success of every claim, with bonds and
  rewards paid from the same wallets.
- `HydraImplementsPromise`: the refinement `hydra_market` checks. The escrow's steps
  are those of `EscrowRefinementProofs`; a registry step decides one market, once, or
  is invisible (`RegistryStepDecides`); participants pledge; `finalize_outcome` is one
  `Award`, whose net effect on the wallets `PayWinnerFunds` shows whether or not
  the treasury's account is the winner's own; `emergency_resolve` is a `Decide`.

`OracleProofs`, whatever the limit on the number of sources (five in the code and
the run), in whatever order they come:

- `MajorityDecides`: two strict majorities share a source, so the answer
  `find_consensus` returns, whatever it does with ties, is the majority's.
- `OrderIsIrrelevant`, also for any permutation of the sources (`AnyOrderDecides`): the
  permutation carries the voters for an answer onto its voters in the new order.
- `MediansAreCentral`: places are a permutation of the positions (`Before` sets of
  different positions are nested and differ), so the sorted prices ascend and
  half of them lie on either side of the middle; the halved sum of an even
  number lies between the two middle ones, for negative sums too, which Rust
  halves towards zero.
- `DissentIsMarginal`: every price lies within the deviation of the consensus, which
  `PricesAgree` has checked on both sides, so a limit that separates the two does, too.

Only model-checked: liveness, which rests on fairness and ENABLED and so is out
of the prover's reach (`EveryTokenRedeemed`, `TimelyProposalFinalized`,
`EarlyProposalConcluded`), and the five disagreements,
which are counterexamples.

## Not modelled

Events, error codes and logging, which no instruction reads back; rent and PDA
derivation; the sizes of the registry's and the vault's accounts, whose variable
parts are checked against the lengths they were sized for; parsing Pyth accounts; `normalize_team_name`, `teams_match`,
`AdminAuthority` and `MarketState::Close`, which nothing uses; `batch_settle.rs`,
which is empty; and the tests.

## Plan

1. *Done:* registry, escrow, adapter, oracles and their composition modelled and
   checked, with the abstract specifications `ConditionalTokens` and
   `PredictionMarket`.
2. *Done:* every safety property and both refinements proved.
3. Next: the oracles inside the adapter's propose actions, so that a proposal's
   outcome is theirs.
4. What can be proved towards liveness without ENABLED: that in every market that has
   not ended some instruction's guard is true by the time the properties promise
   its end.
