--------------------------- MODULE MarketRegistry ---------------------------
(***************************************************************************)
(* The market-registry program: one account per market, moved through its  *)
(* life cycle by instructions that its creator or its resolution adapter   *)
(* signs.  A Solana instruction is atomic and leaves no trace when it      *)
(* fails, so each handler is one action: its account constraints and       *)
(* require!s are the guard, its assignments the primed record.             *)
(***************************************************************************)
EXTENDS Integers

CONSTANTS
    Market,              \* the market ids
    Key,                 \* the public keys that sign instructions
    Text,                \* descriptions and categories
    Blank,               \* a field never written, and Option::None
    MinExpiryDuration,
    MaxExpiryDuration,
    ResolutionWindow,
    MaxTime              \* i64::MAX: no timestamp is larger

ASSUME BlankAssumption == Blank \notin Key \cup Text

ASSUME DurationAssumption ==
    /\ MinExpiryDuration \in Nat /\ MinExpiryDuration > 0
    /\ MaxExpiryDuration \in Nat
    /\ ResolutionWindow \in Nat
    /\ MaxTime \in Nat /\ MaxTime > 0

VARIABLES
    now,                 \* Clock::get().unix_timestamp
    market               \* the Market account of every market id

registryVars == <<now, market>>

Timestamp == 0..MaxTime
NotYet == -1
Outcome == {"Yes", "No", "Invalid"}

(* MarketState; Close is never assigned, Absent is an account not created. *)
MarketState == {"Absent", "Created", "Open", "Paused", "Resolving", "Resolved"}

MarketAccount ==
    [state       : MarketState,
     creator     : Key \cup {Blank},
     adapter     : Key \cup {Blank},
     createdAt   : Timestamp \cup {NotYet},
     expireAt    : Timestamp \cup {NotYet},
     description : Text \cup {Blank},
     category    : Text \cup {Blank},
     outcome     : Outcome \cup {"None"},
     resolvedAt  : Timestamp \cup {NotYet}]

NoMarket ==
    [state |-> "Absent", creator |-> Blank, adapter |-> Blank,
     createdAt |-> NotYet, expireAt |-> NotYet,
     description |-> Blank, category |-> Blank,
     outcome |-> "None", resolvedAt |-> NotYet]

RegistryInit ==
    /\ now = 1
    /\ market = [m \in Market |-> NoMarket]

-----------------------------------------------------------------------------
(* What the handlers read of a market.                                     *)

Initialized(m) == market[m].state # "Absent"
IsExpired(m) == now >= market[m].expireAt
IsResolved(m) == market[m].state = "Resolved"

WindowEnd(m) ==
    IF market[m].expireAt + ResolutionWindow <= MaxTime
      THEN market[m].expireAt + ResolutionWindow
      ELSE MaxTime

InResolutionWindow(m) == IsExpired(m) /\ now <= WindowEnd(m)

ValidExpiry(expireAt) ==
    /\ expireAt > now
    /\ expireAt - now >= MinExpiryDuration
    /\ expireAt - now <= MaxExpiryDuration

(* The three instructions other programs call to test a market.            *)
AssertMarketOpen(m) == market[m].state = "Open"
AssertMarketResolved(m) == market[m].state = "Resolved"
AssertMarketExpired(m) ==
    /\ Initialized(m)
    /\ IsExpired(m)
    /\ market[m].state \in {"Open", "Resolving"}

-----------------------------------------------------------------------------
(* The instructions.  A definition whose name ends in an underscore and a  *)
(* fault, before the program's own, is a faulty variant of it: it shows    *)
(* that a property notices the fault and is part of no specification.      *)

InitializeMarket(m, admin, adapter, expireAt, description, category) ==
    /\ ~Initialized(m)
    /\ ValidExpiry(expireAt)
    /\ market' = [market EXCEPT ![m] =
         [state |-> "Created", creator |-> admin, adapter |-> adapter,
          createdAt |-> now, expireAt |-> expireAt,
          description |-> description, category |-> category,
          outcome |-> "None", resolvedAt |-> NotYet]]
    /\ UNCHANGED now

OpenMarket(m, admin) ==
    /\ market[m].creator = admin
    /\ market[m].state = "Created"
    /\ ~IsExpired(m)
    /\ market' = [market EXCEPT ![m].state = "Open"]
    /\ UNCHANGED now

PauseMarket(m, admin) ==
    /\ market[m].creator = admin
    /\ market[m].state = "Open"
    /\ market' = [market EXCEPT ![m].state = "Paused"]
    /\ UNCHANGED now

ResumeMarket_NoExpiryCheck(m, admin) ==
    /\ market[m].creator = admin
    /\ market[m].state = "Paused"
    /\ market' = [market EXCEPT ![m].state = "Open"]
    /\ UNCHANGED now

ResumeMarket(m, admin) ==
    /\ market[m].creator = admin
    /\ market[m].state = "Paused"
    /\ ~IsExpired(m)
    /\ market' = [market EXCEPT ![m].state = "Open"]
    /\ UNCHANGED now

ResolvingMarket_FromPaused(m, admin) ==
    /\ market[m].creator = admin
    /\ market[m].state \in {"Open", "Paused"}
    /\ market' = [market EXCEPT ![m].state = "Resolving"]
    /\ UNCHANGED now

ResolvingMarket(m, admin) ==
    /\ market[m].creator = admin
    /\ market[m].state = "Open"
    /\ market' = [market EXCEPT ![m].state = "Resolving"]
    /\ UNCHANGED now

(* The three assignments finalize, cancel and emergency_finalize share.    *)
RecordOutcome(m, outcome) ==
    market' = [market EXCEPT ![m] =
      [@ EXCEPT !.outcome = outcome, !.resolvedAt = now, !.state = "Resolved"]]

FinalizeMarket(m, adapter, outcome) ==
    /\ market[m].adapter = adapter
    /\ market[m].state = "Resolving" \/ IsExpired(m)
    /\ ~IsResolved(m)
    /\ InResolutionWindow(m)
    /\ RecordOutcome(m, outcome)
    /\ UNCHANGED now

CancelMarket_NoResolvedCheck(m, admin) ==
    /\ market[m].creator = admin
    /\ RecordOutcome(m, "Invalid")
    /\ UNCHANGED now

CancelMarket_KeepsTime(m, admin) ==
    /\ market[m].creator = admin
    /\ ~IsResolved(m)
    /\ market' = [market EXCEPT ![m].outcome = "Invalid", ![m].state = "Resolved"]
    /\ UNCHANGED now

CancelMarket_Close(m, admin) ==
    /\ market[m].creator = admin
    /\ ~IsResolved(m)
    /\ market' = [market EXCEPT ![m].state = "Close"]
    /\ UNCHANGED now

CancelMarket(m, admin) ==
    /\ market[m].creator = admin
    /\ ~IsResolved(m)
    /\ RecordOutcome(m, "Invalid")
    /\ UNCHANGED now

EmergencyFinalizeMarket_InWindow(m, admin, outcome) ==
    /\ market[m].creator = admin
    /\ ~IsResolved(m)
    /\ InResolutionWindow(m)
    /\ RecordOutcome(m, outcome)
    /\ UNCHANGED now

EmergencyFinalizeMarket_IfProposable(m, admin, outcome) ==
    /\ market[m].creator = admin
    /\ AssertMarketExpired(m)
    /\ RecordOutcome(m, outcome)
    /\ UNCHANGED now

EmergencyFinalizeMarket_Again(m, admin, outcome) ==
    /\ market[m].creator = admin
    /\ RecordOutcome(m, outcome)
    /\ UNCHANGED now

(* The reason string, 1 to 200 bytes long, is left out.                    *)
EmergencyFinalizeMarket(m, admin, outcome) ==
    /\ market[m].creator = admin
    /\ ~IsResolved(m)
    /\ RecordOutcome(m, outcome)
    /\ UNCHANGED now

OrElse(option, current) == IF option = Blank THEN current ELSE option

UpdateMarketMetadata_WhileOpen(m, admin, description, category) ==
    /\ market[m].creator = admin
    /\ market[m].state \in {"Created", "Open"}
    /\ market' = [market EXCEPT ![m] =
         [market[m] EXCEPT !.category = OrElse(category, market[m].category),
                           !.description = OrElse(description, market[m].description)]]
    /\ UNCHANGED now

UpdateMarketMetadata(m, admin, description, category) ==
    /\ market[m].creator = admin
    /\ market[m].state = "Created"
    /\ market' = [market EXCEPT ![m] =
         [market[m] EXCEPT !.category = OrElse(category, market[m].category),
                           !.description = OrElse(description, market[m].description)]]
    /\ UNCHANGED now

(* The cluster's clock, outside the program.                               *)
Tick ==
    /\ now < MaxTime
    /\ now' = now + 1
    /\ UNCHANGED market

-----------------------------------------------------------------------------
CreatorInstruction(m, admin) ==
    \/ OpenMarket(m, admin)
    \/ PauseMarket(m, admin)
    \/ ResumeMarket(m, admin)
    \/ ResolvingMarket(m, admin)
    \/ CancelMarket(m, admin)
    \/ \E outcome \in Outcome : EmergencyFinalizeMarket(m, admin, outcome)
    \/ \E description, category \in Text \cup {Blank} :
          UpdateMarketMetadata(m, admin, description, category)

CreateMarket(m) ==
    \E admin, adapter \in Key, expireAt \in Timestamp, description, category \in Text :
       InitializeMarket(m, admin, adapter, expireAt, description, category)

AdapterInstruction(m, adapter) ==
    \E outcome \in Outcome : FinalizeMarket(m, adapter, outcome)

RegistryInstruction ==
    \E m \in Market :
       \/ CreateMarket(m)
       \/ \E k \in Key : CreatorInstruction(m, k) \/ AdapterInstruction(m, k)

RegistryNext == Tick \/ RegistryInstruction

RegistrySpec == RegistryInit /\ [][RegistryNext]_registryVars

(* The clock advances, and a creator who can still end a market by         *)
(* emergency_finalize_market eventually does.  Nothing is assumed of the   *)
(* resolution adapter.                                                     *)
CreatorDecides(m) ==
    \E admin \in Key, outcome \in Outcome : EmergencyFinalizeMarket(m, admin, outcome)

RegistryFairness ==
    /\ WF_registryVars(Tick)
    /\ \A m \in Market : WF_registryVars(CreatorDecides(m))

-----------------------------------------------------------------------------
(* Properties.                                                             *)

(* Every account holds values of its declared field types.                 *)
RegistryTypeOK ==
    /\ now \in Timestamp
    /\ market \in [Market -> MarketAccount]

(* However a market was ended, by its adapter, a cancellation or an        *)
(* emergency, its state, outcome and resolution time tell the same story,  *)
(* and the time lies between its creation and now.                         *)
ResolutionRecorded ==
    \A m \in Market :
       LET a == market[m] IN
       /\ IsResolved(m) <=> a.outcome # "None"
       /\ IsResolved(m) <=> a.resolvedAt # NotYet
       /\ IsResolved(m) => a.createdAt <= a.resolvedAt /\ a.resolvedAt <= now

(* The three instructions that resolve a market can race; whichever comes  *)
(* first is final and the account never changes again, so two claimants    *)
(* are never paid by different outcomes.                                   *)
ResolutionIrrevocable ==
    [][\A m \in Market : IsResolved(m) => market'[m] = market[m]]_registryVars

(* Once a market's expiry has found it not open, no pause, resume or open  *)
(* instruction makes it open (and its pairs mintable) again.               *)
ShutAfterExpiryForGood ==
    [][\A m \in Market :
         Initialized(m) /\ IsExpired(m) /\ market[m].state # "Open"
           => market'[m].state # "Open"]_registryVars

(* A market that is paused, or was never opened, when it expires can never *)
(* satisfy assert_market_expired afterwards: no outcome can ever be        *)
(* proposed for it and only finalize_market or its creator can end it.     *)
UnproposableForGood ==
    [][\A m \in Market :
         Initialized(m) /\ IsExpired(m) /\ ~AssertMarketExpired(m)
           => ~AssertMarketExpired(m)']_registryVars

Terms(m) ==
    <<market[m].creator, market[m].adapter, market[m].createdAt,
      market[m].expireAt, market[m].description, market[m].category>>

(* From the moment a market first opens, what traders were offered, and    *)
(* who may resolve it, does not change.                                    *)
TermsFixedOnceOpened ==
    [][\A m \in Market :
         market[m].state \notin {"Absent", "Created"} => Terms(m)' = Terms(m)]_registryVars
=============================================================================
