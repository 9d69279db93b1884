---------------------------- MODULE CryptoOracle ----------------------------
(***************************************************************************)
(* How propose_crypto_outcome reduces the price feeds it is given to an    *)
(* outcome: each is validated and normalized in turn, and their median,    *)
(* if all agree with it, decides the market's condition.  Numbers are      *)
(* checked 64-bit integers; any overflow fails the instruction.            *)
(***************************************************************************)
EXTENDS ProposalOracle, Sequences, FiniteSets

CONSTANTS
    MaxI64, MaxU64,
    MaxPriceDeviationBps,
    FeedPrice, FeedExpo, FeedConfidence, FeedAge,   \* what a Pyth feed may say
    Condition                                       \* what a proposer may pass

ASSUME WidthAssumption == MaxI64 \in Nat /\ MaxU64 = 2 * MaxI64 + 1

(* A feed's price is an i64 and its exponent an i32, and so is a limit of  *)
(* a condition.                                                            *)
ASSUME FeedAssumption ==
    FeedPrice \subseteq Int /\ FeedExpo \subseteq Int /\ MaxPriceDeviationBps \in Nat

ASSUME ConditionAssumption ==
    Condition \subseteq [kind : {"GreaterOrEqual", "LessOrEqual"}, target : Int]
                          \cup [kind : {"Between"}, min : Int, max : Int]

VARIABLES
    prices,                  \* the normalized prices read so far
    condition                \* the condition decided, once it is

cryptoVars == <<prices, condition, outcome>>

FitsI64(n) == -MaxI64 - 1 <= n /\ n <= MaxI64
FitsU64(n) == 0 <= n /\ n <= MaxU64
Abs(n) == IF n >= 0 THEN n ELSE -n

(* Rust divides towards zero, \div downwards.                              *)
Halve(n) == IF n >= 0 THEN n \div 2 ELSE -((-n) \div 2)

CryptoInit ==
    /\ prices = <<>>
    /\ condition = [kind |-> "None"]
    /\ outcome = "None"

(* Fresh, and with a confidence interval of at most a tenth of the price.  *)
ValidPythPrice(price, confidence, age) ==
    /\ age <= MaxOracleStaleness
    /\ FitsI64(Abs(price)) /\ FitsU64(Abs(price) * 1000)
    /\ confidence <= (Abs(price) * 1000) \div 10000

(* A negative exponent is left out of account.                             *)
NormalizePrice(price, expo) == IF expo >= 0 THEN price * 10^expo ELSE price

(* slice::sort puts i behind every smaller element and every equal one     *)
(* that stood before it.                                                   *)
Place(s, i) == Cardinality({j \in DOMAIN s : s[j] < s[i] \/ (s[j] = s[i] /\ j <= i)})
Sorted(s) == [k \in DOMAIN s |-> s[CHOOSE i \in DOMAIN s : Place(s, i) = k]]

CalculateMedian_Unsorted(s) ==
    LET mid == Len(s) \div 2 + 1 IN
    IF Len(s) % 2 = 0 THEN Halve(s[mid - 1] + s[mid]) ELSE s[mid]

CalculateMedian(s) ==
    LET sorted == Sorted(s)
        mid == Len(s) \div 2 + 1
    IN IF Len(s) % 2 = 0 THEN Halve(sorted[mid - 1] + sorted[mid]) ELSE sorted[mid]

MedianFits(s) ==
    LET mid == Len(s) \div 2 + 1 IN
    Len(s) % 2 = 0 => FitsI64(Sorted(s)[mid - 1] + Sorted(s)[mid])

MaxDeviation(consensus) == (Abs(consensus) * MaxPriceDeviationBps) \div 10000

PricesAgree_OneSided(s, consensus) ==
    \A i \in DOMAIN s : s[i] - consensus <= MaxDeviation(consensus)

PricesAgree(s, consensus) ==
    \A i \in DOMAIN s :
       /\ FitsI64(s[i] - consensus) /\ FitsI64(Abs(s[i] - consensus))
       /\ FitsI64(Abs(consensus)) /\ FitsU64(Abs(consensus) * MaxPriceDeviationBps)
       /\ Abs(s[i] - consensus) <= MaxDeviation(consensus)

IsMet(c, price) ==
    CASE c.kind = "GreaterOrEqual" -> price >= c.target
      [] c.kind = "LessOrEqual" -> price <= c.target
      [] c.kind = "Between" -> c.min <= price /\ price <= c.max

-----------------------------------------------------------------------------
(* One pass of the loop over feed_ids.                                     *)
ReadFeed(price, expo, confidence, age) ==
    /\ outcome = "None"
    /\ Len(prices) < MaxDataSources
    /\ ValidPythPrice(price, confidence, age)
    /\ expo >= 0 => FitsI64(10^expo) /\ FitsI64(price * 10^expo)
    /\ prices' = Append(prices, NormalizePrice(price, expo))
    /\ UNCHANGED <<condition, outcome>>

(* What follows the loop.                                                  *)
DecideCondition(c) ==
    /\ outcome = "None"
    /\ prices # <<>>
    /\ MedianFits(prices)
    /\ LET consensus == CalculateMedian(prices) IN
         /\ PricesAgree(prices, consensus)
         /\ outcome' = IF IsMet(c, consensus) THEN "Yes" ELSE "No"
    /\ condition' = c
    /\ UNCHANGED prices

CryptoNext ==
    \/ \E price \in FeedPrice, expo \in FeedExpo,
          confidence \in FeedConfidence, age \in FeedAge :
             ReadFeed(price, expo, confidence, age)
    \/ \E c \in Condition : DecideCondition(c)

CryptoSpec == CryptoInit /\ [][CryptoNext]_cryptoVars

-----------------------------------------------------------------------------
(* Properties.                                                             *)

(* However the feeds are ordered, the consensus is a middle value: at      *)
(* least half of the prices are not above it and half not below it.        *)
MedianIsCentral ==
    prices # <<>> /\ MedianFits(prices) =>
      LET consensus == CalculateMedian(prices)
          below == {i \in DOMAIN prices : prices[i] <= consensus}
          above == {i \in DOMAIN prices : prices[i] >= consensus}
      IN 2 * Cardinality(below) >= Len(prices) /\ 2 * Cardinality(above) >= Len(prices)

Verdict(c, price) == IF IsMet(c, price) THEN "Yes" ELSE "No"

Limits(c) == IF c.kind = "Between" THEN {c.min, c.max} ELSE {c.target}

(* A feed that alone would have decided otherwise does not sit on the far  *)
(* side of the condition: a limit of it lies between that feed's price and *)
(* the consensus, within the deviation allowed.                            *)
DissentOnlyNearLimit ==
    condition.kind # "None" =>
      \A i \in DOMAIN prices :
         LET consensus == CalculateMedian(prices) IN
         outcome # Verdict(condition, prices[i]) =>
           \E limit \in Limits(condition) : Abs(limit - consensus) <= MaxDeviation(consensus)
=============================================================================
