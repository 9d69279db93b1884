---------------------------- MODULE OracleProofs ----------------------------
(***************************************************************************)
(* What the oracles decide, however many sources they read: a sports       *)
(* answer is a majority's and does not depend on the order of the sources, *)
(* a median is a middle value, and a feed that dissents from the decision  *)
(* does so close to a limit of the condition.                              *)
(***************************************************************************)
EXTENDS ProposalOracles, FiniteSetTheorems, WellFoundedInduction, TLAPS

(* Sets of positions are finite.                                           *)
LEMMA PositionsFinite ==
  ASSUME NEW n \in Nat, NEW T \in SUBSET (1..n)
  PROVE  /\ IsFiniteSet(T) /\ Cardinality(T) \in Nat
         /\ IsFiniteSet(1..n) /\ Cardinality(1..n) = n
<1>1. IsFiniteSet(1..n) /\ Cardinality(1..n) = n
  <2>1. 1 \in Int /\ n \in Int
    OBVIOUS
  <2>2. IsFiniteSet(1..n) /\ Cardinality(1..n) = IF 1 > n THEN 0 ELSE n - 1 + 1
    BY <2>1, FS_Interval
  <2> QED BY <2>2
<1>2. IsFiniteSet(T)
  BY <1>1, FS_Subset
<1> QED
  BY <1>1, <1>2, FS_CardinalityType

(* Among positions, more of them make a larger number.                     *)
LEMMA MorePositions ==
  ASSUME NEW n \in Nat, NEW T \in SUBSET (1..n), NEW U \in SUBSET T
  PROVE  Cardinality(U) <= Cardinality(T)
BY PositionsFinite, FS_Subset

(* A set of positions has a first one.                                     *)
LEMMA FirstPosition ==
  ASSUME NEW n \in Nat, NEW T \in SUBSET (1..n), T # {}
  PROVE  Min(T) \in T
<1>1. T \subseteq Nat
  OBVIOUS
<1>2. PICK x \in T : \A y \in T : ~(<<y, x>> \in OpToRel(<, Nat))
  BY <1>1, NatLessThanWellFounded, WFMin
<1>3. \A y \in T : x <= y
  <2> SUFFICES ASSUME NEW y \in T, y < x PROVE FALSE
    BY <1>1
  <2>1. <<y, x>> \in OpToRel(<, Nat)
    <3>1. <<y, x>> \in Nat \X Nat /\ <<y, x>>[1] < <<y, x>>[2]
      BY <1>1
    <3> QED BY <3>1 DEF OpToRel
  <2> QED BY <1>2, <2>1
<1> QED
  BY <1>3 DEF Min

-----------------------------------------------------------------------------
(* Votes.                                                                  *)

VotersFor(s, answer) == {i \in DOMAIN s : s[i] = answer}

(* The number of votes is the number of voters.                            *)
LEMMA VotesAreCounted ==
  ASSUME NEW s \in Seq(Answer), NEW answer
  PROVE  /\ Votes(s, answer) \in Nat
         /\ VotersFor(s, answer) \in SUBSET (1..Len(s)) /\ Len(s) \in Nat
         /\ Votes(s, answer) = Cardinality(VotersFor(s, answer))
BY PositionsFinite DEF Votes, VotersFor

(* Two different answers cannot both be given by most of the sources.      *)
LEMMA OneMajority ==
  ASSUME NEW s \in Seq(Answer), NEW a, NEW b,
         2 * Votes(s, a) > Len(s), 2 * Votes(s, b) > Len(s)
  PROVE  a = b
<1>1. /\ Votes(s, a) \in Nat /\ Votes(s, b) \in Nat /\ Len(s) \in Nat
      /\ VotersFor(s, a) \in SUBSET (1..Len(s)) /\ VotersFor(s, b) \in SUBSET (1..Len(s))
      /\ Votes(s, a) = Cardinality(VotersFor(s, a))
      /\ Votes(s, b) = Cardinality(VotersFor(s, b))
  BY VotesAreCounted
<1>2. IsFiniteSet(1..Len(s)) /\ Cardinality(1..Len(s)) = Len(s)
  BY <1>1, PositionsFinite
<1>3. Cardinality(VotersFor(s, a)) + Cardinality(VotersFor(s, b)) > Cardinality(1..Len(s))
  BY <1>1, <1>2
<1>4. VotersFor(s, a) \cap VotersFor(s, b) # {}
  BY <1>1, <1>2, <1>3, FS_MajoritiesIntersect
<1> QED
  BY <1>4 DEF VotersFor

(* The consensus that reaches the votes required is the answer of most.    *)
LEMMA RequiredIsMajority ==
  ASSUME NEW s \in Seq(Answer), s # <<>>, ConsensusHolds(s)
  PROVE  2 * Votes(s, FindConsensus(s)) > Len(s)
<1>1. Votes(s, FindConsensus(s)) \in Nat /\ Len(s) \in Nat /\ Len(s) > 0
  BY VotesAreCounted
<1>2. Votes(s, FindConsensus(s)) >= RequiredVotes(Len(s))
  BY DEF ConsensusHolds
<1> DEFINE v == Votes(s, FindConsensus(s))
           n == Len(s)
<1> HIDE DEF v, n
<1>3. v \in Nat /\ n \in Nat /\ n > 0 /\ v >= RequiredVotes(n)
  BY <1>1, <1>2 DEF v, n
<1>4. 2 * v > n
  <2>1. CASE n = 2
    BY <1>3, <2>1 DEF RequiredVotes
  <2>2. CASE n # 2
    BY <1>3, <2>2 DEF RequiredVotes
  <2> QED BY <2>1, <2>2
<1> QED
  BY <1>4 DEF v, n

(* An answer most sources give is the consensus found, and holds.          *)
LEMMA MajorityIsFound ==
  ASSUME NEW s \in Seq(Answer), NEW i \in DOMAIN s, 2 * Votes(s, s[i]) > Len(s)
  PROVE  FindConsensus(s) = s[i] /\ ConsensusHolds(s)
<1> DEFINE mostVoted == {k \in DOMAIN s : \A j \in DOMAIN s : Votes(s, s[k]) >= Votes(s, s[j])}
<1>0. /\ DOMAIN s = 1..Len(s) /\ Len(s) \in Nat /\ Len(s) > 0
      /\ \A j \in DOMAIN s : Votes(s, s[j]) \in Nat
  BY VotesAreCounted
<1>1. \A j \in DOMAIN s : Votes(s, s[i]) >= Votes(s, s[j])
  <2> SUFFICES ASSUME NEW j \in DOMAIN s, ~(Votes(s, s[i]) >= Votes(s, s[j])) PROVE FALSE
    OBVIOUS
  <2>1. Votes(s, s[j]) > Votes(s, s[i])
    BY <1>0
  <2>2. 2 * Votes(s, s[j]) > Len(s)
    BY <1>0, <2>1
  <2>3. s[j] = s[i]
    BY <2>2, OneMajority
  <2> QED BY <1>0, <2>1, <2>3
<1>2. i \in mostVoted /\ mostVoted \in SUBSET (1..Len(s))
  BY <1>0, <1>1
<1>3. Min(mostVoted) \in mostVoted
  <2> HIDE DEF mostVoted
  <2> QED BY <1>0, <1>2, FirstPosition
<1> DEFINE c == Min(mostVoted)
<1>4. c \in DOMAIN s /\ Votes(s, s[c]) >= Votes(s, s[i])
  BY <1>3
<1>5. FindConsensus(s) = s[c]
  BY DEF FindConsensus
<1> HIDE DEF c, mostVoted
<1>6. 2 * Votes(s, s[c]) > Len(s)
  BY <1>0, <1>4
<1>7. s[c] = s[i]
  BY <1>6, OneMajority
<1>8. ConsensusHolds(s)
  <2> DEFINE v == Votes(s, s[i])
             n == Len(s)
  <2>1. v \in Nat /\ n \in Nat /\ 2 * v > n
    BY <1>0
  <2> HIDE DEF v, n
  <2>2. v >= RequiredVotes(n)
    BY <2>1 DEF RequiredVotes
  <2> QED BY <1>5, <1>7, <2>2 DEF ConsensusHolds, v, n
<1> QED
  BY <1>5, <1>7, <1>8

(* Every answer has as many voters however the sources are listed.         *)
Reordered(s, p) == [i \in DOMAIN s |-> s[p[i]]]

(* A permutation of the sources is a permutation of the voters.            *)
LEMMA ReorderedVotes ==
  ASSUME NEW s \in Seq(Answer), NEW p \in Bijection(DOMAIN s, DOMAIN s), NEW answer
  PROVE  /\ Reordered(s, p) \in Seq(Answer) /\ Len(Reordered(s, p)) = Len(s)
         /\ Votes(Reordered(s, p), answer) = Votes(s, answer)
<1> DEFINE n == Len(s)
           r == Reordered(s, p)
           A == VotersFor(r, answer)
           B == VotersFor(s, answer)
           f == [i \in A |-> p[i]]
<1>1. n \in Nat /\ DOMAIN s = 1..n /\ s \in [1..n -> Answer]
  OBVIOUS
<1>2. /\ \A i \in 1..n : p[i] \in 1..n
      /\ \A i, j \in 1..n : p[i] = p[j] => i = j
      /\ \A j \in 1..n : \E i \in 1..n : p[i] = j
  BY <1>1 DEF Bijection, Injection, Surjection, IsInjective
<1>3. r = [i \in 1..n |-> s[p[i]]]
  BY <1>1 DEF Reordered
<1>4. r \in Seq(Answer) /\ Len(r) = n /\ DOMAIN r = 1..n
  <2>1. r \in [1..n -> Answer]
    BY <1>1, <1>2, <1>3
  <2> HIDE DEF r, n
  <2> QED BY <1>1, <2>1
<1>5. f \in Bijection(A, B)
  <2>1. \A i \in A : i \in 1..n /\ f[i] = p[i] /\ f[i] \in B
    BY <1>1, <1>2, <1>3, <1>4 DEF VotersFor
  <2>2. \A j \in B : j \in 1..n /\ \E i \in A : p[i] = j
    <3> SUFFICES ASSUME NEW j \in B PROVE j \in 1..n /\ \E i \in A : p[i] = j
      OBVIOUS
    <3>1. j \in 1..n /\ s[j] = answer
      BY <1>1 DEF VotersFor
    <3>2. PICK i \in 1..n : p[i] = j
      BY <1>2, <3>1
    <3>3. i \in A
      BY <1>3, <1>4, <3>1, <3>2 DEF VotersFor
    <3> QED BY <3>1, <3>2, <3>3
  <2>3. f \in [A -> B]
    BY <2>1
  <2>4. \A i, j \in A : f[i] = f[j] => i = j
    BY <1>2, <2>1
  <2>5. \A j \in B : \E i \in A : f[i] = j
    BY <2>1, <2>2
  <2> HIDE DEF f, A, B
  <2> QED BY <2>3, <2>4, <2>5 DEF Bijection, Injection, Surjection, IsInjective
<1>6. IsFiniteSet(A)
  <2> HIDE DEF r
  <2> QED BY <1>4, VotesAreCounted, PositionsFinite
<1>7. Cardinality(B) = Cardinality(A)
  <2>1. ExistsBijection(A, B)
    BY <1>5 DEF ExistsBijection
  <2> HIDE DEF f, A, B
  <2> QED BY <1>6, <2>1, FS_Bijection
<1> QED
  BY <1>4, <1>7 DEF Votes, VotersFor

(* Backwards is one of the orders.                                         *)
LEMMA BackwardsReorders ==
  ASSUME NEW s \in Seq(Answer)
  PROVE  \E p \in Bijection(DOMAIN s, DOMAIN s) : Reverse(s) = Reordered(s, p)
<1> DEFINE n == Len(s)
           p == [i \in 1..n |-> n - i + 1]
<1>1. n \in Nat /\ DOMAIN s = 1..n
  OBVIOUS
<1>2. \A i \in 1..n : n - i + 1 \in 1..n /\ n - (n - i + 1) + 1 = i
  BY <1>1
<1>3. Reverse(s) = Reordered(s, p)
  BY <1>1 DEF Reverse, Reordered
<1>4. p \in [1..n -> 1..n]
  BY <1>2
<1>5. \A i, j \in 1..n : p[i] = p[j] => i = j
  BY <1>1
<1>6. \A j \in 1..n : \E i \in 1..n : p[i] = j
  BY <1>1, <1>2
<1>7. p \in Bijection(1..n, 1..n)
  <2> HIDE DEF p
  <2> QED BY <1>4, <1>5, <1>6 DEF Bijection, Injection, Surjection, IsInjective
<1> QED
  BY <1>1, <1>3, <1>7

-----------------------------------------------------------------------------
(* A decided event.  Once it is decided nothing more is read, so what the  *)
(* decision was taken by still stands.                                     *)

EventDecided ==
    /\ category = "Sports"
    /\ eventType \in EventType
    /\ results # <<>> /\ ConsensusHolds(results)
    /\ outcome = DetermineSportsOutcome(eventType, FindConsensus(results))
    /\ outcome # "None"

SportsInv ==
    /\ results \in Seq(Answer)
    /\ eventType # "None" => EventDecided

(* No answer leaves the outcome open.                                      *)
LEMMA OutcomeGiven ==
  ASSUME NEW event \in EventType, NEW answer
  PROVE  DetermineSportsOutcome(event, answer) \in {"Yes", "No", "Invalid", "Err"}
<1> DEFINE word == ToLowercase(answer)
<1> HIDE DEF word
<1>1. CASE event = "Winner"
  BY <1>1 DEF DetermineSportsOutcome, word
<1>2. CASE event = "YesNo"
  BY <1>2 DEF DetermineSportsOutcome, word
<1>3. CASE event = "ScoreThreshold"
  BY <1>3 DEF DetermineSportsOutcome, word
<1> QED
  BY <1>1, <1>2, <1>3 DEF EventType

(* No event is decided at first.                                           *)
LEMMA SportsInitInv == OracleInit => SportsInv
BY DEF OracleInit, SportsInit, SportsInv

(* An event is decided only by a consensus, and what was read stays.       *)
LEMMA SportsStepInv == SportsInv /\ [ProposeCrypto \/ ProposeSports]_oracleVars => SportsInv'
<1> SUFFICES ASSUME SportsInv, [ProposeCrypto \/ ProposeSports]_oracleVars PROVE SportsInv'
  OBVIOUS
<1>1. CASE UNCHANGED oracleVars
  BY <1>1 DEF oracleVars, sportsOnly, SportsInv, EventDecided
<1>2. CASE ProposeCrypto
  BY <1>2 DEF ProposeCrypto, sportsOnly, SportsInv, EventDecided
<1>3. ASSUME ProposeSports, NEW answer \in Answer, NEW age \in SourceAge, ReadSource(answer, age)
      PROVE  SportsInv'
  <2>1. results' \in Seq(Answer)
    BY <1>3 DEF ReadSource, SportsInv
  <2>2. eventType' = "None"
    BY <1>3 DEF ReadSource, SportsInv, EventDecided
  <2> QED BY <2>1, <2>2 DEF SportsInv
<1>4. ASSUME ProposeSports, NEW event \in EventType, DecideEvent(event)
      PROVE  SportsInv'
  <2>1. /\ results # <<>> /\ ConsensusHolds(results) /\ results' = results
        /\ outcome' = DetermineSportsOutcome(event, FindConsensus(results))
        /\ eventType' = event /\ category' = "Sports"
    BY <1>4 DEF DecideEvent, ProposeSports
  <2>2. outcome' # "None"
    BY <2>1, OutcomeGiven
  <2> QED BY <2>1, <2>2 DEF SportsInv, EventDecided
<1> QED
  BY <1>1, <1>2, <1>3, <1>4 DEF ProposeSports, SportsNext

(* No minority decides an event: most sources, asked alone, would have     *)
(* led to the same outcome.                                                *)
THEOREM MajorityDecides == OracleSpec => []MostSourcesConcur
<1>1. SportsInv => MostSourcesConcur
  <2> SUFFICES ASSUME SportsInv, EventDecided
               PROVE  2 * Cardinality({i \in DOMAIN results :
                            DetermineSportsOutcome(eventType, results[i]) = outcome}) > Len(results)
    BY DEF SportsInv, MostSourcesConcur
  <2> DEFINE a == FindConsensus(results)
             concurring == {i \in DOMAIN results :
                              DetermineSportsOutcome(eventType, results[i]) = outcome}
             n == Len(results)
  <2>1. results \in Seq(Answer) /\ n \in Nat /\ DOMAIN results = 1..n
    BY DEF SportsInv
  <2>2. 2 * Votes(results, a) > n
    BY <2>1, RequiredIsMajority DEF EventDecided
  <2>3. VotersFor(results, a) \in SUBSET concurring /\ concurring \in SUBSET (1..n)
    BY <2>1 DEF VotersFor, EventDecided
  <2>4. Votes(results, a) = Cardinality(VotersFor(results, a)) /\ Votes(results, a) \in Nat
    BY <2>1, VotesAreCounted
  <2> HIDE DEF a, concurring, n
  <2>5. Cardinality(VotersFor(results, a)) <= Cardinality(concurring)
    BY <2>1, <2>3, MorePositions
  <2>6. Cardinality(concurring) \in Nat
    BY <2>1, <2>3, PositionsFinite
  <2>7. 2 * Cardinality(concurring) > n
    BY <2>1, <2>2, <2>4, <2>5, <2>6
  <2> QED BY <2>7 DEF concurring, n
<1> QED
  BY <1>1, SportsInitInv, SportsStepInv, PTL DEF OracleSpec

(* However a decided event's sources are listed, they decide it alike.     *)
AnyOrderDecides ==
    eventType # "None" =>
      \A p \in Bijection(DOMAIN results, DOMAIN results) :
         LET listed == Reordered(results, p) IN
         /\ ConsensusHolds(listed)
         /\ DetermineSportsOutcome(eventType, FindConsensus(listed)) = outcome

(* The answer of a strict majority has one in every order.                 *)
LEMMA DecidedInAnyOrder == SportsInv => AnyOrderDecides
<1> SUFFICES ASSUME SportsInv, EventDecided,
                    NEW p \in Bijection(DOMAIN results, DOMAIN results)
             PROVE  /\ ConsensusHolds(Reordered(results, p))
                    /\ DetermineSportsOutcome(eventType, FindConsensus(Reordered(results, p)))
                         = outcome
  BY DEF SportsInv, AnyOrderDecides
<1> DEFINE a == FindConsensus(results)
           r == Reordered(results, p)
           n == Len(results)
<1>1. results \in Seq(Answer) /\ n \in Nat
  BY DEF SportsInv
<1>2. 2 * Votes(results, a) > n
  BY <1>1, RequiredIsMajority DEF EventDecided
<1>3. r \in Seq(Answer) /\ Len(r) = n /\ Votes(r, a) = Votes(results, a)
  BY <1>1, ReorderedVotes
<1>4. outcome = DetermineSportsOutcome(eventType, a)
  BY DEF EventDecided
<1> HIDE DEF a, r, n
<1>5. 2 * Votes(r, a) > Len(r)
  BY <1>2, <1>3
<1>6. \E i \in DOMAIN r : r[i] = a
  <2> SUFFICES ASSUME \A i \in DOMAIN r : r[i] # a PROVE FALSE
    OBVIOUS
  <2>1. VotersFor(r, a) = {}
    BY DEF VotersFor
  <2>2. Votes(r, a) = 0
    BY <1>3, <2>1, VotesAreCounted, FS_EmptySet
  <2> QED BY <1>1, <1>3, <1>5, <2>2
<1>7. FindConsensus(r) = a /\ ConsensusHolds(r)
  BY <1>3, <1>5, <1>6, MajorityIsFound
<1> QED
  BY <1>4, <1>7 DEF r

(* Listed in any order, the sources of a decided event would have decided  *)
(* it alike; backwards is the order the runs try.                          *)
THEOREM OrderIsIrrelevant == OracleSpec => [](AnyOrderDecides /\ OrderDoesNotMatter)
<1>1. SportsInv => AnyOrderDecides
  BY DecidedInAnyOrder
<1>2. SportsInv => OrderDoesNotMatter
  <2> SUFFICES ASSUME SportsInv, eventType # "None" PROVE OrderDoesNotMatter
    BY DEF OrderDoesNotMatter
  <2>1. PICK p \in Bijection(DOMAIN results, DOMAIN results) :
          Reverse(results) = Reordered(results, p)
    BY BackwardsReorders DEF SportsInv
  <2> QED BY <1>1, <2>1 DEF AnyOrderDecides, OrderDoesNotMatter
<1> QED
  BY <1>1, <1>2, SportsInitInv, SportsStepInv, PTL DEF OracleSpec

-----------------------------------------------------------------------------
(* Medians.  Counting what stands before it gives every price a place of   *)
(* its own, so every place is taken, and the middle ones are where half of *)
(* the prices are on either side.                                          *)

Before(s, i) == {j \in DOMAIN s : s[j] < s[i] \/ (s[j] = s[i] /\ j <= i)}

(* A place is the number of entries that come no later, itself included.   *)
LEMMA PlaceIsCount ==
  ASSUME NEW s \in Seq(Int), NEW i \in DOMAIN s
  PROVE  /\ Len(s) \in Nat /\ DOMAIN s = 1..Len(s) /\ s[i] \in Int
         /\ Before(s, i) \in SUBSET (1..Len(s)) /\ i \in Before(s, i)
         /\ Place(s, i) = Cardinality(Before(s, i)) /\ Place(s, i) \in 1..Len(s)
<1>1. Len(s) \in Nat /\ DOMAIN s = 1..Len(s) /\ s[i] \in Int
  OBVIOUS
<1>2. Before(s, i) \in SUBSET (1..Len(s)) /\ i \in Before(s, i)
  BY <1>1 DEF Before
<1>3. Place(s, i) = Cardinality(Before(s, i))
  BY DEF Place, Before
<1>4. Cardinality(Before(s, i)) \in Nat /\ Cardinality(Before(s, i)) <= Len(s)
  <2>1. 1..Len(s) \in SUBSET (1..Len(s))
    OBVIOUS
  <2> QED BY <1>1, <1>2, <2>1, PositionsFinite, MorePositions
<1>5. Cardinality(Before(s, i)) # 0
  BY <1>1, <1>2, PositionsFinite, FS_EmptySet
<1> QED
  BY <1>1, <1>2, <1>3, <1>4, <1>5

(* A smaller price, or an equal one read earlier, has fewer before it.     *)
LEMMA EarlierPlace ==
  ASSUME NEW s \in Seq(Int), NEW i \in DOMAIN s, NEW j \in DOMAIN s, i # j,
         s[i] < s[j] \/ (s[i] = s[j] /\ i <= j)
  PROVE  Place(s, i) < Place(s, j)
<1>1. /\ Len(s) \in Nat /\ DOMAIN s = 1..Len(s)
      /\ Before(s, i) \in SUBSET (1..Len(s)) /\ Before(s, j) \in SUBSET (1..Len(s))
      /\ Place(s, i) = Cardinality(Before(s, i)) /\ Place(s, i) \in Nat
      /\ Place(s, j) = Cardinality(Before(s, j)) /\ Place(s, j) \in Nat
      /\ j \in Before(s, j) /\ s[i] \in Int /\ s[j] \in Int
  BY PlaceIsCount
<1>2. Before(s, i) \in SUBSET Before(s, j)
  <2> SUFFICES ASSUME NEW k \in Before(s, i) PROVE k \in Before(s, j)
    OBVIOUS
  <2>1. k \in 1..Len(s) /\ s[k] \in Int /\ (s[k] < s[i] \/ (s[k] = s[i] /\ k <= i))
    BY <1>1 DEF Before
  <2>2. s[k] < s[j] \/ (s[k] = s[j] /\ k <= j)
    BY <1>1, <2>1
  <2> QED BY <1>1, <2>1, <2>2 DEF Before
<1>3. j \notin Before(s, i)
  BY <1>1 DEF Before
<1>4. IsFiniteSet(Before(s, j))
  BY <1>1, PositionsFinite
<1>5. /\ Cardinality(Before(s, i)) <= Cardinality(Before(s, j))
      /\ Cardinality(Before(s, i)) # Cardinality(Before(s, j))
  BY <1>1, <1>2, <1>3, <1>4, FS_Subset
<1> QED
  BY <1>1, <1>5

(* So places order prices, and no place is taken twice.                    *)
LEMMA PlacesOrder ==
  ASSUME NEW s \in Seq(Int), NEW i \in DOMAIN s, NEW j \in DOMAIN s
  PROVE  /\ Place(s, i) <= Place(s, j) => s[i] <= s[j]
         /\ Place(s, i) = Place(s, j) => i = j
<1>1. /\ Place(s, i) \in Nat /\ Place(s, j) \in Nat /\ s[i] \in Int /\ s[j] \in Int
      /\ i \in Nat /\ j \in Nat
  BY PlaceIsCount
<1>2. i # j => \/ s[i] < s[j] \/ (s[i] = s[j] /\ i <= j)
               \/ s[j] < s[i] \/ (s[j] = s[i] /\ j <= i)
  BY <1>1
<1>3. i # j => Place(s, i) < Place(s, j) \/ Place(s, j) < Place(s, i)
  BY <1>2, EarlierPlace
<1>4. s[j] < s[i] => Place(s, j) < Place(s, i)
  BY <1>1, EarlierPlace
<1> QED
  BY <1>1, <1>3, <1>4

(* The sorted prices are prices, each where its place is.                  *)
LEMMA SortedHolds ==
  ASSUME NEW s \in Seq(Int), NEW k \in DOMAIN s
  PROVE  \E i \in DOMAIN s : Place(s, i) = k /\ Sorted(s)[k] = s[i]
<1> DEFINE D == 1..Len(s)
           place == [i \in D |-> Place(s, i)]
<1>1. /\ Len(s) \in Nat /\ DOMAIN s = D
      /\ \A i \in D : Place(s, i) \in D
      /\ \A i, j \in D : Place(s, i) = Place(s, j) => i = j
  BY PlaceIsCount, PlacesOrder
<1>2. place \in Injection(D, D)
  <2>1. place \in [D -> D]
    BY <1>1
  <2>2. \A i, j \in D : place[i] = place[j] => i = j
    BY <1>1
  <2> HIDE DEF place, D
  <2> QED BY <2>1, <2>2 DEF Injection, IsInjective
<1>3. IsFiniteSet(D)
  BY <1>1, PositionsFinite
<1>4. place \in Surjection(D, D)
  <2> HIDE DEF place, D
  <2> QED BY <1>2, <1>3, FS_Injection
<1>5. \E i \in D : Place(s, i) = k
  <2>1. \E i \in D : place[i] = k
    <3> HIDE DEF place, D
    <3> QED BY <1>1, <1>4 DEF Surjection
  <2> QED BY <2>1
<1> DEFINE c == CHOOSE i \in DOMAIN s : Place(s, i) = k
<1>6. c \in DOMAIN s /\ Place(s, c) = k
  BY <1>1, <1>5
<1>7. Sorted(s)[k] = s[c]
  BY DEF Sorted
<1> HIDE DEF c
<1> QED
  BY <1>6, <1>7

(* As many prices are not above the one in a place as there are places up  *)
(* to it, and as many not below it as there are from it on.                *)
LEMMA OnEitherSide ==
  ASSUME NEW s \in Seq(Int), NEW i \in DOMAIN s
  PROVE  /\ Cardinality({j \in DOMAIN s : s[j] <= s[i]}) >= Place(s, i)
         /\ Cardinality({j \in DOMAIN s : s[j] >= s[i]}) >= Len(s) - Place(s, i) + 1
<1> DEFINE D == 1..Len(s)
           low == {j \in D : s[j] <= s[i]}
           high == {j \in D : s[j] >= s[i]}
           B == Before(s, i)
           rest == D \ (B \ {i})
<1>1. /\ Len(s) \in Nat /\ DOMAIN s = D /\ B \in SUBSET D /\ i \in B /\ s[i] \in Int
      /\ Place(s, i) = Cardinality(B) /\ Place(s, i) \in Nat
      /\ \A j \in D : s[j] \in Int
  BY PlaceIsCount
<1>2. low \in SUBSET D /\ B \in SUBSET low
  BY <1>1 DEF Before
<1>3. high \in SUBSET D /\ rest \in SUBSET high
  BY <1>1 DEF Before
<1>4. /\ IsFiniteSet(D) /\ Cardinality(D) = Len(s) /\ IsFiniteSet(B)
      /\ Cardinality(low) \in Nat /\ Cardinality(high) \in Nat
  <2> HIDE DEF low, high, B
  <2> QED BY <1>1, <1>2, <1>3, PositionsFinite
<1> HIDE DEF D, low, high, B
<1>5. Cardinality(B \ {i}) = Cardinality(B) - 1
  BY <1>1, <1>4, FS_RemoveElement
<1>6. Cardinality(rest) = Len(s) - (Cardinality(B) - 1)
  <2>1. D \cap (B \ {i}) = B \ {i}
    BY <1>1
  <2>2. Cardinality(rest) = Cardinality(D) - Cardinality(D \cap (B \ {i}))
    BY <1>4, FS_Difference
  <2> QED BY <1>4, <1>5, <2>1, <2>2
<1>7. Cardinality(B) <= Cardinality(low)
  BY <1>1, <1>2, MorePositions DEF D
<1>8. Cardinality(rest) <= Cardinality(high)
  <2> HIDE DEF rest
  <2> QED BY <1>1, <1>3, MorePositions DEF D
<1>9. Cardinality(low) >= Place(s, i) /\ Cardinality(high) >= Len(s) - Place(s, i) + 1
  BY <1>1, <1>4, <1>6, <1>7, <1>8
<1> QED
  BY <1>1, <1>9 DEF D, low, high

(* Half of a sum, cut off towards zero, is between the two numbers.        *)
LEMMA HalfwayBetween ==
  ASSUME NEW a \in Int, NEW b \in Int, a <= b
  PROVE  Halve(a + b) \in Int /\ a <= Halve(a + b) /\ Halve(a + b) <= b
<1>1. CASE a + b >= 0
  BY <1>1 DEF Halve
<1>2. CASE ~(a + b >= 0)
  <2> DEFINE n == -(a + b)
  <2>1. n \in Nat /\ n \div 2 \in Nat /\ 2 * (n \div 2) <= n /\ n <= 2 * (n \div 2) + 1
    BY <1>2
  <2>2. Halve(a + b) = -(n \div 2)
    BY <1>2 DEF Halve
  <2> DEFINE h == n \div 2
  <2>3. h \in Nat /\ 2 * h <= -(a + b) /\ -(a + b) <= 2 * h + 1 /\ Halve(a + b) = -h
    BY <2>1, <2>2
  <2> HIDE DEF h
  <2> QED BY <2>3
<1> QED
  BY <1>1, <1>2

(* The median lies between two of the prices, the first with half of the   *)
(* prices up to it and the second with half from it on.                    *)
LEMMA MedianBetween ==
  ASSUME NEW s \in Seq(Int), s # <<>>
  PROVE  /\ CalculateMedian(s) \in Int
         /\ \E a, b \in DOMAIN s :
               /\ s[a] <= CalculateMedian(s) /\ CalculateMedian(s) <= s[b]
               /\ 2 * Place(s, a) >= Len(s)
               /\ 2 * (Len(s) - Place(s, b) + 1) >= Len(s)
<1> DEFINE n == Len(s)
           mid == n \div 2 + 1
<1>1. n \in Nat /\ n > 0 /\ DOMAIN s = 1..n /\ \A i \in 1..n : s[i] \in Int
  OBVIOUS
<1>2. CASE n % 2 = 0
  <2>1. /\ mid - 1 \in 1..n /\ mid \in 1..n /\ mid - 1 <= mid
        /\ 2 * (mid - 1) >= n /\ 2 * (n - mid + 1) >= n
    BY <1>1, <1>2
  <2>2. CalculateMedian(s) = Halve(Sorted(s)[mid - 1] + Sorted(s)[mid])
    BY <1>2 DEF CalculateMedian
  <2> HIDE DEF mid
  <2>3. PICK a \in DOMAIN s : Place(s, a) = mid - 1 /\ Sorted(s)[mid - 1] = s[a]
    BY <1>1, <2>1, SortedHolds
  <2>4. PICK b \in DOMAIN s : Place(s, b) = mid /\ Sorted(s)[mid] = s[b]
    BY <1>1, <2>1, SortedHolds
  <2>5. s[a] <= s[b]
    BY <2>1, <2>3, <2>4, PlacesOrder
  <2>6. /\ CalculateMedian(s) \in Int
        /\ s[a] <= CalculateMedian(s) /\ CalculateMedian(s) <= s[b]
    <3>1. s[a] \in Int /\ s[b] \in Int
      BY <1>1
    <3>2. CalculateMedian(s) = Halve(s[a] + s[b])
      BY <2>2, <2>3, <2>4
    <3> QED BY <2>5, <3>1, <3>2, HalfwayBetween
  <2> QED BY <2>1, <2>3, <2>4, <2>6
<1>3. CASE n % 2 # 0
  <2>1. mid \in 1..n /\ 2 * mid >= n /\ 2 * (n - mid + 1) >= n
    BY <1>1, <1>3
  <2>2. CalculateMedian(s) = Sorted(s)[mid]
    BY <1>3 DEF CalculateMedian
  <2> HIDE DEF mid
  <2>3. PICK a \in DOMAIN s : Place(s, a) = mid /\ Sorted(s)[mid] = s[a]
    BY <1>1, <2>1, SortedHolds
  <2>4. CalculateMedian(s) \in Int /\ CalculateMedian(s) = s[a]
    BY <1>1, <2>2, <2>3
  <2>5. s[a] <= CalculateMedian(s) /\ CalculateMedian(s) <= s[a]
    BY <2>4
  <2> QED BY <2>1, <2>3, <2>4, <2>5
<1> QED
  BY <1>2, <1>3

-----------------------------------------------------------------------------
(* A decided condition, and prices that are whole numbers.                 *)

ConditionDecided ==
    /\ category = "Crypto"
    /\ condition \in Condition
    /\ prices # <<>> /\ PricesAgree(prices, CalculateMedian(prices))
    /\ outcome = Verdict(condition, CalculateMedian(prices))

CryptoInv ==
    /\ prices \in Seq(Int)
    /\ condition.kind # "None" => ConditionDecided

(* No price is read and no condition decided at first.                     *)
LEMMA CryptoInitInv == OracleInit => CryptoInv
BY DEF OracleInit, CryptoInit, CryptoInv

(* Only integers are recorded, and a condition is decided by their median. *)
LEMMA CryptoStepInv == CryptoInv /\ [ProposeCrypto \/ ProposeSports]_oracleVars => CryptoInv'
<1> SUFFICES ASSUME CryptoInv, [ProposeCrypto \/ ProposeSports]_oracleVars PROVE CryptoInv'
  OBVIOUS
<1>1. CASE UNCHANGED oracleVars
  BY <1>1 DEF oracleVars, cryptoOnly, CryptoInv, ConditionDecided
<1>2. CASE ProposeSports
  BY <1>2 DEF ProposeSports, cryptoOnly, CryptoInv, ConditionDecided
<1>3. ASSUME ProposeCrypto, NEW price \in FeedPrice, NEW expo \in FeedExpo,
             NEW confidence \in FeedConfidence, NEW age \in FeedAge,
             ReadFeed(price, expo, confidence, age)
      PROVE  CryptoInv'
  <2>1. NormalizePrice(price, expo) \in Int
    <3>1. price \in Int /\ expo \in Int
      BY FeedAssumption
    <3>2. CASE expo >= 0
      <4>1. 10^expo \in Int
        BY <3>1, <3>2
      <4> QED BY <3>1, <3>2, <4>1 DEF NormalizePrice
    <3>3. CASE ~(expo >= 0)
      BY <3>1, <3>3 DEF NormalizePrice
    <3> QED BY <3>2, <3>3
  <2>2. prices' \in Seq(Int)
    BY <1>3, <2>1 DEF ReadFeed, CryptoInv
  <2>3. condition'.kind = "None"
    <3>1. Verdict(condition, CalculateMedian(prices)) # "None"
      BY DEF Verdict
    <3> QED BY <1>3, <3>1 DEF ReadFeed, CryptoInv, ConditionDecided
  <2> QED BY <2>2, <2>3 DEF CryptoInv
<1>4. ASSUME ProposeCrypto, NEW c \in Condition, DecideCondition(c)
      PROVE  CryptoInv'
  <2>1. /\ prices # <<>> /\ PricesAgree(prices, CalculateMedian(prices))
        /\ outcome' = Verdict(c, CalculateMedian(prices))
        /\ condition' = c /\ prices' = prices /\ category' = "Crypto"
    BY <1>4 DEF DecideCondition, ProposeCrypto, Verdict
  <2> QED BY <2>1 DEF CryptoInv, ConditionDecided
<1> QED
  BY <1>1, <1>2, <1>3, <1>4 DEF ProposeCrypto, CryptoNext

(* The consensus is a middle value of the prices, however many there are   *)
(* and in whatever order.                                                  *)
THEOREM MediansAreCentral == OracleSpec => []MedianIsCentral
<1>1. CryptoInv => MedianIsCentral
  <2> SUFFICES ASSUME CryptoInv, prices # <<>>
               PROVE  LET consensus == CalculateMedian(prices)
                          below == {i \in DOMAIN prices : prices[i] <= consensus}
                          above == {i \in DOMAIN prices : prices[i] >= consensus}
                      IN 2 * Cardinality(below) >= Len(prices) /\ 2 * Cardinality(above) >= Len(prices)
    BY DEF MedianIsCentral
  <2> DEFINE median == CalculateMedian(prices)
             D == 1..Len(prices)
             below == {i \in DOMAIN prices : prices[i] <= median}
             above == {i \in DOMAIN prices : prices[i] >= median}
  <2>1. prices \in Seq(Int) /\ Len(prices) \in Nat /\ DOMAIN prices = D
    BY DEF CryptoInv
  <2>2. median \in Int
    BY <2>1, MedianBetween
  <2>3. PICK a \in DOMAIN prices, b \in DOMAIN prices :
          /\ prices[a] <= median /\ median <= prices[b]
          /\ 2 * Place(prices, a) >= Len(prices)
          /\ 2 * (Len(prices) - Place(prices, b) + 1) >= Len(prices)
    BY <2>1, MedianBetween
  <2> HIDE DEF median
  <2> DEFINE low == {j \in DOMAIN prices : prices[j] <= prices[a]}
             high == {j \in DOMAIN prices : prices[j] >= prices[b]}
  <2>4. /\ low \in SUBSET below /\ below \in SUBSET D
        /\ high \in SUBSET above /\ above \in SUBSET D
    <3>1. \A j \in DOMAIN prices : prices[j] \in Int
      BY <2>1
    <3> QED BY <2>1, <2>2, <2>3, <3>1
  <2>5. /\ Cardinality(low) >= Place(prices, a)
        /\ Cardinality(high) >= Len(prices) - Place(prices, b) + 1
    BY <2>1, OnEitherSide
  <2>6. Place(prices, a) \in Nat /\ Place(prices, b) \in Nat
    BY <2>1, PlaceIsCount
  <2> HIDE DEF low, high, below, above, D
  <2>7. /\ Cardinality(low) <= Cardinality(below) /\ Cardinality(high) <= Cardinality(above)
        /\ Cardinality(below) \in Nat /\ Cardinality(above) \in Nat
    BY <2>1, <2>4, MorePositions, PositionsFinite DEF D
  <2>8. Cardinality(low) \in Nat /\ Cardinality(high) \in Nat
    <3>1. low \in SUBSET (1..Len(prices)) /\ high \in SUBSET (1..Len(prices))
      BY <2>4 DEF D
    <3> QED BY <2>1, <3>1, PositionsFinite
  <2>9. 2 * Cardinality(below) >= Len(prices) /\ 2 * Cardinality(above) >= Len(prices)
    <3> DEFINE n == Len(prices)
               x == Place(prices, a)
               y == Place(prices, b)
               l == Cardinality(low)
               h == Cardinality(high)
    <3>1. n \in Nat /\ x \in Nat /\ y \in Nat /\ l \in Nat /\ h \in Nat
      BY <2>1, <2>6, <2>8
    <3>2. 2 * x >= n /\ 2 * (n - y + 1) >= n /\ l >= x /\ h >= n - y + 1
      BY <2>3, <2>5
    <3>3. l <= Cardinality(below) /\ h <= Cardinality(above)
      BY <2>7
    <3> HIDE DEF n, x, y, l, h
    <3>4. 2 * l >= n /\ 2 * h >= n
      BY <3>1, <3>2
    <3>5. 2 * Cardinality(below) >= n /\ 2 * Cardinality(above) >= n
      BY <2>7, <3>1, <3>3, <3>4
    <3> QED BY <3>5 DEF n
  <2> QED BY <2>9 DEF below, above, median
<1> QED
  BY <1>1, CryptoInitInv, CryptoStepInv, PTL DEF OracleSpec

(* Between two prices a condition judges differently lies a limit of it.   *)
LEMMA LimitBetween ==
  ASSUME NEW c \in Condition, NEW p \in Int, NEW q \in Int, Verdict(c, p) # Verdict(c, q)
  PROVE  \E limit \in Limits(c) :
            limit \in Int /\ ((p <= limit /\ limit <= q) \/ (q <= limit /\ limit <= p))
<1>1. (IsMet(c, p) /\ ~IsMet(c, q)) \/ (~IsMet(c, p) /\ IsMet(c, q))
  BY DEF Verdict
<1>2. CASE c \in [kind : {"GreaterOrEqual", "LessOrEqual"}, target : Int]
  <2>1. c.target \in Int /\ Limits(c) = {c.target}
    BY <1>2 DEF Limits
  <2> DEFINE t == c.target
  <2>2. CASE c.kind = "GreaterOrEqual"
    <3>1. (p >= t /\ ~(q >= t)) \/ (~(p >= t) /\ q >= t)
      BY <1>1, <2>2 DEF IsMet
    <3> QED BY <2>1, <3>1
  <2>3. CASE c.kind = "LessOrEqual"
    <3>1. (p <= t /\ ~(q <= t)) \/ (~(p <= t) /\ q <= t)
      BY <1>1, <2>3 DEF IsMet
    <3> QED BY <2>1, <3>1
  <2> QED BY <1>2, <2>2, <2>3
<1>3. CASE c \in [kind : {"Between"}, min : Int, max : Int]
  <2>1. c.kind = "Between" /\ c.min \in Int /\ c.max \in Int /\ Limits(c) = {c.min, c.max}
    BY <1>3 DEF Limits
  <2>2. /\ IsMet(c, p) <=> c.min <= p /\ p <= c.max
        /\ IsMet(c, q) <=> c.min <= q /\ q <= c.max
    BY <2>1 DEF IsMet
  <2> QED BY <1>1, <2>1, <2>2
<1> QED
  BY <1>2, <1>3, ConditionAssumption

(* A feed that alone would have decided otherwise has a limit of the       *)
(* condition between it and the consensus, within the deviation allowed.   *)
THEOREM DissentIsMarginal == OracleSpec => []DissentOnlyNearLimit
<1>1. CryptoInv => DissentOnlyNearLimit
  <2> DEFINE median == CalculateMedian(prices)
  <2> SUFFICES ASSUME CryptoInv, ConditionDecided, NEW i \in DOMAIN prices,
                      outcome # Verdict(condition, prices[i])
               PROVE  \E limit \in Limits(condition) :
                         Abs(limit - median) <= MaxDeviation(median)
    BY DEF CryptoInv, DissentOnlyNearLimit
  <2>1. prices \in Seq(Int) /\ prices[i] \in Int /\ prices # <<>>
    BY DEF CryptoInv, ConditionDecided
  <2>2. median \in Int
    BY <2>1, MedianBetween
  <2>3. Abs(prices[i] - median) <= MaxDeviation(median)
    BY DEF ConditionDecided, PricesAgree
  <2>4. Verdict(condition, median) # Verdict(condition, prices[i]) /\ condition \in Condition
    BY DEF ConditionDecided
  <2> HIDE DEF median
  <2> DEFINE p == prices[i]
  <2>5. PICK limit \in Limits(condition) :
          /\ limit \in Int
          /\ (median <= limit /\ limit <= p) \/ (p <= limit /\ limit <= median)
    BY <2>1, <2>2, <2>4, LimitBetween
  <2>6. p \in Int /\ Abs(p - median) <= MaxDeviation(median)
    BY <2>1, <2>3
  <2> HIDE DEF p
  <2>7. MaxDeviation(median) \in Int
    <3>1. Abs(median) \in Nat
      BY <2>2 DEF Abs
    <3> DEFINE a == Abs(median)
    <3> HIDE DEF a
    <3>2. a * MaxPriceDeviationBps \in Int
      BY <3>1, FeedAssumption DEF a
    <3>3. (a * MaxPriceDeviationBps) \div 10000 \in Int
      <4> DEFINE x == a * MaxPriceDeviationBps
      <4> HIDE DEF x
      <4>1. x \div 10000 \in Int
        BY <3>2 DEF x
      <4> QED BY <4>1 DEF x
    <3> QED BY <3>3 DEF MaxDeviation, a
  <2> DEFINE d == MaxDeviation(median)
  <2>8. d \in Int /\ Abs(p - median) <= d
    BY <2>6, <2>7
  <2> HIDE DEF d
  <2>9. Abs(limit - median) <= Abs(p - median)
    BY <2>2, <2>5, <2>6 DEF Abs
  <2>10. Abs(limit - median) \in Int /\ Abs(p - median) \in Int
    BY <2>2, <2>5, <2>6 DEF Abs
  <2>11. Abs(limit - median) <= d
    BY <2>8, <2>9, <2>10
  <2> QED BY <2>5, <2>11 DEF d, median
<1> QED
  BY <1>1, CryptoInitInv, CryptoStepInv, PTL DEF OracleSpec
=============================================================================
