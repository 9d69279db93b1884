-------------------------- MODULE TokenLedgerProofs -------------------------
(***************************************************************************)
(* What crediting, debiting and moving do to an account, for any set of    *)
(* owners: balances stay naturals, and only those named change.            *)
(***************************************************************************)
EXTENDS TokenLedger, FiniteSetTheorems, TLAPS

(* Crediting adds to one balance.                                         *)
LEMMA CreditAccount ==
  ASSUME NEW S, NEW acc \in [S -> Nat], NEW h \in S, NEW n \in Nat
  PROVE  /\ Credit(acc, h, n) \in [S -> Nat]
         /\ Credit(acc, h, n)[h] = acc[h] + n
         /\ \A g \in S : g # h => Credit(acc, h, n)[g] = acc[g]
BY DEF Credit

(* Debiting a balance that covers it subtracts from it.                    *)
LEMMA DebitAccount ==
  ASSUME NEW S, NEW acc \in [S -> Nat], NEW h \in S, NEW n \in Nat, n <= acc[h]
  PROVE  /\ Debit(acc, h, n) \in [S -> Nat]
         /\ Debit(acc, h, n)[h] = acc[h] - n
         /\ \A g \in S : g # h => Debit(acc, h, n)[g] = acc[g]
BY DEF Debit

(* Moving keeps balances natural, also from an owner to itself.            *)
LEMMA MoveAccount ==
  ASSUME NEW S, NEW acc \in [S -> Nat], NEW h \in S, NEW g \in S, NEW n \in Nat,
         n <= acc[h]
  PROVE  Move(acc, h, g, n) \in [S -> Nat]
BY CreditAccount, DebitAccount DEF Move

-----------------------------------------------------------------------------
(* Sums over accounts.  A fold is a recursive function on the subsets of   *)
(* its index set.  Counting the units an account holds, one pair of owner  *)
(* and number for each, solves its equation, and by a least counterexample *)
(* nothing else does.                                                      *)

UnitsOf(x, n) == {x} \X (1..n)
Units(S, account) == UNION {UnitsOf(x, account[x]) : x \in S}

(* One owner's units are as many as its balance.                           *)
LEMMA UnitsOfOwner ==
  ASSUME NEW x, NEW n \in Nat
  PROVE  IsFiniteSet(UnitsOf(x, n)) /\ Cardinality(UnitsOf(x, n)) = n
<1>1. IsFiniteSet({x}) /\ Cardinality({x}) = 1
  BY FS_Singleton
<1>2. IsFiniteSet(1..n) /\ Cardinality(1..n) = n
  BY FS_Interval
<1>3. /\ IsFiniteSet({x} \X (1..n))
      /\ Cardinality({x} \X (1..n)) = Cardinality({x}) * Cardinality(1..n)
  BY <1>1, <1>2, FS_Product
<1> QED
  BY <1>1, <1>2, <1>3 DEF UnitsOf

(* Finitely many owners hold finitely many units.                          *)
LEMMA UnitsFinite ==
  ASSUME NEW S, IsFiniteSet(S), NEW account, \A x \in S : account[x] \in Nat
  PROVE  IsFiniteSet(Units(S, account))
<1> DEFINE held == [x \in S |-> UnitsOf(x, account[x])]
           parts == {UnitsOf(x, account[x]) : x \in S}
<1>1. held \in Surjection(S, parts)
  BY DEF Surjection
<1>2. IsFiniteSet(parts)
  <2> HIDE DEF held, parts
  <2> QED BY <1>1, FS_Surjection
<1>3. \A T \in parts : IsFiniteSet(T)
  BY UnitsOfOwner
<1>4. IsFiniteSet(UNION parts)
  <2> HIDE DEF parts
  <2> QED BY <1>2, <1>3, FS_UNION
<1> QED
  BY <1>4 DEF Units

(* The units of all owners are those of one and those of the others.       *)
LEMMA UnitsSplit ==
  ASSUME NEW S, IsFiniteSet(S), NEW account, \A x \in S : account[x] \in Nat, NEW x \in S
  PROVE  Cardinality(Units(S, account)) = account[x] + Cardinality(Units(S \ {x}, account))
<1> DEFINE own == UnitsOf(x, account[x])
           rest == Units(S \ {x}, account)
<1>1. IsFiniteSet(own) /\ Cardinality(own) = account[x]
  BY UnitsOfOwner
<1>2. IsFiniteSet(rest) /\ Cardinality(rest) \in Nat
  <2>1. IsFiniteSet(S \ {x})
    BY FS_RemoveElement
  <2>2. IsFiniteSet(rest)
    BY <2>1, UnitsFinite
  <2> HIDE DEF rest
  <2> QED BY <2>2, FS_CardinalityType
<1>3. Units(S, account) = own \cup rest
  BY DEF Units
<1>4. own \cap rest = {}
  BY DEF Units, UnitsOf
<1>5. Cardinality(own \cup rest) = Cardinality(own) + Cardinality(rest) - Cardinality({})
  <2> HIDE DEF own, rest
  <2> QED BY <1>1, <1>2, <1>4, FS_Union
<1>6. Cardinality({}) = 0 /\ account[x] \in Nat
  BY FS_EmptySet
<1>7. Cardinality(Units(S, account)) = account[x] + Cardinality(rest)
  <2> HIDE DEF own, rest
  <2> QED BY <1>1, <1>2, <1>3, <1>5, <1>6
<1> QED
  BY <1>7

(* What the fold's equation says of a function on the subsets of S.        *)
Folds(h, S, account) ==
    h = [T \in SUBSET S |->
           IF T = {} THEN 0
           ELSE account[CHOOSE x \in T : TRUE] + h[T \ {CHOOSE x \in T : TRUE}]]

CountUnits(S, account) == [T \in SUBSET S |-> Cardinality(Units(T, account))]

(* Counting units satisfies the equations the sum is defined by.           *)
LEMMA CountingFolds ==
  ASSUME NEW S, IsFiniteSet(S), NEW account, \A x \in S : account[x] \in Nat
  PROVE  Folds(CountUnits(S, account), S, account)
<1> DEFINE g == CountUnits(S, account)
<1>1. ASSUME NEW T \in SUBSET S
      PROVE  g[T] = IF T = {} THEN 0
                    ELSE account[CHOOSE x \in T : TRUE] + g[T \ {CHOOSE x \in T : TRUE}]
  <2>1. g[T] = Cardinality(Units(T, account))
    BY DEF CountUnits
  <2>2. CASE T = {}
    <3>1. Units({}, account) = {}
      BY DEF Units
    <3> QED BY <2>1, <2>2, <3>1, FS_EmptySet
  <2>3. CASE T # {}
    <3> DEFINE x == CHOOSE x \in T : TRUE
    <3>1. x \in T
      BY <2>3
    <3> HIDE DEF x
    <3>2. IsFiniteSet(T)
      BY FS_Subset
    <3>3. Cardinality(Units(T, account)) = account[x] + Cardinality(Units(T \ {x}, account))
      BY <3>1, <3>2, UnitsSplit
    <3>4. g[T \ {x}] = Cardinality(Units(T \ {x}, account))
      BY DEF CountUnits
    <3>5. g[T] = account[x] + g[T \ {x}]
      BY <2>1, <3>3, <3>4
    <3> QED BY <2>3, <3>5 DEF x
  <2> QED BY <2>2, <2>3
<1>2. g = [T \in SUBSET S |-> g[T]]
  BY DEF CountUnits
<1> HIDE DEF g
<1>3. [T \in SUBSET S |-> g[T]]
        = [T \in SUBSET S |->
             IF T = {} THEN 0
             ELSE account[CHOOSE x \in T : TRUE] + g[T \ {CHOOSE x \in T : TRUE}]]
  BY <1>1
<1>4. Folds(g, S, account)
  BY <1>2, <1>3 DEF Folds
<1> QED
  BY <1>4 DEF g

(* A smallest set on which two solutions differ would not be empty, and    *)
(* without its chosen element they would differ already.                   *)
LEMMA FoldsUnique ==
  ASSUME NEW S, IsFiniteSet(S), NEW account, NEW g, NEW h,
         Folds(g, S, account), Folds(h, S, account)
  PROVE  g = h
<1> DEFINE R == StrictSubsetOrdering(S)
           differ == {T \in SUBSET S : g[T] # h[T]}
<1>1. IsWellFoundedOn(R, SUBSET S)
  BY FS_StrictSubsetOrderingWellFounded, FS_FiniteSubsetsOfFinite
<1>2. ASSUME differ # {} PROVE FALSE
  <2>1. \E T \in differ : \A U \in differ : ~(<<U, T>> \in R)
    <3>1. differ \subseteq SUBSET S
      OBVIOUS
    <3> HIDE DEF differ, R
    <3> QED BY <1>1, <1>2, <3>1, WFMin
  <2>2. PICK T \in differ : \A U \in differ : ~(<<U, T>> \in R)
    BY <2>1
  <2>3. T # {}
    BY DEF Folds
  <2> DEFINE x == CHOOSE x \in T : TRUE
  <2>4. x \in T
    BY <2>3
  <2>5. T \in SUBSET S /\ T \ {x} \in SUBSET S /\ g[T] # h[T]
    OBVIOUS
  <2>6. <<T \ {x}, T>> \in R
    <3> HIDE DEF x
    <3> QED BY <2>4, <2>5 DEF StrictSubsetOrdering
  <2>7. g[T \ {x}] = h[T \ {x}]
    BY <2>2, <2>5, <2>6
  <2>8. /\ g[T] = account[x] + g[T \ {x}]
        /\ h[T] = account[x] + h[T \ {x}]
    BY <2>3, <2>5 DEF Folds
  <2> QED BY <2>5, <2>7, <2>8
<1>3. /\ g = [T \in SUBSET S |-> g[T]]
      /\ h = [T \in SUBSET S |-> h[T]]
  BY DEF Folds
<1> QED
  BY <1>2, <1>3

(* A sum is the number of units held.                                      *)
LEMMA SumCountsUnits ==
  ASSUME NEW S, IsFiniteSet(S), NEW account, \A x \in S : account[x] \in Nat
  PROVE  SumOver(S, account) = Cardinality(Units(S, account))
<1> DEFINE g == CountUnits(S, account)
<1>1. Folds(g, S, account)
  BY CountingFolds
<1>2. \A h : Folds(h, S, account) => h = g
  BY <1>1, FoldsUnique
<1>3. g[S] = Cardinality(Units(S, account))
  BY DEF CountUnits
<1> HIDE DEF g
<1>4. SumOver(S, account) = g[S]
  BY <1>1, <1>2 DEF Folds, SumOver, FoldFunctionOnSet, MapThenFoldSet
<1> QED
  BY <1>3, <1>4

-----------------------------------------------------------------------------
(* What the other modules use of sums.                                     *)

(* The sum is a natural number that covers every balance, and splits into  *)
(* one balance and the sum of the others.                                  *)
LEMMA SumSplit ==
  ASSUME NEW S, IsFiniteSet(S), NEW account, \A x \in S : account[x] \in Nat, NEW x \in S
  PROVE  /\ SumOver(S, account) \in Nat
         /\ SumOver(S \ {x}, account) \in Nat
         /\ SumOver(S, account) = account[x] + SumOver(S \ {x}, account)
<1>1. IsFiniteSet(S \ {x})
  BY FS_RemoveElement
<1>2. /\ SumOver(S, account) = Cardinality(Units(S, account))
      /\ SumOver(S \ {x}, account) = Cardinality(Units(S \ {x}, account))
  BY <1>1, SumCountsUnits
<1>3. /\ Cardinality(Units(S, account)) \in Nat
      /\ Cardinality(Units(S \ {x}, account)) \in Nat
  BY <1>1, UnitsFinite, FS_CardinalityType
<1>4. Cardinality(Units(S, account)) = account[x] + Cardinality(Units(S \ {x}, account))
  BY UnitsSplit
<1> QED
  BY <1>2, <1>3, <1>4

(* A sum of naturals is one.                                               *)
LEMMA SumType ==
  ASSUME NEW S, IsFiniteSet(S), NEW account, \A x \in S : account[x] \in Nat
  PROVE  SumOver(S, account) \in Nat
BY SumCountsUnits, UnitsFinite, FS_CardinalityType

(* Over nobody the sum is 0.                                               *)
LEMMA SumOfNone ==
  ASSUME NEW account
  PROVE  SumOver({}, account) = 0
<1>1. Units({}, account) = {}
  BY DEF Units
<1> QED
  BY <1>1, SumCountsUnits, FS_EmptySet

(* Only the balances summed over matter.                                   *)
LEMMA SumSame ==
  ASSUME NEW S, IsFiniteSet(S), NEW a, NEW b,
         \A x \in S : a[x] \in Nat /\ b[x] = a[x]
  PROVE  SumOver(S, b) = SumOver(S, a)
<1>1. Units(S, b) = Units(S, a)
  BY DEF Units
<1> QED
  BY <1>1, SumCountsUnits

(* A step that writes one balance changes the sum by as much.              *)
LEMMA SumChange ==
  ASSUME NEW S, IsFiniteSet(S), NEW a \in [S -> Nat], NEW b \in [S -> Nat], NEW x \in S,
         \A y \in S : y # x => b[y] = a[y]
  PROVE  /\ SumOver(S, a) \in Nat /\ SumOver(S, b) \in Nat
         /\ SumOver(S, b) - b[x] = SumOver(S, a) - a[x]
<1>1. IsFiniteSet(S \ {x})
  BY FS_RemoveElement
<1>2. SumOver(S \ {x}, b) = SumOver(S \ {x}, a)
  BY <1>1, SumSame
<1>3. a[x] \in Nat /\ b[x] \in Nat
  OBVIOUS
<1>4. /\ SumOver(S, a) \in Nat /\ SumOver(S, b) \in Nat
      /\ SumOver(S \ {x}, a) \in Nat
      /\ SumOver(S, a) = a[x] + SumOver(S \ {x}, a)
      /\ SumOver(S, b) = b[x] + SumOver(S \ {x}, b)
  BY SumSplit
<1> QED
  BY <1>2, <1>3, <1>4

(* Crediting one account adds the amount to the sum.                       *)
LEMMA SumCredit ==
  ASSUME NEW S, IsFiniteSet(S), NEW acc \in [S -> Nat], NEW h \in S, NEW n \in Nat
  PROVE  SumOver(S, Credit(acc, h, n)) = SumOver(S, acc) + n
<1> DEFINE b == Credit(acc, h, n)
<1>1. /\ b \in [S -> Nat] /\ b[h] = acc[h] + n
      /\ \A g \in S : g # h => b[g] = acc[g]
  BY CreditAccount
<1>2. acc[h] \in Nat
  OBVIOUS
<1> HIDE DEF b
<1>3. /\ SumOver(S, acc) \in Nat /\ SumOver(S, b) \in Nat
      /\ SumOver(S, b) - b[h] = SumOver(S, acc) - acc[h]
  BY <1>1, SumChange
<1>4. SumOver(S, b) = SumOver(S, acc) + n
  BY <1>1, <1>2, <1>3
<1> QED
  BY <1>4 DEF b

(* Debiting one account takes the amount from the sum.                     *)
LEMMA SumDebit ==
  ASSUME NEW S, IsFiniteSet(S), NEW acc \in [S -> Nat], NEW h \in S, NEW n \in Nat, n <= acc[h]
  PROVE  SumOver(S, Debit(acc, h, n)) = SumOver(S, acc) - n
<1> DEFINE b == Debit(acc, h, n)
<1>1. /\ b \in [S -> Nat] /\ b[h] = acc[h] - n
      /\ \A g \in S : g # h => b[g] = acc[g]
  BY DebitAccount
<1>2. acc[h] \in Nat
  OBVIOUS
<1> HIDE DEF b
<1>3. /\ SumOver(S, acc) \in Nat /\ SumOver(S, b) \in Nat
      /\ SumOver(S, b) - b[h] = SumOver(S, acc) - acc[h]
  BY <1>1, SumChange
<1>4. SumOver(S, b) = SumOver(S, acc) - n
  BY <1>1, <1>2, <1>3
<1> QED
  BY <1>4 DEF b

(* Moving leaves the sum as it is.                                         *)
LEMMA SumMove ==
  ASSUME NEW S, IsFiniteSet(S), NEW acc \in [S -> Nat], NEW h \in S, NEW g \in S,
         NEW n \in Nat, n <= acc[h]
  PROVE  SumOver(S, Move(acc, h, g, n)) = SumOver(S, acc)
<1>1. Debit(acc, h, n) \in [S -> Nat]
  BY DebitAccount
<1>2. SumOver(S, Move(acc, h, g, n)) = SumOver(S, Debit(acc, h, n)) + n
  BY <1>1, SumCredit DEF Move
<1>3. SumOver(S, Debit(acc, h, n)) = SumOver(S, acc) - n
  BY SumDebit
<1>4. SumOver(S, acc) \in Nat
  BY SumType
<1> QED
  BY <1>2, <1>3, <1>4

(* Emptying a balance takes it off the sum.                                *)
LEMMA SumEmptied ==
  ASSUME NEW S, IsFiniteSet(S), NEW acc \in [S -> Nat], NEW h \in S
  PROVE  SumOver(S, [acc EXCEPT ![h] = 0]) = SumOver(S, acc) - acc[h]
<1> DEFINE b == [acc EXCEPT ![h] = 0]
<1>1. /\ b \in [S -> Nat] /\ b[h] = 0
      /\ \A g \in S : g # h => b[g] = acc[g]
  OBVIOUS
<1>2. acc[h] \in Nat
  OBVIOUS
<1> HIDE DEF b
<1>3. /\ SumOver(S, acc) \in Nat /\ SumOver(S, b) \in Nat
      /\ SumOver(S, b) - b[h] = SumOver(S, acc) - acc[h]
  BY <1>1, SumChange
<1>4. SumOver(S, b) = SumOver(S, acc) - acc[h]
  BY <1>1, <1>2, <1>3
<1> QED
  BY <1>4 DEF b

(* No balance exceeds the sum.                                             *)
LEMMA SumCovers ==
  ASSUME NEW S, IsFiniteSet(S), NEW acc \in [S -> Nat], NEW h \in S
  PROVE  acc[h] <= SumOver(S, acc)
<1>1. acc[h] \in Nat /\ \A x \in S : acc[x] \in Nat
  OBVIOUS
<1>2. /\ SumOver(S, acc) \in Nat /\ SumOver(S \ {h}, acc) \in Nat
      /\ SumOver(S, acc) = acc[h] + SumOver(S \ {h}, acc)
  BY <1>1, SumSplit
<1> QED
  BY <1>1, <1>2

(* Balances that are all zero sum to zero.                                 *)
LEMMA SumOfZeros ==
  ASSUME NEW S, IsFiniteSet(S), NEW account, \A x \in S : account[x] = 0
  PROVE  SumOver(S, account) = 0
<1>1. \A x \in S : UnitsOf(x, account[x]) = {}
  BY DEF UnitsOf
<1>2. Units(S, account) = {}
  BY <1>1 DEF Units
<1> QED
  BY <1>2, SumCountsUnits, FS_EmptySet

(* Balances of at most c sum to at most c for each of them.                *)
LEMMA SumBounded ==
  ASSUME NEW S, IsFiniteSet(S), NEW account, NEW c \in Nat,
         \A x \in S : account[x] \in Nat /\ account[x] <= c
  PROVE  SumOver(S, account) <= Cardinality(S) * c
<1>1. Units(S, account) \subseteq S \X (1..c)
  BY DEF Units, UnitsOf
<1>2. IsFiniteSet(1..c) /\ Cardinality(1..c) = c
  BY FS_Interval
<1>3. /\ IsFiniteSet(S \X (1..c))
      /\ Cardinality(S \X (1..c)) = Cardinality(S) * c
  BY <1>2, FS_Product
<1>4. Cardinality(Units(S, account)) <= Cardinality(S \X (1..c))
  BY <1>1, <1>3, FS_Subset
<1> QED
  BY <1>3, <1>4, SumCountsUnits

(* One more term.                                                          *)
LEMMA SumAppended ==
  ASSUME NEW n \in Nat, NEW a, NEW b,
         \A i \in 1..n : a[i] \in Nat /\ b[i] = a[i], b[n + 1] \in Nat
  PROVE  SumOver(1..(n + 1), b) = SumOver(1..n, a) + b[n + 1]
<1> DEFINE S == 1..(n + 1)
           x == n + 1
<1>1. IsFiniteSet(S) /\ IsFiniteSet(1..n)
  BY FS_Interval
<1>2. S \ {x} = 1..n /\ x \in S
  OBVIOUS
<1>3. \A i \in S : b[i] \in Nat
  <2>1. \A i \in S : i = x \/ i \in 1..n
    OBVIOUS
  <2> QED BY <2>1
<1> HIDE DEF S, x
<1>4. SumOver(S, b) = b[x] + SumOver(S \ {x}, b) /\ SumOver(S \ {x}, b) \in Nat
  BY <1>1, <1>2, <1>3, SumSplit
<1>5. SumOver(1..n, b) = SumOver(1..n, a)
  BY <1>1, SumSame
<1>6. SumOver(S, b) = b[x] + SumOver(1..n, a) /\ SumOver(1..n, a) \in Nat /\ b[x] \in Nat
  BY <1>2, <1>3, <1>4, <1>5
<1>7. SumOver(S, b) = SumOver(1..n, a) + b[x]
  BY <1>6
<1> QED
  BY <1>7 DEF S, x
=============================================================================
