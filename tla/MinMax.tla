------------------------------- MODULE MinMax -------------------------------
(* Least and greatest elements of sets of numbers, and induction from them. *)
EXTENDS Integers, FiniteSets, FiniteSetsExt, FiniteSetTheorems, WellFoundedInduction, TLAPS

\* Initial intervals grow with their end.
LEMMA IntervalGrows ==
    ASSUME NEW a \in Nat, NEW b \in Nat, a <= b
    PROVE  1..(a - 1) \subseteq 1..(b - 1) /\ 1..a \subseteq 1..b
  OBVIOUS

\* An initial interval and the run that continues it.
LEMMA IntervalExtended ==
    ASSUME NEW a \in Nat \ {0}, NEW n \in Nat
    PROVE  1..(a + n - 1) = 1..(a - 1) \cup a..(a + n - 1)
  OBVIOUS

\* Min is the least element of a nonempty set of numbers.
LEMMA MinIsLeast ==
    ASSUME NEW S \in SUBSET Nat, S # {}
    PROVE  Min(S) \in S /\ \A k \in S : Min(S) <= k
<1> DEFINE Less == {ss \in Nat \X Nat : ss[1] < ss[2]}
<1>1. IsWellFoundedOn(Less, Nat)
  BY NatLessThanWellFounded, Zenon DEF OpToRel
<1>2. \E x \in S : \A y \in S : ~(<<y, x>> \in Less)
  <2> HIDE DEF Less
  <2> QED
    BY <1>1, WFMin
<1>3. PICK x \in S : \A y \in S : <<y, x>> \notin Less
  BY <1>2
<1>4. ASSUME NEW y \in S
      PROVE  x =< y
  <2>1. <<y, x>> \in Nat \X Nat /\ <<y, x>>[1] = y /\ <<y, x>>[2] = x
    OBVIOUS
  <2>2. ~(y < x)
    BY <1>3, <2>1
  <2> QED
    BY <2>2
<1> QED
  BY <1>4 DEF Min

\* Max is the greatest element of a nonempty bounded set of numbers.
LEMMA MaxIsGreatest ==
    ASSUME NEW n \in Nat, NEW S \in SUBSET (0..n), S # {}
    PROVE  Max(S) \in S /\ \A k \in S : k <= Max(S)
<1> DEFINE T == {n - s : s \in S}
<1>1. \A s \in S : s \in 0..n /\ n - s \in Nat /\ n - s \in T
  OBVIOUS
<1>2. T \in SUBSET Nat /\ T # {}
  BY <1>1
<1>3. Min(T) \in T /\ \A t \in T : Min(T) <= t
  <2> HIDE DEF T
  <2> QED
    BY <1>2, MinIsLeast
<1>4. PICK x \in S : Min(T) = n - x
  BY <1>3
<1>5. ASSUME NEW k \in S
      PROVE  k <= x
  <2>1. n - x <= n - k /\ k \in Int /\ x \in Int
    <3> HIDE DEF T
    <3> QED
      BY <1>1, <1>3, <1>4
  <2> QED
    BY <2>1
<1>6. x \in S /\ \A k \in S : x >= k
  BY <1>1, <1>5
<1> QED
  BY <1>1, <1>6 DEF Max

\* Induction: a set of numbers with 0 and every successor has no least missing number.
LEMMA NatSetInduction ==
    ASSUME NEW S, 0 \in S, \A n \in Nat : n \in S => n + 1 \in S
    PROVE  \A n \in Nat : n \in S
<1> DEFINE T == {n \in Nat : n \notin S}
<1>1. SUFFICES ASSUME T # {} PROVE FALSE
  OBVIOUS
<1>2. Min(T) \in T /\ \A k \in T : Min(T) <= k
  <2>1. T \in SUBSET Nat
    OBVIOUS
  <2> HIDE DEF T
  <2> QED
    BY <1>1, <2>1, MinIsLeast
<1> DEFINE m == Min(T)
<1>3. m \in Nat /\ m \notin S /\ \A k \in Nat : k \notin S => m <= k
  BY <1>2
<1> HIDE DEF T, m
<1>4. m # 0 /\ m - 1 \in Nat
  BY <1>3
<1>5. m - 1 \in S
  BY <1>3, <1>4
<1>6. (m - 1) + 1 \in S
  BY <1>4, <1>5
<1>7. (m - 1) + 1 = m
  BY <1>3
<1> QED
  BY <1>3, <1>6, <1>7

\* The first n elements of a set of numbers are at most n.
LEMMA FirstElements ==
    ASSUME NEW b \in Nat, NEW S \in SUBSET (0..b), NEW n \in Nat,
           NEW F \in SUBSET S, \A m \in F : Cardinality({k \in S : k < m}) < n
    PROVE  IsFiniteSet(F) /\ Cardinality(F) \in Nat /\ Cardinality(F) <= n
<1> DEFINE Below(m) == {k \in S : k < m}
<1>1. IsFiniteSet(S)
  <2>1. IsFiniteSet(0..b)
    BY FS_Interval
  <2> QED
    BY <2>1, FS_Subset
<1>2. \A T \in SUBSET S : IsFiniteSet(T) /\ Cardinality(T) \in Nat
  BY <1>1, FS_Subset, FS_CardinalityType
<1>3. \A m \in F : Cardinality(Below(m)) < n
  OBVIOUS
<1> HIDE DEF Below
<1>4. CASE F = {}
  <2>1. IsFiniteSet({}) /\ Cardinality({}) = 0
    BY FS_EmptySet
  <2> QED
    BY <1>4, <2>1
<1>5. CASE F # {}
  <2> DEFINE x == Max(F)
  <2>1. x \in F /\ \A k \in F : k <= x
    BY <1>3, <1>5, MaxIsGreatest
  <2> HIDE DEF x
  <2>2. F \ {x} \subseteq Below(x) /\ Below(x) \in SUBSET S
    <3>1. \A k \in F \ {x} : k \in S /\ k \in Int /\ x \in Int /\ k < x
      BY <2>1
    <3> QED
      BY <3>1 DEF Below
  <2>3. Cardinality(F \ {x}) <= Cardinality(Below(x))
    BY <1>2, <2>2, FS_Subset
  <2>4. Cardinality(F \ {x}) = Cardinality(F) - 1
    BY <1>2, <1>3, <2>1, FS_RemoveElement
  <2>5. Cardinality(F) \in Nat /\ Cardinality(Below(x)) \in Nat
    BY <1>2, <1>3, <2>2
  <2>6. Cardinality(Below(x)) < n
    BY <1>3, <2>1
  <2> QED
    BY <1>2, <2>3, <2>4, <2>5, <2>6
<1> QED
  BY <1>4, <1>5
=============================================================================
