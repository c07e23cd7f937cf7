----------------------------- MODULE NumberLemmas -----------------------------
(* Least and greatest members of sets of numbers, and the members of sets of positions
   in their order, for the proof modules. *)
EXTENDS Positions, WellFoundedInduction, FiniteSetTheorems, TLAPS

LessPairs == {p \in Nat \X Nat : p[1] < p[2]}

\* Every non-empty set of naturals has a least member; the library states it
\* for predicates, which the provers cannot instantiate.
LEMMA LeastNumber ==
  ASSUME NEW S \in SUBSET Nat, S # {}
  PROVE  \E m \in S : \A n \in S : m <= n
<1>1. IsWellFoundedOn(LessPairs, Nat)
  <2>1. OpToRel(<, Nat) = LessPairs
    BY Zenon DEF OpToRel, LessPairs
  <2> QED BY <2>1, NatLessThanWellFounded, Zenon
<1>2. PICK m \in S : \A n \in S : <<n, m>> \notin LessPairs
  BY <1>1, WFMin, Zenon
<1>3. \A x, y \in Nat : <<x, y>> \notin LessPairs => y <= x
  BY DEF LessPairs
<1>4. \A n \in S : m <= n
  <2> TAKE n \in S
  <2>1. m \in Nat /\ n \in Nat
    OBVIOUS
  <2>2. <<n, m>> \notin LessPairs
    BY <1>2
  <2> QED BY <2>1, <2>2, <1>3
<1> QED BY <1>4

\* A non-empty set of naturals up to a bound has a greatest member.
LEMMA GreatestNumber ==
  ASSUME NEW bound \in Nat, NEW S \in SUBSET (0 .. bound), S # {}
  PROVE  \E m \in S : \A n \in S : n <= m
<1> DEFINE T == {k \in 0 .. bound : bound - k \in S}
<1>1. T \in SUBSET Nat /\ T # {}
  <2>1. PICK n \in S : TRUE
    OBVIOUS
  <2>2. bound - n \in 0 .. bound /\ bound - (bound - n) = n
    OBVIOUS
  <2>3. bound - n \in T
    BY <2>1, <2>2
  <2> QED BY <2>3
<1>2. PICK k \in T : \A j \in T : k <= j
  BY <1>1, LeastNumber
<1>3. ASSUME NEW n \in S
      PROVE  n <= bound - k
  <2>1. bound - n \in 0 .. bound /\ bound - (bound - n) = n
    OBVIOUS
  <2>2. k <= bound - n
    BY <1>2, <2>1
  <2> QED BY <2>2
<1> QED BY <1>2, <1>3

-----------------------------------------------------------------------------
(* Positions *)

\* A count of positions of a sequence bounds a prefix of it.
LEMMA PositionCount ==
  ASSUME NEW n \in Nat, NEW T \in SUBSET (1..n)
  PROVE  Cardinality(T) \in 0..n
<1>1. IsFiniteSet(1..n) /\ Cardinality(1..n) = n
  BY FS_Interval
<1>2. IsFiniteSet(T) /\ Cardinality(T) <= n
  BY <1>1, FS_Subset
<1> QED BY <1>2, FS_CardinalityType

\* How many members a set of positions has, and has up to one of them.
LEMMA CountFacts ==
  ASSUME NEW n \in Nat, NEW S \in SUBSET (1..n), NEW i \in Nat
  PROVE  /\ IsFiniteSet(S) /\ Cardinality(S) \in 0..n
         /\ IsFiniteSet(S \cap (1..i)) /\ Cardinality(S \cap (1..i)) \in 0..Cardinality(S)
<1>1. IsFiniteSet(1..n)
  BY FS_Interval
<1>2. IsFiniteSet(S)
  BY <1>1, FS_Subset
<1>3. S \cap (1..i) \in SUBSET S
  OBVIOUS
<1>4. IsFiniteSet(S \cap (1..i)) /\ Cardinality(S \cap (1..i)) <= Cardinality(S)
  BY <1>2, <1>3, FS_Subset
<1>5. Cardinality(S) \in Nat /\ Cardinality(S \cap (1..i)) \in Nat
  BY <1>2, <1>4, FS_CardinalityType
<1> QED BY <1>2, <1>4, <1>5, PositionCount

LEMMA CountStep ==
  ASSUME NEW n \in Nat, NEW S \in SUBSET (1..n), NEW i \in Nat
  PROVE  Cardinality(S \cap (1..(i + 1))) =
           IF i + 1 \in S THEN Cardinality(S \cap (1..i)) + 1 ELSE Cardinality(S \cap (1..i))
<1>1. IsFiniteSet(S \cap (1..i))
  BY CountFacts
<1>2. CASE i + 1 \in S
  <2>1. S \cap (1..(i + 1)) = (S \cap (1..i)) \cup {i + 1}
    BY <1>2
  <2>2. i + 1 \notin S \cap (1..i)
    OBVIOUS
  <2> QED BY <1>1, <1>2, <2>1, <2>2, FS_AddElement
<1>3. CASE i + 1 \notin S
  <2>1. S \cap (1..(i + 1)) = S \cap (1..i)
    BY <1>3
  <2> QED BY <1>3, <2>1
<1> QED BY <1>2, <1>3

\* Counting further never counts less, and counts one more at a member.
LEMMA CountGrows ==
  ASSUME NEW n \in Nat, NEW S \in SUBSET (1..n), NEW i \in Nat, NEW j \in Nat, i < j
  PROVE  /\ Cardinality(S \cap (1..i)) <= Cardinality(S \cap (1..j))
         /\ j \in S => Cardinality(S \cap (1..i)) < Cardinality(S \cap (1..j))
<1>1. IsFiniteSet(S \cap (1..j)) /\ IsFiniteSet(S \cap (1..i))
      /\ Cardinality(S \cap (1..i)) \in Nat /\ Cardinality(S \cap (1..j)) \in Nat
  BY CountFacts, FS_CardinalityType
<1>2. S \cap (1..i) \in SUBSET (S \cap (1..j))
  OBVIOUS
<1>3. Cardinality(S \cap (1..i)) <= Cardinality(S \cap (1..j))
      /\ (Cardinality(S \cap (1..i)) = Cardinality(S \cap (1..j)) => S \cap (1..j) = S \cap (1..i))
  BY <1>1, <1>2, FS_Subset
<1>4. j \in S => j \in S \cap (1..j) /\ j \notin S \cap (1..i)
  OBVIOUS
<1> QED BY <1>1, <1>3, <1>4

\* The member up to which there are k members is the k-th one.
LEMMA NthIs ==
  ASSUME NEW n \in Nat, NEW S \in SUBSET (1..n), NEW i \in S
  PROVE  /\ Nth(S, Cardinality(S \cap (1..i))) = i
         /\ Cardinality(S \cap (1..i)) \in 1..Cardinality(S)
<1> DEFINE count(j) == Cardinality(S \cap (1..j))
<1>1. i \in Nat /\ i > 0 /\ S \subseteq Nat
  OBVIOUS
<1>2. \A j \in Nat : count(j) \in 0..Cardinality(S) /\ Cardinality(S) \in Nat
  BY CountFacts, FS_CardinalityType
<1>3. \A j, k \in Nat : j < k /\ k \in S => count(j) < count(k)
  BY CountGrows
<1>4. \A j \in S : Cardinality(S \cap (1..j)) = count(i) => j = i
  <2> HIDE DEF count
  <2>1. \A j \in S : count(j) = count(i) => j = i
    <3> SUFFICES ASSUME NEW j \in S, j # i
                 PROVE  count(j) # count(i)
      OBVIOUS
    <3>1. j \in Nat /\ (i < j \/ j < i)
      BY <1>1
    <3> QED BY <1>1, <1>2, <1>3, <3>1
  <2> QED BY <2>1 DEF count
<1>5. Nth(S, Cardinality(S \cap (1..i))) = i
  BY <1>4 DEF Nth
<1> HIDE DEF count
<1>6. count(0) < count(i)
  BY <1>1, <1>3
<1>7. count(i) \in 1..Cardinality(S)
  BY <1>1, <1>2, <1>6
<1> QED BY <1>5, <1>7 DEF count

\* There is a k-th member for every k up to their number: the least position up
\* to which there are that many.
LEMMA NthExists ==
  ASSUME NEW n \in Nat, NEW S \in SUBSET (1..n), NEW k \in 1..Cardinality(S)
  PROVE  Nth(S, k) \in S /\ Cardinality(S \cap (1..Nth(S, k))) = k
<1>1. Cardinality(S) \in Nat /\ \A i \in Nat : Cardinality(S \cap (1..i)) \in Nat
  BY CountFacts, FS_CardinalityType
<1> DEFINE enough == {i \in Nat : Cardinality(S \cap (1..i)) >= k}
<1>2. n \in enough
  <2>1. S \cap (1..n) = S
    OBVIOUS
  <2> QED BY <1>1, <2>1
<1>3. PICK i \in enough : \A j \in enough : i <= j
  BY <1>2, LeastNumber
<1>4. i \in Nat /\ Cardinality(S \cap (1..i)) >= k
  BY <1>3
<1>5. i # 0
  <2>1. S \cap (1..0) = {}
    OBVIOUS
  <2>2. Cardinality(S \cap (1..0)) = 0
    BY <2>1, FS_EmptySet
  <2>3. k > 0 /\ k \in Nat
    BY <1>1
  <2> QED BY <1>4, <2>2, <2>3
<1>6. PICK h \in Nat : i = h + 1
  <2>1. i - 1 \in Nat /\ i = (i - 1) + 1
    BY <1>4, <1>5
  <2> QED BY <2>1
<1>7. Cardinality(S \cap (1..h)) < k
  <2>1. h \notin enough
    BY <1>3, <1>4, <1>6
  <2> QED BY <1>1, <2>1
<1> HIDE DEF enough
<1>8. Cardinality(S \cap (1..i)) = IF i \in S THEN Cardinality(S \cap (1..h)) + 1
                                   ELSE Cardinality(S \cap (1..h))
  BY <1>6, CountStep
<1>9. i \in S /\ Cardinality(S \cap (1..i)) = k
  <2>1. k \in Nat /\ Cardinality(S \cap (1..h)) \in Nat /\ Cardinality(S \cap (1..i)) \in Nat
    BY <1>1, <1>4
  <2> QED BY <1>4, <1>7, <1>8, <2>1
<1>10. Nth(S, k) = i
  BY <1>9, NthIs
<1> QED BY <1>9, <1>10

===============================================================================
