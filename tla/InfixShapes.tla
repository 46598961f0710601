---------------------------- MODULE InfixShapes ----------------------------
(* The sets behind an infix store: which slots are used, which implicit parts *)
(* are occupied and which slots end a run.  What makes a store well shaped is *)
(* stated for the sets alone (Shape), for every table that maps the implicit  *)
(* parts to slots, and every way an operation changes the sets is shown to    *)
(* keep it.                                                                   *)
EXTENDS InfixStore, FiniteSetTheorems, WellFoundedInduction, TLAPS

-----------------------------------------------------------------------------
(* Counting.                                                                 *)

\* How many members of S lie below x.
Below(S, x) == Cardinality({y \in S : y < x})

\* Induction over the naturals, for one set of them at a time.
LEMMA Induction ==
    ASSUME NEW S \in SUBSET Nat, 0 \in S, \A n \in S : n + 1 \in S
    PROVE  S = Nat
<1> SUFFICES ASSUME S # Nat PROVE FALSE
  OBVIOUS
<1> DEFINE R == OpToRel(<, Nat)
<1>1. PICK n \in Nat \ S : \A m \in Nat \ S : ~(<<m, n>> \in R)
  <2>1. IsWellFoundedOn(R, Nat)
    BY NatLessThanWellFounded
  <2>2. Nat \ S # {} /\ Nat \ S \subseteq Nat
    OBVIOUS
  <2> HIDE DEF R
  <2> QED BY <2>1, <2>2, WFMin
<1>2. n # 0 /\ n - 1 \in Nat /\ n - 1 < n
  OBVIOUS
<1>3. <<n - 1, n>> \in R
  BY <1>2 DEF OpToRel
<1>4. n - 1 \in S
  BY <1>1, <1>2, <1>3
<1>5. (n - 1) + 1 = n
  BY <1>2
<1> QED BY <1>1, <1>4, <1>5

\* A set of naturals that is not empty has a least member.
LEMMA LeastNat ==
    ASSUME NEW S, \A y \in S : y \in Nat, S # {}
    PROVE  \E n \in S : \A m \in S : n <= m
<1> DEFINE R == OpToRel(<, Nat)
<1>1. PICK n \in S : \A m \in S : ~(<<m, n>> \in R)
  <2>1. IsWellFoundedOn(R, Nat)
    BY NatLessThanWellFounded
  <2> HIDE DEF R
  <2> QED BY <2>1, WFMin
<1>2. ASSUME NEW m \in S PROVE n <= m
  <2>1. ~(<<m, n>> \in R)
    BY <1>1
  <2>2. m \in Nat /\ n \in Nat
    OBVIOUS
  <2> QED BY <2>1, <2>2 DEF OpToRel
<1> QED BY <1>2

\* A bounded set of integers that is not empty has a greatest and a least member.
LEMMA MaxOf ==
    ASSUME NEW a \in Int, NEW b \in Int, NEW S, \A y \in S : y \in a..b, S # {}
    PROVE  Max(S) \in S /\ \A y \in S : y <= Max(S)
<1> DEFINE D == {b - y : y \in S}
<1>1. D \in SUBSET Nat /\ D # {}
  OBVIOUS
<1>2. PICK d \in D : \A e \in D : d <= e
  BY <1>1, LeastNat
<1>3. PICK x \in S : d = b - x
  OBVIOUS
<1>4. \A y \in S : x >= y
  <2> TAKE y \in S
  <2>1. b - y \in D
    OBVIOUS
  <2>2. d <= b - y
    BY <1>2, <2>1
  <2>3. x \in Int /\ y \in Int
    OBVIOUS
  <2> QED BY <1>3, <2>2, <2>3
<1>5. Max(S) \in S /\ \A y \in S : Max(S) >= y
  BY <1>4 DEF Max
<1>6. Max(S) \in Int /\ \A y \in S : y \in Int
  BY <1>5
<1> QED BY <1>5, <1>6

\* A set of integers in an interval that is not empty has a least member, Min.
LEMMA MinOf ==
    ASSUME NEW a \in Int, NEW b \in Int, NEW S, \A y \in S : y \in a..b, S # {}
    PROVE  Min(S) \in S /\ \A y \in S : Min(S) <= y
<1> DEFINE D == {y - a : y \in S}
<1>1. D \in SUBSET Nat /\ D # {}
  OBVIOUS
<1>2. PICK d \in D : \A e \in D : d <= e
  BY <1>1, LeastNat
<1>3. PICK x \in S : d = x - a
  OBVIOUS
<1>4. \A y \in S : x <= y
  <2> TAKE y \in S
  <2>1. y - a \in D
    OBVIOUS
  <2>2. d <= y - a
    BY <1>2, <2>1
  <2>3. x \in Int /\ y \in Int
    OBVIOUS
  <2> QED BY <1>3, <2>2, <2>3
<1> QED BY <1>4 DEF Min

-----------------------------------------------------------------------------
\* The members of a set of naturals below x are finitely many.
LEMMA BelowFinite ==
    ASSUME NEW S, \A y \in S : y \in Nat, NEW x \in Nat
    PROVE  /\ IsFiniteSet({y \in S : y < x})
           /\ Below(S, x) \in Nat
<1>1. {y \in S : y < x} \subseteq 0..(x - 1)
  OBVIOUS
<1>2. IsFiniteSet(0..(x - 1))
  BY FS_Interval
<1>3. IsFiniteSet({y \in S : y < x})
  BY <1>1, <1>2, FS_Subset
<1> QED BY <1>3, FS_CardinalityType DEF Below

\* No natural lies below zero.
LEMMA BelowZero ==
    ASSUME NEW S, \A y \in S : y \in Nat
    PROVE  Below(S, 0) = 0
<1>1. {y \in S : y < 0} = {}
  OBVIOUS
<1> QED BY <1>1, FS_EmptySet DEF Below

\* The count below x + 1 takes in x itself.
LEMMA BelowStep ==
    ASSUME NEW S, \A y \in S : y \in Nat, NEW x \in Nat
    PROVE  Below(S, x + 1) = Below(S, x) + Bit(x \in S)
<1> DEFINE A == {y \in S : y < x}
           B == {y \in S : y < x + 1}
<1>1. CASE x \in S
  <2>0. \A y \in S : y < x + 1 <=> y < x \/ y = x
    OBVIOUS
  <2>1. B = A \cup {x}
    BY <1>1, <2>0
  <2>4. x \notin A
    OBVIOUS
  <2>2. IsFiniteSet(A)
    BY BelowFinite
  <2>3. Cardinality(B) = Cardinality(A) + 1
    BY <2>1, <2>2, <2>4, FS_AddElement
  <2> QED BY <1>1, <2>3 DEF Below, Bit
<1>2. CASE x \notin S
  <2>1. B = A
    BY <1>2
  <2>2. Below(S, x) \in Nat
    BY BelowFinite
  <2> QED BY <1>2, <2>1, <2>2 DEF Below, Bit
<1> QED BY <1>1, <1>2

\* The count below x does not fall as x grows.
LEMMA BelowMonotone ==
    ASSUME NEW S, \A y \in S : y \in Nat, NEW x \in Nat, NEW y \in Nat, x <= y
    PROVE  Below(S, x) <= Below(S, y)
<1> DEFINE A == {k \in S : k < x}
           B == {k \in S : k < y}
<1>1. A \subseteq B /\ IsFiniteSet(B)
  BY BelowFinite
<1>2. Cardinality(A) <= Cardinality(B)
  BY <1>1, FS_Subset
<1> QED BY <1>2 DEF Below

\* The count grows past each member.
LEMMA BelowLess ==
    ASSUME NEW S, \A y \in S : y \in Nat, NEW x \in S, NEW y \in Nat, x < y
    PROVE  Below(S, x) + 1 <= Below(S, y)
<1>1. x \in Nat /\ x + 1 \in Nat /\ x + 1 <= y
  OBVIOUS
<1>2. Below(S, x + 1) <= Below(S, y)
  BY <1>1, BelowMonotone
<1>3. Below(S, x + 1) = Below(S, x) + 1
  BY <1>1, BelowStep DEF Bit
<1> QED BY <1>2, <1>3

\* Nothing between x and y: the counts are the same.
LEMMA BelowGap ==
    ASSUME NEW S, \A y \in S : y \in Nat, NEW x \in Nat, NEW y \in Nat, x <= y,
           \A k \in S : ~(x <= k /\ k < y)
    PROVE  Below(S, x) = Below(S, y)
<1>1. {k \in S : k < x} = {k \in S : k < y}
  OBVIOUS
<1> QED BY <1>1 DEF Below

\* The count below a bound of the set is the size of the set.
LEMMA BelowAll ==
    ASSUME NEW S, \A y \in S : y \in Nat, NEW x \in Nat, \A k \in S : k < x
    PROVE  Below(S, x) = Cardinality(S) /\ IsFiniteSet(S)
<1>1. {k \in S : k < x} = S
  OBVIOUS
<1> QED BY <1>1, BelowFinite DEF Below

\* Two members of a set with the same rank are the same.
LEMMA SameRank ==
    ASSUME NEW S, \A y \in S : y \in Nat, NEW x \in S, NEW y \in S, Below(S, x) = Below(S, y)
    PROVE  x = y
<1>1. x \in Nat /\ y \in Nat /\ Below(S, x) \in Nat /\ Below(S, y) \in Nat
  BY BelowFinite
<1>2. ASSUME x < y PROVE FALSE
  <2>1. Below(S, x) + 1 <= Below(S, y)
    BY <1>1, <1>2, BelowLess
  <2> QED BY <1>1, <2>1
<1>3. ASSUME y < x PROVE FALSE
  <2>1. Below(S, y) + 1 <= Below(S, x)
    BY <1>1, <1>3, BelowLess
  <2> QED BY <1>1, <2>1
<1> QED BY <1>1, <1>2, <1>3

\* A set has a member of every rank below its count.
LEMMA HasRank ==
    ASSUME NEW S, \A y \in S : y \in Nat, NEW n \in Nat, NEW k \in Nat, k < Below(S, n)
    PROVE  \E x \in S : x < n /\ Below(S, x) = k
<1> DEFINE P == {x \in Nat : k < Below(S, x)}
<1>1. PICK x \in P : \A y \in P : x <= y
  <2>1. n \in P
    OBVIOUS
  <2> QED BY <2>1, LeastNat
<1>2. x # 0
  BY <1>1, BelowZero
<1>3. x - 1 \in Nat /\ (x - 1) + 1 = x /\ ~(x - 1 \in P)
  BY <1>1, <1>2
<1>4. Below(S, x) = Below(S, x - 1) + Bit(x - 1 \in S)
  BY <1>3, BelowStep
<1>5. Below(S, x - 1) \in Nat /\ Below(S, x) \in Nat
  BY <1>3, BelowFinite
<1>6. x - 1 \in S /\ Below(S, x - 1) = k
  BY <1>1, <1>3, <1>4, <1>5 DEF Bit
<1>7. x <= n
  BY <1>1
<1> QED BY <1>3, <1>6, <1>7

\* KthOf returns the member of that rank.
LEMMA KthMember ==
    ASSUME NEW S, \A y \in S : y \in Nat, NEW n \in Nat, \A x \in S : x < n,
           NEW k \in Nat, k < Below(S, n), NEW none
    PROVE  /\ KthOf(S, k, none) \in S
           /\ Below(S, KthOf(S, k, none)) = k
<1>1. k < Cardinality(S)
  BY BelowAll
<1>2. \E x \in S : Below(S, x) = k
  BY HasRank
<1> QED BY <1>1, <1>2 DEF KthOf, Below

\* The member of rank k is found by its rank.
LEMMA KthIs ==
    ASSUME NEW S, \A y \in S : y \in Nat, NEW n \in Nat, \A x \in S : x < n,
           NEW x \in S, NEW none
    PROVE  KthOf(S, Below(S, x), none) = x
<1>1. x \in Nat /\ Below(S, x) \in Nat
  BY BelowFinite
<1>2. Below(S, x) < Below(S, n)
  <2>1. x < n /\ Below(S, n) \in Nat
    BY BelowFinite
  <2>2. Below(S, x) + 1 <= Below(S, n)
    BY <2>1, BelowLess
  <2> QED BY <1>1, <2>1, <2>2
<1>3. /\ KthOf(S, Below(S, x), none) \in S
      /\ Below(S, KthOf(S, Below(S, x), none)) = Below(S, x)
  BY <1>1, <1>2, KthMember
<1>4. KthOf(S, Below(S, x), none) \in S
  BY <1>3
<1> QED BY <1>3, <1>4, SameRank

-----------------------------------------------------------------------------
(* What the shifts of the run ends do to the counts.                         *)

\* ShiftRunendsRight moves the run ends of l..r one to the right and clears l, and
\* leaves the others alone.
LEMMA ShiftedRight ==
    ASSUME NEW R, \A e \in R : e \in Nat, NEW l \in Nat, NEW r \in Nat, l <= r
    PROVE  /\ \A y \in ShiftRunendsRight(R, l, r) : y \in Nat
           /\ \A y \in Nat : y < l \/ r < y => (y \in ShiftRunendsRight(R, l, r) <=> y \in R)
           /\ \A y \in Nat : l < y /\ y <= r => (y \in ShiftRunendsRight(R, l, r) <=> y - 1 \in R)
           /\ l \notin ShiftRunendsRight(R, l, r)
<1> DEFINE S == ShiftRunendsRight(R, l, r)
<1>1. ASSUME NEW y \in S
      PROVE  \/ y \in R /\ (y < l \/ r < y)
             \/ y \in Nat /\ l < y /\ y <= r /\ y - 1 \in R
  <2>1. CASE y \in R /\ y \notin l..r
    BY <2>1
  <2>2. CASE \E e \in R \cap l..(r - 1) : y = e + 1
    BY <2>2
  <2> QED BY <2>1, <2>2 DEF ShiftRunendsRight
<1>2. ASSUME NEW y \in R, y < l \/ r < y
      PROVE  y \in S
  <2>1. y \in Nat /\ y # l /\ y \notin l..r
    BY <1>2
  <2> QED BY <2>1 DEF ShiftRunendsRight
<1>3. ASSUME NEW y \in Nat, l < y, y <= r, y - 1 \in R
      PROVE  y \in S
  <2>1. y - 1 \in R \cap l..(r - 1) /\ (y - 1) + 1 = y
    BY <1>3
  <2> QED BY <2>1 DEF ShiftRunendsRight
<1> HIDE DEF S
<1>4. \A y \in S : y \in Nat
  BY <1>1
<1>5. ASSUME NEW y \in Nat, y < l \/ r < y PROVE y \in S <=> y \in R
  BY <1>1, <1>2, <1>5
<1>6. ASSUME NEW y \in Nat, l < y, y <= r PROVE y \in S <=> y - 1 \in R
  BY <1>1, <1>3, <1>6
<1>7. l \notin S
  BY <1>1
<1> QED BY <1>4, <1>5, <1>6, <1>7 DEF S

\* What ShiftRunendsRight does to the count below a position: the one shifted onto
\* falls out.
LEMMA BelowShiftedRight ==
    ASSUME NEW R, \A e \in R : e \in Nat, NEW l \in Nat, NEW r \in Nat, l <= r
    PROVE  \A x \in Nat : Below(ShiftRunendsRight(R, l, r), x) =
               IF x <= l THEN Below(R, x)
               ELSE IF x <= r + 1 THEN Below(R, x - 1)
               ELSE Below(R, x) - Bit(r \in R)
<1> DEFINE S == ShiftRunendsRight(R, l, r)
           F(x) == IF x <= l THEN Below(R, x)
                   ELSE IF x <= r + 1 THEN Below(R, x - 1)
                   ELSE Below(R, x) - Bit(r \in R)
           P == {x \in Nat : Below(S, x) = F(x)}
<1>1. \A y \in S : y \in Nat
  BY ShiftedRight
<1>2. /\ \A y \in Nat : y < l \/ r < y => (y \in S <=> y \in R)
      /\ \A y \in Nat : l < y /\ y <= r => (y \in S <=> y - 1 \in R)
      /\ l \notin S
  BY ShiftedRight
<1> HIDE DEF S
<1>3. 0 \in P
  BY <1>1, BelowZero
<1>4. ASSUME NEW x \in P PROVE x + 1 \in P
  <2>1. x \in Nat /\ Below(S, x) = F(x)
    OBVIOUS
  <2>2. Below(S, x + 1) = Below(S, x) + Bit(x \in S)
    BY <1>1, <2>1, BelowStep
  <2>3. Below(R, x + 1) = Below(R, x) + Bit(x \in R) /\ Below(R, x) \in Nat
    BY <2>1, BelowStep, BelowFinite
  <2>4. CASE x < l
    <3>1. x \in S <=> x \in R
      BY <1>2, <2>1, <2>4
    <3> QED BY <2>1, <2>2, <2>3, <2>4, <3>1 DEF Bit
  <2>5. CASE x = l
    <3>1. x \notin S
      BY <1>2, <2>1, <2>5
    <3> QED BY <2>1, <2>2, <2>3, <2>5, <3>1 DEF Bit
  <2>6. CASE l < x /\ x <= r
    <3>1. x - 1 \in Nat /\ (x - 1) + 1 = x
      BY <2>1, <2>6
    <3>2. Below(R, x) = Below(R, x - 1) + Bit(x - 1 \in R) /\ Below(R, x - 1) \in Nat
      <4>1. Below(R, (x - 1) + 1) = Below(R, x - 1) + Bit(x - 1 \in R)
        BY <3>1, BelowStep
      <4> QED BY <3>1, <4>1, BelowFinite
    <3>3. x \in S <=> x - 1 \in R
      BY <1>2, <2>1, <2>6
    <3>4. F(x) = Below(R, x - 1) /\ F(x + 1) = Below(R, x)
      BY <2>1, <2>6
    <3> HIDE DEF F
    <3> QED BY <2>1, <2>2, <3>2, <3>3, <3>4 DEF Bit
  <2>7. CASE r < x
    <3>1. x \in S <=> x \in R
      BY <1>2, <2>1, <2>7
    <3>2. F(x + 1) = Below(R, x + 1) - Bit(r \in R)
      BY <2>1, <2>7
    <3>3. F(x) = Below(R, x) - Bit(r \in R)
      <4>1. CASE x = r + 1
        <5>1. Below(R, r + 1) = Below(R, r) + Bit(r \in R) /\ Below(R, r) \in Nat
          BY BelowStep, BelowFinite
        <5>2. F(x) = Below(R, r)
          BY <4>1
        <5> QED BY <4>1, <5>1, <5>2 DEF Bit
      <4>2. CASE r + 1 < x
        BY <2>1, <4>2
      <4> QED BY <2>1, <2>7, <4>1, <4>2
    <3> HIDE DEF F
    <3> QED BY <2>1, <2>2, <2>3, <3>1, <3>2, <3>3 DEF Bit
  <2> QED BY <2>1, <2>4, <2>5, <2>6, <2>7
<1>5. P = Nat
  <2>1. P \in SUBSET Nat
    OBVIOUS
  <2> HIDE DEF P
  <2> QED BY <1>3, <1>4, <2>1, Induction
<1>6. \A x \in Nat : Below(S, x) = F(x)
  BY <1>5
<1> QED BY <1>6 DEF S

\* ShiftRunendsLeft moves the run ends of l..(r - 1) one to the left and clears
\* r - 1, and leaves the others alone.
LEMMA ShiftedLeft ==
    ASSUME NEW R, \A e \in R : e \in Nat, NEW l \in Nat, NEW r \in Nat, 1 <= l, l <= r
    PROVE  /\ \A y \in ShiftRunendsLeft(R, l, r) : y \in Nat
           /\ \A y \in Nat : y < l - 1 \/ r <= y => (y \in ShiftRunendsLeft(R, l, r) <=> y \in R)
           /\ \A y \in Nat : l - 1 <= y /\ y < r - 1 => (y \in ShiftRunendsLeft(R, l, r) <=> y + 1 \in R)
           /\ r - 1 \notin ShiftRunendsLeft(R, l, r)
<1> DEFINE S == ShiftRunendsLeft(R, l, r)
<1>1. ASSUME NEW y \in S
      PROVE  \/ y \in R /\ (y < l - 1 \/ r <= y)
             \/ y \in Nat /\ l - 1 <= y /\ y < r - 1 /\ y + 1 \in R
  <2>1. CASE y \in R /\ y \notin (l - 1)..(r - 1)
    BY <2>1
  <2>2. CASE \E e \in R \cap l..(r - 1) : y = e - 1
    BY <2>2
  <2> QED BY <2>1, <2>2 DEF ShiftRunendsLeft
<1>2. ASSUME NEW y \in R, y < l - 1 \/ r <= y
      PROVE  y \in S
  <2>1. y \in Nat /\ y # r - 1 /\ y \notin (l - 1)..(r - 1)
    BY <1>2
  <2> QED BY <2>1 DEF ShiftRunendsLeft
<1>3. ASSUME NEW y \in Nat, l - 1 <= y, y < r - 1, y + 1 \in R
      PROVE  y \in S
  <2>1. y + 1 \in R \cap l..(r - 1) /\ (y + 1) - 1 = y
    BY <1>3
  <2> QED BY <2>1 DEF ShiftRunendsLeft
<1> HIDE DEF S
<1>4. \A y \in S : y \in Nat
  BY <1>1
<1>5. ASSUME NEW y \in Nat, y < l - 1 \/ r <= y PROVE y \in S <=> y \in R
  BY <1>1, <1>2, <1>5
<1>6. ASSUME NEW y \in Nat, l - 1 <= y, y < r - 1 PROVE y \in S <=> y + 1 \in R
  BY <1>1, <1>3, <1>6
<1>7. r - 1 \notin S
  BY <1>1
<1> QED BY <1>4, <1>5, <1>6, <1>7 DEF S

\* What ShiftRunendsLeft does to the count below a position, when nothing is
\* shifted onto.
LEMMA BelowShiftedLeft ==
    ASSUME NEW R, \A e \in R : e \in Nat, NEW l \in Nat, NEW r \in Nat, 1 <= l, l <= r,
           l - 1 \notin R
    PROVE  \A x \in Nat : Below(ShiftRunendsLeft(R, l, r), x) =
               IF l <= x /\ x < r THEN Below(R, x + 1) ELSE Below(R, x)
<1> DEFINE S == ShiftRunendsLeft(R, l, r)
           F(x) == IF l <= x /\ x < r THEN Below(R, x + 1) ELSE Below(R, x)
           P == {x \in Nat : Below(S, x) = F(x)}
<1>1. \A y \in S : y \in Nat
  BY ShiftedLeft
<1>2. /\ \A y \in Nat : y < l - 1 \/ r <= y => (y \in S <=> y \in R)
      /\ \A y \in Nat : l - 1 <= y /\ y < r - 1 => (y \in S <=> y + 1 \in R)
      /\ r - 1 \notin S
  BY ShiftedLeft
<1> HIDE DEF S
<1>3. 0 \in P
  BY <1>1, BelowZero
<1>4. ASSUME NEW x \in P PROVE x + 1 \in P
  <2>1. x \in Nat /\ Below(S, x) = F(x)
    OBVIOUS
  <2>2. Below(S, x + 1) = Below(S, x) + Bit(x \in S)
    BY <1>1, <2>1, BelowStep
  <2>3. Below(R, x + 1) = Below(R, x) + Bit(x \in R) /\ Below(R, x) \in Nat
    BY <2>1, BelowStep, BelowFinite
  <2>4. x + 1 \in Nat /\ Below(R, (x + 1) + 1) = Below(R, x + 1) + Bit(x + 1 \in R)
    BY <2>1, BelowStep
  <2>5. CASE x < l - 1
    <3>1. x \in S <=> x \in R
      BY <1>2, <2>1, <2>5
    <3> QED BY <2>1, <2>2, <2>3, <2>5, <3>1 DEF Bit
  <2>6. CASE l - 1 <= x /\ x < r - 1
    <3>1. x \in S <=> x + 1 \in R
      BY <1>2, <2>1, <2>6
    <3>2. F(x + 1) = Below(R, (x + 1) + 1)
      BY <2>1, <2>6
    <3>3. F(x) = Below(R, x + 1)
      <4>1. CASE x = l - 1
        BY <2>3, <4>1 DEF Bit
      <4>2. CASE l <= x
        BY <2>1, <2>6, <4>2
      <4> QED BY <2>1, <2>6, <4>1, <4>2
    <3> HIDE DEF F
    <3> QED BY <2>1, <2>2, <2>4, <3>1, <3>2, <3>3 DEF Bit
  <2>7. CASE x = r - 1
    <3>1. x \notin S
      BY <1>2, <2>1, <2>7
    <3>2. F(x + 1) = Below(R, x + 1)
      BY <2>1, <2>7
    <3>3. F(x) = Below(R, x + 1)
      <4>1. CASE l = r
        <5>1. x \notin R
          BY <2>7, <4>1
        <5> QED BY <2>1, <2>3, <2>7, <4>1, <5>1 DEF Bit
      <4>2. CASE l < r
        BY <2>1, <2>7, <4>2
      <4> QED BY <4>1, <4>2
    <3> HIDE DEF F
    <3> QED BY <2>1, <2>2, <2>3, <3>1, <3>2, <3>3 DEF Bit
  <2>8. CASE r <= x
    <3>1. x \in S <=> x \in R
      BY <1>2, <2>1, <2>8
    <3> QED BY <2>1, <2>2, <2>3, <2>8, <3>1 DEF Bit
  <2> QED BY <2>1, <2>5, <2>6, <2>7, <2>8
<1>5. P = Nat
  <2>1. P \in SUBSET Nat
    OBVIOUS
  <2> HIDE DEF P
  <2> QED BY <1>3, <1>4, <2>1, Induction
<1>6. \A x \in Nat : Below(S, x) = F(x)
  BY <1>5
<1> QED BY <1>6 DEF S

\* A new member counts for every bound above it.
LEMMA BelowAdded ==
    ASSUME NEW S, \A y \in S : y \in Nat, NEW p \in Nat, p \notin S, NEW x \in Nat
    PROVE  Below(S \cup {p}, x) = Below(S, x) + Bit(p < x)
<1> DEFINE A == {y \in S : y < x}
           B == {y \in S \cup {p} : y < x}
<1>1. CASE p < x
  <2>1. B = A \cup {p}
    BY <1>1
  <2>2. p \notin A /\ IsFiniteSet(A)
    BY BelowFinite
  <2> QED BY <1>1, <2>1, <2>2, FS_AddElement DEF Below, Bit
<1>2. CASE ~(p < x)
  <2>1. B = A
    BY <1>2
  <2>2. Below(S \cup {p}, x) = Below(S, x) /\ Below(S, x) \in Nat
    BY <2>1, BelowFinite DEF Below
  <2> QED BY <1>2, <2>2 DEF Bit
<1> QED BY <1>1, <1>2

\* A member that goes no longer counts.
LEMMA BelowRemoved ==
    ASSUME NEW S, \A y \in S : y \in Nat, NEW p \in S, NEW x \in Nat
    PROVE  Below(S \ {p}, x) = Below(S, x) - Bit(p < x)
<1>1. p \in Nat /\ p \notin S \ {p} /\ (\A y \in S \ {p} : y \in Nat) /\ (S \ {p}) \cup {p} = S
  OBVIOUS
<1>2. Below((S \ {p}) \cup {p}, x) = Below(S \ {p}, x) + Bit(p < x)
  BY <1>1, BelowAdded
<1>3. Below(S \ {p}, x) \in Nat
  BY <1>1, BelowFinite
<1> QED BY <1>1, <1>2, <1>3 DEF Bit

-----------------------------------------------------------------------------
(* The shape of a store.                                                     *)

\* How many members of O the map M takes to x or below it.
MapsTo(M, O, x) == Cardinality({o \in O : M[o] <= x})

\* The implicit parts that the occupieds bitmap has room for.
Parts == 0..(TargetSize - 1)

\* A table of mapped positions for a store of z slots.
Table(z, M) == /\ TargetSize \in Nat /\ z \in Nat \ {0}
               /\ M \in [Parts -> 0..(z - 1)]
               /\ \A a, b \in Parts : a <= b => M[a] <= M[b]

\* The occupied parts are parts, the used slots slots, and only used slots end a run.
Within(z, U, O, R) ==
    /\ \A o \in O : o \in Parts
    /\ \A p \in U : p \in 0..(z - 1)
    /\ \A e \in R : e \in U

\* As many runs end as parts are occupied.
Paired(z, O, R) == Below(O, TargetSize) = Below(R, z)

\* A used slot with an empty one behind it ends a run.
Closing(U, R) == \A p \in U : p + 1 \notin U => p \in R

\* The runs follow the mapping at slot p: before an empty slot every part mapped so
\* far has ended its run, and at a used slot at least one has not.
Level(M, U, O, R, p) ==
    IF p \in U THEN MapsTo(M, O, p) > Below(R, p) ELSE MapsTo(M, O, p) = Below(R, p)

\* The runs follow the mapping up to the last empty slot.  Behind it they need not:
\* there they were pushed left from the end of the store.
Levelled(z, M, U, O, R) ==
    \A p, q \in 0..(z - 1) : q \notin U /\ p <= q => Level(M, U, O, R, p)

\* What every operation relies on and keeps.
Shape(z, M, U, O, R) == /\ Within(z, U, O, R)
                        /\ Paired(z, O, R)
                        /\ Closing(U, R)
                        /\ Levelled(z, M, U, O, R)

-----------------------------------------------------------------------------
\* The occupied parts, the used slots and the run ends of a shape are naturals.
LEMMA WithinNat ==
    ASSUME NEW z, NEW M, Table(z, M), NEW U, NEW O, NEW R, Within(z, U, O, R)
    PROVE  /\ \A o \in O : o \in Nat /\ o < TargetSize
           /\ \A p \in U : p \in Nat /\ p < z
           /\ \A e \in R : e \in Nat /\ e < z
<1>1. TargetSize \in Nat /\ z \in Nat
  BY DEF Table
<1> QED BY <1>1 DEF Within, Parts

\* The parts that are mapped to a slot or before it are finitely many.
LEMMA MapsFinite ==
    ASSUME NEW z, NEW M, Table(z, M), NEW O, \A o \in O : o \in Parts, NEW x
    PROVE  /\ IsFiniteSet({o \in O : M[o] <= x})
           /\ MapsTo(M, O, x) \in Nat
           /\ IsFiniteSet(O)
<1>1. IsFiniteSet(Parts)
  BY FS_Interval DEF Table, Parts
<1>2. O \subseteq Parts /\ {o \in O : M[o] <= x} \subseteq Parts
  OBVIOUS
<1>3. IsFiniteSet({o \in O : M[o] <= x}) /\ IsFiniteSet(O)
  BY <1>1, <1>2, FS_Subset
<1> QED BY <1>3, FS_CardinalityType DEF MapsTo

\* Everything below a part that maps to x or below it maps there too ...
LEMMA MapsAtLeast ==
    ASSUME NEW z, NEW M, Table(z, M), NEW O, \A o \in O : o \in Parts,
           NEW x \in Int, NEW i \in Parts, M[i] <= x
    PROVE  /\ Below(O, i) <= MapsTo(M, O, x)
           /\ i \in O => Below(O, i) + 1 <= MapsTo(M, O, x)
<1> DEFINE A == {o \in O : o < i}
           B == {o \in O : M[o] <= x}
<1>0. i \in Nat /\ M[i] \in Int /\ \A o \in O : o \in Nat /\ M[o] \in Int /\ (o < i => M[o] <= M[i])
  BY DEF Table, Parts
<1>1. A \subseteq B
  BY <1>0
<1>2. IsFiniteSet(B) /\ MapsTo(M, O, x) \in Nat
  BY MapsFinite
<1>3. Cardinality(A) <= Cardinality(B)
  BY <1>1, <1>2, FS_Subset
<1>4. ASSUME i \in O PROVE Cardinality(A) + 1 <= Cardinality(B)
  <2>1. A \cup {i} \subseteq B /\ i \notin A
    BY <1>0, <1>1, <1>4
  <2>2. IsFiniteSet(A)
    BY <1>1, <1>2, FS_Subset
  <2>3. Cardinality(A \cup {i}) = Cardinality(A) + 1
    BY <2>1, <2>2, FS_AddElement
  <2>4. Cardinality(A \cup {i}) <= Cardinality(B)
    BY <1>2, <2>1, FS_Subset
  <2> QED BY <2>3, <2>4
<1> QED BY <1>3, <1>4 DEF Below, MapsTo

\* ... and nothing from a part on that maps above x.
LEMMA MapsAtMost ==
    ASSUME NEW z, NEW M, Table(z, M), NEW O, \A o \in O : o \in Parts,
           NEW x \in Int, NEW i \in Parts, x < M[i]
    PROVE  MapsTo(M, O, x) <= Below(O, i)
<1> DEFINE A == {o \in O : o < i}
           B == {o \in O : M[o] <= x}
<1>0. i \in Nat /\ M[i] \in Int /\ \A o \in O : o \in Nat /\ M[o] \in Int /\ (i <= o => M[i] <= M[o])
  BY DEF Table, Parts
<1>1. B \subseteq A
  BY <1>0
<1>2. IsFiniteSet(A)
  BY <1>0, BelowFinite
<1>3. Cardinality(B) <= Cardinality(A)
  BY <1>1, <1>2, FS_Subset
<1> QED BY <1>3 DEF Below, MapsTo

\* No slot has more parts mapped to it or before it than are occupied.
LEMMA MapsAll ==
    ASSUME NEW z, NEW M, Table(z, M), NEW O, \A o \in O : o \in Parts, NEW x
    PROVE  MapsTo(M, O, x) <= Below(O, TargetSize)
<1> DEFINE A == {o \in O : o < TargetSize}
           B == {o \in O : M[o] <= x}
<1>0. TargetSize \in Nat /\ \A o \in O : o \in Nat /\ o < TargetSize
  BY DEF Table, Parts
<1>1. B \subseteq A
  BY <1>0
<1>2. IsFiniteSet(A)
  BY <1>0, BelowFinite
<1>3. Cardinality(B) <= Cardinality(A)
  BY <1>1, <1>2, FS_Subset
<1> QED BY <1>3 DEF Below, MapsTo

\* The parts mapped to a slot or before it do not get fewer with the slot.
LEMMA MapsMonotone ==
    ASSUME NEW z, NEW M, Table(z, M), NEW O, \A o \in O : o \in Parts,
           NEW x \in Int, NEW y \in Int, x <= y
    PROVE  MapsTo(M, O, x) <= MapsTo(M, O, y)
<1> DEFINE A == {o \in O : M[o] <= x}
           B == {o \in O : M[o] <= y}
<1>0. \A o \in O : M[o] \in Int
  BY DEF Table
<1>1. A \subseteq B
  BY <1>0
<1>2. Cardinality(A) <= Cardinality(B)
  BY <1>1, MapsFinite, FS_Subset
<1> QED BY <1>2 DEF MapsTo

\* A new part counts from the slot it is mapped to.
LEMMA MapsAdded ==
    ASSUME NEW z, NEW M, Table(z, M), NEW O, \A o \in O : o \in Parts,
           NEW i \in Parts, i \notin O, NEW x
    PROVE  MapsTo(M, O \cup {i}, x) = MapsTo(M, O, x) + Bit(M[i] <= x)
<1> DEFINE A == {o \in O : M[o] <= x}
           B == {o \in O \cup {i} : M[o] <= x}
<1>1. CASE M[i] <= x
  <2>1. B = A \cup {i}
    BY <1>1
  <2>2. i \notin A
    OBVIOUS
  <2>3. IsFiniteSet(A)
    BY MapsFinite
  <2> QED BY <1>1, <2>1, <2>2, <2>3, FS_AddElement DEF MapsTo, Bit
<1>2. CASE ~(M[i] <= x)
  <2>1. B = A
    BY <1>2
  <2>2. MapsTo(M, O \cup {i}, x) = MapsTo(M, O, x) /\ MapsTo(M, O, x) \in Nat
    BY <2>1, MapsFinite DEF MapsTo
  <2> QED BY <1>2, <2>2 DEF Bit
<1> QED BY <1>1, <1>2

\* A part that goes no longer counts.
LEMMA MapsRemoved ==
    ASSUME NEW z, NEW M, Table(z, M), NEW O, \A o \in O : o \in Parts,
           NEW i \in O, NEW x
    PROVE  MapsTo(M, O \ {i}, x) = MapsTo(M, O, x) - Bit(M[i] <= x)
<1>1. i \in Parts /\ i \notin O \ {i} /\ (\A o \in O \ {i} : o \in Parts) /\ (O \ {i}) \cup {i} = O
  OBVIOUS
<1>2. MapsTo(M, (O \ {i}) \cup {i}, x) = MapsTo(M, O \ {i}, x) + Bit(M[i] <= x)
  BY <1>1, MapsAdded
<1>3. MapsTo(M, O \ {i}, x) \in Nat
  BY <1>1, MapsFinite
<1>4. MapsTo(M, O, x) = MapsTo(M, O \ {i}, x) + Bit(M[i] <= x)
  <2>1. (O \ {i}) \cup {i} = O
    BY <1>1
  <2> QED BY <1>2, <2>1
<1> QED BY <1>3, <1>4 DEF Bit

\* The counts of a shape are naturals that do not fall, step by step.
LEMMA Counts ==
    ASSUME NEW z, NEW M, Table(z, M), NEW U, NEW O, NEW R, Within(z, U, O, R)
    PROVE  /\ \A x : MapsTo(M, O, x) \in Nat
           /\ \A x \in Nat : Below(R, x) \in Nat
           /\ \A x \in Nat : Below(R, x + 1) = Below(R, x) + Bit(x \in R)
           /\ \A x, y \in Nat : x <= y => Below(R, x) <= Below(R, y)
<1>1. (\A e \in R : e \in Nat) /\ (\A o \in O : o \in Parts)
  BY WithinNat DEF Within
<1>2. \A x : MapsTo(M, O, x) \in Nat
  BY <1>1, MapsFinite
<1>3. \A x \in Nat : Below(R, x) \in Nat
  BY <1>1, BelowFinite
<1>4. \A x \in Nat : Below(R, x + 1) = Below(R, x) + Bit(x \in R)
  BY <1>1, BelowStep
<1>5. \A x, y \in Nat : x <= y => Below(R, x) <= Below(R, y)
  BY <1>1, BelowMonotone
<1> QED BY <1>2, <1>3, <1>4, <1>5

-----------------------------------------------------------------------------
(* Insertions.                                                               *)

\* A new run in its own empty slot.
LEMMA NewAtEmpty ==
    ASSUME NEW z, NEW M, Table(z, M), NEW U, NEW O, NEW R, Shape(z, M, U, O, R),
           NEW i \in Parts, i \notin O, M[i] \notin U
    PROVE  Shape(z, M, U \cup {M[i]}, O \cup {i}, R \cup {M[i]})
<1> DEFINE m == M[i]
           V == U \cup {m}
           P == O \cup {i}
           S == R \cup {m}
<1>0. /\ z \in Nat /\ TargetSize \in Nat /\ m \in 0..(z - 1) /\ m \notin R /\ i \in 0..(TargetSize - 1)
      /\ Within(z, U, O, R)
  BY DEF Table, Shape, Within, Parts
<1>1. /\ \A e \in R : e \in Nat
      /\ \A o \in O : o \in Nat
      /\ \A o \in O : o \in Parts
  BY <1>0, WithinNat DEF Within
<1>2. \A x \in Nat : Below(S, x) = Below(R, x) + Bit(m < x)
  BY <1>0, <1>1, BelowAdded
<1>3. \A x : MapsTo(M, P, x) = MapsTo(M, O, x) + Bit(m <= x)
  BY <1>1, MapsAdded
<1>4. Within(z, V, P, S)
  BY <1>0 DEF Within
<1>5. Paired(z, P, S)
  <2>1. Below(P, TargetSize) = Below(O, TargetSize) + Bit(i < TargetSize)
    BY <1>0, <1>1, BelowAdded
  <2>2. Below(S, z) = Below(R, z) + Bit(m < z)
    BY <1>0, <1>2
  <2>3. m < z /\ i < TargetSize
    BY <1>0
  <2> QED BY <2>1, <2>2, <2>3 DEF Shape, Paired, Bit
<1>6. Closing(V, S)
  BY DEF Shape, Closing
<1>7. Levelled(z, M, V, P, S)
  <2> SUFFICES ASSUME NEW p \in 0..(z - 1), NEW q \in 0..(z - 1), q \notin V, p <= q
               PROVE  Level(M, V, P, S, p)
    BY DEF Levelled
  <2>0. p \in Nat /\ MapsTo(M, O, p) \in Nat /\ Below(R, p) \in Nat
    BY <1>0, Counts
  <2>1. /\ p \in Nat /\ MapsTo(M, O, p) \in Nat /\ Below(R, p) \in Nat
        /\ MapsTo(M, P, p) = MapsTo(M, O, p) + Bit(m <= p)
        /\ Below(S, p) = Below(R, p) + Bit(m < p)
    BY <1>2, <1>3, <2>0
  <2>2. Level(M, U, O, R, p)
    BY DEF Shape, Levelled
  <2>3. m \in Int /\ (m = p => p \notin U /\ p \in V) /\ (m # p => (p \in V <=> p \in U))
    BY <1>0
  <2> HIDE DEF m, V, P, S
  <2> QED BY <2>1, <2>2, <2>3 DEF Level, Bit
<1> QED BY <1>4, <1>5, <1>6, <1>7 DEF Shape

\* Into a run that exists, the empty slot b to the right being used up: the run
\* ends from e on move right.
LEMMA IntoRunRight ==
    ASSUME NEW z, NEW M, Table(z, M), NEW U, NEW O, NEW R, Shape(z, M, U, O, R),
           NEW e \in R, NEW b \in 0..(z - 1), b \notin U, e < b, \A p \in e..(b - 1) : p \in U
    PROVE  Shape(z, M, U \cup {b}, O, ShiftRunendsRight(R, e, b))
<1> DEFINE V == U \cup {b}
           S == ShiftRunendsRight(R, e, b)
<1>0. /\ z \in Nat /\ TargetSize \in Nat /\ b \notin R /\ b \in Nat
      /\ Within(z, U, O, R)
  BY DEF Table, Shape, Within, Parts
<1>1. /\ \A x \in R : x \in Nat
      /\ \A o \in O : o \in Nat
      /\ \A o \in O : o \in Parts
      /\ e \in Nat /\ e <= b
  BY <1>0, WithinNat DEF Within
<1>2. \A x \in Nat : Below(S, x) = IF x <= e THEN Below(R, x)
                                    ELSE IF x <= b + 1 THEN Below(R, x - 1)
                                    ELSE Below(R, x)
  <2>1. \A x \in Nat : Below(S, x) = IF x <= e THEN Below(R, x)
                                    ELSE IF x <= b + 1 THEN Below(R, x - 1)
                                    ELSE Below(R, x) - Bit(b \in R)
    BY <1>0, <1>1, BelowShiftedRight
  <2>2. Bit(b \in R) = 0 /\ \A x \in Nat : Below(R, x) \in Nat
    BY <1>0, <1>1, BelowFinite DEF Bit
  <2> QED BY <2>1, <2>2
<1>3. /\ \A y \in S : y \in Nat
      /\ \A y \in Nat : y < e \/ b < y => (y \in S <=> y \in R)
      /\ \A y \in Nat : e < y /\ y <= b => (y \in S <=> y - 1 \in R)
      /\ e \notin S
  BY <1>0, <1>1, ShiftedRight
<1> HIDE DEF S
<1>4. Within(z, V, O, S)
  <2>1. ASSUME NEW y \in S PROVE y \in V
    <3>1. CASE y < e \/ b < y
      BY <1>0, <1>3, <3>1 DEF Within
    <3>2. CASE e < y /\ y < b
      BY <1>1, <1>3, <3>2
    <3>3. CASE y = b
      BY <3>3
    <3> QED BY <1>0, <1>1, <1>3, <3>1, <3>2, <3>3
  <2> QED BY <1>0, <2>1 DEF Within
<1>c. /\ \A x : MapsTo(M, O, x) \in Nat
      /\ \A x \in Nat : Below(R, x) \in Nat
      /\ \A x \in Nat : Below(R, x + 1) = Below(R, x) + Bit(x \in R)
      /\ \A x, y \in Nat : x <= y => Below(R, x) <= Below(R, y)
  BY <1>0, Counts
<1>5. Below(R, b + 1) = Below(R, b)
  BY <1>0, <1>1, <1>c DEF Bit
<1>6. Paired(z, O, S)
  <2>1. Below(S, z) = Below(R, z)
    <3>1. CASE z = b + 1
      BY <1>0, <1>1, <1>2, <1>5, <3>1
    <3>2. CASE z > b + 1
      BY <1>0, <1>1, <1>2, <3>2
    <3> QED BY <1>0, <3>1, <3>2
  <2> QED BY <2>1 DEF Shape, Paired
<1>7. Closing(V, S)
  <2> SUFFICES ASSUME NEW p \in V, p + 1 \notin V PROVE p \in S
    BY DEF Closing
  <2>1. CASE p = b
    <3>1. b - 1 \in U /\ (b - 1) + 1 = b
      BY <1>0, <1>1
    <3>2. b - 1 \in R
      BY <3>1 DEF Shape, Closing
    <3> QED BY <1>0, <1>1, <1>3, <2>1, <3>2
  <2>2. CASE p # b
    <3>1. p \in U /\ p + 1 \notin U /\ p \in Nat
      BY <1>0, <2>2, WithinNat
    <3>2. p \in R
      BY <3>1 DEF Shape, Closing
    <3>3. ~(e <= p /\ p <= b)
      BY <1>0, <1>1, <2>2, <3>1
    <3> QED BY <1>0, <1>1, <1>3, <3>1, <3>2, <3>3
  <2> QED BY <2>1, <2>2
<1>8. Levelled(z, M, V, O, S)
  <2> SUFFICES ASSUME NEW p \in 0..(z - 1), NEW q \in 0..(z - 1), q \notin V, p <= q
               PROVE  Level(M, V, O, S, p)
    BY DEF Levelled
  <2>0. p \in Nat
    BY <1>0
  <2>1. p \in Nat /\ MapsTo(M, O, p) \in Nat /\ Below(R, p) \in Nat
    BY <1>c, <2>0
  <2>2. Level(M, U, O, R, p)
    BY DEF Shape, Levelled
  <2>3. CASE p <= e \/ b < p
    <3>1. Below(S, p) = Below(R, p)
      <4>1. CASE p = b + 1
        BY <1>0, <1>1, <1>2, <1>5, <2>1, <4>1
      <4>2. CASE p <= e \/ p > b + 1
        BY <1>0, <1>1, <1>2, <2>1, <4>2
      <4> QED BY <1>0, <2>1, <2>3, <4>1, <4>2
    <3>2. p \in V <=> p \in U
      BY <1>0, <1>1, <2>3
    <3> QED BY <2>2, <3>1, <3>2 DEF Level
  <2>4. CASE e < p /\ p < b
    <3>1. Below(S, p) = Below(R, p - 1) /\ p - 1 \in Nat
      BY <1>0, <1>1, <1>2, <2>1, <2>4
    <3>2. Below(R, p - 1) <= Below(R, p) /\ Below(R, p - 1) \in Nat
      BY <1>c, <2>1, <3>1
    <3>3. p \in U /\ p \in V
      BY <1>1, <2>1, <2>4
    <3> QED BY <2>1, <2>2, <3>1, <3>2, <3>3 DEF Level
  <2>5. CASE p = b
    <3>1. b - 1 \in Nat /\ b - 1 \in U /\ (b - 1) + 1 = b
      BY <1>0, <1>1
    <3>2. b - 1 \in R
      BY <3>1 DEF Shape, Closing
    <3>3. Below(R, b - 1) + 1 <= Below(R, b) /\ Below(R, b - 1) \in Nat
      BY <1>0, <1>1, <1>c, <3>1, <3>2 DEF Bit
    <3>4. Below(S, b) = Below(R, b - 1)
      BY <1>0, <1>1, <1>2
    <3>5. p \notin U /\ p \in V
      BY <2>5
    <3> QED BY <2>1, <2>2, <2>5, <3>3, <3>4, <3>5 DEF Level
  <2> QED BY <1>0, <1>1, <2>1, <2>3, <2>4, <2>5
<1> QED BY <1>4, <1>6, <1>7, <1>8 DEF Shape, S

\* Into a run that exists, everything behind the empty slot a being in use: the
\* run ends between a and d move left.
LEMMA IntoRunLeft ==
    ASSUME NEW z, NEW M, Table(z, M), NEW U, NEW O, NEW R, Shape(z, M, U, O, R),
           NEW a \in 0..(z - 1), a \notin U, \A p \in (a + 1)..(z - 1) : p \in U,
           NEW d \in (a + 1)..(z - 1)
    PROVE  Shape(z, M, U \cup {a}, O, ShiftRunendsLeft(R, a + 1, d))
<1> DEFINE V == U \cup {a}
           S == ShiftRunendsLeft(R, a + 1, d)
           l == a + 1
<1>0. /\ z \in Nat /\ TargetSize \in Nat /\ a \notin R /\ a \in Nat /\ d \in Nat
      /\ l \in Nat /\ 1 <= l /\ l - 1 = a /\ l <= d /\ d < z /\ l - 1 \notin R
      /\ Within(z, U, O, R)
  BY DEF Table, Shape, Within, Parts
<1>1. /\ \A x \in R : x \in Nat
      /\ \A x \in U : x \in Nat /\ x < z
  BY <1>0, WithinNat DEF Within
<1>2. \A x \in Nat : Below(S, x) = IF l <= x /\ x < d THEN Below(R, x + 1) ELSE Below(R, x)
  BY <1>0, <1>1, BelowShiftedLeft
<1>3. /\ \A y \in S : y \in Nat
      /\ \A y \in Nat : y < l - 1 \/ d <= y => (y \in S <=> y \in R)
      /\ \A y \in Nat : l - 1 <= y /\ y < d - 1 => (y \in S <=> y + 1 \in R)
      /\ d - 1 \notin S
  BY <1>0, <1>1, ShiftedLeft
<1> HIDE DEF S
<1>4. Within(z, V, O, S)
  <2>1. ASSUME NEW y \in S PROVE y \in V
    <3>1. CASE y < a \/ d <= y
      BY <1>0, <1>3, <3>1 DEF Within
    <3>2. CASE a < y /\ y < d
      BY <1>0, <1>3, <3>2
    <3>3. CASE y = a
      BY <3>3
    <3> QED BY <1>0, <1>1, <1>3, <3>1, <3>2, <3>3
  <2> QED BY <1>0, <2>1 DEF Within
<1>5. Paired(z, O, S)
  <2>1. Below(S, z) = Below(R, z)
    BY <1>0, <1>2
  <2> QED BY <2>1 DEF Shape, Paired
<1>6. Closing(V, S)
  <2> SUFFICES ASSUME NEW p \in V, p + 1 \notin V PROVE p \in S
    BY DEF Closing
  <2>1. CASE p < a
    <3>1. p \in U /\ p + 1 \notin U
      BY <1>0, <2>1
    <3>2. p \in R /\ p \in Nat
      BY <1>1, <3>1 DEF Shape, Closing
    <3> QED BY <1>0, <1>3, <2>1, <3>2
  <2>2. CASE p >= a
    <3>1. p = z - 1
      BY <1>0, <1>1, <2>2
    <3>2. p \in U /\ p + 1 \notin U
      BY <1>0, <1>1, <3>1
    <3>3. p \in R /\ p \in Nat
      BY <1>1, <3>2 DEF Shape, Closing
    <3> QED BY <1>0, <1>3, <3>1, <3>3
  <2>3. p \in Int
    BY <1>0, <1>1
  <2> QED BY <1>0, <2>1, <2>2, <2>3
<1>7. Levelled(z, M, V, O, S)
  <2> SUFFICES ASSUME NEW p \in 0..(z - 1), NEW q \in 0..(z - 1), q \notin V, p <= q
               PROVE  Level(M, V, O, S, p)
    BY DEF Levelled
  <2>1. q < a
    BY <1>0
  <2>2. Level(M, U, O, R, p)
    BY <1>0, <2>1 DEF Shape, Levelled
  <2>3. Below(S, p) = Below(R, p) /\ (p \in V <=> p \in U)
    BY <1>0, <1>2, <2>1
  <2> QED BY <2>2, <2>3 DEF Level
<1> QED BY <1>4, <1>5, <1>6, <1>7 DEF Shape, S

\* A new run at s, its mapped slot being taken, the run ends from s to the empty
\* slot b moving right.
LEMMA NewRunRight ==
    ASSUME NEW z, NEW M, Table(z, M), NEW U, NEW O, NEW R, Shape(z, M, U, O, R),
           NEW i \in Parts, i \notin O, M[i] \in U,
           NEW b \in 0..(z - 1), b \notin U, NEW s \in M[i]..b,
           \A p \in M[i]..(b - 1) : p \in U
    PROVE  Shape(z, M, U \cup {b}, O \cup {i}, ShiftRunendsRight(R, s, b) \cup {s})
<1> DEFINE m == M[i]
           V == U \cup {b}
           P == O \cup {i}
           S == ShiftRunendsRight(R, s, b)
           Q == S \cup {s}
<1>0. /\ z \in Nat /\ TargetSize \in Nat /\ b \notin R /\ b \in Nat
      /\ m \in 0..(z - 1) /\ i \in 0..(TargetSize - 1)
      /\ Within(z, U, O, R)
  BY DEF Table, Shape, Within, Parts
<1>1. /\ \A x \in R : x \in Nat
      /\ \A o \in O : o \in Nat
      /\ \A o \in O : o \in Parts
      /\ s \in Nat /\ s <= b /\ m <= s /\ m \in Nat /\ m < b
  <2>1. m # b
    OBVIOUS
  <2> HIDE DEF m
  <2> QED BY <1>0, <2>1, WithinNat DEF Within, m
<1>c. /\ \A x : MapsTo(M, O, x) \in Nat
      /\ \A x \in Nat : Below(R, x) \in Nat
      /\ \A x \in Nat : Below(R, x + 1) = Below(R, x) + Bit(x \in R)
      /\ \A x, y \in Nat : x <= y => Below(R, x) <= Below(R, y)
  BY <1>0, Counts
<1>2. \A x \in Nat : Below(S, x) = IF x <= s THEN Below(R, x)
                                    ELSE IF x <= b + 1 THEN Below(R, x - 1)
                                    ELSE Below(R, x)
  <2>1. \A x \in Nat : Below(S, x) = IF x <= s THEN Below(R, x)
                                    ELSE IF x <= b + 1 THEN Below(R, x - 1)
                                    ELSE Below(R, x) - Bit(b \in R)
    BY <1>0, <1>1, BelowShiftedRight
  <2>2. Bit(b \in R) = 0 /\ \A x \in Nat : Below(R, x) \in Nat
    BY <1>0, <1>c DEF Bit
  <2> QED BY <2>1, <2>2
<1>3. /\ \A y \in S : y \in Nat
      /\ \A y \in Nat : y < s \/ b < y => (y \in S <=> y \in R)
      /\ \A y \in Nat : s < y /\ y <= b => (y \in S <=> y - 1 \in R)
      /\ s \notin S
  BY <1>0, <1>1, ShiftedRight
<1> HIDE DEF S
<1>4. \A x \in Nat : Below(Q, x) = Below(S, x) + Bit(s < x)
  BY <1>1, <1>3, BelowAdded
<1>5. \A x : MapsTo(M, P, x) = MapsTo(M, O, x) + Bit(m <= x)
  BY <1>1, MapsAdded
<1>6. \A p \in Nat : m <= p /\ p < b => p \in U
  BY <1>0
<1> HIDE DEF m, Q
<1>7. Within(z, V, P, Q)
  <2>1. ASSUME NEW y \in S PROVE y \in V
    <3>1. CASE y < s \/ b < y
      BY <1>0, <1>3, <3>1 DEF Within
    <3>2. CASE s < y /\ y < b
      BY <1>0, <1>1, <1>3, <1>6, <3>2
    <3>3. CASE y = b
      BY <3>3
    <3> QED BY <1>0, <1>1, <1>3, <3>1, <3>2, <3>3
  <2>2. s \in V
    BY <1>0, <1>1, <1>6
  <2> QED BY <1>0, <2>1, <2>2 DEF Within, Q
<1>8. Below(R, b + 1) = Below(R, b)
  BY <1>0, <1>1, <1>c DEF Bit
<1>9. Paired(z, P, Q)
  <2>1. Below(P, TargetSize) = Below(O, TargetSize) + Bit(i < TargetSize)
    BY <1>0, <1>1, BelowAdded
  <2>2. Below(S, z) = Below(R, z)
    <3>1. CASE z = b + 1
      BY <1>0, <1>1, <1>2, <1>8, <3>1
    <3>2. CASE z > b + 1
      BY <1>0, <1>1, <1>2, <3>2
    <3> QED BY <1>0, <3>1, <3>2
  <2>3. Below(Q, z) = Below(S, z) + Bit(s < z)
    BY <1>0, <1>4
  <2>4. s < z /\ i < TargetSize
    BY <1>0, <1>1
  <2> QED BY <2>1, <2>2, <2>3, <2>4 DEF Shape, Paired, Bit
<1>10. Closing(V, Q)
  <2> SUFFICES ASSUME NEW p \in V, p + 1 \notin V PROVE p \in Q
    BY DEF Closing
  <2>1. CASE p = b
    <3>1. CASE s = b
      BY <2>1, <3>1 DEF Q
    <3>2. CASE s < b
      <4>1. b - 1 \in U /\ (b - 1) + 1 = b /\ b - 1 \in Nat
        BY <1>0, <1>1, <1>6
      <4>2. b - 1 \in R
        BY <4>1 DEF Shape, Closing
      <4> QED BY <1>0, <1>1, <1>3, <2>1, <3>2, <4>2 DEF Q
    <3> QED BY <1>0, <1>1, <3>1, <3>2
  <2>2. CASE p # b
    <3>1. p \in U /\ p + 1 \notin U /\ p \in Nat
      BY <1>0, <2>2, WithinNat
    <3>2. p \in R
      BY <3>1 DEF Shape, Closing
    <3>3. ~(m <= p /\ p <= b)
      BY <1>0, <1>1, <1>6, <2>2, <3>1
    <3>4. p \in S
      BY <1>0, <1>1, <1>3, <3>1, <3>2, <3>3
    <3> QED BY <3>4 DEF Q
  <2> QED BY <2>1, <2>2
<1>11. Levelled(z, M, V, P, Q)
  <2> SUFFICES ASSUME NEW p \in 0..(z - 1), NEW q \in 0..(z - 1), q \notin V, p <= q
               PROVE  Level(M, V, P, Q, p)
    BY DEF Levelled
  <2>0. p \in Nat
    BY <1>0
  <2>1. p \in Nat /\ MapsTo(M, O, p) \in Nat /\ Below(R, p) \in Nat
    BY <1>c, <2>0
  <2>2. Level(M, U, O, R, p)
    BY DEF Shape, Levelled
  <2>3. /\ MapsTo(M, P, p) = MapsTo(M, O, p) + Bit(m <= p)
        /\ Below(Q, p) = Below(S, p) + Bit(s < p)
    BY <1>4, <1>5, <2>1
  <2>4. CASE p < m
    <3>1. Below(S, p) = Below(R, p) /\ (p \in V <=> p \in U)
      BY <1>1, <1>2, <2>1, <2>4
    <3>2. ~(m <= p) /\ ~(s < p)
      BY <1>1, <2>1, <2>4
    <3> QED BY <2>1, <2>2, <2>3, <3>1, <3>2 DEF Level, Bit
  <2>5. CASE m <= p /\ p <= s /\ p # b
    <3>1. Below(S, p) = Below(R, p)
      BY <1>1, <1>2, <2>1, <2>5
    <3>2. m <= p /\ ~(s < p) /\ p \in U /\ p \in V
      BY <1>1, <1>6, <2>1, <2>5
    <3> QED BY <2>1, <2>2, <2>3, <3>1, <3>2 DEF Level, Bit
  <2>6. CASE s < p /\ p < b
    <3>1. Below(S, p) = Below(R, p - 1) /\ p - 1 \in Nat
      BY <1>0, <1>1, <1>2, <2>1, <2>6
    <3>2. Below(R, p - 1) <= Below(R, p) /\ Below(R, p - 1) \in Nat
      BY <1>c, <2>1, <3>1
    <3>3. m <= p /\ p \in U /\ p \in V
      BY <1>0, <1>1, <1>6, <2>1, <2>6
    <3> QED BY <2>1, <2>2, <2>3, <2>6, <3>1, <3>2, <3>3 DEF Level, Bit
  <2>7. CASE p = b
    <3>1. p \notin U /\ p \in V /\ m <= p
      BY <1>1, <2>7
    <3>2. CASE s = b
      <4>1. Below(S, p) = Below(R, p) /\ ~(s < p)
        BY <1>1, <1>2, <2>1, <2>7, <3>2
      <4> QED BY <2>1, <2>2, <2>3, <3>1, <4>1 DEF Level, Bit
    <3>3. CASE s < b
      <4>1. b - 1 \in Nat /\ b - 1 \in U /\ (b - 1) + 1 = b
        BY <1>0, <1>1, <1>6
      <4>2. b - 1 \in R
        BY <4>1 DEF Shape, Closing
      <4>3. Below(R, b - 1) + 1 = Below(R, b) /\ Below(R, b - 1) \in Nat
        BY <1>0, <1>1, <1>c, <4>1, <4>2 DEF Bit
      <4>4. Below(S, b) = Below(R, b - 1)
        BY <1>0, <1>1, <1>2, <3>3
      <4> QED BY <2>1, <2>2, <2>3, <2>7, <3>1, <3>3, <4>3, <4>4 DEF Level, Bit
    <3> QED BY <1>0, <1>1, <3>2, <3>3
  <2>8. CASE b < p
    <3>1. Below(S, p) = Below(R, p)
      <4>1. CASE p = b + 1
        BY <1>0, <1>1, <1>2, <1>8, <2>1, <4>1
      <4>2. CASE p > b + 1
        BY <1>0, <1>1, <1>2, <2>1, <4>2
      <4> QED BY <1>0, <2>1, <2>8, <4>1, <4>2
    <3>2. (p \in V <=> p \in U) /\ m <= p /\ s < p
      BY <1>0, <1>1, <2>1, <2>8
    <3> QED BY <2>1, <2>2, <2>3, <3>1, <3>2 DEF Level, Bit
  <2> QED BY <1>0, <1>1, <2>1, <2>4, <2>5, <2>6, <2>7, <2>8
<1> QED BY <1>7, <1>9, <1>10, <1>11 DEF Shape, Q, S

\* A new run at t, everything behind the empty slot a being in use: the run ends
\* between a and t move left.
LEMMA NewRunLeft ==
    ASSUME NEW z, NEW M, Table(z, M), NEW U, NEW O, NEW R, Shape(z, M, U, O, R),
           NEW i \in Parts, i \notin O,
           NEW a \in 0..(z - 1), a \notin U, \A p \in (a + 1)..(z - 1) : p \in U,
           a < M[i], NEW t \in a..(z - 1)
    PROVE  Shape(z, M, U \cup {a}, O \cup {i}, ShiftRunendsLeft(R, a + 1, t + 1) \cup {t})
<1> DEFINE m == M[i]
           V == U \cup {a}
           P == O \cup {i}
           l == a + 1
           d == t + 1
           S == ShiftRunendsLeft(R, l, d)
           Q == S \cup {t}
<1>0. /\ z \in Nat /\ TargetSize \in Nat /\ a \notin R /\ a \in Nat /\ d \in Nat
      /\ l \in Nat /\ 1 <= l /\ l - 1 = a /\ l <= d /\ t < z /\ l - 1 \notin R /\ d - 1 = t
      /\ t \in Nat /\ a <= t
      /\ m \in 0..(z - 1) /\ i \in 0..(TargetSize - 1)
      /\ Within(z, U, O, R)
  BY DEF Table, Shape, Within, Parts
<1>1. /\ \A x \in R : x \in Nat
      /\ \A x \in U : x \in Nat /\ x < z
      /\ \A o \in O : o \in Nat
      /\ \A o \in O : o \in Parts
  BY <1>0, WithinNat DEF Within
<1>c. /\ \A x : MapsTo(M, O, x) \in Nat
      /\ \A x \in Nat : Below(R, x) \in Nat
  BY <1>0, Counts
<1>2. \A x \in Nat : Below(S, x) = IF l <= x /\ x < d THEN Below(R, x + 1) ELSE Below(R, x)
  BY <1>0, <1>1, BelowShiftedLeft
<1>3. /\ \A y \in S : y \in Nat
      /\ \A y \in Nat : y < l - 1 \/ d <= y => (y \in S <=> y \in R)
      /\ \A y \in Nat : l - 1 <= y /\ y < d - 1 => (y \in S <=> y + 1 \in R)
      /\ d - 1 \notin S
  BY <1>0, <1>1, ShiftedLeft
<1> HIDE DEF S
<1>4. \A x \in Nat : Below(Q, x) = Below(S, x) + Bit(t < x)
  BY <1>0, <1>3, BelowAdded
<1>5. \A x : MapsTo(M, P, x) = MapsTo(M, O, x) + Bit(m <= x)
  BY <1>1, MapsAdded
<1> HIDE DEF m, Q
<1>7. Within(z, V, P, Q)
  <2>1. ASSUME NEW y \in S PROVE y \in V
    <3>1. CASE y < a \/ d <= y
      BY <1>0, <1>3, <3>1 DEF Within
    <3>2. CASE a < y /\ y < d
      BY <1>0, <1>3, <3>2
    <3>3. CASE y = a
      BY <3>3
    <3> QED BY <1>0, <1>1, <1>3, <3>1, <3>2, <3>3
  <2>2. t \in V
    BY <1>0
  <2> QED BY <1>0, <2>1, <2>2 DEF Within, Q
<1>9. Paired(z, P, Q)
  <2>1. Below(P, TargetSize) = Below(O, TargetSize) + Bit(i < TargetSize)
    BY <1>0, <1>1, BelowAdded
  <2>2. Below(S, z) = Below(R, z)
    BY <1>0, <1>2
  <2>3. Below(Q, z) = Below(S, z) + Bit(t < z)
    BY <1>0, <1>4
  <2>4. t < z /\ i < TargetSize
    BY <1>0, <1>1
  <2> QED BY <2>1, <2>2, <2>3, <2>4 DEF Shape, Paired, Bit
<1>10. Closing(V, Q)
  <2> SUFFICES ASSUME NEW p \in V, p + 1 \notin V PROVE p \in Q
    BY DEF Closing
  <2>1. CASE p < a
    <3>1. p \in U /\ p + 1 \notin U
      BY <1>0, <2>1
    <3>2. p \in R /\ p \in Nat
      BY <1>1, <3>1 DEF Shape, Closing
    <3> QED BY <1>0, <1>3, <2>1, <3>2 DEF Q
  <2>2. CASE p >= a
    <3>1. p = z - 1
      BY <1>0, <1>1, <2>2
    <3>2. CASE t = z - 1
      BY <3>1, <3>2 DEF Q
    <3>3. CASE t # z - 1
      <4>1. p \in U /\ p + 1 \notin U
        BY <1>0, <1>1, <3>1, <3>3
      <4>2. p \in R /\ p \in Nat
        BY <1>1, <4>1 DEF Shape, Closing
      <4> QED BY <1>0, <1>3, <3>1, <3>3, <4>2 DEF Q
    <3> QED BY <3>2, <3>3
  <2>3. p \in Int
    BY <1>0, <1>1
  <2> QED BY <1>0, <2>1, <2>2, <2>3
<1>11. Levelled(z, M, V, P, Q)
  <2> SUFFICES ASSUME NEW p \in 0..(z - 1), NEW q \in 0..(z - 1), q \notin V, p <= q
               PROVE  Level(M, V, P, Q, p)
    BY DEF Levelled
  <2>1. q < a /\ p \in Nat
    BY <1>0
  <2>2. Level(M, U, O, R, p)
    BY <1>0, <2>1 DEF Shape, Levelled
  <2>3. Below(S, p) = Below(R, p) /\ (p \in V <=> p \in U)
    BY <1>0, <1>2, <2>1
  <2>4. a < m /\ m \in Nat
    BY <1>0 DEF m
  <2>5. ~(m <= p) /\ ~(t < p)
    BY <1>0, <2>1, <2>4
  <2>6. MapsTo(M, P, p) = MapsTo(M, O, p)
    <3>1. MapsTo(M, O, p) \in Nat
      BY <1>c
    <3>2. MapsTo(M, P, p) = MapsTo(M, O, p) + Bit(m <= p)
      BY <1>5
    <3>3. Bit(m <= p) = 0
      BY <2>5 DEF Bit
    <3> QED BY <3>1, <3>2, <3>3
  <2>7. Below(Q, p) = Below(R, p)
    <3>1. Below(R, p) \in Nat
      BY <1>c, <2>1
    <3> QED BY <1>4, <2>1, <2>3, <2>5, <3>1 DEF Bit
  <2> QED BY <2>2, <2>3, <2>6, <2>7 DEF Level
<1> QED BY <1>7, <1>9, <1>10, <1>11 DEF Shape, Q, S

-----------------------------------------------------------------------------
(* Deletions.                                                                *)

\* Between a used slot and an unused one after it some run ends.
LEMMA EndBetween ==
    ASSUME NEW z, NEW M, Table(z, M), NEW U, NEW O, NEW R, Shape(z, M, U, O, R),
           NEW p \in U, NEW u \in Nat, p < u, u \notin U
    PROVE  \E f \in R : p <= f /\ f < u /\ f + 1 \notin U
<1>1. p \in Nat
  BY WithinNat DEF Shape
<1> DEFINE D == {x \in Nat : p < x /\ x \notin U}
<1>2. PICK x \in D : \A y \in D : x <= y
  <2>1. u \in D
    OBVIOUS
  <2>2. \A y \in D : y \in Nat
    OBVIOUS
  <2> QED BY <2>1, <2>2, LeastNat
<1>3. x \in Nat /\ p < x /\ x \notin U /\ x <= u
  BY <1>2
<1>4. x - 1 \in Nat /\ p <= x - 1 /\ (x - 1) + 1 = x /\ ~(x <= x - 1)
  BY <1>1, <1>3
<1>5. x - 1 \in U
  BY <1>1, <1>2, <1>4
<1>6. x - 1 \in R
  BY <1>3, <1>4, <1>5 DEF Shape, Closing
<1> QED BY <1>3, <1>4, <1>6

\* The run [rs, e] of the occupied part i.
Run(U, O, R, i, rs, e) ==
    /\ i \in O /\ e \in R /\ Below(R, e) = Below(O, i)
    /\ rs \in 0..e
    /\ \A p \in rs..e : p \in U
    /\ \A p \in rs..(e - 1) : p \notin R
    /\ rs - 1 \in U => rs - 1 \in R

\* Every run up to the slot e starts no further left than it is mapped.
LevelledTo(M, U, O, R, e) == \A x \in U : x <= e => MapsTo(M, O, x) > Below(R, x)

\* A left shift up to the run end h: the runs between e and h start to the
\* right of their mapped slots, and the run after h does not.
Leftward(M, U, O, R, e, h) ==
    /\ h \in R /\ e <= h
    /\ \A p \in e..h : p \in U
    /\ \A f \in R : e <= f /\ f < h => MapsTo(M, O, f) >= Below(R, f) + 2
    /\ MapsTo(M, O, h) <= Below(R, h) + 1

\* Along a stretch that a deletion shifts left, more parts are mapped than runs end
\* even past each slot: every run of it sits right of its mapped slot.
LEMMA LeftwardLevel ==
    ASSUME NEW z, NEW M, Table(z, M), NEW U, NEW O, NEW R, Shape(z, M, U, O, R),
           NEW e \in R, NEW h, Leftward(M, U, O, R, e, h),
           NEW p \in e..(h - 1)
    PROVE  MapsTo(M, O, p) > Below(R, p + 1)
<1>1. Within(z, U, O, R)
  BY DEF Shape
<1>2. (\A x \in R : x \in Nat) /\ e \in Nat /\ h \in Nat /\ p \in Nat /\ e <= p /\ p < h
  <2>1. (\A x \in R : x \in Nat) /\ e \in Nat /\ h \in Nat
    BY <1>1, WithinNat DEF Leftward
  <2> QED BY <2>1
<1>c. /\ \A x : MapsTo(M, O, x) \in Nat
      /\ \A x \in Nat : Below(R, x) \in Nat
      /\ \A x \in Nat : Below(R, x + 1) = Below(R, x) + Bit(x \in R)
  BY <1>1, Counts
<1> DEFINE D == {x \in R : e <= x /\ x <= p}
           f == Max(D)
<1>3. f \in D /\ \A y \in D : y <= f
  <2>1. \A y \in D : y \in e..p
    BY <1>2
  <2>2. e \in D
    BY <1>2
  <2>3. e \in Int /\ p \in Int
    BY <1>2
  <2> HIDE DEF D
  <2> QED BY <2>1, <2>2, <2>3, MaxOf
<1>4. f \in R /\ e <= f /\ f <= p /\ f \in Nat
  BY <1>2, <1>3
<1>5. \A k \in R : ~(f + 1 <= k /\ k < p + 1)
  <2> SUFFICES ASSUME NEW k \in R, f + 1 <= k, k < p + 1 PROVE FALSE
    OBVIOUS
  <2>1. k \in Nat
    BY <1>2
  <2> HIDE DEF f
  <2>2. k \in D
    BY <1>2, <1>4, <2>1
  <2>3. k <= f
    BY <1>3, <2>2
  <2> QED BY <1>4, <2>1, <2>3
<1> HIDE DEF f, D
<1>6. Below(R, f + 1) = Below(R, p + 1)
  <2>1. f + 1 \in Nat /\ p + 1 \in Nat /\ f + 1 <= p + 1
    BY <1>2, <1>4
  <2>2. \A k \in R : k \in Nat
    BY <1>2
  <2> QED BY <1>5, <2>1, <2>2, BelowGap
<1>7. Below(R, f + 1) = Below(R, f) + 1 /\ Below(R, f) \in Nat
  BY <1>4, <1>c DEF Bit
<1>8. MapsTo(M, O, f) >= Below(R, f) + 2
  BY <1>2, <1>4 DEF Leftward
<1>9. MapsTo(M, O, f) <= MapsTo(M, O, p)
  BY <1>1, <1>2, <1>4, MapsMonotone DEF Within
<1>10. MapsTo(M, O, f) \in Nat /\ MapsTo(M, O, p) \in Nat
  BY <1>c
<1> QED BY <1>6, <1>7, <1>8, <1>9, <1>10

\* A left shift out of a run that stays: its last slot and the runs up to h.
LEMMA RunShrunkLeft ==
    ASSUME NEW z, NEW M, Table(z, M), NEW U, NEW O, NEW R, Shape(z, M, U, O, R),
           NEW i, NEW rs, NEW e, Run(U, O, R, i, rs, e), rs < e,
           LevelledTo(M, U, O, R, e), NEW h, Leftward(M, U, O, R, e, h)
    PROVE  Shape(z, M, U \ {h}, O, ShiftRunendsLeft(R, e, h + 1))
<1> DEFINE V == U \ {h}
           d == h + 1
           S == ShiftRunendsLeft(R, e, d)
<1>0. /\ z \in Nat /\ TargetSize \in Nat
      /\ Within(z, U, O, R)
  BY DEF Table, Shape
<1>1. /\ \A x \in R : x \in Nat /\ x < z
      /\ \A x \in U : x \in Nat /\ x < z
      /\ \A o \in O : o \in Parts
  BY <1>0, WithinNat DEF Within
<1>2. /\ e \in R /\ e \in Nat /\ h \in R /\ h \in Nat /\ h < z /\ e <= h /\ rs \in Nat
      /\ e - 1 \in Nat /\ (e - 1) + 1 = e /\ rs <= e - 1
      /\ e - 1 \in U /\ e - 1 \notin R
  <2>1. e \in R /\ e \in Nat /\ h \in R /\ h \in Nat /\ h < z /\ e <= h /\ rs \in Nat
    BY <1>1 DEF Run, Leftward
  <2>2. e - 1 \in rs..(e - 1) /\ e - 1 \in rs..e
    BY <2>1
  <2> QED BY <2>1, <2>2 DEF Run
<1>3. d \in Nat /\ 1 <= e /\ e <= d /\ d - 1 = h
  BY <1>2
<1>c. /\ \A x : MapsTo(M, O, x) \in Nat
      /\ \A x \in Nat : Below(R, x) \in Nat
      /\ \A x \in Nat : Below(R, x + 1) = Below(R, x) + Bit(x \in R)
  BY <1>0, Counts
<1>4. \A x \in Nat : Below(S, x) = IF e <= x /\ x < d THEN Below(R, x + 1) ELSE Below(R, x)
  BY <1>1, <1>2, <1>3, BelowShiftedLeft
<1>5. /\ \A y \in S : y \in Nat
      /\ \A y \in Nat : y < e - 1 \/ d <= y => (y \in S <=> y \in R)
      /\ \A y \in Nat : e - 1 <= y /\ y < d - 1 => (y \in S <=> y + 1 \in R)
      /\ d - 1 \notin S
  BY <1>1, <1>2, <1>3, ShiftedLeft
<1> HIDE DEF S
<1>6. \A p \in Nat : e <= p /\ p <= h => p \in U
  BY <1>2 DEF Leftward
<1>7. Within(z, V, O, S)
  <2>1. ASSUME NEW y \in S PROVE y \in V
    <3>1. CASE y < e - 1 \/ d <= y
      BY <1>0, <1>2, <1>5, <3>1 DEF Within
    <3>2. CASE e - 1 <= y /\ y < h
      BY <1>2, <1>5, <1>6, <3>2
    <3> QED BY <1>2, <1>3, <1>5, <3>1, <3>2
  <2> QED BY <1>0, <2>1 DEF Within
<1>8. Paired(z, O, S)
  <2>1. Below(S, z) = Below(R, z)
    BY <1>0, <1>2, <1>4
  <2> QED BY <2>1 DEF Shape, Paired
<1>9. Closing(V, S)
  <2> SUFFICES ASSUME NEW p \in V, p + 1 \notin V PROVE p \in S
    BY DEF Closing
  <2>1. p \in U /\ p \in Nat /\ p # h
    BY <1>1
  <2>2. CASE p + 1 = h
    BY <1>2, <1>3, <1>5, <2>1, <2>2
  <2>3. CASE p + 1 # h
    <3>1. p + 1 \notin U
      BY <2>3
    <3>2. p \in R
      BY <2>1, <3>1 DEF Shape, Closing
    <3>3. ~(e - 1 <= p /\ p < h)
      BY <1>2, <1>6, <2>1, <3>1
    <3> QED BY <1>2, <1>3, <1>5, <2>1, <3>2, <3>3
  <2> QED BY <2>2, <2>3
<1>10. Levelled(z, M, V, O, S)
  <2> SUFFICES ASSUME NEW p \in 0..(z - 1), NEW q \in 0..(z - 1), q \notin V, p <= q
               PROVE  Level(M, V, O, S, p)
    BY DEF Levelled
  <2>1. p \in Nat
    BY <1>0
  <2>2. MapsTo(M, O, p) \in Nat /\ Below(R, p) \in Nat
    BY <1>c, <2>1
  <2>3. CASE p < e
    <3>1. Below(S, p) = Below(R, p) /\ (p \in V <=> p \in U)
      BY <1>2, <1>4, <2>1, <2>3
    <3>2. CASE p \in U
      <4>1. MapsTo(M, O, p) > Below(R, p)
        BY <1>2, <2>1, <2>3, <3>2 DEF LevelledTo
      <4> QED BY <3>1, <3>2, <4>1 DEF Level
    <3>3. CASE p \notin U
      <4>1. p <= p
        BY <2>1
      <4>2. Level(M, U, O, R, p)
        BY <3>3, <4>1 DEF Shape, Levelled
      <4> QED BY <3>1, <3>3, <4>2 DEF Level
    <3> QED BY <3>2, <3>3
  <2>4. CASE e <= p /\ p < h
    <3>1. p \in e..(h - 1)
      BY <1>2, <2>1, <2>4
    <3>2. MapsTo(M, O, p) > Below(R, p + 1)
      BY <1>2, <3>1, LeftwardLevel
    <3>3. Below(S, p) = Below(R, p + 1) /\ p \in V
      BY <1>2, <1>4, <1>6, <2>1, <2>4
    <3> QED BY <3>2, <3>3 DEF Level
  <2>5. CASE p = h
    <3>1. Below(S, p) = Below(R, h) + 1 /\ p \notin V /\ Below(R, h) \in Nat
      BY <1>2, <1>4, <1>c, <2>5 DEF Bit
    <3>2. MapsTo(M, O, h) <= Below(R, h) + 1
      BY DEF Leftward
    <3>3. h - 1 \in Nat /\ (h - 1) + 1 = h /\ h - 1 <= h
      BY <1>2
    <3>4. MapsTo(M, O, h - 1) >= Below(R, h) + 1
      <4>1. CASE h = e
        <5>1. MapsTo(M, O, e - 1) > Below(R, e - 1)
          BY <1>2 DEF LevelledTo
        <5>2. Below(R, e) = Below(R, e - 1)
          BY <1>2, <1>c DEF Bit
        <5>3. Below(R, e - 1) \in Nat /\ MapsTo(M, O, e - 1) \in Nat
          BY <1>2, <1>c
        <5> QED BY <4>1, <5>1, <5>2, <5>3
      <4>2. CASE e < h
        <5>1. h - 1 \in e..(h - 1)
          BY <1>2, <4>2
        <5>2. MapsTo(M, O, h - 1) > Below(R, (h - 1) + 1)
          BY <1>2, <5>1, LeftwardLevel
        <5>3. MapsTo(M, O, h - 1) \in Nat
          BY <1>c
        <5> QED BY <3>1, <3>3, <5>2, <5>3
      <4> QED BY <1>2, <4>1, <4>2
    <3>5. MapsTo(M, O, h - 1) <= MapsTo(M, O, h)
      <4>1. h - 1 \in Int /\ h \in Int
        BY <1>2
      <4> QED BY <1>1, <3>3, <4>1, MapsMonotone
    <3>6. MapsTo(M, O, h - 1) \in Nat /\ MapsTo(M, O, h) \in Nat
      BY <1>c
    <3> QED BY <2>5, <3>1, <3>2, <3>4, <3>5, <3>6 DEF Level
  <2>6. CASE h < p
    <3>1. Below(S, p) = Below(R, p) /\ (p \in V <=> p \in U)
      BY <1>2, <1>4, <2>1, <2>6
    <3>2. q \notin U
      BY <1>0, <1>2, <2>6
    <3>3. Level(M, U, O, R, p)
      BY <3>2 DEF Shape, Levelled
    <3> QED BY <3>1, <3>3 DEF Level
  <2> QED BY <1>2, <2>1, <2>3, <2>4, <2>5, <2>6
<1> QED BY <1>7, <1>8, <1>9, <1>10 DEF Shape, S

\* The part of a run that starts where every run before it is levelled is
\* mapped to its slots or to the left of them.
LEMMA RunMapped ==
    ASSUME NEW z, NEW M, Table(z, M), NEW U, NEW O, NEW R, Shape(z, M, U, O, R),
           NEW i, NEW rs, NEW e, Run(U, O, R, i, rs, e),
           NEW x \in Int, MapsTo(M, O, x) > Below(R, e)
    PROVE  M[i] <= x
<1>1. i \in O /\ (\A o \in O : o \in Parts) /\ i \in Parts /\ Below(R, e) = Below(O, i)
  BY DEF Shape, Within, Run
<1>2. M[i] \in Int
  BY <1>1 DEF Table
<1>3. ASSUME x < M[i] PROVE FALSE
  <2>1. MapsTo(M, O, x) <= Below(O, i)
    BY <1>1, <1>3, MapsAtMost
  <2>2. MapsTo(M, O, x) \in Nat
    BY <1>1, MapsFinite
  <2>3. Below(O, i) \in Nat
    <3>1. (\A o \in O : o \in Nat) /\ i \in Nat
      BY <1>1, WithinNat DEF Shape
    <3> QED BY <3>1, BelowFinite
  <2> QED BY <1>1, <2>1, <2>2, <2>3
<1> QED BY <1>2, <1>3

\* What the level of a slot before a run loses with the run's part.
LEMMA LevelWithout ==
    ASSUME NEW z, NEW M, Table(z, M), NEW U, NEW O, NEW R, Shape(z, M, U, O, R),
           NEW i, NEW rs, NEW e, Run(U, O, R, i, rs, e),
           NEW p \in Nat, p < rs, Level(M, U, O, R, p)
    PROVE  Level(M, U, O \ {i}, R, p)
<1>0. Within(z, U, O, R)
  BY DEF Shape
<1>1. /\ \A x \in R : x \in Nat /\ x < z
      /\ \A o \in O : o \in Parts
  BY <1>0, WithinNat DEF Within
<1>2. /\ i \in O /\ i \in Parts /\ e \in R /\ e \in Nat /\ rs \in Nat /\ rs <= e
      /\ Below(R, e) = Below(O, i)
  BY <1>1 DEF Run
<1>c. /\ \A x : MapsTo(M, O, x) \in Nat
      /\ \A x \in Nat : Below(R, x) \in Nat
      /\ \A x \in Nat : Below(R, x + 1) = Below(R, x) + Bit(x \in R)
      /\ \A x, y \in Nat : x <= y => Below(R, x) <= Below(R, y)
  BY <1>0, Counts
<1>3. MapsTo(M, O \ {i}, p) = MapsTo(M, O, p) - Bit(M[i] <= p)
  BY <1>1, <1>2, MapsRemoved
<1>4. MapsTo(M, O, p) \in Nat /\ Below(R, p) \in Nat /\ Below(R, e) \in Nat
  <2>1. MapsTo(M, O, p) \in Nat
    BY <1>c
  <2> QED BY <1>2, <1>c, <2>1
<1>5. CASE ~(M[i] <= p)
  <2>1. MapsTo(M, O \ {i}, p) = MapsTo(M, O, p)
    BY <1>3, <1>4, <1>5 DEF Bit
  <2> QED BY <2>1 DEF Level
<1>6. CASE M[i] <= p
  <2>0. p \in Int
    OBVIOUS
  <2>1. MapsTo(M, O, p) >= Below(R, e) + 1
    <3>1. Below(O, i) + 1 <= MapsTo(M, O, p)
      BY <1>1, <1>2, <1>6, <2>0, MapsAtLeast
    <3> QED BY <1>2, <1>4, <3>1
  <2>2. Below(R, p) <= Below(R, e)
    BY <1>2, <1>c
  <2>3. p \in U
    BY <1>4, <2>1, <2>2 DEF Level
  <2>4. PICK f \in R : p <= f /\ f < rs
    <3>1. CASE rs - 1 \in U
      <4>1. rs - 1 \in R /\ p <= rs - 1 /\ rs - 1 < rs
        BY <1>2, <3>1 DEF Run
      <4> QED BY <4>1
    <3>2. CASE rs - 1 \notin U
      <4>1. rs - 1 \in Nat /\ p < rs - 1
        <5>1. p # rs - 1
          BY <2>3, <3>2
        <5> QED BY <1>2, <5>1
      <4>2. \E f \in R : p <= f /\ f < rs - 1
        BY <2>3, <3>2, <4>1, EndBetween
      <4>3. PICK f \in R : p <= f /\ f < rs - 1
        BY <4>2
      <4>4. f < rs
        BY <1>1, <1>2, <4>3
      <4> QED BY <4>3, <4>4
    <3> QED BY <3>1, <3>2
  <2>5. f \in Nat /\ f + 1 \in Nat /\ f + 1 <= e
    BY <1>1, <1>2, <2>4
  <2>6. Below(R, p) <= Below(R, f) /\ Below(R, f + 1) <= Below(R, e)
    BY <1>2, <1>c, <2>4, <2>5
  <2>7. Below(R, f + 1) = Below(R, f) + 1 /\ Below(R, f) \in Nat
    BY <1>c, <2>4, <2>5 DEF Bit
  <2>8. MapsTo(M, O \ {i}, p) = MapsTo(M, O, p) - 1
    BY <1>3, <1>6 DEF Bit
  <2>9. MapsTo(M, O \ {i}, p) > Below(R, p)
    BY <1>4, <2>1, <2>6, <2>7, <2>8
  <2> QED BY <2>3, <2>9 DEF Level
<1> QED BY <1>5, <1>6

\* A left shift that closes the hole a run of one slot leaves.
LEMMA RunGoneLeft ==
    ASSUME NEW z, NEW M, Table(z, M), NEW U, NEW O, NEW R, Shape(z, M, U, O, R),
           NEW i, NEW e, Run(U, O, R, i, e, e),
           LevelledTo(M, U, O, R, e), NEW h, Leftward(M, U, O, R, e, h)
    PROVE  Shape(z, M, U \ {h}, O \ {i}, ShiftRunendsLeft(R \ {e}, e + 1, h + 1))
<1> DEFINE V == U \ {h}
           P == O \ {i}
           Q == R \ {e}
           l == e + 1
           d == h + 1
           S == ShiftRunendsLeft(Q, l, d)
<1>0. /\ z \in Nat /\ TargetSize \in Nat
      /\ Within(z, U, O, R)
  BY DEF Table, Shape
<1>1. /\ \A x \in R : x \in Nat /\ x < z
      /\ \A x \in U : x \in Nat /\ x < z
      /\ \A o \in O : o \in Parts
      /\ \A o \in O : o \in Nat /\ o < TargetSize
  BY <1>0, WithinNat DEF Within
<1>2. /\ e \in R /\ e \in U /\ e \in Nat /\ h \in R /\ h \in Nat /\ h < z /\ e <= h
      /\ i \in O /\ i \in Parts /\ i \in Nat /\ i < TargetSize
      /\ (e - 1 \in U => e - 1 \in R)
  BY <1>0, <1>1 DEF Run, Leftward, Within
<1>3. d \in Nat /\ l \in Nat /\ 1 <= l /\ l <= d /\ d - 1 = h /\ l - 1 = e /\ l - 1 \notin Q
  BY <1>2
<1>c. /\ \A x : MapsTo(M, O, x) \in Nat
      /\ \A x \in Nat : Below(R, x) \in Nat
      /\ \A x \in Nat : Below(R, x + 1) = Below(R, x) + Bit(x \in R)
  BY <1>0, Counts
<1>q. /\ \A x \in Q : x \in Nat
      /\ \A x \in Nat : Below(Q, x) = Below(R, x) - Bit(e < x)
  BY <1>1, <1>2, BelowRemoved
<1>4. \A x \in Nat : Below(S, x) = IF l <= x /\ x < d THEN Below(Q, x + 1) ELSE Below(Q, x)
  BY <1>q, <1>3, BelowShiftedLeft
<1>5. /\ \A y \in S : y \in Nat
      /\ \A y \in Nat : y < l - 1 \/ d <= y => (y \in S <=> y \in Q)
      /\ \A y \in Nat : l - 1 <= y /\ y < d - 1 => (y \in S <=> y + 1 \in Q)
      /\ d - 1 \notin S
  BY <1>q, <1>3, ShiftedLeft
<1> HIDE DEF S
<1>s. /\ \A y \in Nat : y < e \/ h < y => (y \in S <=> y \in R)
      /\ \A y \in Nat : e <= y /\ y < h => (y \in S <=> y + 1 \in R)
      /\ h \notin S
  <2>1. ASSUME NEW y \in Nat, y < e \/ h < y PROVE y \in S <=> y \in R
    BY <1>2, <1>5, <2>1
  <2>2. ASSUME NEW y \in Nat, e <= y, y < h PROVE y \in S <=> y + 1 \in R
    BY <1>2, <1>3, <1>5, <2>2
  <2>3. h \notin S
    BY <1>3, <1>5
  <2> QED BY <2>1, <2>2, <2>3
<1>b. /\ \A x \in Nat : x <= e => Below(S, x) = Below(R, x)
      /\ \A x \in Nat : e <= x /\ x <= h => Below(S, x) = Below(R, x + 1) - 1
      /\ \A x \in Nat : h < x => Below(S, x) = Below(R, x) - 1
  <2>1. ASSUME NEW x \in Nat, x <= e PROVE Below(S, x) = Below(R, x)
    <3>1. Below(S, x) = Below(Q, x)
      BY <1>2, <1>4, <2>1
    <3>2. Bit(e < x) = 0 /\ Below(R, x) \in Nat
      BY <1>2, <1>c, <2>1 DEF Bit
    <3> QED BY <1>q, <3>1, <3>2
  <2>2. ASSUME NEW x \in Nat, e < x, x <= h PROVE Below(S, x) = Below(R, x + 1) - 1
    <3>0. l <= x /\ x < d /\ x + 1 \in Nat
      BY <1>2, <2>2
    <3>1. Below(S, x) = Below(Q, x + 1) /\ x + 1 \in Nat
      BY <1>4, <3>0
    <3>2. Bit(e < x + 1) = 1
      BY <1>2, <2>2 DEF Bit
    <3> QED BY <1>q, <3>1, <3>2
  <2>3. Below(S, e) = Below(R, e + 1) - 1
    <3>1. Below(R, e + 1) = Below(R, e) + 1 /\ Below(R, e) \in Nat
      BY <1>2, <1>c DEF Bit
    <3>2. Below(S, e) = Below(R, e)
      BY <1>2, <2>1
    <3> QED BY <3>1, <3>2
  <2>4. ASSUME NEW x \in Nat, h < x PROVE Below(S, x) = Below(R, x) - 1
    <3>0. ~(l <= x /\ x < d)
      BY <1>2, <2>4
    <3>1. Below(S, x) = Below(Q, x)
      BY <1>4, <3>0
    <3>2. Bit(e < x) = 1
      BY <1>2, <2>4 DEF Bit
    <3> QED BY <1>q, <3>1, <3>2
  <2>5. ASSUME NEW x \in Nat, e <= x, x <= h PROVE Below(S, x) = Below(R, x + 1) - 1
    BY <1>2, <2>2, <2>3, <2>5
  <2> QED BY <2>1, <2>4, <2>5
<1>m. \A x : MapsTo(M, P, x) = MapsTo(M, O, x) - Bit(M[i] <= x)
  <2> SUFFICES ASSUME NEW x PROVE MapsTo(M, P, x) = MapsTo(M, O, x) - Bit(M[i] <= x)
    OBVIOUS
  <2>1. (\A o \in O : o \in Parts) /\ i \in O
    BY <1>1, <1>2
  <2>2. MapsTo(M, O \ {i}, x) = MapsTo(M, O, x) - Bit(M[i] <= x)
    BY <2>1, MapsRemoved
  <2> QED BY <2>2
<1>6. \A p \in Nat : e <= p /\ p <= h => p \in U
  BY <1>2 DEF Leftward
<1>7. Within(z, V, P, S)
  <2>1. ASSUME NEW y \in S PROVE y \in V
    <3>1. CASE y < e \/ h < y
      BY <1>0, <1>2, <1>5, <1>s, <3>1 DEF Within
    <3>2. CASE e <= y /\ y < h
      BY <1>2, <1>5, <1>6, <3>2
    <3> QED BY <1>2, <1>5, <1>s, <3>1, <3>2
  <2> QED BY <1>0, <2>1 DEF Within
<1>8. Paired(z, P, S)
  <2>1. Below(S, z) = Below(R, z) - 1
    BY <1>0, <1>2, <1>b
  <2>2. Below(P, TargetSize) = Below(O, TargetSize) - Bit(i < TargetSize)
    BY <1>0, <1>1, <1>2, BelowRemoved
  <2>3. Bit(i < TargetSize) = 1
    BY <1>2 DEF Bit
  <2> QED BY <2>1, <2>2, <2>3 DEF Shape, Paired
<1>9. Closing(V, S)
  <2> SUFFICES ASSUME NEW p \in V, p + 1 \notin V PROVE p \in S
    BY DEF Closing
  <2>1. p \in U /\ p \in Nat /\ p # h
    BY <1>1
  <2>2. CASE p + 1 = h /\ e <= p
    BY <1>2, <1>s, <2>1, <2>2
  <2>3. CASE p + 1 = h /\ p < e
    <3>1. p = e - 1
      BY <1>2, <2>1, <2>3
    <3> QED BY <1>2, <1>s, <2>1, <2>3, <3>1
  <2>4. CASE p + 1 # h
    <3>1. p + 1 \notin U
      BY <2>4
    <3>2. p \in R
      BY <2>1, <3>1 DEF Shape, Closing
    <3>3. ~(e <= p /\ p <= h)
      BY <1>2, <1>6, <2>1, <3>1
    <3> QED BY <1>2, <1>s, <2>1, <3>2, <3>3
  <2> QED BY <1>2, <2>1, <2>2, <2>3, <2>4
<1>10. M[i] <= e /\ M[i] \in Int
  <2>1. MapsTo(M, O, e) > Below(R, e)
    BY <1>2 DEF LevelledTo
  <2>2. e \in Int /\ z \in Int
    BY <1>0, <1>2
  <2>3. M[i] <= e
    BY <2>1, <2>2, RunMapped
  <2>4. M[i] \in 0..(z - 1)
    BY <1>2 DEF Table
  <2> QED BY <2>2, <2>3, <2>4
<1>11. Levelled(z, M, V, P, S)
  <2> SUFFICES ASSUME NEW p \in 0..(z - 1), NEW q \in 0..(z - 1), q \notin V, p <= q
               PROVE  Level(M, V, P, S, p)
    BY DEF Levelled
  <2>1. p \in Nat
    BY <1>0
  <2>2. MapsTo(M, O, p) \in Nat /\ Below(R, p) \in Nat
    BY <1>c, <2>1
  <2>3. CASE p < e
    <3>1. Below(S, p) = Below(R, p) /\ (p \in V <=> p \in U)
      BY <1>2, <1>b, <2>1, <2>3
    <3>2. CASE p \in U
      <4>1. MapsTo(M, O, p) > Below(R, p)
        BY <1>2, <2>1, <2>3, <3>2 DEF LevelledTo
      <4>2. Level(M, U, O, R, p)
        BY <3>2, <4>1 DEF Level
      <4>3. Level(M, U, P, R, p)
        BY <2>1, <2>3, <4>2, LevelWithout
      <4> QED BY <3>1, <3>2, <4>3 DEF Level
    <3>3. CASE p \notin U
      <4>1. p <= p
        BY <2>1
      <4>2. Level(M, U, O, R, p)
        BY <3>3, <4>1 DEF Shape, Levelled
      <4>3. Level(M, U, P, R, p)
        BY <2>1, <2>3, <4>2, LevelWithout
      <4> QED BY <3>1, <3>3, <4>3 DEF Level
    <3> QED BY <3>2, <3>3
  <2>a. ASSUME e <= p PROVE MapsTo(M, P, p) = MapsTo(M, O, p) - 1
    <3>1. Bit(M[i] <= p) = 1
      BY <1>2, <1>10, <2>1, <2>a DEF Bit
    <3> QED BY <1>m, <3>1
  <2>4. CASE e <= p /\ p < h
    <3>1. p \in e..(h - 1)
      BY <1>2, <2>1, <2>4
    <3>2. MapsTo(M, O, p) > Below(R, p + 1)
      BY <1>2, <3>1, LeftwardLevel
    <3>3. Below(S, p) = Below(R, p + 1) - 1 /\ p \in V
      BY <1>2, <1>b, <1>6, <2>1, <2>4
    <3>4. Below(R, p + 1) \in Nat
      BY <1>c, <2>1
    <3> QED BY <2>2, <2>4, <2>a, <3>2, <3>3, <3>4 DEF Level
  <2>5. CASE p = h
    <3>1. Below(S, p) = Below(R, h) /\ p \notin V /\ Below(R, h) \in Nat
      <4>1. Below(R, h + 1) = Below(R, h) + 1 /\ Below(R, h) \in Nat
        BY <1>2, <1>c DEF Bit
      <4>2. Below(S, h) = Below(R, h + 1) - 1
        BY <1>2, <1>b
      <4> QED BY <2>5, <4>1, <4>2
    <3>2. MapsTo(M, O, h) <= Below(R, h) + 1
      BY DEF Leftward
    <3>4. MapsTo(M, O, h) >= Below(R, h) + 1
      <4>1. CASE h = e
        <5>1. MapsTo(M, O, e) > Below(R, e)
          BY <1>2 DEF LevelledTo
        <5> QED BY <2>2, <2>5, <4>1, <5>1
      <4>2. CASE e < h
        <5>1. h - 1 \in e..(h - 1) /\ (h - 1) + 1 = h /\ h - 1 <= h /\ h - 1 \in Int /\ h \in Int
          BY <1>2, <4>2
        <5>2. MapsTo(M, O, h - 1) > Below(R, (h - 1) + 1)
          BY <1>2, <5>1, LeftwardLevel
        <5>3. MapsTo(M, O, h - 1) <= MapsTo(M, O, h)
          BY <1>1, <5>1, MapsMonotone
        <5>4. MapsTo(M, O, h - 1) \in Nat /\ MapsTo(M, O, h) \in Nat
          BY <1>c
        <5> QED BY <3>1, <5>1, <5>2, <5>3, <5>4
      <4> QED BY <1>2, <4>1, <4>2
    <3>5. MapsTo(M, P, p) = MapsTo(M, O, h) - 1
      BY <1>2, <2>5, <2>a
    <3>6. MapsTo(M, O, h) \in Nat
      BY <1>c
    <3> QED BY <3>1, <3>2, <3>4, <3>5, <3>6 DEF Level
  <2>6. CASE h < p
    <3>1. Below(S, p) = Below(R, p) - 1 /\ (p \in V <=> p \in U)
      BY <1>2, <1>b, <2>1, <2>6
    <3>2. q \notin U
      BY <1>0, <1>2, <2>6
    <3>3. Level(M, U, O, R, p)
      BY <3>2 DEF Shape, Levelled
    <3>4. MapsTo(M, P, p) = MapsTo(M, O, p) - 1
      BY <1>2, <2>1, <2>6, <2>a
    <3> QED BY <2>2, <3>1, <3>3, <3>4 DEF Level
  <2> QED BY <1>2, <2>1, <2>3, <2>4, <2>5, <2>6
<1> QED BY <1>7, <1>8, <1>9, <1>11 DEF Shape, S

\* A right shift from L: everything from L on is in use, a run starts at L, the
\* runs before L start no further left than they are mapped, and the one at L does.
Rightward(z, M, U, O, R, L) ==
    /\ L \in Nat
    /\ \A p \in L..(z - 1) : p \in U
    /\ L - 1 \in U => L - 1 \in R
    /\ \A x \in U : x < L => MapsTo(M, O, x) > Below(R, x)
    /\ MapsTo(M, O, L) <= Below(R, L)

\* The slot a right shift empties had the level of an empty slot.
LEMMA RightwardLevel ==
    ASSUME NEW z, NEW M, Table(z, M), NEW U, NEW O, NEW R, Shape(z, M, U, O, R),
           NEW L \in Nat, L < z, Rightward(z, M, U, O, R, L)
    PROVE  MapsTo(M, O, L) = Below(R, L)
<1>0. Within(z, U, O, R) /\ (\A o \in O : o \in Parts) /\ z \in Nat
  BY DEF Shape, Within, Table
<1>c. /\ \A x : MapsTo(M, O, x) \in Nat
      /\ \A x \in Nat : Below(R, x) \in Nat
      /\ \A x \in Nat : Below(R, x + 1) = Below(R, x) + Bit(x \in R)
  BY <1>0, Counts
<1>1. MapsTo(M, O, L) <= Below(R, L) /\ MapsTo(M, O, L) \in Nat /\ Below(R, L) \in Nat
  BY <1>c DEF Rightward
<1>2. CASE L = 0
  <2>1. \A y \in R : y \in Nat
    BY <1>0, WithinNat
  <2>2. Below(R, 0) = 0
    BY <2>1, BelowZero
  <2> QED BY <1>1, <1>2, <2>2
<1>3. CASE L > 0
  <2>1. L - 1 \in Nat /\ (L - 1) + 1 = L /\ L - 1 \in 0..(z - 1) /\ L - 1 <= L /\ L - 1 < L
    BY <1>0, <1>3
  <2>2. MapsTo(M, O, L - 1) <= MapsTo(M, O, L)
    <3>1. L - 1 \in Int /\ L \in Int
      BY <2>1
    <3> QED BY <1>0, <2>1, <3>1, MapsMonotone
  <2>3. Below(R, L) = Below(R, L - 1) + Bit(L - 1 \in R)
    BY <1>c, <2>1
  <2>4. Below(R, L - 1) \in Nat /\ MapsTo(M, O, L - 1) \in Nat
    BY <1>c, <2>1
  <2>5. CASE L - 1 \in U
    <3>1. Bit(L - 1 \in R) = 1
      BY <2>5 DEF Rightward, Bit
    <3>2. MapsTo(M, O, L - 1) > Below(R, L - 1)
      BY <2>1, <2>5 DEF Rightward
    <3> QED BY <1>1, <2>2, <2>3, <2>4, <3>1, <3>2
  <2>6. CASE L - 1 \notin U
    <3>1. Bit(L - 1 \in R) = 0
      BY <1>0, <2>6 DEF Within, Bit
    <3>2. Level(M, U, O, R, L - 1)
      <4>1. L - 1 <= L - 1
        BY <2>1
      <4> QED BY <2>1, <2>6, <4>1 DEF Shape, Levelled
    <3>3. MapsTo(M, O, L - 1) = Below(R, L - 1)
      BY <2>6, <3>2 DEF Level
    <3> QED BY <1>1, <2>2, <2>3, <2>4, <3>1, <3>3
  <2> QED BY <2>5, <2>6
<1> QED BY <1>2, <1>3

\* A right shift into a run that stays: its first slot and the runs from L on.
LEMMA RunShrunkRight ==
    ASSUME NEW z, NEW M, Table(z, M), NEW U, NEW O, NEW R, Shape(z, M, U, O, R),
           NEW i, NEW rs, NEW e, Run(U, O, R, i, rs, e), rs < e,
           NEW L, Rightward(z, M, U, O, R, L), L <= rs
    PROVE  Shape(z, M, U \ {L}, O, ShiftRunendsRight(R, L, rs))
<1> DEFINE V == U \ {L}
           S == ShiftRunendsRight(R, L, rs)
<1>0. /\ z \in Nat /\ TargetSize \in Nat
      /\ Within(z, U, O, R)
  BY DEF Table, Shape
<1>1. /\ \A x \in R : x \in Nat /\ x < z
      /\ \A x \in U : x \in Nat /\ x < z
      /\ \A o \in O : o \in Parts
  BY <1>0, WithinNat DEF Within
<1>2. /\ e \in R /\ e \in U /\ e \in Nat /\ e < z /\ rs \in Nat /\ rs < z
      /\ L \in Nat /\ L < z /\ rs \notin R
  BY <1>0, <1>1 DEF Run, Rightward, Within
<1>c. /\ \A x : MapsTo(M, O, x) \in Nat
      /\ \A x \in Nat : Below(R, x) \in Nat
      /\ \A x \in Nat : Below(R, x + 1) = Below(R, x) + Bit(x \in R)
  BY <1>0, Counts
<1>4. \A x \in Nat : Below(S, x) = IF x <= L THEN Below(R, x)
                                   ELSE IF x <= rs + 1 THEN Below(R, x - 1)
                                   ELSE Below(R, x) - Bit(rs \in R)
  BY <1>1, <1>2, BelowShiftedRight
<1>5. /\ \A y \in S : y \in Nat
      /\ \A y \in Nat : y < L \/ rs < y => (y \in S <=> y \in R)
      /\ \A y \in Nat : L < y /\ y <= rs => (y \in S <=> y - 1 \in R)
      /\ L \notin S
  BY <1>1, <1>2, ShiftedRight
<1> HIDE DEF S
<1>6. \A p \in Nat : L <= p /\ p < z => p \in U
  BY <1>0, <1>2 DEF Rightward
<1>7. Within(z, V, O, S)
  <2>1. ASSUME NEW y \in S PROVE y \in V
    <3>1. CASE y < L \/ rs < y
      BY <1>0, <1>2, <1>5, <3>1 DEF Within
    <3>2. CASE L < y /\ y <= rs
      <4>1. y \in Nat /\ L <= y /\ y < z /\ y # L
        BY <1>0, <1>2, <1>5, <3>2
      <4> QED BY <1>6, <4>1
    <3> QED BY <1>2, <1>5, <3>1, <3>2
  <2> QED BY <1>0, <2>1 DEF Within
<1>8. Paired(z, O, S)
  <2>1. Below(S, z) = Below(R, z)
    <3>0. Below(R, z) \in Nat /\ Bit(rs \in R) = 0
      BY <1>0, <1>2, <1>c DEF Bit
    <3>1. rs + 1 < z
      BY <1>0, <1>2
    <3> QED BY <1>0, <1>2, <1>4, <3>0, <3>1
  <2> QED BY <2>1 DEF Shape, Paired
<1>9. Closing(V, S)
  <2> SUFFICES ASSUME NEW p \in V, p + 1 \notin V PROVE p \in S
    BY DEF Closing
  <2>1. p \in U /\ p \in Nat /\ p # L /\ p < z
    BY <1>1
  <2>2. CASE p + 1 = L
    <3>1. p = L - 1
      BY <1>2, <2>1, <2>2
    <3>2. p \in R
      BY <2>1, <3>1 DEF Rightward
    <3> QED BY <1>2, <1>5, <2>1, <2>2, <3>2
  <2>3. CASE p + 1 # L
    <3>1. p + 1 \notin U
      BY <2>3
    <3>2. p \in R
      BY <2>1, <3>1 DEF Shape, Closing
    <3>3. ~(L <= p /\ p <= rs)
      <4>1. L <= p /\ p <= rs => L <= p + 1 /\ p + 1 < z /\ p + 1 \in Nat
        BY <1>0, <1>2, <2>1
      <4> QED BY <1>6, <3>1, <4>1
    <3> QED BY <1>2, <1>5, <2>1, <3>2, <3>3
  <2> QED BY <2>2, <2>3
<1>10. Levelled(z, M, V, O, S)
  <2> SUFFICES ASSUME NEW p \in 0..(z - 1), NEW q \in 0..(z - 1), q \notin V, p <= q
               PROVE  Level(M, V, O, S, p)
    BY DEF Levelled
  <2>1. p \in Nat /\ q \in Nat /\ q < z
    BY <1>0
  <2>2. q <= L
    BY <1>2, <1>6, <2>1
  <2>3. Below(S, p) = Below(R, p)
    BY <1>2, <1>4, <2>1, <2>2
  <2>4. CASE p = L
    <3>1. MapsTo(M, O, L) = Below(R, L)
      BY <1>2, RightwardLevel
    <3> QED BY <2>3, <2>4, <3>1 DEF Level
  <2>5. CASE p < L /\ p \in U
    <3>1. MapsTo(M, O, p) > Below(R, p)
      BY <2>5 DEF Rightward
    <3> QED BY <2>3, <2>5, <3>1 DEF Level
  <2>6. CASE p < L /\ p \notin U
    <3>1. p <= p
      BY <2>1
    <3>2. Level(M, U, O, R, p)
      BY <2>6, <3>1 DEF Shape, Levelled
    <3> QED BY <2>3, <2>6, <3>2 DEF Level
  <2> QED BY <1>2, <2>1, <2>2, <2>4, <2>5, <2>6
<1> QED BY <1>7, <1>8, <1>9, <1>10 DEF Shape, S

\* A right shift that closes the hole a run of one slot leaves.
LEMMA RunGoneRight ==
    ASSUME NEW z, NEW M, Table(z, M), NEW U, NEW O, NEW R, Shape(z, M, U, O, R),
           NEW i, NEW e, Run(U, O, R, i, e, e),
           NEW L, Rightward(z, M, U, O, R, L), L <= e
    PROVE  Shape(z, M, U \ {L}, O \ {i}, ShiftRunendsRight(R, L, e))
<1> DEFINE V == U \ {L}
           P == O \ {i}
           S == ShiftRunendsRight(R, L, e)
<1>0. /\ z \in Nat /\ TargetSize \in Nat
      /\ Within(z, U, O, R)
  BY DEF Table, Shape
<1>1. /\ \A x \in R : x \in Nat /\ x < z
      /\ \A x \in U : x \in Nat /\ x < z
      /\ \A o \in O : o \in Parts
      /\ \A o \in O : o \in Nat /\ o < TargetSize
  BY <1>0, WithinNat DEF Within
<1>2. /\ e \in R /\ e \in U /\ e \in Nat /\ e < z
      /\ L \in Nat /\ L < z
      /\ i \in O /\ i \in Parts /\ i \in Nat /\ i < TargetSize
      /\ Below(R, e) = Below(O, i)
  BY <1>0, <1>1 DEF Run, Rightward, Within
<1>c. /\ \A x : MapsTo(M, O, x) \in Nat
      /\ \A x \in Nat : Below(R, x) \in Nat
      /\ \A x \in Nat : Below(R, x + 1) = Below(R, x) + Bit(x \in R)
      /\ \A x, y \in Nat : x <= y => Below(R, x) <= Below(R, y)
  BY <1>0, Counts
<1>4. \A x \in Nat : Below(S, x) = IF x <= L THEN Below(R, x)
                                   ELSE IF x <= e + 1 THEN Below(R, x - 1)
                                   ELSE Below(R, x) - Bit(e \in R)
  <2>1. (\A x \in R : x \in Nat) /\ e \in Nat /\ L \in Nat
    BY <1>1, <1>2
  <2> QED BY <2>1, BelowShiftedRight
<1>5. /\ \A y \in S : y \in Nat
      /\ \A y \in Nat : y < L \/ e < y => (y \in S <=> y \in R)
      /\ \A y \in Nat : L < y /\ y <= e => (y \in S <=> y - 1 \in R)
      /\ L \notin S
  BY <1>1, <1>2, ShiftedRight
<1> HIDE DEF S
<1>6. \A p \in Nat : L <= p /\ p < z => p \in U
  BY <1>0, <1>2 DEF Rightward
<1>7. Within(z, V, P, S)
  <2>1. ASSUME NEW y \in S PROVE y \in V
    <3>1. CASE y < L \/ e < y
      BY <1>0, <1>2, <1>5, <3>1 DEF Within
    <3>2. CASE L < y /\ y <= e
      <4>1. y \in Nat /\ L <= y /\ y < z /\ y # L
        BY <1>0, <1>2, <1>5, <3>2
      <4> QED BY <1>6, <4>1
    <3> QED BY <1>2, <1>5, <3>1, <3>2
  <2> QED BY <1>0, <2>1 DEF Within
<1>8. Paired(z, P, S)
  <2>1. Below(S, z) = Below(R, z) - 1
    <3>0. Bit(e \in R) = 1
      BY <1>2 DEF Bit
    <3>1. CASE e + 1 < z
      BY <1>0, <1>2, <1>4, <3>0, <3>1
    <3>2. CASE e + 1 = z
      <4>1. Below(R, e + 1) = Below(R, e) + 1 /\ Below(R, e) \in Nat
        BY <1>2, <1>c, <3>0
      <4>2. Below(S, e + 1) = Below(R, (e + 1) - 1) /\ (e + 1) - 1 = e
        BY <1>2, <1>4
      <4> QED BY <3>2, <4>1, <4>2
    <3> QED BY <1>0, <1>2, <3>1, <3>2
  <2>2. Below(P, TargetSize) = Below(O, TargetSize) - Bit(i < TargetSize)
    BY <1>0, <1>1, <1>2, BelowRemoved
  <2>3. Bit(i < TargetSize) = 1
    BY <1>2 DEF Bit
  <2> QED BY <2>1, <2>2, <2>3 DEF Shape, Paired
<1>9. Closing(V, S)
  <2> SUFFICES ASSUME NEW p \in V, p + 1 \notin V PROVE p \in S
    BY DEF Closing
  <2>1. p \in U /\ p \in Nat /\ p # L /\ p < z
    BY <1>1
  <2>2. CASE p + 1 = L
    <3>1. p = L - 1
      BY <1>2, <2>1, <2>2
    <3>2. p \in R
      BY <2>1, <3>1 DEF Rightward
    <3> QED BY <1>2, <1>5, <2>1, <2>2, <3>2
  <2>3. CASE p + 1 # L
    <3>1. p + 1 \notin U
      BY <2>3
    <3>2. p \in R
      BY <2>1, <3>1 DEF Shape, Closing
    <3>3. p + 1 = z \/ p < L
      BY <1>0, <1>2, <1>6, <2>1, <3>1
    <3>4. CASE p < L \/ e < p
      BY <1>2, <1>5, <2>1, <3>2, <3>4
    <3>5. CASE p = e /\ L < e
      <4>1. e - 1 \in Nat /\ L <= e - 1 /\ e - 1 < z
        BY <1>0, <1>2, <3>5
      <4>2. e - 1 \in R
        BY <1>6, <4>1 DEF Run
      <4> QED BY <1>2, <1>5, <3>5, <4>2
    <3> QED BY <1>0, <1>2, <2>1, <3>3, <3>4, <3>5
  <2> QED BY <2>2, <2>3
<1>10. Levelled(z, M, V, P, S)
  <2> SUFFICES ASSUME NEW p \in 0..(z - 1), NEW q \in 0..(z - 1), q \notin V, p <= q
               PROVE  Level(M, V, P, S, p)
    BY DEF Levelled
  <2>1. p \in Nat /\ q \in Nat /\ q < z
    BY <1>0
  <2>2. q <= L
    BY <1>2, <1>6, <2>1
  <2>3. Below(S, p) = Below(R, p)
    BY <1>2, <1>4, <2>1, <2>2
  <2>4. CASE p = L
    <3>1. MapsTo(M, O, L) = Below(R, L)
      BY <1>2, RightwardLevel
    <3>2. ~(M[i] <= L)
      <4> SUFFICES ASSUME M[i] <= L PROVE FALSE
        OBVIOUS
      <4>0. L \in Int
        BY <1>2
      <4>1. Below(O, i) + 1 <= MapsTo(M, O, L)
        BY <1>1, <1>2, <4>0, MapsAtLeast
      <4>2. Below(R, L) <= Below(R, e)
        BY <1>2, <1>c
      <4>3. Below(R, L) \in Nat /\ Below(R, e) \in Nat
        BY <1>2, <1>c
      <4> QED BY <1>2, <3>1, <4>1, <4>2, <4>3
    <3>3. MapsTo(M, P, L) = MapsTo(M, O, L) - Bit(M[i] <= L)
      <4>1. (\A o \in O : o \in Parts) /\ i \in O
        BY <1>1, <1>2
      <4>2. MapsTo(M, O \ {i}, L) = MapsTo(M, O, L) - Bit(M[i] <= L)
        BY <4>1, MapsRemoved
      <4> QED BY <4>2
    <3>4. Bit(M[i] <= L) = 0 /\ MapsTo(M, O, L) \in Nat
      BY <1>c, <3>2 DEF Bit
    <3> QED BY <2>3, <2>4, <3>1, <3>3, <3>4 DEF Level
  <2>5. CASE p < L
    <3>1. Level(M, U, O, R, p)
      <4>1. CASE p \in U
        BY <2>5, <4>1 DEF Rightward, Level
      <4>2. CASE p \notin U
        <5>1. p <= p
          BY <2>1
        <5> QED BY <4>2, <5>1 DEF Shape, Levelled
      <4> QED BY <4>1, <4>2
    <3>2. p < e
      BY <1>2, <2>1, <2>5
    <3>3. Level(M, U, P, R, p)
      BY <2>1, <3>1, <3>2, LevelWithout
    <3>4. p \in V <=> p \in U
      BY <2>5, <1>2, <2>1
    <3> QED BY <2>3, <3>3, <3>4 DEF Level
  <2> QED BY <1>2, <2>1, <2>2, <2>4, <2>5
<1> QED BY <1>7, <1>8, <1>9, <1>10 DEF Shape, S

-----------------------------------------------------------------------------
(* Writing out a list.                                                       *)

\* The mapped slots m of a list, pushed right where the infixes before need it.
Pushed(m, j) == Max({m[i] + (j - i) : i \in 1..j})

\* The lesser of two.
LEMMA MinTwo ==
    ASSUME NEW a \in Int, NEW b \in Int
    PROVE  Min({a, b}) = IF a <= b THEN a ELSE b
<1>1. CASE a <= b
  <2>1. \E x \in {a, b} : \A y \in {a, b} : x <= y
    BY <1>1
  <2> QED BY <1>1, <2>1 DEF Min
<1>2. CASE ~(a <= b)
  <2>1. \E x \in {a, b} : \A y \in {a, b} : x <= y
    BY <1>2
  <2> QED BY <1>2, <2>1 DEF Min
<1> QED BY <1>1, <1>2

\* Pushed is the greatest of what its predecessors demand, and one of them.
LEMMA PushedIs ==
    ASSUME NEW n \in Nat, NEW z \in Nat, NEW m, \A j \in 1..n : m[j] \in 0..(z - 1),
           NEW j \in 1..n
    PROVE  /\ Pushed(m, j) \in Nat
           /\ \E i \in 1..j : Pushed(m, j) = m[i] + (j - i)
           /\ \A i \in 1..j : m[i] + (j - i) <= Pushed(m, j)
<1> DEFINE S == {m[i] + (j - i) : i \in 1..j}
<1>1. \A y \in S : y \in 0..(z + n)
  OBVIOUS
<1>2. m[j] + (j - j) \in S
  OBVIOUS
<1>3. Max(S) \in S /\ \A y \in S : y <= Max(S)
  <2> HIDE DEF S
  <2>1. 0 \in Int /\ z + n \in Int /\ S # {}
    BY <1>2
  <2> QED BY <1>1, <2>1, MaxOf
<1>4. Pushed(m, j) = Max(S)
  BY DEF Pushed
<1>5. \A i \in 1..j : m[i] + (j - i) \in S
  OBVIOUS
<1>6. Pushed(m, j) \in S /\ \A y \in S : y <= Pushed(m, j)
  BY <1>3, <1>4
<1>7. Pushed(m, j) \in Nat
  <2> HIDE DEF S
  <2> QED BY <1>1, <1>6
<1>8. \E i \in 1..j : Pushed(m, j) = m[i] + (j - i)
  BY <1>6
<1>9. \A i \in 1..j : m[i] + (j - i) <= Pushed(m, j)
  <2> HIDE DEF S
  <2> QED BY <1>5, <1>6
<1> QED BY <1>7, <1>8, <1>9

\* Each infix follows the one before it, or sits at its mapped slot.
LEMMA PushedStep ==
    ASSUME NEW n \in Nat, NEW z \in Nat, NEW m, \A j \in 1..n : m[j] \in 0..(z - 1),
           NEW j \in 1..n
    PROVE  /\ m[j] <= Pushed(m, j)
           /\ j = 1 => Pushed(m, j) = m[j]
           /\ j > 1 => /\ Pushed(m, j - 1) + 1 <= Pushed(m, j)
                       /\ Pushed(m, j) \in {Pushed(m, j - 1) + 1, m[j]}
<1>1. /\ Pushed(m, j) \in Nat
      /\ \A i \in 1..j : m[i] + (j - i) <= Pushed(m, j)
      /\ \E i \in 1..j : Pushed(m, j) = m[i] + (j - i)
  BY PushedIs
<1>2. PICK i \in 1..j : Pushed(m, j) = m[i] + (j - i)
  BY <1>1
<1>3. m[j] <= Pushed(m, j) /\ m[j] \in Nat /\ m[i] \in Nat
  <2>1. m[j] + (j - j) <= Pushed(m, j)
    BY <1>1
  <2>2. m[j] \in Nat /\ m[i] \in Nat
    OBVIOUS
  <2> QED BY <2>1, <2>2
<1>4. ASSUME j = 1 PROVE Pushed(m, j) = m[j]
  <2>1. i = j
    BY <1>4
  <2> QED BY <1>2, <1>3, <2>1
<1>5. ASSUME j > 1
      PROVE  /\ Pushed(m, j - 1) + 1 <= Pushed(m, j)
             /\ Pushed(m, j) \in {Pushed(m, j - 1) + 1, m[j]}
  <2>1. j - 1 \in 1..n
    BY <1>5
  <2>2. /\ Pushed(m, j - 1) \in Nat
        /\ \A k \in 1..(j - 1) : m[k] + ((j - 1) - k) <= Pushed(m, j - 1)
        /\ \E k \in 1..(j - 1) : Pushed(m, j - 1) = m[k] + ((j - 1) - k)
    BY <2>1, PushedIs
  <2>3. PICK k \in 1..(j - 1) : Pushed(m, j - 1) = m[k] + ((j - 1) - k)
    BY <2>2
  <2>4. Pushed(m, j - 1) + 1 <= Pushed(m, j)
    <3>1. m[k] + (j - k) <= Pushed(m, j)
      BY <1>1
    <3>2. m[k] \in Nat /\ k \in Nat
      OBVIOUS
    <3> QED BY <1>1, <2>2, <2>3, <3>1, <3>2
  <2>5. CASE i = j
    BY <1>2, <1>3, <2>4, <2>5
  <2>6. CASE i # j
    <3>1. i \in 1..(j - 1)
      BY <2>6
    <3>2. m[i] + ((j - 1) - i) <= Pushed(m, j - 1)
      BY <2>2, <3>1
    <3>3. i \in Nat /\ j \in Nat
      OBVIOUS
    <3> QED BY <1>1, <1>2, <1>3, <2>2, <2>4, <3>2, <3>3
  <2> QED BY <2>4, <2>5, <2>6
<1> QED BY <1>3, <1>4, <1>5

-----------------------------------------------------------------------------
\* P lays the n infixes with mapped slots m out over z slots.
LaidOut(z, n, m, P) ==
    /\ n \in Nat /\ z \in Nat /\ n <= z
    /\ \A j \in 1..n : m[j] \in 0..(z - 1)
    /\ \A j \in 1..n : P[j] = Min({Pushed(m, j), z - 1 - (n - j)})

\* The least facts about a layout from which everything else follows.
LEMMA LayoutSteps ==
    ASSUME NEW z, NEW n, NEW m, NEW P, LaidOut(z, n, m, P), NEW j \in 1..n
    PROVE  /\ P[j] \in 0..(z - 1) /\ P[j] <= z - 1 - (n - j)
           /\ P[j] = z - 1 - (n - j) \/ m[j] <= P[j]
           /\ j = 1 => P[j] <= m[j]
           /\ j > 1 => /\ P[j - 1] + 1 <= P[j]
                       /\ m[j - 1] = m[j] => P[j] = P[j - 1] + 1
                       /\ \/ P[j - 1] = z - 1 - (n - (j - 1))
                          \/ P[j] = P[j - 1] + 1
                          \/ P[j] <= m[j]
<1>1. n \in Nat /\ z \in Nat /\ n <= z /\ (\A k \in 1..n : m[k] \in 0..(z - 1))
  BY DEF LaidOut
<1>2. /\ Pushed(m, j) \in Nat
      /\ m[j] <= Pushed(m, j)
      /\ j = 1 => Pushed(m, j) = m[j]
      /\ m[j] \in Nat
  BY <1>1, PushedIs, PushedStep
<1>3. z - 1 - (n - j) \in Nat /\ z - 1 - (n - j) <= z - 1
  BY <1>1
<1>4. P[j] = IF Pushed(m, j) <= z - 1 - (n - j) THEN Pushed(m, j) ELSE z - 1 - (n - j)
  <2>1. P[j] = Min({Pushed(m, j), z - 1 - (n - j)})
    BY DEF LaidOut
  <2>2. Pushed(m, j) \in Int /\ z - 1 - (n - j) \in Int
    BY <1>2, <1>3
  <2> QED BY <2>1, <2>2, MinTwo
<1>5. ASSUME j > 1
      PROVE  /\ P[j - 1] + 1 <= P[j]
             /\ m[j - 1] = m[j] => P[j] = P[j - 1] + 1
             /\ \/ P[j - 1] = z - 1 - (n - (j - 1))
                \/ P[j] = P[j - 1] + 1
                \/ P[j] <= m[j]
  <2>1. j - 1 \in 1..n
    BY <1>1, <1>5
  <2>2. Pushed(m, j - 1) \in Nat /\ m[j - 1] <= Pushed(m, j - 1) /\ m[j - 1] \in Nat
    BY <1>1, <2>1, PushedIs, PushedStep
  <2>3. /\ Pushed(m, j - 1) + 1 <= Pushed(m, j)
        /\ Pushed(m, j) \in {Pushed(m, j - 1) + 1, m[j]}
    BY <1>1, <1>5, PushedStep
  <2>4. P[j - 1] = IF Pushed(m, j - 1) <= z - 1 - (n - (j - 1)) THEN Pushed(m, j - 1)
                   ELSE z - 1 - (n - (j - 1))
    <3>1. P[j - 1] = Min({Pushed(m, j - 1), z - 1 - (n - (j - 1))})
      BY <2>1 DEF LaidOut
    <3>2. Pushed(m, j - 1) \in Int /\ z - 1 - (n - (j - 1)) \in Int
      BY <1>1, <2>2
    <3> QED BY <3>1, <3>2, MinTwo
  <2>5. z - 1 - (n - j) = (z - 1 - (n - (j - 1))) + 1 /\ z - 1 - (n - (j - 1)) \in Int
    BY <1>1
  <2> HIDE DEF LaidOut
  <2> QED BY <1>2, <1>3, <1>4, <2>2, <2>3, <2>4, <2>5
<1>6. P[j] \in 0..(z - 1) /\ P[j] <= z - 1 - (n - j)
  BY <1>1, <1>2, <1>3, <1>4
<1>7. P[j] = z - 1 - (n - j) \/ m[j] <= P[j]
  BY <1>2, <1>4
<1>8. j = 1 => P[j] <= m[j]
  BY <1>2, <1>3, <1>4
<1> QED BY <1>5, <1>6, <1>7, <1>8

\* The places ascend.
LEMMA PlacesAscend ==
    ASSUME NEW z, NEW n, NEW m, NEW P, LaidOut(z, n, m, P), NEW j \in 1..n
    PROVE  \A k \in 1..n : j <= k => P[j] + (k - j) <= P[k]
<1>1. n \in Nat /\ z \in Nat
  BY DEF LaidOut
<1>p. \A k \in 1..n : P[k] \in 0..(z - 1)
  BY LayoutSteps
<1> DEFINE S == {d \in Nat : j + d \in 1..n => P[j] + d <= P[j + d]}
<1>2. 0 \in S
  BY <1>1, <1>p
<1>3. ASSUME NEW d \in S PROVE d + 1 \in S
  <2> SUFFICES ASSUME j + (d + 1) \in 1..n PROVE P[j] + (d + 1) <= P[j + (d + 1)]
    OBVIOUS
  <2>1. j + d \in 1..n /\ (j + (d + 1)) - 1 = j + d /\ j + (d + 1) > 1 /\ d \in Nat
    BY <1>1
  <2>2. P[j] + d <= P[j + d]
    BY <2>1
  <2>3. P[j + d] + 1 <= P[j + (d + 1)]
    <3>1. P[(j + (d + 1)) - 1] + 1 <= P[j + (d + 1)]
      BY <2>1, LayoutSteps
    <3> QED BY <2>1, <3>1
  <2>4. P[j] \in Int /\ P[j + d] \in Int /\ P[j + (d + 1)] \in Int
    BY <1>1, <1>p, <2>1
  <2> QED BY <2>1, <2>2, <2>3, <2>4
<1>4. S = Nat
  <2> HIDE DEF S
  <2>1. S \in SUBSET Nat
    BY DEF S
  <2> QED BY <1>2, <1>3, <2>1, Induction
<1>5. ASSUME NEW k \in 1..n, j <= k PROVE P[j] + (k - j) <= P[k]
  <2>1. k - j \in Nat /\ j + (k - j) = k
    BY <1>1, <1>5
  <2> QED BY <1>4, <2>1
<1> QED BY <1>5

\* The used slots, occupied parts and run ends a list of n infixes with the
\* implicit parts imp leaves when it is written out along P.
Loaded(z, M, n, imp, P, U, O, R) ==
    /\ LaidOut(z, n, [j \in 1..n |-> M[imp[j]]], P)
    /\ \A j \in 1..n : imp[j] \in Parts
    /\ \A j, k \in 1..n : j <= k => imp[j] <= imp[k]
    /\ U = {P[j] : j \in 1..n}
    /\ O = {imp[j] : j \in 1..n}
    /\ R = {P[j] : j \in {k \in 1..n : k = n \/ imp[k + 1] # imp[k]}}

\* One infix after another.
LEMMA LoadedSteps ==
    ASSUME NEW z, NEW M, Table(z, M), NEW n, NEW imp, NEW P, NEW U, NEW O, NEW R,
           Loaded(z, M, n, imp, P, U, O, R)
    PROVE  /\ n \in Nat /\ z \in Nat /\ n <= z
           /\ \A j \in 1..n : /\ imp[j] \in Nat /\ imp[j] \in O /\ P[j] \in U
                              /\ P[j] \in 0..(z - 1) /\ M[imp[j]] \in 0..(z - 1)
                              /\ P[j] \in R <=> (j = n \/ imp[j + 1] # imp[j])
           /\ \A x \in U : \E j \in 1..n : x = P[j]
           /\ \A x \in R : \E j \in 1..n : x = P[j]
           /\ \A o \in O : \E j \in 1..n : o = imp[j]
           /\ \A j, k \in 1..n : j < k => P[j] < P[k]
<1> DEFINE m == [j \in 1..n |-> M[imp[j]]]
<1>1. LaidOut(z, n, m, P)
  BY DEF Loaded
<1>2. n \in Nat /\ z \in Nat /\ n <= z
  BY <1>1 DEF LaidOut
<1>3. \A j \in 1..n : P[j] \in 0..(z - 1)
  BY <1>1, LayoutSteps
<1>4. \A j, k \in 1..n : j < k => P[j] < P[k]
  <2> SUFFICES ASSUME NEW j \in 1..n, NEW k \in 1..n, j < k PROVE P[j] < P[k]
    OBVIOUS
  <2>1. P[j] + (k - j) <= P[k]
    <3> HIDE DEF m
    <3> QED BY <1>1, <1>2, PlacesAscend
  <2>2. P[j] \in Int /\ P[k] \in Int
    BY <1>2, <1>3
  <2> QED BY <1>2, <2>1, <2>2
<1>5. \A j \in 1..n : imp[j] \in Nat /\ imp[j] \in O /\ P[j] \in U /\ imp[j] \in Parts
  BY DEF Loaded, Parts, Table
<1>6. \A j \in 1..n : M[imp[j]] \in 0..(z - 1)
  BY <1>5 DEF Table
<1>7. /\ \A x \in U : \E j \in 1..n : x = P[j]
      /\ \A x \in R : \E j \in 1..n : x = P[j]
      /\ \A o \in O : \E j \in 1..n : o = imp[j]
  BY DEF Loaded
<1>8. \A j \in 1..n : P[j] \in R <=> (j = n \/ imp[j + 1] # imp[j])
  <2> SUFFICES ASSUME NEW j \in 1..n PROVE P[j] \in R <=> (j = n \/ imp[j + 1] # imp[j])
    OBVIOUS
  <2>1. ASSUME j = n \/ imp[j + 1] # imp[j] PROVE P[j] \in R
    BY <2>1 DEF Loaded
  <2>2. ASSUME P[j] \in R PROVE j = n \/ imp[j + 1] # imp[j]
    <3>1. PICK k \in 1..n : P[j] = P[k] /\ (k = n \/ imp[k + 1] # imp[k])
      BY <2>2 DEF Loaded
    <3>2. k = j
      <4>1. ~(k < j) /\ ~(j < k)
        <5>1. P[j] \in Int /\ P[k] \in Int
          BY <1>2, <1>3
        <5> QED BY <1>4, <3>1, <5>1
      <4> QED BY <1>2, <4>1
    <3> QED BY <3>1, <3>2
  <2> QED BY <2>1, <2>2
<1> QED BY <1>2, <1>3, <1>4, <1>5, <1>6, <1>7, <1>8

\* Consecutive infixes: in one run, next to each other, or in two.
LEMMA LoadedNext ==
    ASSUME NEW z, NEW M, Table(z, M), NEW n, NEW imp, NEW P, NEW U, NEW O, NEW R,
           Loaded(z, M, n, imp, P, U, O, R),
           NEW j \in 1..n, j + 1 \in 1..n
    PROVE  /\ P[j] + 1 <= P[j + 1]
           /\ imp[j + 1] = imp[j] => P[j + 1] = P[j] + 1
           /\ Below(R, P[j + 1]) = Below(R, P[j]) + Bit(imp[j + 1] # imp[j])
           /\ Below(O, imp[j + 1]) = Below(O, imp[j]) + Bit(imp[j + 1] # imp[j])
<1> DEFINE m == [k \in 1..n |-> M[imp[k]]]
<1>s. /\ n \in Nat /\ z \in Nat /\ n <= z
      /\ \A k \in 1..n : /\ imp[k] \in Nat /\ imp[k] \in O /\ P[k] \in U
                         /\ P[k] \in 0..(z - 1) /\ M[imp[k]] \in 0..(z - 1)
                         /\ P[k] \in R <=> (k = n \/ imp[k + 1] # imp[k])
      /\ \A x \in R : \E k \in 1..n : x = P[k]
      /\ \A o \in O : \E k \in 1..n : o = imp[k]
      /\ \A k, l \in 1..n : k < l => P[k] < P[l]
  BY LoadedSteps
<1>0. LaidOut(z, n, m, P) /\ (\A k, l \in 1..n : k <= l => imp[k] <= imp[l])
  BY DEF Loaded
<1>1. /\ P[j] + 1 <= P[j + 1]
      /\ imp[j + 1] = imp[j] => P[j + 1] = P[j] + 1
  <2>1. (j + 1) - 1 = j /\ j + 1 > 1
    BY <1>s
  <2>2. m[j] = M[imp[j]] /\ m[j + 1] = M[imp[j + 1]]
    OBVIOUS
  <2> HIDE DEF m
  <2>3. P[(j + 1) - 1] + 1 <= P[j + 1] /\ (m[(j + 1) - 1] = m[j + 1] => P[j + 1] = P[(j + 1) - 1] + 1)
    BY <1>0, <2>1, LayoutSteps
  <2> QED BY <2>1, <2>2, <2>3
<1>2. /\ \A x \in R : x \in Nat
      /\ \A o \in O : o \in Nat
  BY <1>s
<1>3. P[j] \in Nat /\ P[j + 1] \in Nat /\ imp[j] \in Nat /\ imp[j + 1] \in Nat
  BY <1>s
<1>4. Below(R, P[j + 1]) = Below(R, P[j] + 1)
  <2>1. \A x \in R : ~(P[j] + 1 <= x /\ x < P[j + 1])
    <3> SUFFICES ASSUME NEW k \in 1..n, P[j] + 1 <= P[k], P[k] < P[j + 1] PROVE FALSE
      BY <1>s
    <3>1. k \in Int /\ P[k] \in Int
      BY <1>s
    <3>2. ~(k <= j)
      <4>1. k < j => P[k] < P[j]
        BY <1>s
      <4>2. j \in Int
        OBVIOUS
      <4>3. k # j
        BY <1>3, <3>1
      <4>4. ~(k < j)
        BY <1>3, <3>1, <4>1
      <4> QED BY <3>1, <4>2, <4>3, <4>4
    <3>3. ~(j + 1 <= k)
      <4>1. j + 1 < k => P[j + 1] < P[k]
        BY <1>s
      <4> QED BY <1>3, <1>s, <3>1, <4>1
    <3> QED BY <1>s, <3>1, <3>2, <3>3
  <2> QED BY <1>1, <1>2, <1>3, <2>1, BelowGap
<1>5. Below(R, P[j] + 1) = Below(R, P[j]) + Bit(P[j] \in R)
  BY <1>2, <1>3, BelowStep
<1>6. Bit(P[j] \in R) = Bit(imp[j + 1] # imp[j])
  <2>1. j # n
    BY <1>s
  <2>2. P[j] \in R <=> imp[j + 1] # imp[j]
    BY <1>s, <2>1
  <2> QED BY <2>2 DEF Bit
<1>7. Below(O, imp[j + 1]) = Below(O, imp[j]) + Bit(imp[j + 1] # imp[j])
  <2>1. CASE imp[j + 1] = imp[j]
    <3>1. Below(O, imp[j]) \in Nat
      BY <1>2, <1>3, BelowFinite
    <3> QED BY <2>1, <3>1 DEF Bit
  <2>2. CASE imp[j + 1] # imp[j]
    <3>1. imp[j] + 1 <= imp[j + 1]
      <4>1. j <= j + 1
        BY <1>s
      <4>2. imp[j] <= imp[j + 1]
        BY <1>0, <4>1
      <4> QED BY <1>3, <2>2, <4>2
    <3>2. \A o \in O : ~(imp[j] + 1 <= o /\ o < imp[j + 1])
      <4> SUFFICES ASSUME NEW k \in 1..n, imp[j] + 1 <= imp[k], imp[k] < imp[j + 1] PROVE FALSE
        BY <1>s
      <4>1. k \in Int /\ imp[k] \in Int
        BY <1>s
      <4>2. ~(k <= j)
        BY <1>0, <1>3, <4>1
      <4>3. ~(j + 1 <= k)
        BY <1>0, <1>3, <4>1
      <4> QED BY <1>s, <4>1, <4>2, <4>3
    <3>3. Below(O, imp[j] + 1) = Below(O, imp[j + 1])
      BY <1>2, <1>3, <3>1, <3>2, BelowGap
    <3>4. Below(O, imp[j] + 1) = Below(O, imp[j]) + Bit(imp[j] \in O)
      BY <1>2, <1>3, BelowStep
    <3> QED BY <1>s, <2>2, <3>3, <3>4 DEF Bit
  <2> QED BY <2>1, <2>2
<1> QED BY <1>1, <1>4, <1>5, <1>6, <1>7

\* An infix lies in the run of its part.
LEMMA LoadedRank ==
    ASSUME NEW z, NEW M, Table(z, M), NEW n, NEW imp, NEW P, NEW U, NEW O, NEW R,
           Loaded(z, M, n, imp, P, U, O, R)
    PROVE  \A j \in 1..n : Below(R, P[j]) = Below(O, imp[j])
<1>s. /\ n \in Nat /\ z \in Nat
      /\ \A k \in 1..n : imp[k] \in Nat /\ P[k] \in 0..(z - 1)
      /\ \A x \in R : \E k \in 1..n : x = P[k]
      /\ \A o \in O : \E k \in 1..n : o = imp[k]
      /\ \A k, l \in 1..n : k < l => P[k] < P[l]
  BY LoadedSteps
<1>2. /\ \A x \in R : x \in Nat
      /\ \A o \in O : o \in Nat
  BY <1>s
<1>0. \A k, l \in 1..n : k <= l => imp[k] <= imp[l]
  BY DEF Loaded
<1> DEFINE S == {d \in Nat : d + 1 \in 1..n => Below(R, P[d + 1]) = Below(O, imp[d + 1])}
<1>3. 0 \in S
  <2> SUFFICES ASSUME 0 + 1 \in 1..n PROVE Below(R, P[0 + 1]) = Below(O, imp[0 + 1])
    OBVIOUS
  <2>0. 1 \in 1..n /\ 0 + 1 = 1
    BY <1>s
  <2>1. P[1] \in Nat /\ imp[1] \in Nat /\ 0 <= P[1] /\ 0 <= imp[1]
    BY <1>s, <2>0
  <2>2. \A x \in R : ~(0 <= x /\ x < P[1])
    <3> SUFFICES ASSUME NEW k \in 1..n, P[k] < P[1] PROVE FALSE
      BY <1>s
    <3>1. k = 1 \/ 1 < k
      BY <1>s
    <3>2. P[k] \in Int
      BY <1>s
    <3> QED BY <1>s, <2>0, <2>1, <3>1, <3>2
  <2>3. \A o \in O : ~(0 <= o /\ o < imp[1])
    <3> SUFFICES ASSUME NEW k \in 1..n, imp[k] < imp[1] PROVE FALSE
      BY <1>s
    <3>1. 1 <= k /\ imp[k] \in Int
      BY <1>s
    <3>2. imp[1] <= imp[k]
      BY <1>0, <2>0, <3>1
    <3> QED BY <2>1, <3>1, <3>2
  <2>4. Below(R, 0) = Below(R, P[1]) /\ Below(R, 0) = 0
    BY <1>2, <2>1, <2>2, BelowGap, BelowZero
  <2>5. Below(O, 0) = Below(O, imp[1]) /\ Below(O, 0) = 0
    BY <1>2, <2>1, <2>3, BelowGap, BelowZero
  <2> QED BY <2>0, <2>4, <2>5
<1>4. ASSUME NEW d \in S PROVE d + 1 \in S
  <2> SUFFICES ASSUME (d + 1) + 1 \in 1..n
               PROVE  Below(R, P[(d + 1) + 1]) = Below(O, imp[(d + 1) + 1])
    OBVIOUS
  <2>1. d \in Nat /\ d + 1 \in 1..n
    BY <1>s
  <2>2. Below(R, P[d + 1]) = Below(O, imp[d + 1])
    BY <2>1
  <2> HIDE DEF S
  <2>3. /\ Below(R, P[(d + 1) + 1]) = Below(R, P[d + 1]) + Bit(imp[(d + 1) + 1] # imp[d + 1])
        /\ Below(O, imp[(d + 1) + 1]) = Below(O, imp[d + 1]) + Bit(imp[(d + 1) + 1] # imp[d + 1])
    BY <2>1, LoadedNext
  <2> QED BY <2>2, <2>3
<1>5. S = Nat
  <2> HIDE DEF S
  <2>1. S \in SUBSET Nat
    BY DEF S
  <2> QED BY <1>3, <1>4, <2>1, Induction
<1>6. ASSUME NEW j \in 1..n PROVE Below(R, P[j]) = Below(O, imp[j])
  <2>1. j - 1 \in Nat /\ (j - 1) + 1 = j
    BY <1>s
  <2>2. j - 1 \in S
    BY <1>5, <2>1
  <2> QED BY <2>1, <2>2
<1> QED BY <1>6

\* A list is written out to the shape of a store.
LEMMA LoadedShape ==
    ASSUME NEW z, NEW M, Table(z, M), NEW n, NEW imp, NEW P, NEW U, NEW O, NEW R,
           Loaded(z, M, n, imp, P, U, O, R)
    PROVE  Shape(z, M, U, O, R)
<1> DEFINE m == [j \in 1..n |-> M[imp[j]]]
<1>s. /\ n \in Nat /\ z \in Nat /\ n <= z
      /\ \A j \in 1..n : /\ imp[j] \in Nat /\ imp[j] \in O /\ P[j] \in U
                         /\ P[j] \in 0..(z - 1) /\ M[imp[j]] \in 0..(z - 1)
                         /\ P[j] \in R <=> (j = n \/ imp[j + 1] # imp[j])
      /\ \A x \in U : \E j \in 1..n : x = P[j]
      /\ \A x \in R : \E j \in 1..n : x = P[j]
      /\ \A o \in O : \E j \in 1..n : o = imp[j]
      /\ \A j, k \in 1..n : j < k => P[j] < P[k]
  BY LoadedSteps
<1>0. /\ LaidOut(z, n, m, P)
      /\ \A j, k \in 1..n : j <= k => imp[j] <= imp[k]
      /\ \A j \in 1..n : imp[j] \in Parts
  BY DEF Loaded
<1>m. \A j \in 1..n : m[j] = M[imp[j]]
  OBVIOUS
<1>r. \A j \in 1..n : Below(R, P[j]) = Below(O, imp[j])
  BY LoadedRank
<1> HIDE DEF m
<1>1. Within(z, U, O, R)
  BY <1>s, <1>0 DEF Within
<1>2. /\ \A x \in R : x \in Nat
      /\ \A o \in O : o \in Nat
      /\ \A o \in O : o \in Parts
      /\ TargetSize \in Nat
  BY <1>s, <1>1, WithinNat DEF Within, Table
<1>c. /\ \A x : MapsTo(M, O, x) \in Nat
      /\ \A x \in Nat : Below(R, x) \in Nat
      /\ \A x \in Nat : Below(R, x + 1) = Below(R, x) + Bit(x \in R)
      /\ \A x, y \in Nat : x <= y => Below(R, x) <= Below(R, y)
  BY <1>1, Counts
\* Behind the last infix there are no run ends and no parts.
<1>3. ASSUME n >= 1, NEW p \in Nat, P[n] < p, p <= z
      PROVE  Below(R, p) = Below(O, imp[n]) + 1 /\ Below(O, TargetSize) = Below(O, imp[n]) + 1
  <2>1. n \in 1..n /\ P[n] \in Nat /\ imp[n] \in Nat /\ imp[n] < TargetSize /\ P[n] \in R
    <3>1. n \in 1..n
      BY <1>s, <1>3
    <3> QED BY <1>0, <1>2, <1>s, <3>1 DEF Parts
  <2>2. Below(R, P[n] + 1) = Below(R, P[n]) + 1
    BY <1>c, <2>1 DEF Bit
  <2>3. Below(R, P[n] + 1) = Below(R, p)
    <3>1. \A x \in R : ~(P[n] + 1 <= x /\ x < p)
      <4> SUFFICES ASSUME NEW k \in 1..n, P[n] + 1 <= P[k] PROVE FALSE
        BY <1>s
      <4>1. k < n => P[k] < P[n]
        BY <1>s, <2>1
      <4> QED BY <1>s, <2>1, <4>1
    <3>2. P[n] + 1 <= p /\ P[n] + 1 \in Nat
      BY <1>3, <2>1
    <3> QED BY <1>2, <3>1, <3>2, BelowGap
  <2>4. Below(O, imp[n] + 1) = Below(O, imp[n]) + Bit(imp[n] \in O)
    BY <1>2, <2>1, BelowStep
  <2>5. Below(O, imp[n] + 1) = Below(O, TargetSize)
    <3>1. \A o \in O : ~(imp[n] + 1 <= o /\ o < TargetSize)
      <4> SUFFICES ASSUME NEW k \in 1..n, imp[n] + 1 <= imp[k] PROVE FALSE
        BY <1>s
      <4>0. k <= n
        BY <1>s
      <4>1. imp[k] <= imp[n] /\ imp[k] \in Int
        BY <1>0, <1>s, <2>1, <4>0
      <4> QED BY <2>1, <4>1
    <3>2. imp[n] + 1 <= TargetSize /\ imp[n] + 1 \in Nat
      BY <1>2, <2>1
    <3> QED BY <1>2, <3>1, <3>2, BelowGap
  <2>6. Bit(imp[n] \in O) = 1
    BY <1>s, <2>1 DEF Bit
  <2> QED BY <1>r, <2>1, <2>2, <2>3, <2>4, <2>5, <2>6
\* Without an infix there is nothing.
<1>e. ASSUME ~(n >= 1) PROVE (\A x : x \notin R) /\ (\A x : x \notin O)
  BY <1>s, <1>e
<1>4. Paired(z, O, R)
  <2>1. CASE n >= 1
    <3>1. n \in 1..n /\ P[n] < z
      BY <1>s, <2>1
    <3> QED BY <1>3, <1>s, <2>1, <3>1 DEF Paired
  <2>2. CASE ~(n >= 1)
    <3>1. O = {} /\ R = {}
      BY <1>e, <2>2
    <3> QED BY <3>1 DEF Paired, Below
  <2> QED BY <2>1, <2>2
<1>5. Closing(U, R)
  <2> SUFFICES ASSUME NEW p \in U, p + 1 \notin U PROVE p \in R
    BY DEF Closing
  <2>1. PICK j \in 1..n : p = P[j]
    BY <1>s
  <2>2. CASE j = n
    BY <1>s, <2>1, <2>2
  <2>3. CASE j # n
    <3>1. j + 1 \in 1..n
      BY <1>s, <2>3
    <3>2. imp[j + 1] = imp[j] => P[j + 1] = P[j] + 1
      BY <3>1, LoadedNext
    <3> QED BY <1>s, <2>1, <3>1, <3>2
  <2> QED BY <2>2, <2>3
<1>6. ASSUME NEW q \in 0..(z - 1), q \notin U, NEW j \in 1..n, P[j] <= q
      PROVE  M[imp[j]] <= P[j] /\ P[j] # z - 1 - (n - j)
  <2>1. P[j] = z - 1 - (n - j) \/ m[j] <= P[j]
    BY <1>0, LayoutSteps
  <2>2. ASSUME P[j] = z - 1 - (n - j) PROVE FALSE
    <3>1. j + (q - P[j]) \in 1..n /\ q \in Nat /\ P[j] \in Nat
      BY <1>s, <1>6, <2>2
    <3> DEFINE k == j + (q - P[j])
    <3>2. j <= k /\ k - j = q - P[j]
      BY <1>s, <1>6, <3>1
    <3>3. P[j] + (k - j) <= P[k]
      <4> HIDE DEF k
      <4> QED BY <1>0, <3>1, <3>2, PlacesAscend DEF k
    <3>4. P[k] <= z - 1 - (n - k)
      BY <1>0, <3>1, LayoutSteps
    <3>5. P[k] \in Nat
      BY <1>s, <3>1
    <3>6. P[k] = q
      <4>1. z - 1 - (n - k) = q
        BY <1>s, <2>2, <3>1
      <4>2. P[j] + (k - j) = q
        BY <3>1, <3>2
      <4> HIDE DEF k
      <4> QED BY <3>1, <3>3, <3>4, <3>5, <4>1, <4>2
    <3> QED BY <1>6, <1>s, <3>1, <3>6
  <2> QED BY <1>m, <2>1, <2>2
<1>7. Levelled(z, M, U, O, R)
  <2> SUFFICES ASSUME NEW p \in 0..(z - 1), NEW q \in 0..(z - 1), q \notin U, p <= q
               PROVE  Level(M, U, O, R, p)
    BY DEF Levelled
  <2>1. p \in Nat /\ q \in Nat /\ p \in Int
    BY <1>s
  <2>2. CASE p \in U
    <3>1. PICK j \in 1..n : p = P[j]
      BY <1>s, <2>2
    <3>2. M[imp[j]] <= p
      BY <1>6, <3>1
    <3>3. imp[j] \in Parts /\ imp[j] \in O
      BY <1>0, <1>s
    <3>4. Below(O, imp[j]) + 1 <= MapsTo(M, O, p)
      BY <1>2, <2>1, <3>2, <3>3, MapsAtLeast
    <3>5. Below(R, p) = Below(O, imp[j])
      BY <1>r, <3>1
    <3>6. Below(R, p) \in Nat /\ MapsTo(M, O, p) \in Nat
      BY <1>c, <2>1
    <3> QED BY <2>2, <3>4, <3>5, <3>6 DEF Level
  <2>3. CASE p \notin U
    <3>0. Below(R, p) \in Nat /\ MapsTo(M, O, p) \in Nat
      BY <1>c, <2>1
    <3>1. CASE \A j \in 1..n : p < P[j]
      <4>1. CASE n >= 1
        <5>1. 1 \in 1..n
          BY <1>s, <4>1
        <5>2. P[1] <= m[1] /\ m[1] = M[imp[1]] /\ p < P[1]
          BY <1>0, <1>m, <3>1, <5>1, LayoutSteps
        <5>3. p < M[imp[1]] /\ imp[1] \in Parts /\ P[1] \in Nat /\ p <= P[1]
          BY <1>0, <1>s, <2>1, <5>1, <5>2
        <5>4. MapsTo(M, O, p) <= Below(O, imp[1])
          BY <1>2, <2>1, <5>3, MapsAtMost
        <5>5. Below(R, P[1]) = Below(O, imp[1])
          BY <1>r, <5>1
        <5>6. Below(R, P[1]) = 0
          <6>1. \A x \in R : ~(0 <= x /\ x < P[1])
            <7> SUFFICES ASSUME NEW k \in 1..n, P[k] < P[1] PROVE FALSE
              BY <1>s
            <7>1. k # 1 => P[1] < P[k]
              BY <1>s, <5>1
            <7> QED BY <1>s, <5>1, <7>1
          <6>2. Below(R, 0) = Below(R, P[1])
            <7>1. 0 <= P[1] /\ 0 \in Nat
              BY <5>3
            <7> QED BY <1>2, <5>3, <6>1, <7>1, BelowGap
          <6> QED BY <1>2, <6>2, BelowZero
        <5>7. Below(R, p) <= Below(R, P[1])
          BY <1>c, <2>1, <5>3
        <5> QED BY <2>3, <3>0, <5>4, <5>5, <5>6, <5>7 DEF Level
      <4>2. CASE ~(n >= 1)
        <5>1. O = {} /\ R = {}
          BY <1>e, <4>2
        <5>2. MapsTo(M, O, p) = 0 /\ Below(R, p) = 0
          BY <5>1, FS_EmptySet DEF MapsTo, Below
        <5> QED BY <2>3, <5>2 DEF Level
      <4> QED BY <4>1, <4>2
    <3>2. CASE \E j \in 1..n : ~(p < P[j])
      <4> DEFINE B == {j \in 1..n : P[j] <= p}
      <4>1. B # {} /\ \A j \in B : j \in 1..n /\ P[j] <= p
        BY <1>s, <2>1, <3>2
      <4>2. Max(B) \in B /\ \A k \in B : k <= Max(B)
        <5>1. 1 \in Int /\ n \in Int
          BY <1>s
        <5> HIDE DEF B
        <5> QED BY <4>1, <5>1, MaxOf
      <4>3. PICK j \in 1..n : P[j] <= p /\ \A k \in 1..n : P[k] <= p => k <= j
        BY <4>2
      <4>4. P[j] < p /\ P[j] \in Nat /\ P[j] <= q
        <5>1. P[j] \in Nat /\ P[j] \in U
          BY <1>s
        <5>2. P[j] # p
          BY <2>3, <5>1
        <5> QED BY <2>1, <4>3, <5>1, <5>2
      <4>5. M[imp[j]] <= P[j] /\ P[j] # z - 1 - (n - j)
        BY <1>6, <4>4
      <4>6. Below(O, imp[j]) + 1 <= MapsTo(M, O, p)
        <5>1. imp[j] \in Parts /\ imp[j] \in O /\ M[imp[j]] <= p
          BY <1>0, <1>s, <2>1, <4>4, <4>5
        <5> QED BY <1>2, <2>1, <5>1, MapsAtLeast
      <4>7. CASE j = n
        <5>1. n >= 1 /\ p <= z
          BY <1>s
        <5>2. Below(R, p) = Below(O, imp[n]) + 1 /\ Below(O, TargetSize) = Below(O, imp[n]) + 1
          BY <1>3, <2>1, <4>4, <4>7, <5>1
        <5>3. MapsTo(M, O, p) <= Below(O, TargetSize)
          BY <1>2, MapsAll
        <5> QED BY <2>3, <3>0, <4>6, <4>7, <5>2, <5>3 DEF Level
      <4>8. CASE j # n
        <5>1. j + 1 \in 1..n /\ (j + 1) - 1 = j /\ j + 1 > 1 /\ ~(j + 1 <= j)
          BY <1>s, <4>8
        <5>2. p < P[j + 1] /\ P[j + 1] \in Nat /\ p <= P[j + 1]
          BY <1>s, <2>1, <4>3, <5>1
        <5>3. Below(R, P[j + 1]) = Below(O, imp[j + 1])
          BY <1>r, <5>1
        <5>4. imp[j + 1] # imp[j]
          <6>1. imp[j + 1] = imp[j] => P[j + 1] = P[j] + 1
            BY <5>1, LoadedNext
          <6> QED BY <2>1, <4>4, <5>2, <6>1
        <5>5. Below(O, imp[j + 1]) = Below(O, imp[j]) + 1
          <6>1. Below(O, imp[j + 1]) = Below(O, imp[j]) + Bit(imp[j + 1] # imp[j])
            BY <5>1, LoadedNext
          <6> QED BY <5>4, <6>1 DEF Bit
        <5>6. Below(R, p) = Below(R, P[j + 1])
          <6>1. \A x \in R : ~(p <= x /\ x < P[j + 1])
            <7> SUFFICES ASSUME NEW k \in 1..n, p <= P[k], P[k] < P[j + 1] PROVE FALSE
              BY <1>s
            <7>1. P[k] \in Int
              BY <1>s
            <7>2. k <= j => P[k] <= P[j]
              <8>1. k < j => P[k] < P[j]
                BY <1>s
              <8> QED BY <1>s, <4>4, <7>1, <8>1
            <7>3. j + 1 < k => P[j + 1] < P[k]
              BY <1>s, <5>1
            <7> QED BY <1>s, <2>1, <4>4, <5>2, <7>1, <7>2, <7>3
          <6> QED BY <1>2, <2>1, <5>2, <6>1, BelowGap
        <5>7. p < M[imp[j + 1]] /\ imp[j + 1] \in Parts
          <6>1. \/ P[(j + 1) - 1] = z - 1 - (n - ((j + 1) - 1))
                \/ P[j + 1] = P[(j + 1) - 1] + 1
                \/ P[j + 1] <= m[j + 1]
            BY <1>0, <5>1, LayoutSteps
          <6>2. P[j + 1] <= m[j + 1] /\ m[j + 1] = M[imp[j + 1]]
            BY <1>m, <2>1, <4>4, <4>5, <5>1, <5>2, <6>1
          <6>3. M[imp[j + 1]] \in Int
            BY <1>s, <5>1
          <6> QED BY <1>0, <2>1, <5>1, <5>2, <6>2, <6>3
        <5>8. MapsTo(M, O, p) <= Below(O, imp[j + 1])
          BY <1>2, <2>1, <5>7, MapsAtMost
        <5> QED BY <2>3, <3>0, <4>6, <5>3, <5>5, <5>6, <5>8 DEF Level
      <4> QED BY <4>7, <4>8
    <3> QED BY <3>1, <3>2
  <2> QED BY <2>2, <2>3
<1> QED BY <1>1, <1>4, <1>5, <1>7 DEF Shape

-----------------------------------------------------------------------------
(* Where the infixes of a store go.  Two stores are compared, a small one and *)
(* a large one with one slot more in use, at r.  The slots of the small one   *)
(* lie in the large one at the same place, except that those from r to before *)
(* b are one further right (Up), or those behind a up to r one further left   *)
(* (Down).                                                                    *)

\* The place of a slot when those from r to before b move up.
Up(r, b, p) == IF r <= p /\ p < b THEN p + 1 ELSE p

\* The place of a slot when those behind a up to r move down.
Down(a, r, p) == IF a < p /\ p <= r THEN p - 1 ELSE p

\* Into the run that ends at e, by a shift to the right: nothing changes run.
LEMMA UpIntoRun ==
    ASSUME NEW R, \A y \in R : y \in Nat, NEW e \in R, NEW l \in Int, -1 <= l, l < e,
           \A y \in (l + 1)..(e - 1) : y \notin R,
           NEW r \in (l + 1)..(e + 1), NEW b \in Nat, e < b, b \notin R
    PROVE  /\ Below(ShiftRunendsRight(R, e, b), r) = Below(R, e)
           /\ \A p \in Nat : p # b => Below(ShiftRunendsRight(R, e, b), Up(r, b, p)) = Below(R, p)
<1> DEFINE S == ShiftRunendsRight(R, e, b)
<1>1. e \in Nat /\ r \in Nat /\ e <= b
  OBVIOUS
<1>2. \A x \in Nat : Below(S, x) =
         IF x <= e THEN Below(R, x)
         ELSE IF x <= b + 1 THEN Below(R, x - 1)
         ELSE Below(R, x) - Bit(b \in R)
  BY <1>1, BelowShiftedRight
<1>3. Bit(b \in R) = 0
  BY DEF Bit
<1>4. \A x \in Nat : Below(R, x + 1) = Below(R, x) + Bit(x \in R)
  BY BelowStep
<1>5. \A x \in Nat : x \notin R => Below(R, x + 1) = Below(R, x)
  <2>1. TAKE x \in Nat
  <2>2. HAVE x \notin R
  <2>3. Bit(x \in R) = 0
    BY <2>2 DEF Bit
  <2>4. Below(R, x) \in Nat
    BY BelowFinite
  <2> QED BY <1>4, <2>3, <2>4
<1>6. \A x \in Nat : Below(R, x) \in Nat
  BY BelowFinite
<1>7. \A x, y \in Nat : x <= y /\ (\A k \in R : ~(x <= k /\ k < y)) => Below(R, x) = Below(R, y)
  BY BelowGap
<1> HIDE DEF S
<1>8. Below(S, r) = Below(R, e)
  <2>1. CASE r = e + 1
    <3>1. Below(S, r) = Below(R, r - 1)
      BY <1>1, <1>2, <2>1
    <3> QED BY <1>1, <2>1, <3>1
  <2>2. CASE r <= e
    <3>1. Below(S, r) = Below(R, r)
      BY <1>1, <1>2, <2>2
    <3>2. \A k \in R : ~(r <= k /\ k < e)
      BY <1>1
    <3>3. Below(R, r) = Below(R, e)
      BY <1>1, <1>7, <2>2, <3>2
    <3> QED BY <3>1, <3>3
  <2> QED BY <1>1, <2>1, <2>2
<1>9. ASSUME NEW p \in Nat, p # b PROVE Below(S, Up(r, b, p)) = Below(R, p)
  <2>1. CASE r <= p /\ p < b
    <3>1. Up(r, b, p) = p + 1 /\ p + 1 \in Nat
      BY <2>1 DEF Up
    <3>2. CASE p + 1 <= e
      <4>1. Below(S, p + 1) = Below(R, p + 1)
        BY <1>2, <3>1, <3>2
      <4>2. p \notin R
        BY <1>1, <2>1, <3>2
      <4> QED BY <1>5, <3>1, <4>1, <4>2
    <3>3. CASE e < p + 1
      <4>1. Below(S, p + 1) = Below(R, (p + 1) - 1)
        BY <1>1, <1>2, <2>1, <3>1, <3>3
      <4> QED BY <3>1, <4>1
    <3> QED BY <1>1, <3>2, <3>3
  <2>2. CASE ~(r <= p /\ p < b)
    <3>1. Up(r, b, p) = p
      BY <2>2 DEF Up
    <3>2. CASE p <= e
      BY <1>2, <3>1, <3>2
    <3>3. CASE e < p
      <4>1. b < p
        BY <1>1, <2>2, <3>3, <1>9
      <4>2. CASE p = b + 1
        <5>1. Below(S, p) = Below(R, p - 1)
          BY <1>1, <1>2, <3>3, <4>2
        <5>2. p - 1 = b
          BY <4>2
        <5> QED BY <1>5, <3>1, <4>2, <5>1, <5>2
      <4>3. CASE b + 1 < p
        <5>1. Below(S, p) = Below(R, p) - Bit(b \in R)
          BY <1>1, <1>2, <3>3, <4>3
        <5> QED BY <1>3, <1>6, <3>1, <5>1
      <4> QED BY <4>1, <4>2, <4>3
    <3> QED BY <1>1, <3>2, <3>3
  <2> QED BY <2>1, <2>2
<1> QED BY <1>8, <1>9 DEF S

\* BelowShiftedLeft for every two bounds.
LEMMA ShiftedLeftBelow ==
    ASSUME NEW R, \A y \in R : y \in Nat
    PROVE  \A l, r \in Nat : 1 <= l /\ l <= r /\ l - 1 \notin R =>
               \A x \in Nat : Below(ShiftRunendsLeft(R, l, r), x) =
                   IF l <= x /\ x < r THEN Below(R, x + 1) ELSE Below(R, x)
BY BelowShiftedLeft

\* Into the run after l that ends at e: the slots from k to n move left, the run ends
\* from k to before d.
DownAt(R, l, e, r, a, d, n, k) ==
    /\ \A y \in R : y \in Nat
    /\ e \in R /\ l \in Int /\ -1 <= l /\ l < e
    /\ \A y \in (l + 1)..(e - 1) : y \notin R
    /\ r \in (l + 1)..(e + 1) /\ a \in Nat /\ a <= l /\ a \notin R
    /\ d = IF e <= r THEN e ELSE r
    /\ n = r - 1 /\ k = a + 1

\* The ranks after an infix went into its run from the left.
LEMMA DownIntoRun ==
    ASSUME NEW R, NEW l, NEW e, NEW r, NEW a, NEW d, NEW n, NEW k, DownAt(R, l, e, r, a, d, n, k)
    PROVE  /\ Below(ShiftRunendsLeft(R, k, d), n) = Below(R, e)
           /\ \A p \in Nat : p # a =>
                 Below(ShiftRunendsLeft(R, k, d), Down(a, n, p)) = Below(R, p)
<1> DEFINE S == ShiftRunendsLeft(R, a + 1, d)
<1>0. /\ \A y \in R : y \in Nat
      /\ e \in R /\ l \in Int /\ -1 <= l /\ l < e
      /\ \A y \in (l + 1)..(e - 1) : y \notin R
      /\ r \in (l + 1)..(e + 1) /\ a \in Nat /\ a <= l /\ a \notin R
      /\ d = IF e <= r THEN e ELSE r
      /\ n = r - 1 /\ k = a + 1
  BY DEF DownAt
<1>1. e \in Nat /\ r \in Nat /\ d \in Nat /\ a + 1 \in Nat /\ 1 <= a + 1 /\ a + 1 <= d
      /\ (a + 1) - 1 \notin R /\ d <= e /\ d <= r /\ r - 1 \in Nat
  BY <1>0
<1>2. \A x \in Nat : Below(S, x) = IF a + 1 <= x /\ x < d THEN Below(R, x + 1) ELSE Below(R, x)
  <2>1. PICK g : g = a + 1
    OBVIOUS
  <2>2. g \in Nat /\ 1 <= g /\ g <= d /\ g - 1 \notin R
    BY <1>0, <1>1, <2>1
  <2>3. \A u, v \in Nat : 1 <= u /\ u <= v /\ u - 1 \notin R =>
           \A x \in Nat : Below(ShiftRunendsLeft(R, u, v), x) =
               IF u <= x /\ x < v THEN Below(R, x + 1) ELSE Below(R, x)
    BY <1>0, ShiftedLeftBelow
  <2>4. d \in Nat
    BY <1>0, <1>1
  <2>5. \A x \in Nat : Below(ShiftRunendsLeft(R, g, d), x) =
           IF g <= x /\ x < d THEN Below(R, x + 1) ELSE Below(R, x)
    BY <2>2, <2>3, <2>4
  <2> QED BY <2>1, <2>5
<1>4. \A x \in Nat : Below(R, x + 1) = Below(R, x) + Bit(x \in R)
  BY <1>0, BelowStep
<1>5. \A x \in Nat : x \notin R => Below(R, x + 1) = Below(R, x)
  <2>1. TAKE x \in Nat
  <2>2. HAVE x \notin R
  <2>3. Bit(x \in R) = 0
    BY <2>2 DEF Bit
  <2>4. Below(R, x) \in Nat
    BY <1>0, BelowFinite
  <2> QED BY <1>4, <2>3, <2>4
<1>7. \A x, y \in Nat : x <= y /\ (\A z \in R : ~(x <= z /\ z < y)) => Below(R, x) = Below(R, y)
  BY <1>0, BelowGap
<1> HIDE DEF S
<1>8. Below(S, r - 1) = Below(R, e)
  <2>1. CASE r = e + 1
    <3>1. r - 1 = e /\ ~(e < d)
      BY <1>0, <1>1, <2>1
    <3> QED BY <1>0, <1>1, <1>2, <3>1
  <2>2. CASE r <= e
    <3>1. d = r
      BY <1>0, <1>1, <2>2
    <3>2. \A y \in R : ~(r <= y /\ y < e)
      BY <1>0, <1>1
    <3>3. Below(R, r) = Below(R, e)
      BY <1>0, <1>1, <1>7, <2>2, <3>2
    <3>4. CASE a + 1 <= r - 1
      <4>1. Below(S, r - 1) = Below(R, (r - 1) + 1)
        BY <1>0, <1>1, <1>2, <3>1, <3>4
      <4> QED BY <1>0, <1>1, <3>3, <4>1
    <3>5. CASE r - 1 = a
      <4>1. Below(S, a) = Below(R, a)
        BY <1>0, <1>1, <1>2
      <4>2. Below(R, a + 1) = Below(R, a)
        BY <1>0, <1>5
      <4> QED BY <1>0, <1>1, <3>3, <3>5, <4>1, <4>2
    <3> QED BY <1>0, <1>1, <3>1, <3>4, <3>5
  <2> QED BY <1>0, <1>1, <2>1, <2>2
<1>9. ASSUME NEW p \in Nat, p # a PROVE Below(S, Down(a, r - 1, p)) = Below(R, p)
  <2>1. CASE a < p /\ p <= r - 1
    <3>1. Down(a, r - 1, p) = p - 1 /\ p - 1 \in Nat
      BY <1>0, <1>1, <2>1 DEF Down
    <3>2. CASE p = a + 1
      <4>1. Below(S, a) = Below(R, a)
        BY <1>0, <1>1, <1>2
      <4>2. Below(R, a + 1) = Below(R, a)
        BY <1>0, <1>5
      <4> QED BY <1>0, <3>1, <3>2, <4>1, <4>2
    <3>3. CASE a + 1 < p /\ p - 1 < d
      <4>1. Below(S, p - 1) = Below(R, (p - 1) + 1)
        BY <1>0, <1>1, <1>2, <3>1, <3>3
      <4> QED BY <3>1, <4>1
    <3>4. CASE d <= p - 1
      <4>1. Below(S, p - 1) = Below(R, p - 1)
        BY <1>2, <3>1, <3>4, <1>0, <1>1
      <4>2. FALSE
        BY <1>0, <1>1, <2>1, <3>4
      <4> QED BY <4>2
    <3> QED BY <1>0, <1>1, <2>1, <3>1, <3>2, <3>3, <3>4
  <2>2. CASE ~(a < p /\ p <= r - 1)
    <3>1. Down(a, r - 1, p) = p
      BY <1>0, <2>2 DEF Down
    <3>2. ~(a + 1 <= p /\ p < d)
      BY <1>0, <1>1, <2>2
    <3> QED BY <1>2, <3>1, <3>2
  <2> QED BY <2>1, <2>2
<1> QED BY <1>0, <1>8, <1>9 DEF S

\* The counts of a set of naturals, one step, over a stretch without members,
\* and monotone: what the lemmas below need, for every two bounds.
LEMMA BelowFacts ==
    ASSUME NEW R, \A y \in R : y \in Nat
    PROVE  /\ \A x \in Nat : Below(R, x) \in Nat
           /\ \A x \in Nat : x \notin R => Below(R, x + 1) = Below(R, x)
           /\ \A x \in Nat : x \in R => Below(R, x + 1) = Below(R, x) + 1
           /\ \A x, y \in Nat : x <= y => Below(R, x) <= Below(R, y)
           /\ \A x, y \in Nat : x <= y /\ (\A k \in R : ~(x <= k /\ k < y))
                                    => Below(R, x) = Below(R, y)
<1>1. \A x \in Nat : Below(R, x) \in Nat
  BY BelowFinite
<1>2. \A x \in Nat : Below(R, x + 1) = Below(R, x) + Bit(x \in R)
  BY BelowStep
<1>3. \A x \in Nat : x \notin R => Below(R, x + 1) = Below(R, x)
  <2>1. TAKE x \in Nat
  <2>2. HAVE x \notin R
  <2>3. Bit(x \in R) = 0
    BY <2>2 DEF Bit
  <2> QED BY <1>1, <1>2, <2>3
<1>4. \A x \in Nat : x \in R => Below(R, x + 1) = Below(R, x) + 1
  <2>1. TAKE x \in Nat
  <2>2. HAVE x \in R
  <2>3. Bit(x \in R) = 1
    BY <2>2 DEF Bit
  <2> QED BY <1>1, <1>2, <2>3
<1>5. \A x, y \in Nat : x <= y => Below(R, x) <= Below(R, y)
  BY BelowMonotone
<1>6. \A x, y \in Nat : x <= y /\ (\A k \in R : ~(x <= k /\ k < y)) => Below(R, x) = Below(R, y)
  BY BelowGap
<1> QED BY <1>1, <1>3, <1>4, <1>5, <1>6

\* A slot s that divides the runs: those before it are the c first ones.
Divides(U, R, s, c) ==
    /\ s \in Nat /\ c \in Nat /\ Below(R, s) = c
    /\ \A p \in U : IF p < s THEN Below(R, p) < c ELSE c <= Below(R, p)

\* Where a slot of the small store went, when the large one may have a run more
\* (fresh) after the c first ones: its rank counts that run too.
RankMoves(R, S, fresh, c, p, q) == Below(S, q) = Below(R, p) + Bit(fresh /\ c <= Below(R, p))

\* A new run at s, with room made by a shift to the right.
LEMMA UpNewRun ==
    ASSUME NEW U, \A p \in U : p \in Nat, NEW R, \A y \in R : y \in U, NEW s, NEW c,
           Divides(U, R, s, c), NEW b \in Nat, s <= b, b \notin U
    PROVE  /\ Below(ShiftRunendsRight(R, s, b) \cup {s}, s) = c
           /\ \A p \in U : RankMoves(R, ShiftRunendsRight(R, s, b) \cup {s}, TRUE, c, p, Up(s, b, p))
<1> DEFINE S == ShiftRunendsRight(R, s, b)
           T == S \cup {s}
<1>1. s \in Nat /\ c \in Nat /\ (\A y \in R : y \in Nat)
  BY DEF Divides
<1>2. b \notin R
  OBVIOUS
<1>3. \A x \in Nat : Below(S, x) =
         IF x <= s THEN Below(R, x)
         ELSE IF x <= b + 1 THEN Below(R, x - 1)
         ELSE Below(R, x) - Bit(b \in R)
  <2>1. \A l, r \in Nat : l <= r => \A x \in Nat : Below(ShiftRunendsRight(R, l, r), x) =
         IF x <= l THEN Below(R, x)
         ELSE IF x <= r + 1 THEN Below(R, x - 1)
         ELSE Below(R, x) - Bit(r \in R)
    BY <1>1, BelowShiftedRight
  <2> QED BY <1>1, <2>1
<1>4. (\A y \in S : y \in Nat) /\ s \notin S
  <2>1. \A l, r \in Nat : l <= r => /\ \A y \in ShiftRunendsRight(R, l, r) : y \in Nat
                                    /\ l \notin ShiftRunendsRight(R, l, r)
    BY <1>1, ShiftedRight
  <2> QED BY <1>1, <2>1
<1>5. /\ \A x \in Nat : Below(R, x) \in Nat
      /\ \A x \in Nat : x \notin R => Below(R, x + 1) = Below(R, x)
  BY <1>1, BelowFacts
<1> HIDE DEF S
<1>6. \A x \in Nat : Below(T, x) = Below(S, x) + Bit(s < x)
  BY <1>1, <1>4, BelowAdded
<1>7. Bit(b \in R) = 0
  BY <1>2 DEF Bit
<1> HIDE DEF T
<1>8. Below(T, s) = c
  <2>1. Bit(s < s) = 0
    BY <1>1 DEF Bit
  <2>2. Below(S, s) = Below(R, s)
    BY <1>1, <1>3
  <2>3. Below(R, s) = c
    BY DEF Divides
  <2> QED BY <1>1, <1>6, <2>1, <2>2, <2>3
<1>9. ASSUME NEW p \in U PROVE Below(T, Up(s, b, p)) = Below(R, p) + Bit(TRUE /\ c <= Below(R, p))
  <2>0. p \in Nat /\ p # b
    OBVIOUS
  <2>1. CASE p < s
    <3>1. Up(s, b, p) = p
      BY <1>1, <2>0, <2>1 DEF Up
    <3>2. Below(R, p) < c
      BY <2>1 DEF Divides
    <3>3. Bit(TRUE /\ c <= Below(R, p)) = 0
      BY <1>1, <1>5, <2>0, <3>2 DEF Bit
    <3>4. Bit(s < p) = 0
      BY <1>1, <2>0, <2>1 DEF Bit
    <3>5. Below(S, p) = Below(R, p)
      BY <1>1, <1>3, <2>0, <2>1
    <3> QED BY <1>5, <1>6, <2>0, <3>1, <3>3, <3>4, <3>5
  <2>2. CASE s <= p
    <3>2. c <= Below(R, p)
      BY <1>1, <2>0, <2>2 DEF Divides
    <3>3. Bit(TRUE /\ c <= Below(R, p)) = 1
      BY <3>2 DEF Bit
    <3>4. CASE p < b
      <4>1. Up(s, b, p) = p + 1
        BY <2>2, <3>4 DEF Up
      <4>2. Bit(s < p + 1) = 1
        BY <1>1, <2>0, <2>2 DEF Bit
      <4>3. Below(S, p + 1) = Below(R, (p + 1) - 1)
        BY <1>1, <1>3, <2>0, <2>2, <3>4
      <4>4. (p + 1) - 1 = p /\ p + 1 \in Nat
        BY <2>0
      <4> QED BY <1>5, <1>6, <2>0, <3>3, <4>1, <4>2, <4>3, <4>4
    <3>5. CASE b < p
      <4>1. Up(s, b, p) = p
        BY <2>0, <3>5 DEF Up
      <4>2. Bit(s < p) = 1
        BY <1>1, <2>0, <3>5 DEF Bit
      <4>3. Below(S, p) = Below(R, p)
        <5>1. CASE p = b + 1
          <6>1. Below(S, p) = Below(R, p - 1)
            BY <1>1, <1>3, <2>0, <5>1
          <6>2. p - 1 = b
            BY <5>1
          <6> QED BY <1>2, <1>5, <5>1, <6>1, <6>2
        <5>2. CASE b + 1 < p
          <6>1. Below(S, p) = Below(R, p) - Bit(b \in R)
            BY <1>1, <1>3, <2>0, <5>2
          <6> QED BY <1>5, <1>7, <2>0, <6>1
        <5> QED BY <2>0, <3>5, <5>1, <5>2
      <4> QED BY <1>5, <1>6, <2>0, <3>3, <4>1, <4>2, <4>3
    <3> QED BY <2>0, <3>4, <3>5
  <2> QED BY <1>1, <2>0, <2>1, <2>2
<1>10. Below(S \cup {s}, s) = c
  BY <1>8 DEF T
<1>11. \A p \in U : RankMoves(R, S \cup {s}, TRUE, c, p, Up(s, b, p))
  BY <1>9 DEF T, RankMoves
<1> QED BY <1>10, <1>11 DEF S

\* A new run at t, with room made by a shift to the left.
LEMMA DownNewRun ==
    ASSUME NEW U, \A p \in U : p \in Nat, NEW R, \A y \in R : y \in U, NEW t \in Nat, NEW c,
           Divides(U, R, t + 1, c), NEW a \in Nat, a <= t, a \notin U
    PROVE  /\ Below(ShiftRunendsLeft(R, a + 1, t + 1) \cup {t}, t) = c
           /\ \A p \in U : RankMoves(R, ShiftRunendsLeft(R, a + 1, t + 1) \cup {t}, TRUE, c, p, Down(a, t, p))
<1> DEFINE S == ShiftRunendsLeft(R, a + 1, t + 1)
           T == S \cup {t}
<1>1. c \in Nat /\ (\A y \in R : y \in Nat) /\ Below(R, t + 1) = c
  BY DEF Divides
<1>2. a \notin R
  OBVIOUS
<1>3. /\ \A x \in Nat : Below(S, x) = IF a + 1 <= x /\ x < t + 1 THEN Below(R, x + 1) ELSE Below(R, x)
      /\ \A y \in S : y \in Nat
      /\ t \notin S
  <2>1. PICK g \in Nat : g = a + 1
    OBVIOUS
  <2>2. PICK h \in Nat : h = t + 1
    OBVIOUS
  <2>3. 1 <= g /\ g <= h /\ g - 1 \notin R /\ h - 1 = t
    BY <1>2, <2>1, <2>2
  <2>4. \A u, v \in Nat : 1 <= u /\ u <= v /\ u - 1 \notin R =>
           \A x \in Nat : Below(ShiftRunendsLeft(R, u, v), x) =
               IF u <= x /\ x < v THEN Below(R, x + 1) ELSE Below(R, x)
    BY <1>1, ShiftedLeftBelow
  <2>5. \A u, v \in Nat : 1 <= u /\ u <= v =>
           /\ \A y \in ShiftRunendsLeft(R, u, v) : y \in Nat
           /\ v - 1 \notin ShiftRunendsLeft(R, u, v)
    BY <1>1, ShiftedLeft
  <2>6. \A x \in Nat : Below(ShiftRunendsLeft(R, g, h), x) =
               IF g <= x /\ x < h THEN Below(R, x + 1) ELSE Below(R, x)
    BY <2>3, <2>4
  <2>7. /\ \A y \in ShiftRunendsLeft(R, g, h) : y \in Nat
        /\ h - 1 \notin ShiftRunendsLeft(R, g, h)
    BY <2>3, <2>5
  <2> QED BY <2>1, <2>2, <2>3, <2>6, <2>7
<1>5. /\ \A x \in Nat : Below(R, x) \in Nat
      /\ \A x \in Nat : x \notin R => Below(R, x + 1) = Below(R, x)
  BY <1>1, BelowFacts
<1> HIDE DEF S
<1>6. \A x \in Nat : Below(T, x) = Below(S, x) + Bit(t < x)
  BY <1>3, BelowAdded
<1> HIDE DEF T
<1>8. Below(T, t) = c
  <2>1. Bit(t < t) = 0
    BY DEF Bit
  <2>2. Below(S, t) = Below(R, t + 1)
    <3>1. CASE a < t
      BY <1>3, <3>1
    <3>2. CASE a = t
      <4>1. Below(S, t) = Below(R, t)
        BY <1>3, <3>2
      <4> QED BY <1>2, <1>5, <3>2, <4>1
    <3> QED BY <3>1, <3>2
  <2> QED BY <1>1, <1>6, <2>1, <2>2
<1>9. ASSUME NEW p \in U PROVE Below(T, Down(a, t, p)) = Below(R, p) + Bit(TRUE /\ c <= Below(R, p))
  <2>0. p \in Nat /\ p # a
    OBVIOUS
  <2>1. CASE p <= t
    <3>2. Below(R, p) < c
      <4>1. p < t + 1
        BY <2>0, <2>1
      <4> QED BY <4>1 DEF Divides
    <3>3. Bit(TRUE /\ c <= Below(R, p)) = 0
      BY <1>1, <1>5, <2>0, <3>2 DEF Bit
    <3>4. CASE p < a
      <4>1. Down(a, t, p) = p
        BY <2>0, <3>4 DEF Down
      <4>2. Bit(t < p) = 0
        BY <2>0, <2>1 DEF Bit
      <4>3. Below(S, p) = Below(R, p)
        BY <1>3, <2>0, <3>4
      <4> QED BY <1>5, <1>6, <2>0, <3>3, <4>1, <4>2, <4>3
    <3>5. CASE a < p
      <4>1. Down(a, t, p) = p - 1 /\ p - 1 \in Nat /\ (p - 1) + 1 = p
        BY <2>0, <2>1, <3>5 DEF Down
      <4>2. Bit(t < p - 1) = 0
        BY <2>0, <2>1 DEF Bit
      <4>3. Below(S, p - 1) = Below(R, p)
        <5>1. CASE p = a + 1
          <6>1. p - 1 = a
            BY <5>1
          <6>2. Below(S, a) = Below(R, a)
            BY <1>3
          <6> QED BY <1>2, <1>5, <5>1, <6>1, <6>2
        <5>2. CASE a + 1 < p
          <6>1. a + 1 <= p - 1 /\ p - 1 < t + 1
            BY <2>0, <2>1, <5>2
          <6>2. Below(S, p - 1) = Below(R, (p - 1) + 1)
            BY <1>3, <4>1, <6>1
          <6> QED BY <4>1, <6>2
        <5> QED BY <2>0, <3>5, <5>1, <5>2
      <4> QED BY <1>5, <1>6, <2>0, <3>3, <4>1, <4>2, <4>3
    <3> QED BY <2>0, <3>4, <3>5
  <2>2. CASE t < p
    <3>1. Down(a, t, p) = p
      BY <2>0, <2>2 DEF Down
    <3>2. c <= Below(R, p)
      <4>1. ~(p < t + 1)
        BY <2>0, <2>2
      <4> QED BY <4>1 DEF Divides
    <3>3. Bit(TRUE /\ c <= Below(R, p)) = 1
      BY <3>2 DEF Bit
    <3>4. Bit(t < p) = 1
      BY <2>2 DEF Bit
    <3>5. Below(S, p) = Below(R, p)
      BY <1>3, <2>0, <2>2
    <3> QED BY <1>5, <1>6, <2>0, <3>1, <3>3, <3>4, <3>5
  <2> QED BY <2>0, <2>1, <2>2
<1>10. Below(S \cup {t}, t) = c
  BY <1>8 DEF T
<1>11. \A p \in U : RankMoves(R, S \cup {t}, TRUE, c, p, Down(a, t, p))
  BY <1>9 DEF T, RankMoves
<1> QED BY <1>10, <1>11 DEF S

\* Between two shapes of the runs a slot divides them when what lies before it
\* is of the first c runs and what lies behind it is not.
LEMMA DividesAt ==
    ASSUME NEW z, NEW M, Table(z, M), NEW U, NEW O, NEW R, Shape(z, M, U, O, R),
           NEW i \in Parts, NEW c, c = Below(O, i), NEW s \in 0..z,
           \A p \in U : p < s => Below(R, p) < c,
           \A p \in U : s <= p => c <= Below(R, p)
    PROVE  Divides(U, R, s, c)
<1>1. /\ \A o \in O : o \in Nat
      /\ \A p \in U : p \in Nat /\ p < z
      /\ \A y \in R : y \in Nat /\ y \in U
      /\ z \in Nat /\ TargetSize \in Nat
  BY WithinNat DEF Shape, Table, Within
<1>2. i \in Nat /\ i <= TargetSize /\ s \in Nat
  BY <1>1 DEF Parts
<1>3. c \in Nat /\ c <= Below(R, z)
  <2>1. \A x, y \in Nat : x <= y => Below(O, x) <= Below(O, y)
    BY <1>1, BelowFacts
  <2>2. \A x \in Nat : Below(O, x) \in Nat
    BY <1>1, BelowFacts
  <2>3. Below(O, TargetSize) = Below(R, z)
    BY DEF Shape, Paired
  <2>4. Below(O, i) <= Below(O, TargetSize)
    BY <1>1, <1>2, <2>1
  <2> QED BY <1>2, <2>2, <2>3, <2>4
<1>4. /\ \A x \in Nat : Below(R, x) \in Nat
      /\ \A x, y \in Nat : x <= y => Below(R, x) <= Below(R, y)
      /\ \A x \in Nat : x \in R => Below(R, x + 1) = Below(R, x) + 1
  BY <1>1, BelowFacts
<1>5. \A n \in Nat : \A k \in Nat : k < Below(R, n) => \E x \in R : x < n /\ Below(R, x) = k
  BY <1>1, HasRank
<1>6. ~(c < Below(R, s))
  <2>1. SUFFICES ASSUME c < Below(R, s) PROVE FALSE
    OBVIOUS
  <2>2. PICK x \in R : x < s /\ Below(R, x) = c
    BY <1>2, <1>3, <1>5, <2>1
  <2>3. Below(R, x) < c
    BY <1>1, <2>2
  <2> QED BY <1>3, <2>2, <2>3
<1>7. ~(Below(R, s) < c)
  <2>1. SUFFICES ASSUME Below(R, s) < c PROVE FALSE
    OBVIOUS
  <2>2. Below(R, s) \in Nat /\ Below(R, s) < Below(R, z)
    BY <1>1, <1>2, <1>3, <1>4, <2>1
  <2>3. PICK x \in R : x < z /\ Below(R, x) = Below(R, s)
    BY <1>1, <1>5, <2>2
  <2>4. CASE x < s
    <3>1. x \in Nat /\ x + 1 \in Nat /\ x + 1 <= s
      BY <1>1, <1>2, <2>4
    <3>2. Below(R, x) + 1 <= Below(R, s)
      BY <1>2, <1>4, <3>1
    <3> QED BY <2>2, <2>3, <3>2
  <2>5. CASE s <= x
    <3>1. c <= Below(R, x)
      BY <1>1, <2>5
    <3> QED BY <1>3, <2>1, <2>2, <2>3, <3>1
  <2>6. x \in Nat
    BY <1>1
  <2> QED BY <1>2, <2>4, <2>5, <2>6
<1>8. Below(R, s) = c
  <2>1. Below(R, s) \in Nat
    BY <1>2, <1>4
  <2> QED BY <1>3, <1>6, <1>7, <2>1
<1>9. \A p \in U : IF p < s THEN Below(R, p) < c ELSE c <= Below(R, p)
  <2>1. TAKE p \in U
  <2>2. p \in Nat
    BY <1>1
  <2> QED BY <1>2, <2>2
<1> QED BY <1>2, <1>3, <1>8, <1>9 DEF Divides

\* Before an empty slot the runs follow the mapping: a used slot to the left of
\* where i is mapped is of a run before i ...
LEMMA LevelBefore ==
    ASSUME NEW z, NEW M, Table(z, M), NEW U, NEW O, NEW R, Shape(z, M, U, O, R),
           NEW i \in Parts, NEW q, q \in 0..(z - 1), q \notin U, NEW p \in U, p < q, p < M[i]
    PROVE  Below(R, p) < Below(O, i)
<1>1. /\ \A o \in O : o \in Parts
      /\ p \in 0..(z - 1) /\ z \in Nat
  BY DEF Shape, Table, Within
<1>2. MapsTo(M, O, p) > Below(R, p)
  <2>1. \A x, y \in 0..(z - 1) : y \notin U /\ x <= y => Level(M, U, O, R, x)
    BY DEF Shape, Levelled
  <2>2. Level(M, U, O, R, p)
    BY <1>1, <2>1
  <2> QED BY <2>2 DEF Level
<1>3. MapsTo(M, O, p) <= Below(O, i)
  <2>1. \A x \in Int : \A j \in Parts : x < M[j] => MapsTo(M, O, x) <= Below(O, j)
    BY <1>1, MapsAtMost
  <2> QED BY <1>1, <2>1
<1>4. MapsTo(M, O, p) \in Nat /\ Below(R, p) \in Nat /\ Below(O, i) \in Nat
  <2>1. /\ \A x : MapsTo(M, O, x) \in Nat
        /\ \A x \in Nat : Below(R, x) \in Nat
    BY Counts DEF Shape
  <2>2. \A o \in O : o \in Nat
    BY <1>1 DEF Parts
  <2>3. \A x \in Nat : Below(O, x) \in Nat
    BY <2>2, BelowFacts
  <2>4. i \in Nat
    BY DEF Parts
  <2> QED BY <1>1, <2>1, <2>3, <2>4
<1> QED BY <1>2, <1>3, <1>4

\* ... and one behind an empty slot that i is mapped to or to the left of is not.
LEMMA LevelAfter ==
    ASSUME NEW z, NEW M, Table(z, M), NEW U, NEW O, NEW R, Shape(z, M, U, O, R),
           NEW i \in Parts, NEW q, q \in 0..(z - 1), q \notin U, NEW p \in U, q < p, M[i] <= q
    PROVE  Below(O, i) <= Below(R, p)
<1>1. /\ \A o \in O : o \in Parts
      /\ p \in 0..(z - 1) /\ z \in Nat
  BY DEF Shape, Table, Within
<1>2. MapsTo(M, O, q) = Below(R, q)
  <2>1. \A x, y \in 0..(z - 1) : y \notin U /\ x <= y => Level(M, U, O, R, x)
    BY DEF Shape, Levelled
  <2>2. Level(M, U, O, R, q)
    BY <1>1, <2>1
  <2> QED BY <2>2 DEF Level
<1>3. Below(O, i) <= MapsTo(M, O, q)
  <2>1. \A x \in Int : \A j \in Parts : M[j] <= x => Below(O, j) <= MapsTo(M, O, x)
    BY <1>1, MapsAtLeast
  <2> QED BY <1>1, <2>1
<1>4. /\ \A x \in Nat : Below(R, x) \in Nat
      /\ \A x, y \in Nat : x <= y => Below(R, x) <= Below(R, y)
  BY Counts DEF Shape
<1>5. Below(R, q) <= Below(R, p)
  BY <1>1, <1>4
<1>6. Below(R, q) \in Nat /\ Below(R, p) \in Nat /\ Below(O, i) \in Nat
  <2>2. \A o \in O : o \in Nat
    BY <1>1 DEF Parts
  <2>3. \A x \in Nat : Below(O, x) \in Nat
    BY <2>2, BelowFacts
  <2>4. i \in Nat
    BY DEF Parts
  <2> QED BY <1>1, <1>4, <2>3, <2>4
<1> QED BY <1>2, <1>3, <1>5, <1>6

\* g ends the last of the first c runs, and is -1 when c = 0.
EndsRuns(R, g, c) == \/ g = -1 /\ c = 0
                     \/ g \in R /\ Below(R, g) + 1 = c

\* The first c runs are those that end no later than g.
LEMMA EndsRunsBelow ==
    ASSUME NEW R, \A y \in R : y \in Nat, NEW g, NEW c \in Nat, EndsRuns(R, g, c), NEW p \in Nat
    PROVE  IF p <= g THEN Below(R, p) < c ELSE c <= Below(R, p)
<1>1. /\ \A x \in Nat : Below(R, x) \in Nat
      /\ \A x, y \in Nat : x <= y => Below(R, x) <= Below(R, y)
      /\ \A x \in Nat : x \in R => Below(R, x + 1) = Below(R, x) + 1
  BY BelowFacts
<1>2. CASE g = -1 /\ c = 0
  BY <1>1, <1>2
<1>3. CASE g \in R /\ Below(R, g) + 1 = c
  <2>1. g \in Nat /\ g + 1 \in Nat /\ Below(R, g) \in Nat /\ Below(R, p) \in Nat
    BY <1>1, <1>3
  <2>2. CASE p <= g
    <3>1. Below(R, p) <= Below(R, g)
      BY <1>1, <2>1, <2>2
    <3> QED BY <1>3, <2>1, <2>2, <3>1
  <2>3. CASE ~(p <= g)
    <3>1. g + 1 <= p
      BY <2>1, <2>3
    <3>2. Below(R, g + 1) <= Below(R, p)
      BY <1>1, <2>1, <3>1
    <3>3. Below(R, g + 1) = Below(R, g) + 1
      BY <1>1, <1>3, <2>1
    <3> QED BY <1>3, <2>1, <2>3, <3>2, <3>3
  <2> QED BY <2>2, <2>3
<1> QED BY <1>2, <1>3 DEF EndsRuns

\* The three places a new run goes to divide the runs: its own empty slot, ...
LEMMA DividesEmpty ==
    ASSUME NEW z, NEW M, Table(z, M), NEW U, NEW O, NEW R, Shape(z, M, U, O, R),
           NEW i \in Parts, NEW c, c = Below(O, i), M[i] \notin U
    PROVE  Divides(U, R, M[i], c)
<1>1. M[i] \in 0..(z - 1) /\ z \in Nat /\ (\A p \in U : p \in 0..(z - 1))
  BY DEF Shape, Table, Within
<1>2. PICK s : s = M[i]
  OBVIOUS
<1>3. s \in 0..z
  BY <1>1, <1>2
<1>4. \A p \in U : p < s => Below(R, p) < c
  <2>1. TAKE p \in U
  <2>2. HAVE p < s
  <2> QED BY <1>1, <1>2, <2>2, LevelBefore
<1>5. \A p \in U : s <= p => c <= Below(R, p)
  <2>1. TAKE p \in U
  <2>2. HAVE s <= p
  <2>3. s < p
    BY <1>1, <1>2, <2>2
  <2>4. M[i] <= s /\ s \notin U /\ s \in 0..(z - 1)
    BY <1>1, <1>2
  <2> QED BY <2>3, <2>4, LevelAfter
<1>6. Divides(U, R, s, c)
  BY <1>3, <1>4, <1>5, DividesAt
<1> QED BY <1>2, <1>6

\* ... the slot after the run before it, or its own when that is further right, ...
LEMMA DividesRight ==
    ASSUME NEW z, NEW M, Table(z, M), NEW U, NEW O, NEW R, Shape(z, M, U, O, R),
           NEW i \in Parts, NEW c, c = Below(O, i), NEW g, EndsRuns(R, g, c),
           NEW b, b \in 0..(z - 1), b \notin U, M[i] < b,
           NEW s, s = IF g + 1 <= M[i] THEN M[i] ELSE g + 1
    PROVE  Divides(U, R, s, c)
<1>1. /\ M[i] \in 0..(z - 1) /\ z \in Nat
      /\ \A p \in U : p \in 0..(z - 1)
      /\ \A y \in R : y \in Nat /\ y \in 0..(z - 1)
      /\ c \in Nat
  <2>1. M[i] \in 0..(z - 1) /\ z \in Nat
    BY DEF Table
  <2>2. \A p \in U : p \in 0..(z - 1)
    BY DEF Shape, Within
  <2>3. \A y \in R : y \in Nat /\ y \in 0..(z - 1)
    BY <2>1, <2>2 DEF Shape, Within
  <2>4. \A o \in O : o \in Nat
    BY DEF Shape, Within, Parts
  <2>5. \A x \in Nat : Below(O, x) \in Nat
    BY <2>4, BelowFacts
  <2>6. i \in Nat
    BY DEF Parts
  <2> QED BY <2>1, <2>2, <2>3, <2>5, <2>6
<1>2. g \in Int /\ -1 <= g /\ g < z
  BY <1>1 DEF EndsRuns
<1>3. s \in 0..z
  BY <1>1, <1>2
<1>4. \A p \in Nat : IF p <= g THEN Below(R, p) < c ELSE c <= Below(R, p)
  BY <1>1, EndsRunsBelow
<1>5. \A p \in U : p < s => Below(R, p) < c
  <2>1. TAKE p \in U
  <2>2. HAVE p < s
  <2>3. p \in Nat
    BY <1>1
  <2>4. CASE p <= g
    BY <1>4, <2>3, <2>4
  <2>5. CASE ~(p <= g)
    <3>1. p < M[i] /\ p < b
      BY <1>1, <1>2, <2>2, <2>3, <2>5
    <3> QED BY <3>1, LevelBefore
  <2> QED BY <2>4, <2>5
<1>6. \A p \in U : s <= p => c <= Below(R, p)
  <2>1. TAKE p \in U
  <2>2. HAVE s <= p
  <2>3. p \in Nat /\ ~(p <= g)
    BY <1>1, <1>2, <2>2
  <2> QED BY <1>4, <2>3
<1> QED BY <1>3, <1>5, <1>6, DividesAt

\* ... and, when everything to the right is used, the slot after the run before
\* it or after the empty slot that the shift to the left fills.
LEMMA DividesLeft ==
    ASSUME NEW z, NEW M, Table(z, M), NEW U, NEW O, NEW R, Shape(z, M, U, O, R),
           NEW i \in Parts, NEW c, c = Below(O, i), NEW g, EndsRuns(R, g, c),
           NEW a, a \in 0..(z - 1), a \notin U, a < M[i],
           NEW s, s = IF a <= g THEN g + 1 ELSE a + 1
    PROVE  Divides(U, R, s, c)
<1>1. /\ M[i] \in 0..(z - 1) /\ z \in Nat
      /\ \A p \in U : p \in 0..(z - 1)
      /\ \A y \in R : y \in Nat /\ y \in 0..(z - 1)
      /\ c \in Nat
  <2>1. M[i] \in 0..(z - 1) /\ z \in Nat
    BY DEF Table
  <2>2. \A p \in U : p \in 0..(z - 1)
    BY DEF Shape, Within
  <2>3. \A y \in R : y \in Nat /\ y \in 0..(z - 1)
    BY <2>1, <2>2 DEF Shape, Within
  <2>4. \A o \in O : o \in Nat
    BY DEF Shape, Within, Parts
  <2>5. \A x \in Nat : Below(O, x) \in Nat
    BY <2>4, BelowFacts
  <2>6. i \in Nat
    BY DEF Parts
  <2> QED BY <2>1, <2>2, <2>3, <2>5, <2>6
<1>2. g \in Int /\ -1 <= g /\ g < z
  BY <1>1 DEF EndsRuns
<1>3. s \in 0..z
  BY <1>1, <1>2
<1>4. \A p \in Nat : IF p <= g THEN Below(R, p) < c ELSE c <= Below(R, p)
  BY <1>1, EndsRunsBelow
<1>5. \A p \in U : p < s => Below(R, p) < c
  <2>1. TAKE p \in U
  <2>2. HAVE p < s
  <2>3. p \in Nat
    BY <1>1
  <2>4. CASE p <= g
    BY <1>4, <2>3, <2>4
  <2>5. CASE ~(p <= g)
    <3>1. p < M[i] /\ p < a
      BY <1>1, <1>2, <2>2, <2>3, <2>5
    <3> QED BY <3>1, LevelBefore
  <2> QED BY <2>4, <2>5
<1>6. \A p \in U : s <= p => c <= Below(R, p)
  <2>1. TAKE p \in U
  <2>2. HAVE s <= p
  <2>3. p \in Nat /\ ~(p <= g)
    BY <1>1, <1>2, <2>2
  <2> QED BY <1>4, <2>3
<1> QED BY <1>3, <1>5, <1>6, DividesAt

\* Out of a run that lasts, closed from the right: the store was the large one.
LEMMA UpRunShrunk ==
    ASSUME NEW R, \A y \in R : y \in Nat, NEW rs \in Nat, NEW e \in R, rs < e,
           \A y \in rs..(e - 1) : y \notin R, NEW k \in rs..e, NEW h \in Nat, e <= h
    PROVE  /\ Below(R, k) = Below(R, e)
           /\ \A q \in Nat : q # h => Below(R, Up(k, h, q)) = Below(ShiftRunendsLeft(R, e, h + 1), q)
<1> DEFINE S == ShiftRunendsLeft(R, e, h + 1)
<1>1. e \in Nat /\ k \in Nat /\ 1 <= e /\ e <= h + 1 /\ h + 1 \in Nat /\ e - 1 \notin R
  OBVIOUS
<1>2. \A x \in Nat : Below(S, x) = IF e <= x /\ x < h + 1 THEN Below(R, x + 1) ELSE Below(R, x)
  <2>1. \A u, v \in Nat : 1 <= u /\ u <= v /\ u - 1 \notin R =>
           \A x \in Nat : Below(ShiftRunendsLeft(R, u, v), x) =
               IF u <= x /\ x < v THEN Below(R, x + 1) ELSE Below(R, x)
    BY ShiftedLeftBelow
  <2> QED BY <1>1, <2>1
<1>3. /\ \A x \in Nat : x \notin R => Below(R, x + 1) = Below(R, x)
      /\ \A x, y \in Nat : x <= y /\ (\A j \in R : ~(x <= j /\ j < y)) => Below(R, x) = Below(R, y)
  BY BelowFacts
<1> HIDE DEF S
<1>4. Below(R, k) = Below(R, e)
  <2>1. k <= e /\ \A j \in R : ~(k <= j /\ j < e)
    BY <1>1
  <2> QED BY <1>1, <1>3, <2>1
<1>5. ASSUME NEW q \in Nat, q # h PROVE Below(R, Up(k, h, q)) = Below(S, q)
  <2>1. CASE k <= q /\ q < h
    <3>1. Up(k, h, q) = q + 1
      BY <2>1 DEF Up
    <3>2. CASE e <= q
      <4>1. Below(S, q) = Below(R, q + 1)
        BY <1>1, <1>2, <2>1, <3>2
      <4> QED BY <3>1, <4>1
    <3>3. CASE q < e
      <4>1. q \notin R
        BY <1>1, <2>1, <3>3
      <4>2. Below(S, q) = Below(R, q)
        BY <1>1, <1>2, <3>3
      <4> QED BY <1>3, <3>1, <4>1, <4>2
    <3> QED BY <1>1, <3>2, <3>3
  <2>2. CASE ~(k <= q /\ q < h)
    <3>1. Up(k, h, q) = q
      BY <2>2 DEF Up
    <3>2. ~(e <= q /\ q < h + 1)
      BY <1>1, <1>5, <2>2
    <3> QED BY <1>2, <3>1, <3>2
  <2> QED BY <2>1, <2>2
<1> QED BY <1>4, <1>5 DEF S

\* Out of a run that goes, closed from the right.
LEMMA UpRunGone ==
    ASSUME NEW R, \A y \in R : y \in Nat, NEW e \in R, NEW c, c = Below(R, e),
           NEW h \in Nat, e <= h, NEW V, \A q \in V : q \in Nat /\ q # h,
           \A q \in V : q < e => Below(R, q) < c
    PROVE  \A q \in V : RankMoves(ShiftRunendsLeft(R \ {e}, e + 1, h + 1), R, TRUE, c, q, Up(e, h, q))
<1> DEFINE Q == R \ {e}
           S == ShiftRunendsLeft(Q, e + 1, h + 1)
<1>1. e \in Nat /\ h + 1 \in Nat /\ e + 1 \in Nat /\ (\A y \in Q : y \in Nat)
  OBVIOUS
<1>2. \A x \in Nat : Below(S, x) = IF e + 1 <= x /\ x < h + 1 THEN Below(Q, x + 1) ELSE Below(Q, x)
  <2>1. \A u, v \in Nat : 1 <= u /\ u <= v /\ u - 1 \notin Q =>
           \A x \in Nat : Below(ShiftRunendsLeft(Q, u, v), x) =
               IF u <= x /\ x < v THEN Below(Q, x + 1) ELSE Below(Q, x)
    BY <1>1, ShiftedLeftBelow
  <2>2. PICK g \in Nat : g = e + 1
    BY <1>1
  <2>3. 1 <= g /\ g <= h + 1 /\ g - 1 \notin Q
    BY <1>1, <2>2
  <2>4. PICK w \in Nat : w = h + 1
    BY <1>1
  <2>5. \A x \in Nat : Below(ShiftRunendsLeft(Q, g, w), x) =
               IF g <= x /\ x < w THEN Below(Q, x + 1) ELSE Below(Q, x)
    BY <2>1, <2>3, <2>4
  <2> QED BY <2>2, <2>4, <2>5
<1>3. \A x \in Nat : Below(Q, x) = Below(R, x) - Bit(e < x)
  BY BelowRemoved
<1>4. /\ \A x \in Nat : Below(R, x) \in Nat
      /\ \A x \in Nat : x \in R => Below(R, x + 1) = Below(R, x) + 1
      /\ \A x, y \in Nat : x <= y => Below(R, x) <= Below(R, y)
  BY BelowFacts
<1>5. c \in Nat /\ Below(R, e + 1) = c + 1
  BY <1>1, <1>4
<1> HIDE DEF S, Q
<1>6. ASSUME NEW q \in V PROVE Below(R, Up(e, h, q)) = Below(S, q) + Bit(TRUE /\ c <= Below(S, q))
  <2>0. q \in Nat /\ q # h
    OBVIOUS
  <2>1. CASE q < e
    <3>1. Up(e, h, q) = q
      BY <1>1, <2>0, <2>1 DEF Up
    <3>2. Bit(e < q) = 0
      BY <1>1, <2>0, <2>1 DEF Bit
    <3>3. Below(Q, q) = Below(R, q)
      BY <1>3, <1>4, <2>0, <3>2
    <3>4. Below(S, q) = Below(R, q)
      BY <1>1, <1>2, <2>0, <2>1, <3>3
    <3>5. Below(S, q) < c
      BY <2>1, <3>4
    <3>6. Bit(TRUE /\ c <= Below(S, q)) = 0
      BY <1>4, <1>5, <2>0, <3>4, <3>5 DEF Bit
    <3> QED BY <1>4, <2>0, <3>1, <3>4, <3>6
  <2>2. CASE e <= q /\ q < h
    <3>1. Up(e, h, q) = q + 1 /\ q + 1 \in Nat
      BY <1>1, <2>0, <2>2 DEF Up
    <3>2. Below(S, q) = Below(R, q + 1) - 1
      <4>1. CASE q = e
        <5>1. Below(S, q) = Below(Q, q)
          BY <1>1, <1>2, <4>1
        <5>2. Bit(e < q) = 0
          BY <1>1, <4>1 DEF Bit
        <5>3. Below(Q, q) = c
          BY <1>3, <1>5, <2>0, <4>1, <5>2
        <5> QED BY <1>5, <4>1, <5>1, <5>3
      <4>2. CASE e < q
        <5>1. Below(S, q) = Below(Q, q + 1)
          BY <1>1, <1>2, <2>0, <2>2, <4>2
        <5>2. Bit(e < q + 1) = 1
          BY <1>1, <2>0, <4>2 DEF Bit
        <5>3. Below(Q, q + 1) = Below(R, q + 1) - Bit(e < q + 1)
          BY <1>3, <3>1
        <5> QED BY <5>1, <5>2, <5>3
      <4> QED BY <1>1, <2>0, <2>2, <4>1, <4>2
    <3>3. Below(R, e + 1) <= Below(R, q + 1)
      BY <1>1, <1>4, <2>0, <2>2, <3>1
    <3>4. Below(R, q + 1) \in Nat
      BY <1>4, <3>1
    <3>5. c <= Below(S, q)
      BY <1>5, <3>2, <3>3, <3>4
    <3>6. Bit(TRUE /\ c <= Below(S, q)) = 1
      BY <3>5 DEF Bit
    <3> QED BY <3>1, <3>2, <3>4, <3>6
  <2>3. CASE h < q
    <3>1. Up(e, h, q) = q /\ e < q
      BY <1>1, <2>0, <2>3 DEF Up
    <3>2. Bit(e < q) = 1
      BY <3>1 DEF Bit
    <3>3. Below(S, q) = Below(R, q) - 1
      <4>1. ~(q < h + 1)
        BY <2>0, <2>3
      <4>2. Below(S, q) = Below(Q, q)
        BY <1>2, <2>0, <4>1
      <4>3. Below(Q, q) = Below(R, q) - Bit(e < q)
        BY <1>3, <2>0
      <4> QED BY <3>2, <4>2, <4>3
    <3>4. Below(R, e + 1) <= Below(R, q)
      <4>1. e + 1 <= q
        BY <1>1, <2>0, <3>1
      <4> QED BY <1>1, <1>4, <2>0, <4>1
    <3>5. c <= Below(S, q)
      BY <1>4, <1>5, <2>0, <3>3, <3>4
    <3>6. Bit(TRUE /\ c <= Below(S, q)) = 1
      BY <3>5 DEF Bit
    <3> QED BY <1>4, <2>0, <3>1, <3>3, <3>6
  <2> QED BY <1>1, <2>0, <2>1, <2>2, <2>3
<1> QED BY <1>6 DEF S, Q, RankMoves

\* Out of a run that lasts, closed from the left.
LEMMA DownRunShrunk ==
    ASSUME NEW R, \A y \in R : y \in Nat, NEW rs \in Nat, NEW e \in R, rs < e,
           \A y \in rs..(e - 1) : y \notin R, NEW k \in rs..e, NEW L \in 0..rs
    PROVE  \A q \in Nat : q # L => Below(R, Down(L, k, q)) = Below(ShiftRunendsRight(R, L, rs), q)
<1> DEFINE S == ShiftRunendsRight(R, L, rs)
<1>1. e \in Nat /\ k \in Nat /\ L \in Nat /\ L <= rs /\ rs \notin R
  OBVIOUS
<1>2. \A x \in Nat : Below(S, x) =
         IF x <= L THEN Below(R, x)
         ELSE IF x <= rs + 1 THEN Below(R, x - 1)
         ELSE Below(R, x) - Bit(rs \in R)
  <2>1. \A l, r \in Nat : l <= r => \A x \in Nat : Below(ShiftRunendsRight(R, l, r), x) =
         IF x <= l THEN Below(R, x)
         ELSE IF x <= r + 1 THEN Below(R, x - 1)
         ELSE Below(R, x) - Bit(r \in R)
    BY BelowShiftedRight
  <2> QED BY <1>1, <2>1
<1>3. /\ \A x \in Nat : x \notin R => Below(R, x + 1) = Below(R, x)
      /\ \A x \in Nat : Below(R, x) \in Nat
  BY BelowFacts
<1>4. Bit(rs \in R) = 0
  BY <1>1 DEF Bit
<1> HIDE DEF S
<1>5. ASSUME NEW q \in Nat, q # L PROVE Below(R, Down(L, k, q)) = Below(S, q)
  <2>1. CASE q < L
    <3>1. Down(L, k, q) = q
      BY <1>1, <2>1 DEF Down
    <3> QED BY <1>1, <1>2, <2>1, <3>1
  <2>2. CASE L < q /\ q <= k
    <3>1. Down(L, k, q) = q - 1 /\ q - 1 \in Nat
      BY <1>1, <2>2 DEF Down
    <3>2. CASE q <= rs + 1
      BY <1>1, <1>2, <2>2, <3>1, <3>2
    <3>3. CASE rs + 1 < q
      <4>1. Below(S, q) = Below(R, q) - Bit(rs \in R)
        BY <1>1, <1>2, <2>2, <3>3
      <4>2. q - 1 \notin R
        BY <1>1, <2>2, <3>3
      <4>3. Below(R, (q - 1) + 1) = Below(R, q - 1)
        BY <1>3, <3>1, <4>2
      <4>4. (q - 1) + 1 = q
        OBVIOUS
      <4> QED BY <1>3, <1>4, <3>1, <4>1, <4>3, <4>4
    <3> QED BY <1>1, <3>2, <3>3
  <2>3. CASE L < q /\ k < q
    <3>1. Down(L, k, q) = q
      BY <1>1, <2>3 DEF Down
    <3>2. CASE q = rs + 1
      <4>1. Below(S, q) = Below(R, q - 1)
        BY <1>1, <1>2, <2>3, <3>2
      <4>2. q - 1 = rs
        BY <3>2
      <4> QED BY <1>1, <1>3, <3>1, <3>2, <4>1, <4>2
    <3>3. CASE rs + 1 < q
      <4>1. Below(S, q) = Below(R, q) - Bit(rs \in R)
        BY <1>1, <1>2, <2>3, <3>3
      <4> QED BY <1>3, <1>4, <3>1, <4>1
    <3> QED BY <1>1, <2>3, <3>2, <3>3
  <2> QED BY <1>1, <1>5, <2>1, <2>2, <2>3
<1> QED BY <1>5 DEF S

\* Out of a run that goes, closed from the left.
LEMMA DownRunGone ==
    ASSUME NEW R, \A y \in R : y \in Nat, NEW e \in R, NEW c, c = Below(R, e),
           NEW L \in 0..e, NEW V, \A q \in V : q \in Nat /\ q # L,
           \A q \in V : /\ q < L => Below(R, q) < c
                        /\ L < q /\ q <= e => Below(R, q - 1) < c
    PROVE  \A q \in V : RankMoves(ShiftRunendsRight(R, L, e), R, TRUE, c, q, Down(L, e, q))
<1> DEFINE S == ShiftRunendsRight(R, L, e)
<1>1. e \in Nat /\ L \in Nat /\ L <= e /\ e + 1 \in Nat
  OBVIOUS
<1>2. \A x \in Nat : Below(S, x) =
         IF x <= L THEN Below(R, x)
         ELSE IF x <= e + 1 THEN Below(R, x - 1)
         ELSE Below(R, x) - Bit(e \in R)
  <2>1. \A l, r \in Nat : l <= r => \A x \in Nat : Below(ShiftRunendsRight(R, l, r), x) =
         IF x <= l THEN Below(R, x)
         ELSE IF x <= r + 1 THEN Below(R, x - 1)
         ELSE Below(R, x) - Bit(r \in R)
    BY BelowShiftedRight
  <2> QED BY <1>1, <2>1
<1>4. /\ \A x \in Nat : Below(R, x) \in Nat
      /\ \A x \in Nat : x \in R => Below(R, x + 1) = Below(R, x) + 1
      /\ \A x, y \in Nat : x <= y => Below(R, x) <= Below(R, y)
  BY BelowFacts
<1>5. c \in Nat /\ Below(R, e + 1) = c + 1
  BY <1>1, <1>4
<1>6. Bit(e \in R) = 1
  BY DEF Bit
<1> HIDE DEF S
<1>7. ASSUME NEW q \in V PROVE Below(R, Down(L, e, q)) = Below(S, q) + Bit(TRUE /\ c <= Below(S, q))
  <2>0. q \in Nat /\ q # L
    OBVIOUS
  <2>1. CASE q < L
    <3>1. Down(L, e, q) = q
      BY <1>1, <2>0, <2>1 DEF Down
    <3>2. Below(S, q) = Below(R, q)
      BY <1>1, <1>2, <2>0, <2>1
    <3>3. Below(R, q) < c
      BY <2>1
    <3>4. Bit(TRUE /\ c <= Below(S, q)) = 0
      BY <1>4, <1>5, <2>0, <3>2, <3>3 DEF Bit
    <3> QED BY <1>4, <2>0, <3>1, <3>2, <3>4
  <2>2. CASE L < q /\ q <= e
    <3>1. Down(L, e, q) = q - 1 /\ q - 1 \in Nat
      BY <1>1, <2>0, <2>2 DEF Down
    <3>2. Below(S, q) = Below(R, q - 1)
      BY <1>1, <1>2, <2>0, <2>2
    <3>3. Below(R, q - 1) < c
      BY <2>2
    <3>4. Bit(TRUE /\ c <= Below(S, q)) = 0
      BY <1>4, <1>5, <3>1, <3>2, <3>3 DEF Bit
    <3> QED BY <1>4, <3>1, <3>2, <3>4
  <2>3. CASE e < q
    <3>1. Down(L, e, q) = q
      BY <1>1, <2>0, <2>3 DEF Down
    <3>2. Below(S, q) = Below(R, q) - 1
      <4>1. CASE q = e + 1
        <5>1. Below(S, q) = Below(R, q - 1)
          BY <1>1, <1>2, <2>0, <4>1
        <5>2. q - 1 = e
          BY <1>1, <4>1
        <5> QED BY <1>5, <4>1, <5>1, <5>2
      <4>2. CASE e + 1 < q
        BY <1>1, <1>2, <1>6, <2>0, <4>2
      <4> QED BY <1>1, <2>0, <2>3, <4>1, <4>2
    <3>3. Below(R, e + 1) <= Below(R, q)
      <4>1. e + 1 <= q
        BY <1>1, <2>0, <2>3
      <4> QED BY <1>1, <1>4, <2>0, <4>1
    <3>4. c <= Below(S, q)
      BY <1>4, <1>5, <2>0, <3>2, <3>3
    <3>5. Bit(TRUE /\ c <= Below(S, q)) = 1
      BY <3>4 DEF Bit
    <3> QED BY <1>4, <2>0, <3>1, <3>2, <3>5
  <2> QED BY <1>1, <2>0, <2>1, <2>2, <2>3
<1> QED BY <1>7 DEF S, RankMoves
=============================================================================
