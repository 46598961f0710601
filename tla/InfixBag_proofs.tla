--------------------------- MODULE InfixBag_proofs ---------------------------
(* An infix store is a bag of infixes, for every target size, every table of  *)
(* grades and every set of starting lists its assumptions allow: insertions,  *)
(* deletions, resizes and shrinks implement InfixBag, and point and range     *)
(* queries answer by what the bag holds.  The runs stay in order (Sorted): a  *)
(* deletion takes the last match for the longest, and a range query looks at  *)
(* the first slot of a run alone.                                             *)
EXTENDS InfixStore_proofs

-----------------------------------------------------------------------------
(* One store with one infix more than another.                               *)

\* The used slots U of the slots S lie, in order and with their contents, among
\* the used slots V of the slots T, by f; T has one more, x at r.
Spaced(U, S, V, T, x, r, f) ==
    /\ r \in V /\ T[r] = x
    /\ f \in [U -> V]
    /\ \A p \in U : f[p] # r /\ T[f[p]] = S[p]
    /\ \A p, q \in U : p < q => f[p] < f[q]
    /\ \A q \in V : q = r \/ \E p \in U : q = f[p]

\* The slots in use among the first z.
InUse(z, S) == {p \in 0..(z - 1) : S[p] # 0}

\* What writing x at r makes of the slots when those from r to before b move.
WrittenUp(z, S, T, x, r, b) ==
    /\ \A p \in 0..(z - 1) : T[p] = IF p = r THEN x
                                    ELSE IF r < p /\ p <= b THEN S[p - 1] ELSE S[p]
    /\ S[b] = 0 /\ \A p \in r..(b - 1) : S[p] # 0

\* The same when those behind a up to r move.
WrittenDown(z, S, T, x, r, a) ==
    /\ \A p \in 0..(z - 1) : T[p] = IF p = r THEN x
                                    ELSE IF a <= p /\ p < r THEN S[p + 1] ELSE S[p]
    /\ S[a] = 0 /\ \A p \in (a + 1)..r : S[p] # 0

\* Written at r with the slots from r to before b moved up, x is the one more in use.
LEMMA SpacedUp ==
    ASSUME NEW z \in Nat, NEW S, NEW T, NEW x, x # 0, NEW r \in Nat, NEW b \in Nat, r <= b, b < z,
           WrittenUp(z, S, T, x, r, b), NEW U, U = InUse(z, S)
    PROVE  /\ Spaced(U, S, InUse(z, T), T, x, r, [p \in U |-> Up(r, b, p)])
           /\ b \notin U
<1> DEFINE V == InUse(z, T)
           f == [p \in U |-> Up(r, b, p)]
<1>1. \A p \in 0..(z - 1) : T[p] = IF p = r THEN x
                                   ELSE IF r < p /\ p <= b THEN S[p - 1] ELSE S[p]
  BY DEF WrittenUp
<1>2. S[b] = 0 /\ \A p \in r..(b - 1) : S[p] # 0
  BY DEF WrittenUp
<1>3. \A p \in U : p \in 0..(z - 1) /\ S[p] # 0 /\ p # b
  BY <1>2 DEF InUse
<1>4. \A p \in 0..(z - 1) : S[p] # 0 => p \in U
  BY DEF InUse
<1>5. \A p \in V : p \in 0..(z - 1) /\ T[p] # 0
  BY DEF InUse
<1>6. \A p \in 0..(z - 1) : T[p] # 0 => p \in V
  BY DEF InUse
<1>7. r \in V /\ T[r] = x
  <2>1. r \in 0..(z - 1)
    OBVIOUS
  <2>2. T[r] = x
    BY <1>1, <2>1
  <2> QED BY <1>6, <2>1, <2>2
<1> HIDE DEF V
<1>8. ASSUME NEW p \in U PROVE Up(r, b, p) \in V /\ Up(r, b, p) # r /\ T[Up(r, b, p)] = S[p]
  <2>1. p \in 0..(z - 1) /\ S[p] # 0 /\ p # b
    BY <1>3
  <2>2. CASE r <= p /\ p < b
    <3>1. Up(r, b, p) = p + 1
      BY <2>2 DEF Up
    <3>2. p + 1 \in 0..(z - 1) /\ r < p + 1 /\ p + 1 <= b /\ (p + 1) - 1 = p /\ p + 1 # r
      BY <2>1, <2>2
    <3>3. T[p + 1] = S[p]
      BY <1>1, <3>2
    <3> QED BY <1>6, <2>1, <3>1, <3>2, <3>3
  <2>3. CASE ~(r <= p /\ p < b)
    <3>1. Up(r, b, p) = p
      BY <2>3 DEF Up
    <3>2. p # r /\ ~(r < p /\ p <= b)
      BY <2>1, <2>3
    <3>3. T[p] = S[p]
      BY <1>1, <2>1, <3>2
    <3> QED BY <1>6, <2>1, <3>1, <3>2, <3>3
  <2> QED BY <2>2, <2>3
<1>9. \A p, q \in U : p < q => Up(r, b, p) < Up(r, b, q)
  <2>1. TAKE p, q \in U
  <2>2. p \in 0..(z - 1) /\ q \in 0..(z - 1) /\ p # b /\ q # b
    BY <1>3
  <2> QED BY <2>2 DEF Up
<1>10. ASSUME NEW q \in V, q # r PROVE \E p \in U : q = Up(r, b, p)
  <2>1. q \in 0..(z - 1) /\ T[q] # 0
    BY <1>5
  <2>2. CASE r < q /\ q <= b
    <3>1. q - 1 \in r..(b - 1) /\ q - 1 \in 0..(z - 1) /\ (q - 1) + 1 = q
      BY <2>1, <2>2
    <3>2. q - 1 \in U
      BY <1>2, <1>4, <3>1
    <3>3. Up(r, b, q - 1) = q
      BY <3>1 DEF Up
    <3> QED BY <3>2, <3>3
  <2>3. CASE ~(r < q /\ q <= b)
    <3>1. T[q] = S[q]
      BY <1>1, <1>10, <2>1, <2>3
    <3>2. q \in U
      BY <1>4, <2>1, <3>1
    <3>3. Up(r, b, q) = q
      BY <1>10, <2>1, <2>3 DEF Up
    <3> QED BY <3>2, <3>3
  <2> QED BY <2>2, <2>3
<1>11. f \in [U -> V] /\ \A p \in U : f[p] = Up(r, b, p)
  BY <1>8
<1> HIDE DEF f
<1>12. Spaced(U, S, V, T, x, r, f)
  BY <1>7, <1>8, <1>9, <1>10, <1>11 DEF Spaced
<1> QED BY <1>3, <1>12 DEF f, V

\* The same with the slots behind a up to r moved down.
LEMMA SpacedDown ==
    ASSUME NEW z \in Nat, NEW S, NEW T, NEW x, x # 0, NEW r \in Nat, NEW a \in Nat, a <= r, r < z,
           WrittenDown(z, S, T, x, r, a), NEW U, U = InUse(z, S)
    PROVE  /\ Spaced(U, S, InUse(z, T), T, x, r, [p \in U |-> Down(a, r, p)])
           /\ a \notin U
<1> DEFINE V == InUse(z, T)
           f == [p \in U |-> Down(a, r, p)]
<1>1. \A p \in 0..(z - 1) : T[p] = IF p = r THEN x
                                   ELSE IF a <= p /\ p < r THEN S[p + 1] ELSE S[p]
  BY DEF WrittenDown
<1>2. S[a] = 0 /\ \A p \in (a + 1)..r : S[p] # 0
  BY DEF WrittenDown
<1>3. \A p \in U : p \in 0..(z - 1) /\ S[p] # 0 /\ p # a
  BY <1>2 DEF InUse
<1>4. \A p \in 0..(z - 1) : S[p] # 0 => p \in U
  BY DEF InUse
<1>5. \A p \in V : p \in 0..(z - 1) /\ T[p] # 0
  BY DEF InUse
<1>6. \A p \in 0..(z - 1) : T[p] # 0 => p \in V
  BY DEF InUse
<1>7. r \in V /\ T[r] = x
  <2>1. r \in 0..(z - 1)
    OBVIOUS
  <2>2. T[r] = x
    BY <1>1, <2>1
  <2> QED BY <1>6, <2>1, <2>2
<1> HIDE DEF V
<1>8. ASSUME NEW p \in U PROVE Down(a, r, p) \in V /\ Down(a, r, p) # r /\ T[Down(a, r, p)] = S[p]
  <2>1. p \in 0..(z - 1) /\ S[p] # 0 /\ p # a
    BY <1>3
  <2>2. CASE a < p /\ p <= r
    <3>1. Down(a, r, p) = p - 1
      BY <2>2 DEF Down
    <3>2. p - 1 \in 0..(z - 1) /\ a <= p - 1 /\ p - 1 < r /\ (p - 1) + 1 = p /\ p - 1 # r
      BY <2>1, <2>2
    <3>3. T[p - 1] = S[p]
      BY <1>1, <3>2
    <3> QED BY <1>6, <2>1, <3>1, <3>2, <3>3
  <2>3. CASE ~(a < p /\ p <= r)
    <3>1. Down(a, r, p) = p
      BY <2>3 DEF Down
    <3>2. p # r /\ ~(a <= p /\ p < r)
      BY <2>1, <2>3
    <3>3. T[p] = S[p]
      BY <1>1, <2>1, <3>2
    <3> QED BY <1>6, <2>1, <3>1, <3>2, <3>3
  <2> QED BY <2>2, <2>3
<1>9. \A p, q \in U : p < q => Down(a, r, p) < Down(a, r, q)
  <2>1. TAKE p, q \in U
  <2>2. p \in 0..(z - 1) /\ q \in 0..(z - 1) /\ p # a /\ q # a
    BY <1>3
  <2> QED BY <2>2 DEF Down
<1>10. ASSUME NEW q \in V, q # r PROVE \E p \in U : q = Down(a, r, p)
  <2>1. q \in 0..(z - 1) /\ T[q] # 0
    BY <1>5
  <2>2. CASE a <= q /\ q < r
    <3>1. q + 1 \in (a + 1)..r /\ q + 1 \in 0..(z - 1) /\ (q + 1) - 1 = q
      BY <2>1, <2>2
    <3>2. q + 1 \in U
      BY <1>2, <1>4, <3>1
    <3>3. Down(a, r, q + 1) = q
      BY <3>1 DEF Down
    <3> QED BY <3>2, <3>3
  <2>3. CASE ~(a <= q /\ q < r)
    <3>1. T[q] = S[q]
      BY <1>1, <1>10, <2>1, <2>3
    <3>2. q \in U
      BY <1>4, <2>1, <3>1
    <3>3. Down(a, r, q) = q
      BY <1>10, <2>1, <2>3 DEF Down
    <3> QED BY <3>2, <3>3
  <2> QED BY <2>2, <2>3
<1>11. f \in [U -> V] /\ \A p \in U : f[p] = Down(a, r, p)
  BY <1>8
<1> HIDE DEF f
<1>12. Spaced(U, S, V, T, x, r, f)
  BY <1>7, <1>8, <1>9, <1>10, <1>11 DEF Spaced
<1> QED BY <1>3, <1>12 DEF f, V

-----------------------------------------------------------------------------
\* The used slot p lies in the run of the part o.
InRun(s, p, o) == o \in s.occupieds /\ Below(s.occupieds, o) = Below(s.runends, p)

\* Every used slot lies in the run of some part.
Ranked(s) ==
    /\ TargetSize \in Nat
    /\ \A o \in s.occupieds : o \in Nat /\ o < TargetSize
    /\ \A e \in s.runends : e \in Nat
    /\ \A p \in UsedSlots(s) : p \in Nat /\ \E o \in s.occupieds : InRun(s, p, o)

\* It is so in a store in shape.
LEMMA GoodRanked == ASSUME NEW s, NEW size, Good(s, size) PROVE Ranked(s)
<1>1. /\ \A o \in s.occupieds : o \in Nat /\ o < TargetSize
      /\ \A e \in s.runends : e \in Nat
      /\ \A p \in UsedSlots(s) : p \in Nat
      /\ Table(Size(s), Mapping(s.size_grade))
  BY GoodFacts
<1>2. \A p \in UsedSlots(s) : \E o \in s.occupieds : InRun(s, p, o)
  <2>1. TAKE p \in UsedSlots(s)
  <2>2. InRun(s, p, OccupiedOf(s, p)) /\ OccupiedOf(s, p) \in s.occupieds
    BY OccupiedOfIs DEF InRun
  <2> QED BY <2>2
<1>3. TargetSize \in Nat
  BY <1>1 DEF Table
<1> QED BY <1>1, <1>2, <1>3 DEF Ranked

\* ... and GetInfixList reads off that part.
LEMMA InRunIs ==
    ASSUME NEW s, Ranked(s), NEW p, NEW o, InRun(s, p, o)
    PROVE  OccupiedOf(s, p) = o
<1>1. /\ TargetSize \in Nat
      /\ \A y \in s.occupieds : y \in Nat
      /\ \A y \in s.occupieds : y < TargetSize
  BY DEF Ranked
<1>2. o \in s.occupieds /\ Below(s.occupieds, o) = Below(s.runends, p)
  BY DEF InRun
<1>3. KthOf(s.occupieds, Below(s.occupieds, o), TargetSize) = o
  BY <1>1, <1>2, KthIs
<1> QED BY <1>2, <1>3 DEF OccupiedOf, Below

\* A run after the new one counts one occupied part more.
LEMMA SamePart ==
    ASSUME NEW O, \A y \in O : y \in Nat, NEW i \in Nat, NEW a \in Nat, NEW b,
           b = a + Bit(i \notin O /\ Below(O, i) <= a),
           NEW o \in O \cup {i}, Below(O \cup {i}, o) = b
    PROVE  o \in O /\ Below(O, o) = a
<1>1. /\ \A x \in Nat : Below(O, x) \in Nat
      /\ \A x, y \in Nat : x <= y => Below(O, x) <= Below(O, y)
      /\ \A x \in Nat : x \in O => Below(O, x + 1) = Below(O, x) + 1
  BY BelowFacts
<1>2. CASE i \in O
  <2>1. O \cup {i} = O
    BY <1>2
  <2>2. Bit(i \notin O /\ Below(O, i) <= a) = 0
    BY <1>2 DEF Bit
  <2>3. Below(O, o) = b /\ o \in O
    BY <2>1
  <2>4. b = a
    BY <2>2
  <2> QED BY <2>3, <2>4
<1>3. CASE i \notin O
  <2>1. Below(O \cup {i}, o) = Below(O, o) + Bit(i < o)
    <3>1. o \in Nat
      OBVIOUS
    <3> QED BY <1>3, <3>1, BelowAdded
  <2>2. o \in Nat /\ Below(O, o) \in Nat /\ Below(O, i) \in Nat
    BY <1>1
  <2>3. CASE Below(O, i) <= a
    <3>1. Bit(i \notin O /\ Below(O, i) <= a) = 1
      BY <1>3, <2>3 DEF Bit
    <3>2. CASE i < o
      <4>1. Bit(i < o) = 1
        BY <3>2 DEF Bit
      <4> QED BY <2>1, <2>2, <3>1, <3>2, <4>1
    <3>3. CASE ~(i < o)
      <4>1. Bit(i < o) = 0
        BY <3>3 DEF Bit
      <4>2. Below(O, o) <= Below(O, i)
        BY <1>1, <2>2, <3>3
      <4> QED BY <2>1, <2>2, <2>3, <3>1, <4>1, <4>2
    <3> QED BY <3>2, <3>3
  <2>4. CASE ~(Below(O, i) <= a)
    <3>1. Bit(i \notin O /\ Below(O, i) <= a) = 0
      BY <2>4 DEF Bit
    <3>2. CASE i < o
      <4>1. Bit(i < o) = 1
        BY <3>2 DEF Bit
      <4>2. Below(O, i) <= Below(O, o)
        BY <1>1, <2>2, <3>2
      <4> QED BY <2>1, <2>2, <2>4, <3>1, <4>1, <4>2
    <3>3. CASE i = o
      <4>1. Bit(i < o) = 0
        BY <3>3 DEF Bit
      <4> QED BY <2>1, <2>2, <2>4, <3>1, <3>3, <4>1
    <3>4. CASE o < i
      <4>1. Bit(i < o) = 0
        BY <2>2, <3>4 DEF Bit
      <4> QED BY <2>1, <2>2, <3>1, <3>4, <4>1
    <3> QED BY <2>2, <3>2, <3>3, <3>4
  <2> QED BY <2>3, <2>4
<1> QED BY <1>2, <1>3

\* t holds the infixes of s, in order and in the runs they were in, and one more:
\* x in the run of i, at r.
Grows(s, t, i, x, r, f) ==
    /\ Spaced(UsedSlots(s), s.slots, UsedSlots(t), t.slots, x, r, f)
    /\ OccupiedOf(t, r) = i
    /\ \A p \in UsedSlots(s) : OccupiedOf(t, f[p]) = OccupiedOf(s, p)

\* ... when the ranks of the slots move with them.
LEMMA GrowsBy ==
    ASSUME NEW s, NEW t, NEW i, NEW c, NEW x, NEW r, NEW f,
           Ranked(t), i \in Nat, c = Below(s.occupieds, i),
           \A o \in s.occupieds : o \in t.occupieds,
           t.occupieds = s.occupieds \cup {i},
           \A e \in s.runends : e \in Nat, \A p \in UsedSlots(s) : p \in Nat,
           Spaced(UsedSlots(s), s.slots, UsedSlots(t), t.slots, x, r, f),
           Below(t.runends, r) = c,
           \A p \in UsedSlots(s) : RankMoves(s.runends, t.runends, i \notin s.occupieds, c, p, f[p])
    PROVE  Grows(s, t, i, x, r, f) /\ Ranked(s)
<1> DEFINE O == s.occupieds
           Q == t.occupieds
<1>1. /\ TargetSize \in Nat
      /\ \A o \in Q : o \in Nat /\ o < TargetSize
      /\ \A p \in UsedSlots(t) : \E o \in Q : InRun(t, p, o)
  BY DEF Ranked
<1>2. \A o \in O : o \in Nat /\ o < TargetSize
  BY <1>1
<1>3. f \in [UsedSlots(s) -> UsedSlots(t)] /\ r \in UsedSlots(t)
  BY DEF Spaced
<1>4. \A x1 \in Nat : Below(s.runends, x1) \in Nat
  BY BelowFacts
<1>5. ASSUME NEW p \in UsedSlots(s)
      PROVE  \E o \in O : InRun(s, p, o) /\ InRun(t, f[p], o)
  <2>1. f[p] \in UsedSlots(t)
    BY <1>3
  <2>2. PICK o \in Q : InRun(t, f[p], o)
    BY <1>1, <2>1
  <2>3. PICK a \in Nat : a = Below(s.runends, p)
    BY <1>4
  <2>4. PICK b : b = Below(t.runends, f[p])
    OBVIOUS
  <2>5. b = a + Bit(i \notin O /\ Below(O, i) <= a)
    BY <2>3, <2>4 DEF RankMoves
  <2>6. o \in O \cup {i} /\ Below(O \cup {i}, o) = b
    BY <2>2, <2>4 DEF InRun
  <2>7. \A y \in O : y \in Nat
    BY <1>2
  <2> HIDE DEF O
  <2>8. o \in O /\ Below(O, o) = a
    BY <2>5, <2>6, <2>7, SamePart
  <2> QED BY <2>2, <2>3, <2>8 DEF InRun, O
<1>6. InRun(t, r, i)
  <2>1. Below(O \cup {i}, i) = Below(O, i)
    <3>1. CASE i \in O
      <4>1. O \cup {i} = O
        BY <3>1
      <4> QED BY <4>1
    <3>2. CASE i \notin O
      <4>1. \A y \in O : y \in Nat
        BY <1>2
      <4>2. Below(O \cup {i}, i) = Below(O, i) + Bit(i < i)
        BY <3>2, <4>1, BelowAdded
      <4>3. Bit(i < i) = 0
        BY DEF Bit
      <4>4. Below(O, i) \in Nat
        BY <4>1, BelowFacts
      <4> QED BY <4>2, <4>3, <4>4
    <3> QED BY <3>1, <3>2
  <2> QED BY <2>1 DEF InRun
<1>7. Ranked(s)
  <2>1. \A p \in UsedSlots(s) : \E o \in O : InRun(s, p, o)
    BY <1>5
  <2> QED BY <1>1, <1>2, <2>1 DEF Ranked
<1>8. OccupiedOf(t, r) = i
  BY <1>6, InRunIs
<1>9. \A p \in UsedSlots(s) : OccupiedOf(t, f[p]) = OccupiedOf(s, p)
  <2>1. TAKE p \in UsedSlots(s)
  <2>2. PICK o \in O : InRun(s, p, o) /\ InRun(t, f[p], o)
    BY <1>5
  <2>3. OccupiedOf(s, p) = o
    BY <1>7, <2>2, InRunIs
  <2>4. OccupiedOf(t, f[p]) = o
    BY <2>2, InRunIs
  <2> QED BY <2>3, <2>4
<1> QED BY <1>7, <1>8, <1>9 DEF Grows

-----------------------------------------------------------------------------
(* The bag of a store.                                                       *)

\* The infix in the used slot p, and how often the store holds v.
Item(s, size, p) == OccupiedOf(s, p) * 2^size + s.slots[p]

\* The slots that hold an infix.
Copies(s, size, v) == {p \in UsedSlots(s) : Item(s, size, p) = v}

\* The bag of the infixes of a store.
BagOf(s, size) == ToBag(GetInfixList(s, size))

\* Its slots lie within its size.
Bounded(s) == Size(s) \in Nat

\* So there are finitely many slots in use.
LEMMA UsedBounded ==
    ASSUME NEW s, Bounded(s)
    PROVE  /\ \A p \in UsedSlots(s) : p \in Nat /\ p < Size(s)
           /\ IsFiniteSet(UsedSlots(s))
<1>1. \A p \in UsedSlots(s) : p \in 0..(Size(s) - 1)
  BY DEF UsedSlots, Positions
<1>2. Size(s) \in Nat
  BY DEF Bounded
<1>3. IsFiniteSet(UsedSlots(s))
  BY <1>2, UsedFinite
<1> QED BY <1>1, <1>2, <1>3

\* The list holds the infixes of the used slots in order.
LEMMA ListIs ==
    ASSUME NEW s, Bounded(s), NEW size, NEW used, used = Ascending(UsedSlots(s))
    PROVE  /\ Cardinality(UsedSlots(s)) \in Nat
           /\ DOMAIN used = 1..Cardinality(UsedSlots(s))
           /\ GetInfixList(s, size) = [j \in DOMAIN used |-> Item(s, size, used[j])]
           /\ \A j \in DOMAIN used : used[j] \in UsedSlots(s)
           /\ \A j, k \in DOMAIN used : used[j] = used[k] => j = k
           /\ \A p \in UsedSlots(s) : \E j \in DOMAIN used : used[j] = p
<1> DEFINE U == UsedSlots(s)
           n == Cardinality(U)
<1>1. \A p \in U : p \in Nat /\ p < Size(s)
  BY UsedBounded
<1>2. Size(s) \in Nat
  BY DEF Bounded
<1>3. IsFiniteSet(U)
  BY UsedBounded
<1> HIDE DEF U
<1>4. /\ n \in Nat /\ DOMAIN used = 1..n
      /\ \A j \in 1..n : used[j] \in U
      /\ \A p \in U : \E j \in 1..n : used[j] = p
  BY <1>1, <1>2, AscendingIs DEF U
<1>5. GetInfixList(s, size) = [j \in DOMAIN used |-> Item(s, size, used[j])]
  BY DEF GetInfixList, Item
<1>6. \A j, k \in 1..n : used[j] = used[k] => j = k
  <2>1. used \in Surjection(1..n, U)
    <3>1. used \in [1..n -> U]
      <4>1. used = [j \in 1..n |-> used[j]]
        BY <1>4 DEF Ascending
      <4> QED BY <1>4, <4>1
    <3> QED BY <1>4, <3>1 DEF Surjection
  <2>2. IsFiniteSet(1..n) /\ Cardinality(1..n) = n
    BY <1>4, FS_Interval
  <2>3. used \in Injection(1..n, U)
    BY <1>3, <2>1, <2>2, FS_SurjSameCardinalityImpliesInj
  <2> QED BY <2>3 DEF Injection, IsInjective
<1> QED BY <1>4, <1>5, <1>6 DEF U

\* Two sets in one-to-one correspondence are of one size.
LEMMA SameCardinality ==
    ASSUME NEW A, NEW B, NEW f, f \in [A -> B], IsFiniteSet(A),
           \A p, q \in A : f[p] = f[q] => p = q, \A y \in B : \E p \in A : f[p] = y
    PROVE  IsFiniteSet(B) /\ Cardinality(B) = Cardinality(A)
<1>1. f \in Surjection(A, B)
  BY DEF Surjection
<1>2. f \in Injection(A, B)
  BY DEF Injection, IsInjective
<1>3. IsFiniteSet(B) /\ (Cardinality(B) = Cardinality(A) <=> f \in Injection(A, B))
  BY <1>1, FS_Surjection
<1> QED BY <1>2, <1>3

\* The copies of an infix can be counted; there is one when some slot holds it.
LEMMA CopiesFinite ==
    ASSUME NEW s, Bounded(s), NEW size, NEW v
    PROVE  /\ IsFiniteSet(Copies(s, size, v))
           /\ Cardinality(Copies(s, size, v)) \in Nat
           /\ Cardinality(Copies(s, size, v)) > 0 <=> \E p \in UsedSlots(s) : Item(s, size, p) = v
<1>1. IsFiniteSet(UsedSlots(s))
  BY UsedBounded
<1>2. Copies(s, size, v) \subseteq UsedSlots(s)
  BY DEF Copies
<1>3. IsFiniteSet(Copies(s, size, v))
  BY <1>1, <1>2, FS_Subset
<1>4. Cardinality(Copies(s, size, v)) \in Nat
  BY <1>3, FS_CardinalityType
<1>5. Cardinality(Copies(s, size, v)) = 0 <=> Copies(s, size, v) = {}
  BY <1>3, FS_EmptySet
<1>6. Copies(s, size, v) = {} <=> ~\E p \in UsedSlots(s) : Item(s, size, p) = v
  BY DEF Copies
<1> QED BY <1>3, <1>4, <1>5, <1>6

\* The bag counts the used slots with an infix.
LEMMA BagIs ==
    ASSUME NEW s, Bounded(s), NEW size, NEW B, B = BagOf(s, size)
    PROVE  /\ B = [v \in DOMAIN B |-> Cardinality(Copies(s, size, v))]
           /\ \A v : v \in DOMAIN B <=> \E p \in UsedSlots(s) : Item(s, size, p) = v
<1> DEFINE U == UsedSlots(s)
           list == GetInfixList(s, size)
<1>1. PICK used : used = Ascending(U)
  OBVIOUS
<1>2. /\ list = [j \in DOMAIN used |-> Item(s, size, used[j])]
      /\ \A j \in DOMAIN used : used[j] \in U
      /\ \A j, k \in DOMAIN used : used[j] = used[k] => j = k
      /\ \A p \in U : \E j \in DOMAIN used : used[j] = p
      /\ DOMAIN used = 1..Cardinality(U) /\ Cardinality(U) \in Nat
  BY <1>1, ListIs
<1> HIDE DEF U, list
<1>3. DOMAIN list = DOMAIN used /\ \A j \in DOMAIN used : list[j] = Item(s, size, used[j])
  BY <1>2
<1>4. B = [v \in Range(list) |-> Cardinality({j \in DOMAIN list : list[j] = v})]
  BY DEF BagOf, ToBag, list
<1>5. DOMAIN B = Range(list)
  BY <1>4
<1>6. \A v : v \in Range(list) <=> \E p \in U : Item(s, size, p) = v
  <2>1. \A v : v \in Range(list) <=> \E j \in DOMAIN list : v = list[j]
    BY DEF Range
  <2> QED BY <1>2, <1>3, <2>1
<1>7. ASSUME NEW v \in Range(list)
      PROVE  Cardinality({j \in DOMAIN list : list[j] = v}) = Cardinality(Copies(s, size, v))
  <2> DEFINE A == {j \in DOMAIN list : list[j] = v}
             C == Copies(s, size, v)
             f == [j \in A |-> used[j]]
  <2>1. \A j \in A : used[j] \in C
    BY <1>2, <1>3 DEF Copies, U
  <2>2. f \in [A -> C]
    BY <2>1
  <2>3. IsFiniteSet(A)
    <3>1. IsFiniteSet(DOMAIN list)
      BY <1>2, <1>3, FS_Interval
    <3>2. A \subseteq DOMAIN list
      OBVIOUS
    <3> QED BY <3>1, <3>2, FS_Subset
  <2>4. \A p, q \in A : f[p] = f[q] => p = q
    BY <1>2, <1>3
  <2>5. \A y \in C : \E p \in A : f[p] = y
    <3>1. TAKE y \in C
    <3>2. y \in U /\ Item(s, size, y) = v
      BY DEF Copies, U
    <3>3. PICK j \in DOMAIN used : used[j] = y
      BY <1>2, <3>2
    <3>4. j \in A /\ f[j] = y
      BY <1>3, <3>2, <3>3
    <3> QED BY <3>4
  <2> HIDE DEF A, C, f
  <2>6. Cardinality(C) = Cardinality(A)
    BY <2>2, <2>3, <2>4, <2>5, SameCardinality
  <2> QED BY <2>6 DEF A, C
<1>8. B = [v \in DOMAIN B |-> Cardinality(Copies(s, size, v))]
  BY <1>4, <1>5, <1>7
<1> QED BY <1>5, <1>6, <1>8 DEF U

\* The counts of the larger of two stores.
LEMMA GrowsCount ==
    ASSUME NEW s, NEW t, Bounded(s), Bounded(t), NEW i, NEW x, NEW r, NEW f, Grows(s, t, i, x, r, f),
           NEW size, NEW w, w = i * 2^size + x, NEW v
    PROVE  Cardinality(Copies(t, size, v)) = Cardinality(Copies(s, size, v)) + Bit(v = w)
<1> DEFINE U == UsedSlots(s)
           V == UsedSlots(t)
           C == Copies(s, size, v)
           D == Copies(t, size, v)
           E == {f[p] : p \in C}
           g == [p \in C |-> f[p]]
<1>1. /\ r \in V /\ t.slots[r] = x
      /\ f \in [U -> V]
      /\ \A p \in U : f[p] # r /\ t.slots[f[p]] = s.slots[p]
      /\ \A p, q \in U : p < q => f[p] < f[q]
      /\ \A q \in V : q = r \/ \E p \in U : q = f[p]
  BY DEF Grows, Spaced
<1>2. OccupiedOf(t, r) = i /\ \A p \in U : OccupiedOf(t, f[p]) = OccupiedOf(s, p)
  BY DEF Grows
<1>3. Item(t, size, r) = w /\ \A p \in U : Item(t, size, f[p]) = Item(s, size, p)
  BY <1>1, <1>2 DEF Item
<1>4. /\ \A p \in U : p \in Nat
      /\ \A p \in V : p \in Nat
  BY UsedBounded
<1>5. \A p \in C : p \in U /\ Item(s, size, p) = v
  BY DEF Copies
<1>6. IsFiniteSet(C) /\ Cardinality(C) \in Nat
  BY CopiesFinite
<1>7. \A q : q \in D <=> q \in V /\ Item(t, size, q) = v
  BY DEF Copies
<1> HIDE DEF U, V, C, D
<1>8. Cardinality(E) = Cardinality(C) /\ IsFiniteSet(E)
  <2>1. g \in [C -> E]
    OBVIOUS
  <2>2. \A p, q \in C : g[p] = g[q] => p = q
    <3>1. TAKE p, q \in C
    <3>2. p \in U /\ q \in U /\ p \in Nat /\ q \in Nat /\ f[p] \in Nat /\ f[q] \in Nat
      BY <1>1, <1>4, <1>5
    <3>3. p < q => f[p] < f[q]
      BY <1>1, <3>2
    <3>4. q < p => f[q] < f[p]
      BY <1>1, <3>2
    <3>5. f[p] = f[q] => p = q
      BY <3>2, <3>3, <3>4
    <3> QED BY <3>5
  <2>3. \A y \in E : \E p \in C : g[p] = y
    OBVIOUS
  <2> HIDE DEF g, E
  <2> QED BY <1>6, <2>1, <2>2, <2>3, SameCardinality
<1>9. r \notin E
  BY <1>1, <1>5
<1>10. CASE v = w
  <2>1. D = E \cup {r}
    <3>1. \A q \in D : q \in E \cup {r}
      <4>1. TAKE q \in D
      <4>2. CASE q = r
        BY <4>2
      <4>3. CASE q # r
        <5>1. PICK p \in U : q = f[p]
          BY <1>1, <1>7, <4>3
        <5>2. p \in C
          BY <1>3, <1>7, <5>1 DEF C, Copies, U
        <5> QED BY <5>1, <5>2
      <4> QED BY <4>2, <4>3
    <3>2. \A q \in E : q \in D
      BY <1>1, <1>3, <1>5, <1>7
    <3>3. r \in D
      BY <1>1, <1>3, <1>7, <1>10
    <3> QED BY <3>1, <3>2, <3>3
  <2>2. Cardinality(E \cup {r}) = Cardinality(E) + 1
    BY <1>8, <1>9, FS_AddElement
  <2>3. Bit(v = w) = 1
    BY <1>10 DEF Bit
  <2> QED BY <1>6, <1>8, <2>1, <2>2, <2>3 DEF C, D
<1>11. CASE v # w
  <2>1. D = E
    <3>1. \A q \in D : q \in E
      <4>1. TAKE q \in D
      <4>2. q # r
        BY <1>3, <1>7, <1>11
      <4>3. PICK p \in U : q = f[p]
        BY <1>1, <1>7, <4>2
      <4>4. p \in C
        BY <1>3, <1>7, <4>3 DEF C, Copies, U
      <4> QED BY <4>3, <4>4
    <3>2. \A q \in E : q \in D
      BY <1>1, <1>3, <1>5, <1>7
    <3> QED BY <3>1, <3>2
  <2>2. Bit(v = w) = 0
    BY <1>11 DEF Bit
  <2> QED BY <1>6, <1>8, <2>1, <2>2 DEF C, D
<1> QED BY <1>10, <1>11

\* The bag of the larger store has that infix once more ...
LEMMA GrowsBag ==
    ASSUME NEW s, NEW t, Bounded(s), Bounded(t), NEW i, NEW x, NEW r, NEW f, Grows(s, t, i, x, r, f),
           NEW size
    PROVE  BagOf(t, size) = BagOf(s, size) (+) SetToBag({i * 2^size + x})
<1>1. PICK w : w = i * 2^size + x
  OBVIOUS
<1>2. PICK A : A = BagOf(s, size)
  OBVIOUS
<1>3. PICK B : B = BagOf(t, size)
  OBVIOUS
<1> DEFINE CA(v) == Cardinality(Copies(s, size, v))
           CB(v) == Cardinality(Copies(t, size, v))
<1>4. A = [v \in DOMAIN A |-> CA(v)]
  BY <1>2, BagIs
<1>5. B = [v \in DOMAIN B |-> CB(v)]
  BY <1>3, BagIs
<1>6. \A v : CB(v) = CA(v) + Bit(v = w)
  BY <1>1, GrowsCount
<1>7. \A v : CA(v) \in Nat /\ (v \in DOMAIN A <=> CA(v) > 0)
  <2>1. \A v : v \in DOMAIN A <=> \E p \in UsedSlots(s) : Item(s, size, p) = v
    BY <1>2, BagIs
  <2> QED BY <2>1, CopiesFinite
<1>8. \A v : CB(v) \in Nat /\ (v \in DOMAIN B <=> CB(v) > 0)
  <2>1. \A v : v \in DOMAIN B <=> \E p \in UsedSlots(t) : Item(t, size, p) = v
    BY <1>3, BagIs
  <2> QED BY <2>1, CopiesFinite
<1> HIDE DEF CA, CB
<1>9. \A v : Bit(v = w) = IF v = w THEN 1 ELSE 0
  BY DEF Bit
<1>10. DOMAIN B = DOMAIN A \cup {w}
  <2>1. ASSUME NEW v PROVE v \in DOMAIN B <=> v \in DOMAIN A \/ v = w
    <3>1. CB(v) = CA(v) + (IF v = w THEN 1 ELSE 0)
      BY <1>6, <1>9
    <3>2. CA(v) \in Nat /\ (v \in DOMAIN A <=> CA(v) > 0)
      BY <1>7
    <3>3. CB(v) \in Nat /\ (v \in DOMAIN B <=> CB(v) > 0)
      BY <1>8
    <3> QED BY <3>1, <3>2, <3>3
  <2> QED BY <2>1
<1> DEFINE W == A (+) SetToBag({w})
<1>11. W = [v \in DOMAIN A \cup {w} |->
              (IF v \in DOMAIN A THEN A[v] ELSE 0) + (IF v \in {w} THEN 1 ELSE 0)]
  BY DEF (+), SetToBag
<1>12. \A v \in DOMAIN A \cup {w} : B[v] =
              (IF v \in DOMAIN A THEN A[v] ELSE 0) + (IF v \in {w} THEN 1 ELSE 0)
  <2>1. TAKE v \in DOMAIN A \cup {w}
  <2>2. B[v] = CB(v)
    BY <1>5, <1>10
  <2>3. CB(v) = CA(v) + (IF v \in {w} THEN 1 ELSE 0)
    BY <1>6, <1>9
  <2>4. CA(v) = IF v \in DOMAIN A THEN A[v] ELSE 0
    BY <1>4, <1>7
  <2> QED BY <2>2, <2>3, <2>4
<1>13. B = [v \in DOMAIN A \cup {w} |-> B[v]]
  BY <1>5, <1>10
<1> HIDE DEF W
<1>14. B = W
  BY <1>11, <1>12, <1>13
<1> QED BY <1>1, <1>2, <1>3, <1>14 DEF W

\* ... and that of the smaller one once less.
LEMMA ShrinksBag ==
    ASSUME NEW s, NEW t, Bounded(s), Bounded(t), NEW i, NEW x, NEW r, NEW f, Grows(s, t, i, x, r, f),
           NEW size
    PROVE  BagOf(s, size) = BagOf(t, size) (-) SetToBag({i * 2^size + x})
<1>1. PICK w : w = i * 2^size + x
  OBVIOUS
<1>2. PICK A : A = BagOf(s, size)
  OBVIOUS
<1>3. PICK B : B = BagOf(t, size)
  OBVIOUS
<1> DEFINE CA(v) == Cardinality(Copies(s, size, v))
           CB(v) == Cardinality(Copies(t, size, v))
<1>4. A = [v \in DOMAIN A |-> CA(v)]
  BY <1>2, BagIs
<1>5. B = [v \in DOMAIN B |-> CB(v)]
  BY <1>3, BagIs
<1>6. \A v : CB(v) = CA(v) + Bit(v = w)
  BY <1>1, GrowsCount
<1>7. \A v : CA(v) \in Nat /\ (v \in DOMAIN A <=> CA(v) > 0)
  <2>1. \A v : v \in DOMAIN A <=> \E p \in UsedSlots(s) : Item(s, size, p) = v
    BY <1>2, BagIs
  <2> QED BY <2>1, CopiesFinite
<1>8. \A v : CB(v) \in Nat /\ (v \in DOMAIN B <=> CB(v) > 0)
  <2>1. \A v : v \in DOMAIN B <=> \E p \in UsedSlots(t) : Item(t, size, p) = v
    BY <1>3, BagIs
  <2> QED BY <2>1, CopiesFinite
<1> HIDE DEF CA, CB
<1>9. \A v : Bit(v = w) = IF v = w THEN 1 ELSE 0
  BY DEF Bit
<1> DEFINE P == [v \in DOMAIN B |-> IF v \in {w} THEN B[v] - 1 ELSE B[v]]
           K == {v \in DOMAIN P : P[v] > 0}
           W == B (-) SetToBag({w})
<1>10. W = [v \in K |-> P[v]]
  <2> DEFINE J == [e \in DOMAIN B |-> IF e \in DOMAIN SetToBag({w})
                                          THEN B[e] - SetToBag({w})[e] ELSE B[e]]
  <2>1. W = [v \in {d \in DOMAIN J : J[d] > 0} |-> J[v]]
    BY DEF (-)
  <2>2. DOMAIN SetToBag({w}) = {w} /\ SetToBag({w})[w] = 1
    BY DEF SetToBag
  <2>3. J = P
    BY <2>2
  <2> QED BY <2>1, <2>3
<1>11. \A v \in DOMAIN B : P[v] = CA(v)
  <2>1. TAKE v \in DOMAIN B
  <2>2. P[v] = IF v \in {w} THEN B[v] - 1 ELSE B[v]
    OBVIOUS
  <2>3. B[v] = CA(v) + Bit(v = w)
    BY <1>5, <1>6
  <2>4. CA(v) \in Nat
    BY <1>7
  <2> QED BY <1>9, <2>2, <2>3, <2>4
<1>12. DOMAIN P = DOMAIN B
  OBVIOUS
<1> HIDE DEF P
<1>13. K = DOMAIN A
  <2>1. \A v : v \in K <=> v \in DOMAIN B /\ CA(v) > 0
    BY <1>11, <1>12
  <2>2. \A v : CA(v) > 0 => CB(v) > 0
    BY <1>6, <1>7, <1>9
  <2>3. \A v : v \in K <=> v \in DOMAIN A
    BY <1>7, <1>8, <2>1, <2>2
  <2> QED BY <2>3
<1>14. \A v \in K : P[v] = A[v]
  BY <1>4, <1>11, <1>12, <1>13
<1>15. A = [v \in DOMAIN A |-> A[v]]
  BY <1>4
<1> HIDE DEF W, K
<1>16. A = W
  BY <1>10, <1>13, <1>14, <1>15
<1> QED BY <1>1, <1>2, <1>3, <1>16 DEF W

\* The infixes of one run lie in the order of a list.
Sorted(s) ==
    \A p, q \in UsedSlots(s) : p < q /\ OccupiedOf(s, p) = OccupiedOf(s, q)
                                 => ListBefore(s.slots[p], s.slots[q])

\* It stays so when an infix goes ...
LEMMA ShrinksSorted ==
    ASSUME NEW s, NEW t, NEW i, NEW x, NEW r, NEW f, Grows(s, t, i, x, r, f), Sorted(t)
    PROVE  Sorted(s)
<1>1. /\ f \in [UsedSlots(s) -> UsedSlots(t)]
      /\ \A p \in UsedSlots(s) : t.slots[f[p]] = s.slots[p]
      /\ \A p, q \in UsedSlots(s) : p < q => f[p] < f[q]
      /\ \A p \in UsedSlots(s) : OccupiedOf(t, f[p]) = OccupiedOf(s, p)
  BY DEF Grows, Spaced
<1>2. ASSUME NEW p \in UsedSlots(s), NEW q \in UsedSlots(s), p < q, OccupiedOf(s, p) = OccupiedOf(s, q)
      PROVE  ListBefore(s.slots[p], s.slots[q])
  <2>1. f[p] \in UsedSlots(t) /\ f[q] \in UsedSlots(t) /\ f[p] < f[q]
        /\ OccupiedOf(t, f[p]) = OccupiedOf(t, f[q])
    BY <1>1, <1>2
  <2>2. ListBefore(t.slots[f[p]], t.slots[f[q]])
    BY <2>1 DEF Sorted
  <2> QED BY <1>1, <2>2
<1> QED BY <1>2 DEF Sorted

\* ... and when one comes in the order of its run.
LEMMA GrowsSorted ==
    ASSUME NEW s, NEW t, NEW i, NEW x, NEW r, NEW f, Grows(s, t, i, x, r, f), Sorted(s),
           \A p \in UsedSlots(t) : p \in Nat,
           \A p \in UsedSlots(s) : OccupiedOf(s, p) = i =>
               /\ f[p] < r => ListBefore(s.slots[p], x)
               /\ r < f[p] => ListBefore(x, s.slots[p]),
           \A p \in UsedSlots(s) : p \in Nat
    PROVE  Sorted(t)
<1>1. /\ f \in [UsedSlots(s) -> UsedSlots(t)]
      /\ t.slots[r] = x /\ OccupiedOf(t, r) = i
      /\ \A p \in UsedSlots(s) : t.slots[f[p]] = s.slots[p]
      /\ \A p, q \in UsedSlots(s) : p < q => f[p] < f[q]
      /\ \A p \in UsedSlots(s) : OccupiedOf(t, f[p]) = OccupiedOf(s, p)
      /\ \A q \in UsedSlots(t) : q = r \/ \E p \in UsedSlots(s) : q = f[p]
  BY DEF Grows, Spaced
<1>2. ASSUME NEW p \in UsedSlots(t), NEW q \in UsedSlots(t), p < q, OccupiedOf(t, p) = OccupiedOf(t, q)
      PROVE  ListBefore(t.slots[p], t.slots[q])
  <2>0. p \in Nat /\ q \in Nat /\ p # q
    BY <1>2
  <2>1. CASE p = r
    <3>1. PICK y \in UsedSlots(s) : q = f[y]
      BY <1>1, <2>0, <2>1
    <3>2. OccupiedOf(s, y) = i /\ r < f[y]
      BY <1>1, <1>2, <2>1, <3>1
    <3>3. ListBefore(x, s.slots[y])
      BY <3>2
    <3> QED BY <1>1, <2>1, <3>1, <3>3
  <2>2. CASE q = r
    <3>1. PICK y \in UsedSlots(s) : p = f[y]
      BY <1>1, <2>0, <2>2
    <3>2. OccupiedOf(s, y) = i /\ f[y] < r
      BY <1>1, <1>2, <2>2, <3>1
    <3>3. ListBefore(s.slots[y], x)
      BY <3>2
    <3> QED BY <1>1, <2>2, <3>1, <3>3
  <2>3. CASE p # r /\ q # r
    <3>1. PICK y \in UsedSlots(s) : p = f[y]
      BY <1>1, <2>3
    <3>2. PICK w \in UsedSlots(s) : q = f[w]
      BY <1>1, <2>3
    <3>3. y \in Nat /\ w \in Nat
      OBVIOUS
    <3>4. y < w
      <4>1. w < y => f[w] < f[y]
        BY <1>1
      <4>2. y # w
        BY <2>0, <3>1, <3>2
      <4> QED BY <1>2, <2>0, <3>1, <3>2, <3>3, <4>1, <4>2
    <3>5. OccupiedOf(s, y) = OccupiedOf(s, w)
      BY <1>1, <1>2, <3>1, <3>2
    <3>6. ListBefore(s.slots[y], s.slots[w])
      BY <3>4, <3>5 DEF Sorted
    <3> QED BY <1>1, <3>1, <3>2, <3>6
  <2> QED BY <2>1, <2>2, <2>3
<1> QED BY <1>2 DEF Sorted

-----------------------------------------------------------------------------
(* Insertions.                                                               *)

\* r is where x belongs in the run of i.
Between(s, i, x, r) ==
    \A p \in UsedSlots(s) : OccupiedOf(s, p) = i =>
        IF p < r THEN Start(s.slots[p]) < x ELSE ~(Start(s.slots[p]) < x)

\* Slots T and run ends S are those of s with x put into the run of i at r.
PutsUp(s, i, x, T, S, r, b) ==
    /\ r \in Nat /\ b \in Nat /\ r <= b /\ b < Size(s)
    /\ WrittenUp(Size(s), s.slots, T, x, r, b)
    /\ Below(S, r) = Below(s.occupieds, i)
    /\ \A p \in UsedSlots(s) : RankMoves(s.runends, S, i \notin s.occupieds,
                                         Below(s.occupieds, i), p, Up(r, b, p))
    /\ Between(s, i, x, r)

\* The same with the slots between the empty one and its place moved down.
PutsDown(s, i, x, T, S, r, a) ==
    /\ r \in Nat /\ a \in Nat /\ a <= r /\ r < Size(s)
    /\ WrittenDown(Size(s), s.slots, T, x, r, a)
    /\ Below(S, r) = Below(s.occupieds, i)
    /\ \A p \in UsedSlots(s) : RankMoves(s.runends, S, i \notin s.occupieds,
                                         Below(s.occupieds, i), p, Down(a, r, p))
    /\ Between(s, i, x, r + 1)

\* x put in the run of i, either way.
Puts(s, i, x, T, S) == \/ \E r, b \in Nat : PutsUp(s, i, x, T, S, r, b)
                       \/ \E r, a \in Nat : PutsDown(s, i, x, T, S, r, a)

\* A shift of the slots to the right writes them out moved up.
LEMMA WrittenRight ==
    ASSUME NEW z \in Nat, NEW S, DOMAIN S = 0..(z - 1), NEW x, NEW r \in Nat, NEW b \in Nat, r <= b, b < z,
           S[b] = 0, \A p \in r..(b - 1) : S[p] # 0
    PROVE  WrittenUp(z, S, [ShiftSlotsRight(S, r, b) EXCEPT ![r] = x], x, r, b)
BY DEF WrittenUp, ShiftSlotsRight

\* A shift to the left writes them out moved down.
LEMMA WrittenLeft ==
    ASSUME NEW z \in Nat, NEW S, DOMAIN S = 0..(z - 1), NEW x, NEW r \in Nat, NEW a \in Nat, a < r, r <= z,
           S[a] = 0, \A p \in (a + 1)..(r - 1) : S[p] # 0
    PROVE  WrittenDown(z, S, [ShiftSlotsLeft(S, a + 1, r) EXCEPT ![r - 1] = x], x, r - 1, a)
<1>1. r - 1 \in 0..(z - 1) /\ (a + 1) - 1 = a
  OBVIOUS
<1> QED BY <1>1 DEF WrittenDown, ShiftSlotsLeft

\* No slot is in the run of a part that is not occupied.
LEMMA BetweenNone ==
    ASSUME NEW s, NEW size, Good(s, size), NEW i, i \notin s.occupieds, NEW x, NEW r
    PROVE  Between(s, i, x, r)
<1>1. \A p \in UsedSlots(s) : OccupiedOf(s, p) # i
  BY OccupiedOfIs
<1> QED BY <1>1 DEF Between

\* A new run in its own slot.
LEMMA PutsAtEmpty ==
    ASSUME NEW s, NEW size, Good(s, size), NEW i \in Parts, i \notin s.occupieds, NEW x,
           NEW m, m = Mapping(s.size_grade)[i], s.slots[m] = 0
    PROVE  Puts(s, i, x, [s.slots EXCEPT ![m] = x], s.runends \cup {m})
<1> DEFINE M == Mapping(s.size_grade)
           R == s.runends
           O == s.occupieds
           U == UsedSlots(s)
           z == Size(s)
           T == [s.slots EXCEPT ![m] = x]
           S == R \cup {m}
<1>1. /\ z \in Nat /\ z > 0
      /\ Table(z, M) /\ Shape(z, M, U, O, R)
      /\ \A y \in R : y \in Nat /\ y \in U
      /\ \A p \in U : p \in Nat /\ p < z
      /\ \A p \in Nat : p < z => (p \in U <=> s.slots[p] # 0)
  BY GoodFacts
<1>2. m \in Nat /\ m < z /\ m \notin U
  <2>1. m \in 0..(z - 1)
    BY <1>1 DEF Table
  <2> QED BY <1>1, <2>1
<1>3. PICK c : c = Below(O, i)
  OBVIOUS
<1>4. Divides(U, R, m, c)
  <2>1. M[i] \notin U /\ m = M[i]
    BY <1>2
  <2> HIDE DEF M, U, O, R, z
  <2>2. Divides(U, R, M[i], c)
    BY <1>1, <1>3, <2>1, DividesEmpty
  <2> QED BY <2>1, <2>2
<1>5. ShiftRunendsRight(R, m, m) = R
  <2>1. m \notin R /\ \A y \in m..m : y = m
    BY <1>1, <1>2
  <2>2. R \cap m..(m - 1) = {}
    BY <1>2
  <2> QED BY <2>1, <2>2 DEF ShiftRunendsRight
<1>6. /\ Below(S, m) = c
      /\ \A p \in U : RankMoves(R, S, TRUE, c, p, Up(m, m, p))
  <2>1. (\A p \in U : p \in Nat) /\ (\A y \in R : y \in U) /\ m <= m
    BY <1>1, <1>2
  <2>2. \A n \in Nat : Divides(U, R, n, c) =>
           \A w \in Nat : n <= w /\ w \notin U =>
              /\ Below(ShiftRunendsRight(R, n, w) \cup {n}, n) = c
              /\ \A p \in U : RankMoves(R, ShiftRunendsRight(R, n, w) \cup {n}, TRUE, c, p, Up(n, w, p))
    <3> HIDE DEF U, R
    <3> QED BY <2>1, UpNewRun
  <2>3. /\ Below(ShiftRunendsRight(R, m, m) \cup {m}, m) = c
        /\ \A p \in U : RankMoves(R, ShiftRunendsRight(R, m, m) \cup {m}, TRUE, c, p, Up(m, m, p))
    <3> HIDE DEF U, R
    <3> QED BY <1>2, <1>4, <2>1, <2>2
  <2> QED BY <1>5, <2>3
<1>7. WrittenUp(z, s.slots, T, x, m, m)
  <2>1. DOMAIN s.slots = 0..(z - 1)
    BY DEF Good, Positions
  <2>2. \A p \in 0..(z - 1) : T[p] = IF p = m THEN x
                                   ELSE IF m < p /\ p <= m THEN s.slots[p - 1] ELSE s.slots[p]
    <3>1. TAKE p \in 0..(z - 1)
    <3>2. ~(m < p /\ p <= m)
      BY <1>2
    <3>3. T[p] = IF p = m THEN x ELSE s.slots[p]
      BY <2>1
    <3> QED BY <3>2, <3>3
  <2>3. s.slots[m] = 0 /\ \A p \in m..(m - 1) : s.slots[p] # 0
    BY <1>2
  <2> QED BY <2>2, <2>3 DEF WrittenUp
<1>8. Between(s, i, x, m)
  BY BetweenNone
<1>9. (i \notin O) = TRUE
  OBVIOUS
<1>10. PutsUp(s, i, x, T, S, m, m)
  <2>1. \A p \in U : RankMoves(R, S, i \notin O, c, p, Up(m, m, p))
    BY <1>6, <1>9
  <2> QED BY <1>2, <1>3, <1>6, <1>7, <1>8, <2>1 DEF PutsUp
<1> QED BY <1>2, <1>10 DEF Puts

\* RunBeforeIs, and the rank of that run.
LEMMA RunBeforeEnds ==
    ASSUME NEW s, NEW size, Good(s, size), NEW i \in Parts,
           NEW g, g = (LET rank == RankOccupieds(s, i)
                       IN  IF rank = 0 THEN -1 ELSE SelectRunends(s, rank - 1))
    PROVE  EndsRuns(s.runends, g, Below(s.occupieds, i))
<1> DEFINE R == s.runends
           O == s.occupieds
           z == Size(s)
           k == Below(O, i)
<1>1. i \in Nat /\ i <= TargetSize /\ TargetSize \in Nat
  <2>1. Table(z, Mapping(s.size_grade))
    BY GoodFacts
  <2> QED BY <2>1 DEF Parts, Table
<1>2. RankOccupieds(s, i) = k
  BY <1>1, RankIs
<1>3. k \in Nat /\ k <= Below(R, z)
  <2>1. \A o \in O : o \in Nat
    BY GoodFacts
  <2>2. /\ \A x, y \in Nat : x <= y => Below(O, x) <= Below(O, y)
        /\ \A x \in Nat : Below(O, x) \in Nat
    BY <2>1, BelowFacts
  <2>3. Below(O, TargetSize) = Below(R, z)
    BY GoodCounts
  <2> QED BY <1>1, <2>2, <2>3
<1>4. CASE k = 0
  <2>1. g = -1
    BY <1>2, <1>4
  <2> QED BY <1>4, <2>1 DEF EndsRuns
<1>5. CASE k # 0
  <2>1. g = SelectRunends(s, k - 1)
    BY <1>2, <1>5
  <2>2. k - 1 \in Nat /\ k - 1 < Below(R, z)
    <3>1. Below(R, z) \in Nat
      BY GoodFacts, GoodCounts
    <3> QED BY <1>3, <1>5, <3>1
  <2>3. PICK j \in Nat : j = k - 1
    BY <2>2
  <2>4. j < Below(s.runends, Size(s))
    BY <2>2, <2>3
  <2>5. /\ SelectRunends(s, j) \in s.runends
        /\ Below(s.runends, SelectRunends(s, j)) = j
    BY <2>4, SelectIs
  <2>6. Below(R, g) + 1 = k
    BY <1>3, <2>1, <2>3, <2>5
  <2> QED BY <2>1, <2>3, <2>5, <2>6 DEF EndsRuns
<1> QED BY <1>4, <1>5

\* The larger of two numbers.
LEMMA MaxTwo ==
    ASSUME NEW a \in Int, NEW b \in Int
    PROVE  Max({a, b}) = IF a <= b THEN b ELSE a
<1> DEFINE S == {a, b}
           lo == IF a <= b THEN a ELSE b
           hi == IF a <= b THEN b ELSE a
<1>1. lo \in Int /\ hi \in Int /\ (\A y \in S : y \in lo..hi) /\ S # {}
  OBVIOUS
<1>2. Max(S) \in S /\ \A y \in S : y <= Max(S)
  <2> HIDE DEF S, lo, hi
  <2> QED BY <1>1, MaxOf
<1> QED BY <1>2

\* UpNewRun and DownNewRun for every slot and shift.
LEMMA UpNewRuns ==
    ASSUME NEW U, \A p \in U : p \in Nat, NEW R, \A y \in R : y \in U, NEW c
    PROVE  \A n \in Nat : Divides(U, R, n, c) =>
              \A w \in Nat : n <= w /\ w \notin U =>
                 /\ Below(ShiftRunendsRight(R, n, w) \cup {n}, n) = c
                 /\ \A p \in U : RankMoves(R, ShiftRunendsRight(R, n, w) \cup {n}, TRUE, c, p, Up(n, w, p))
BY UpNewRun

\* The same for a run ended from the left.
LEMMA DownNewRuns ==
    ASSUME NEW U, \A p \in U : p \in Nat, NEW R, \A y \in R : y \in U, NEW c
    PROVE  \A n \in Nat : Divides(U, R, n + 1, c) =>
              \A w \in Nat : w <= n /\ w \notin U =>
                 /\ Below(ShiftRunendsLeft(R, w + 1, n + 1) \cup {n}, n) = c
                 /\ \A p \in U : RankMoves(R, ShiftRunendsLeft(R, w + 1, n + 1) \cup {n}, TRUE, c, p, Down(w, n, p))
BY DownNewRun

\* A new run whose own slot is taken.
LEMMA PutsNewRun ==
    ASSUME NEW s, NEW size, Good(s, size), NEW i \in Parts, i \notin s.occupieds, NEW x,
           NEW m, m = Mapping(s.size_grade)[i], s.slots[m] # 0,
           NEW t, t = InsertNewRun(s, i, x, m)
    PROVE  Puts(s, i, x, t.slots, t.runends)
<1> DEFINE M == Mapping(s.size_grade)
           R == s.runends
           O == s.occupieds
           U == UsedSlots(s)
           z == Size(s)
           g == IF RankOccupieds(s, i) = 0 THEN -1 ELSE SelectRunends(s, RankOccupieds(s, i) - 1)
           a == FindEmptySlotBefore(s, m)
           b == FindEmptySlotAfter(s, m)
           u == ShiftNewRunIn(s, x, m, g, b, a)
           c == Below(O, i)
<1>1. /\ z \in Nat /\ z > 0
      /\ Table(z, M) /\ Shape(z, M, U, O, R)
      /\ \A y \in R : y \in Nat /\ y < z /\ y \in U
      /\ \A p \in U : p \in Nat /\ p < z
      /\ \A p \in Nat : p < z => (p \in U <=> s.slots[p] # 0)
      /\ \A o \in O : o \in Nat
  BY GoodFacts
<1>2. /\ Fields \subseteq DOMAIN s
      /\ DOMAIN s.slots = 0..(z - 1)
      /\ DOMAIN s.popcnts = {0, 1}
  BY DEF Good, Positions
<1>3. t = [u EXCEPT !.popcnts[0] = @ + Bit(i < Half)]
  BY DEF InsertNewRun
<1>4. EndsRuns(R, g, c)
  BY RunBeforeEnds
<1>g. /\ g \in Int /\ -1 <= g /\ g < z
      /\ \A q \in Nat : q < z /\ q \notin U /\ M[i] <= q => g < q
  <2>1. PICK y : y = (LET rank == RankOccupieds(s, i)
                      IN  IF rank = 0 THEN -1 ELSE SelectRunends(s, rank - 1))
    OBVIOUS
  <2>2. /\ y \in Int /\ -1 <= y /\ y < z
        /\ \A q \in Nat : q < z /\ q \notin U /\ M[i] <= q => y < q
    BY <2>1, RunBeforeIs
  <2> QED BY <2>1, <2>2
<1> HIDE DEF g
<1>5. m \in Nat /\ m < z /\ m \in U /\ m = M[i]
  <2>1. m \in 0..(z - 1)
    BY <1>1 DEF Table
  <2> QED BY <1>1, <2>1
<1>7. /\ b \in Nat /\ m < b /\ b <= z
      /\ \A p \in m..(b - 1) : p \in U
      /\ b < z => b \notin U
  BY <1>5, EmptyAfterIs
<1>8. /\ a \in Int /\ -1 <= a /\ a < m /\ a \notin U
      /\ \A p \in (a + 1)..m : p \in U
  BY <1>5, EmptyBeforeIs
<1> HIDE DEF a, b
<1>9. (i \notin O) = TRUE
  OBVIOUS
<1>10. \A r : Between(s, i, x, r)
  BY BetweenNone
<1>11. (\A p \in U : p \in Nat) /\ (\A y \in R : y \in U)
  BY <1>1
<1> HIDE DEF u
<1>15. CASE b < z
  <2>1. PICK l : l = Max({g + 1, m})
    OBVIOUS
  <2>2. l = IF g + 1 <= m THEN m ELSE g + 1
    BY <1>g, <1>5, <2>1, MaxTwo
  <2>3. b \in 0..(z - 1) /\ b \notin U
    BY <1>1, <1>7, <1>15
  <2>4. Divides(U, R, l, c)
    <3>1. /\ M[i] < b
          /\ l = IF g + 1 <= M[i] THEN M[i] ELSE g + 1
      BY <1>5, <1>7, <2>2
    <3> HIDE DEF U, R, O, z, M
    <3>2. c = Below(O, i)
      OBVIOUS
    <3> HIDE DEF c
    <3> QED BY <1>1, <1>4, <2>3, <3>1, <3>2, DividesRight
  <2>5. l \in Nat /\ l <= b
    <3>1. g < b
      <4>1. M[i] <= b /\ b \in Nat /\ b < z
        BY <1>5, <1>7, <1>15
      <4> QED BY <1>g, <2>3, <4>1
    <3> QED BY <1>5, <1>7, <1>g, <2>2, <3>1
  <2>6. /\ u.runends = ShiftRunendsRight(R, l, b) \cup {l}
        /\ u.slots = [ShiftSlotsRight(s.slots, l, b) EXCEPT ![l] = x]
        /\ "popcnts" \in DOMAIN u
    BY <1>2, <1>15, <2>1 DEF ShiftNewRunIn, Fields, u
  <2>7. /\ t.runends = ShiftRunendsRight(R, l, b) \cup {l}
        /\ t.slots = [ShiftSlotsRight(s.slots, l, b) EXCEPT ![l] = x]
    BY <1>3, <2>6
  <2>8. WrittenUp(z, s.slots, t.slots, x, l, b)
    <3>1. \A p \in l..(b - 1) : s.slots[p] # 0
      <4>1. TAKE p \in l..(b - 1)
      <4>2. m <= l
        BY <1>5, <1>g, <2>2
      <4>3. p \in m..(b - 1) /\ p \in Nat /\ p < z
        <5>1. m \in Nat /\ l \in Nat /\ p \in Int /\ l <= p /\ p <= b - 1 /\ b \in Nat /\ b < z /\ z \in Nat
          BY <1>1, <1>5, <1>7, <1>15, <2>5
        <5> QED BY <4>2, <5>1
      <4> QED BY <1>1, <1>7, <4>3
    <3>2. s.slots[b] = 0
      BY <1>1, <1>7, <2>3
    <3> HIDE DEF z
    <3>3. WrittenUp(z, s.slots, [ShiftSlotsRight(s.slots, l, b) EXCEPT ![l] = x], x, l, b)
      BY <1>1, <1>2, <1>7, <1>15, <2>5, <3>1, <3>2, WrittenRight
    <3> QED BY <2>7, <3>3
  <2>9. /\ Below(ShiftRunendsRight(R, l, b) \cup {l}, l) = c
        /\ \A p \in U : RankMoves(R, ShiftRunendsRight(R, l, b) \cup {l}, TRUE, c, p, Up(l, b, p))
    <3>1. \A n \in Nat : Divides(U, R, n, c) =>
              \A w \in Nat : n <= w /\ w \notin U =>
                 /\ Below(ShiftRunendsRight(R, n, w) \cup {n}, n) = c
                 /\ \A p \in U : RankMoves(R, ShiftRunendsRight(R, n, w) \cup {n}, TRUE, c, p, Up(n, w, p))
      <4> HIDE DEF U, R, c
      <4> QED BY <1>11, UpNewRuns
    <3> HIDE DEF U, R, c
    <3> QED BY <1>7, <2>3, <2>4, <2>5, <3>1
  <2>10. PutsUp(s, i, x, t.slots, t.runends, l, b)
    <3>1. \A p \in U : RankMoves(R, t.runends, i \notin O, c, p, Up(l, b, p))
      BY <1>9, <2>7, <2>9
    <3>2. Below(t.runends, l) = c
      BY <2>7, <2>9
    <3> QED BY <1>7, <1>10, <1>15, <2>5, <2>8, <3>1, <3>2 DEF PutsUp
  <2> QED BY <1>7, <2>5, <2>10 DEF Puts
<1>16. CASE ~(b < z)
  <2>1. PICK l : l = Max({g, a})
    OBVIOUS
  <2>2. l = IF g <= a THEN a ELSE g
    BY <1>g, <1>8, <2>1, MaxTwo
  <2>3. a \in 0..(z - 1)
    <3>1. PICK q \in 0..(z - 1) : q \notin U
      BY SomeEmpty
    <3>2. a # -1
      <4>1. ~(m <= q)
        BY <1>5, <1>7, <1>16, <1>1, <3>1
      <4> QED BY <1>5, <1>8, <3>1, <4>1
    <3> QED BY <1>1, <1>5, <1>8, <3>2
  <2>4. a \in Nat /\ l \in Nat /\ a <= l /\ l < z
    BY <1>g, <1>1, <2>2, <2>3
  <2>5. Divides(U, R, l + 1, c)
    <3>1. /\ a < M[i]
          /\ l + 1 = IF a <= g THEN g + 1 ELSE a + 1
      BY <1>5, <1>8, <1>g, <2>2
    <3>3. PICK n : n = l + 1
      OBVIOUS
    <3>4. n = IF a <= g THEN g + 1 ELSE a + 1
      BY <3>1, <3>3
    <3> HIDE DEF U, R, O, z, M
    <3>2. c = Below(O, i)
      OBVIOUS
    <3> HIDE DEF c
    <3>5. Divides(U, R, n, c)
      BY <1>1, <1>4, <1>8, <2>3, <3>1, <3>2, <3>4, DividesLeft
    <3> QED BY <3>3, <3>5
  <2>6. /\ u.runends = ShiftRunendsLeft(R, a + 1, l + 1) \cup {l}
        /\ u.slots = [ShiftSlotsLeft(s.slots, a + 1, l + 1) EXCEPT ![l] = x]
        /\ "popcnts" \in DOMAIN u
    BY <1>2, <1>16, <2>1 DEF ShiftNewRunIn, Fields, u
  <2>7. /\ t.runends = ShiftRunendsLeft(R, a + 1, l + 1) \cup {l}
        /\ t.slots = [ShiftSlotsLeft(s.slots, a + 1, l + 1) EXCEPT ![l] = x]
    BY <1>3, <2>6
  <2>8. WrittenDown(z, s.slots, t.slots, x, l, a)
    <3>0. PICK n \in Nat : n = l + 1
      BY <2>4
    <3>1. \A p \in (a + 1)..(n - 1) : s.slots[p] # 0
      <4>1. TAKE p \in (a + 1)..(n - 1)
      <4>2. p \in (a + 1)..m \/ p \in m..(b - 1)
        BY <1>1, <1>5, <1>7, <1>8, <1>16, <2>4, <3>0
      <4>3. p \in Nat /\ p < z
        <5>1. /\ a \in Nat /\ n \in Nat /\ p \in Int /\ a + 1 <= p /\ p <= n - 1
              /\ n <= z /\ z \in Nat
          BY <1>1, <2>4, <3>0
        <5> QED BY <5>1
      <4> QED BY <1>1, <1>7, <1>8, <4>2, <4>3
    <3>2. s.slots[a] = 0
      BY <1>1, <1>8, <2>3
    <3>3. n <= z /\ a < n /\ n - 1 = l
      BY <1>1, <2>4, <3>0
    <3> HIDE DEF z
    <3>4. WrittenDown(z, s.slots, [ShiftSlotsLeft(s.slots, a + 1, n) EXCEPT ![n - 1] = x], x, n - 1, a)
      BY <1>1, <1>2, <2>4, <3>1, <3>2, <3>3, WrittenLeft
    <3> QED BY <2>7, <3>0, <3>3, <3>4
  <2>9. /\ Below(ShiftRunendsLeft(R, a + 1, l + 1) \cup {l}, l) = c
        /\ \A p \in U : RankMoves(R, ShiftRunendsLeft(R, a + 1, l + 1) \cup {l}, TRUE, c, p, Down(a, l, p))
    <3>1. \A n \in Nat : Divides(U, R, n + 1, c) =>
              \A w \in Nat : w <= n /\ w \notin U =>
                 /\ Below(ShiftRunendsLeft(R, w + 1, n + 1) \cup {n}, n) = c
                 /\ \A p \in U : RankMoves(R, ShiftRunendsLeft(R, w + 1, n + 1) \cup {n}, TRUE, c, p, Down(w, n, p))
      <4> HIDE DEF U, R, c
      <4> QED BY <1>11, DownNewRuns
    <3> HIDE DEF U, R, c
    <3> QED BY <1>8, <2>4, <2>5, <3>1
  <2>10. PutsDown(s, i, x, t.slots, t.runends, l, a)
    <3>1. \A p \in U : RankMoves(R, t.runends, i \notin O, c, p, Down(a, l, p))
      BY <1>9, <2>7, <2>9
    <3>2. Below(t.runends, l) = c
      BY <2>7, <2>9
    <3> QED BY <1>10, <2>4, <2>8, <3>1, <3>2 DEF PutsDown
  <2> QED BY <2>4, <2>10 DEF Puts
<1> QED BY <1>15, <1>16

\* The start of a slot in use is a number.
LEMMA StartInt ==
    ASSUME NEW size \in 1..InfixSize, NEW v, Slotted(v, size)
    PROVE  Start(v) \in Nat /\ LowBit(v) \in Nat /\ LowBit(v) > 0
<1>1. PICK h \in Nat : \E f \in Nat :
          h > 0 /\ LowBit(v) = h /\ v = (2 * h) * f + h /\ v \div (2 * h) = f
  BY LowBitIs
<1>2. PICK f \in Nat : h > 0 /\ LowBit(v) = h /\ v = (2 * h) * f + h
  BY <1>1
<1>3. (2 * h) * f \in Nat
  OBVIOUS
<1>4. Start(v) = (2 * h) * f
  BY <1>2, <1>3 DEF Start
<1> QED BY <1>2, <1>3, <1>4

\* The slots in use of a store in shape.
LEMMA GoodSlotted ==
    ASSUME NEW s, NEW size \in 1..InfixSize, Good(s, size)
    PROVE  \A p \in UsedSlots(s) : /\ Slotted(s.slots[p], size)
                                   /\ Start(s.slots[p]) \in Nat
                                   /\ LowBit(s.slots[p]) \in Nat /\ LowBit(s.slots[p]) > 0
<1>1. TAKE p \in UsedSlots(s)
<1>2. p \in Positions(s) /\ s.slots[p] # 0
  BY DEF UsedSlots
<1>3. s.slots[p] \in 0..(2^size - 1)
  BY <1>2 DEF Good
<1>4. Slotted(s.slots[p], size)
  BY <1>2, <1>3 DEF Slotted
<1> QED BY <1>4, StartInt

\* Where InsertIntoRun looks for the place of an infix: the run i ends at e, and
\* holds the slots after l.
InRunFrom(s, i, l, e) ==
    /\ e \in s.runends /\ e \in Nat /\ l \in Int /\ -1 <= l /\ l < e
    /\ Below(s.runends, e) = Below(s.occupieds, i)
    /\ \A y \in (l + 1)..(e - 1) : y \notin s.runends
    /\ \A y \in (l + 1)..e : y \in UsedSlots(s)
    /\ \A p \in UsedSlots(s) : OccupiedOf(s, p) = i => p \in (l + 1)..e

\* Its slots are in the run.
LEMMA InRunSame ==
    ASSUME NEW s, NEW size, Good(s, size), NEW i \in s.occupieds, NEW l, NEW e, InRunFrom(s, i, l, e)
    PROVE  \A y \in (l + 1)..e : OccupiedOf(s, y) = i
<1>1. TAKE y \in (l + 1)..e
<1>2. y \in UsedSlots(s) /\ y \in Nat /\ y <= e /\ e \in Nat
  BY DEF InRunFrom
<1>3. Below(s.runends, y) = Below(s.runends, e)
  <2>1. \A f \in s.runends : ~(y <= f /\ f < e)
    <3>1. TAKE f \in s.runends
    <3>2. f \in Nat
      BY GoodFacts
    <3>3. y <= f /\ f < e => f \in (l + 1)..(e - 1)
      BY <1>2, <3>2 DEF InRunFrom
    <3> QED BY <3>3 DEF InRunFrom
  <2> QED BY <1>2, <2>1, GoodCounts
<1>4. InRun(s, y, i)
  BY <1>3 DEF InRun, InRunFrom
<1> QED BY <1>4, InRunIs, GoodRanked

\* The place found is where the infix belongs.
LEMMA PlaceBetween ==
    ASSUME NEW s, NEW size \in 1..InfixSize, Good(s, size), Sorted(s), NEW i \in s.occupieds,
           NEW l, NEW e, InRunFrom(s, i, l, e), NEW x \in Nat, NEW r, r = PlaceInRun(s, l, e, x)
    PROVE  Between(s, i, x, r)
<1> DEFINE S == {p \in (l + 1)..e : Start(s.slots[p]) < x} \cup {l}
           k == Max(S)
<1>1. l \in Int /\ e \in Nat /\ l < e
  BY DEF InRunFrom
<1>2. (\A y \in S : y \in l..e) /\ S # {}
  BY <1>1
<1>3. k \in S /\ \A y \in S : y <= k
  <2> HIDE DEF S
  <2> QED BY <1>1, <1>2, MaxOf
<1>4. r = 1 + k
  BY DEF PlaceInRun
<1>5. k \in l..e /\ (k = l \/ (k \in (l + 1)..e /\ Start(s.slots[k]) < x))
  BY <1>1, <1>3
<1>6. \A p \in (l + 1)..e : Start(s.slots[p]) < x => p <= k
  BY <1>3
<1> HIDE DEF k, S
<1>7. ASSUME NEW p \in UsedSlots(s), OccupiedOf(s, p) = i
      PROVE  IF p < r THEN Start(s.slots[p]) < x ELSE ~(Start(s.slots[p]) < x)
  <2>1. p \in (l + 1)..e
    BY <1>7 DEF InRunFrom
  <2>2. CASE p < r
    <3>1. k # l
      BY <1>1, <1>4, <1>5, <2>1, <2>2
    <3>2. k \in (l + 1)..e /\ Start(s.slots[k]) < x
      BY <1>5, <3>1
    <3>3. k \in UsedSlots(s) /\ OccupiedOf(s, k) = i
      <4>1. k \in UsedSlots(s)
        BY <3>2 DEF InRunFrom
      <4>2. \A y \in (l + 1)..e : OccupiedOf(s, y) = i
        BY InRunSame
      <4> QED BY <3>2, <4>1, <4>2
    <3>4. CASE p = k
      BY <2>2, <3>2, <3>4
    <3>5. CASE p # k
      <4>1. p < k
        BY <1>1, <1>4, <1>5, <2>1, <2>2, <3>5
      <4>2. ListBefore(s.slots[p], s.slots[k])
        BY <1>7, <3>3, <4>1 DEF Sorted
      <4>3. Start(s.slots[p]) <= Start(s.slots[k])
        BY <3>3, <4>2, GoodSlotted DEF ListBefore
      <4>4. Start(s.slots[p]) \in Nat /\ Start(s.slots[k]) \in Nat
        BY <3>3, GoodSlotted
      <4> QED BY <2>2, <3>2, <4>3, <4>4
    <3> QED BY <3>4, <3>5
  <2>3. CASE ~(p < r)
    <3>1. ~(p <= k)
      BY <1>1, <1>4, <1>5, <2>1, <2>3
    <3> QED BY <1>6, <2>1, <2>3, <3>1
  <2> QED BY <2>2, <2>3
<1> QED BY <1>7 DEF Between

\* The stretch InsertIntoRun works on.
LEMMA RunFrom ==
    ASSUME NEW s, NEW size, Good(s, size), NEW i \in s.occupieds,
           NEW e, e = RunEndOf(s, i), NEW a \in Int, -1 <= a, a < e, a \notin UsedSlots(s),
           \A y \in (a + 1)..e : y \in UsedSlots(s),
           NEW l, l = Max({PreviousRunend(s, e), a})
    PROVE  InRunFrom(s, i, l, e) /\ a <= l
<1> DEFINE R == s.runends
           U == UsedSlots(s)
           z == Size(s)
           g == PreviousRunend(s, e)
<1>1. /\ z \in Nat /\ z > 0
      /\ Table(z, Mapping(s.size_grade)) /\ Shape(z, Mapping(s.size_grade), U, s.occupieds, R)
      /\ \A y \in R : y \in Nat /\ y < z /\ y \in U
      /\ \A p \in U : p \in Nat /\ p < z
  BY GoodFacts
<1>2. e \in R /\ Below(R, e) = Below(s.occupieds, i)
  BY RunEndIs
<1>3. e \in Nat /\ e < z
  BY <1>1, <1>2
<1>4. /\ g \in Int /\ -1 <= g /\ g < e
      /\ g = -1 \/ g \in R
      /\ \A y \in R : y < e => y <= g
  BY <1>3, PreviousRunendIs
<1>5. l = IF g <= a THEN a ELSE g
  BY <1>4, MaxTwo
<1> HIDE DEF g
<1>6. l \in Int /\ -1 <= l /\ l < e /\ a <= l /\ g <= l
  BY <1>4, <1>5
<1>7. \A y \in (l + 1)..(e - 1) : y \notin R
  <2>1. TAKE y \in (l + 1)..(e - 1)
  <2>2. y < e /\ ~(y <= g)
    BY <1>3, <1>4, <1>6
  <2> QED BY <1>4, <2>2
<1>8. \A y \in (l + 1)..e : y \in U
  <2>1. TAKE y \in (l + 1)..e
  <2>2. y \in (a + 1)..e
    BY <1>3, <1>6
  <2> QED BY <2>2
<1>9. ASSUME NEW p \in U, OccupiedOf(s, p) = i PROVE p \in (l + 1)..e
  <2>1. p \in Nat /\ p < z /\ Below(R, p) = Below(R, e)
    BY <1>1, <1>2, <1>9, OccupiedOfIs
  <2>2. /\ \A f \in R : \A y \in Nat : f < y => Below(R, f) + 1 <= Below(R, y)
        /\ \A y \in Nat : Below(R, y) \in Nat
        /\ \A y, w \in Nat : y <= w => Below(R, y) <= Below(R, w)
    BY GoodCounts
  <2>3. p <= e
    <3>1. e < p => Below(R, e) + 1 <= Below(R, p)
      BY <1>2, <2>1, <2>2
    <3>2. Below(R, e) \in Nat
      BY <1>3, <2>2
    <3> QED BY <1>3, <2>1, <3>1, <3>2
  <2>4. ~\E f \in R : p <= f /\ f < e
    <3> SUFFICES ASSUME NEW f \in R, p <= f, f < e PROVE FALSE
      OBVIOUS
    <3>1. f \in Nat
      BY <1>1
    <3>2. Below(R, f) + 1 <= Below(R, e)
      BY <1>3, <2>2
    <3>3. Below(R, p) <= Below(R, f)
      BY <2>1, <2>2, <3>1
    <3>4. Below(R, f) \in Nat /\ Below(R, e) \in Nat
      BY <1>3, <2>2, <3>1
    <3> QED BY <2>1, <3>2, <3>3, <3>4
  <2>5. g < p
    <3>1. g \in R => ~(p <= g)
      BY <1>4, <2>4
    <3> QED BY <1>4, <2>1, <3>1
  <2>6. a < p
    <3>1. ASSUME p < a PROVE FALSE
      <4>1. a \in Nat
        BY <2>1, <3>1
      <4>2. PICK f \in R : p <= f /\ f < a
        <5>1. \E f \in R : p <= f /\ f < a /\ f + 1 \notin U
          <6> HIDE DEF U, R, z
          <6> QED BY <1>1, <1>9, <3>1, <4>1, EndBetween DEF U
        <5> QED BY <5>1
      <4>3. f \in Nat /\ f < e
        BY <1>1, <1>3, <4>1, <4>2
      <4> QED BY <2>4, <4>2, <4>3
    <3>2. p # a
      BY <1>9
    <3> QED BY <2>1, <3>1, <3>2
  <2> QED BY <1>3, <1>5, <1>6, <2>1, <2>3, <2>5, <2>6
<1> QED BY <1>2, <1>3, <1>6, <1>7, <1>8, <1>9 DEF InRunFrom

\* UpIntoRun and DownIntoRun for every place and shift.
LEMMA UpIntoRuns ==
    ASSUME NEW R, \A y \in R : y \in Nat
    PROVE  \A e \in R : \A l \in Int : -1 <= l /\ l < e /\ (\A y \in (l + 1)..(e - 1) : y \notin R) =>
              \A r \in (l + 1)..(e + 1) : \A b \in Nat : e < b /\ b \notin R =>
                 /\ Below(ShiftRunendsRight(R, e, b), r) = Below(R, e)
                 /\ \A p \in Nat : p # b => Below(ShiftRunendsRight(R, e, b), Up(r, b, p)) = Below(R, p)
BY UpIntoRun
\* No run comes or goes, so no rank moves.
LEMMA SameRankMoves ==
    ASSUME NEW R, NEW S, NEW c, NEW p, NEW q, Below(R, p) \in Nat, Below(S, q) = Below(R, p), NEW f, f = FALSE
    PROVE  RankMoves(R, S, f, c, p, q)
<1>1. Bit(f /\ c <= Below(R, p)) = 0
  BY DEF Bit
<1> QED BY <1>1 DEF RankMoves

\* Into a run that exists.
LEMMA PutsInRun ==
    ASSUME NEW s, NEW size \in 1..InfixSize, Good(s, size), Sorted(s), NEW i \in s.occupieds,
           NEW x \in Nat, NEW m, m = Mapping(s.size_grade)[i], NEW t, t = InsertIntoRun(s, i, x, m)
    PROVE  Puts(s, i, x, t.slots, t.runends)
<1> DEFINE R == s.runends
           O == s.occupieds
           U == UsedSlots(s)
           z == Size(s)
           e == RunEndOf(s, i)
           a == FindEmptySlotBefore(s, m)
           b == FindEmptySlotAfter(s, m)
           l == Max({PreviousRunend(s, e), a})
           r == PlaceInRun(s, l, e, x)
           c == Below(O, i)
<1>1. /\ z \in Nat /\ z > 0
      /\ \A y \in R : y \in Nat /\ y < z /\ y \in U
      /\ \A p \in U : p \in Nat /\ p < z
      /\ \A p \in Nat : p < z => (p \in U <=> s.slots[p] # 0)
  BY GoodFacts
<1>2. /\ Fields \subseteq DOMAIN s
      /\ DOMAIN s.slots = 0..(z - 1)
      /\ DOMAIN s.popcnts = {0, 1}
  BY DEF Good, Positions
<1>3. t = ShiftIntoRun(s, x, e, b, a, r)
  BY DEF InsertIntoRun
<1>4. e \in R /\ Below(R, e) = Below(O, i)
  BY RunEndIs
<1>e. PICK ee : ee = e
  OBVIOUS
<1> HIDE DEF e
<1>5. /\ m \in U
      /\ \A y \in Nat : y < z /\ y \notin U /\ m < y => m <= e /\ e < y
      /\ \A y \in Nat : y \notin U /\ y < m => y < e
  BY <1>4, RunNearMapped
<1>6. m \in Nat /\ m < z /\ e \in Nat /\ e < z /\ e \in U
  BY <1>1, <1>4, <1>5
<1>7. /\ b \in Nat /\ m < b /\ b <= z
      /\ \A p \in m..(b - 1) : p \in U
      /\ b < z => b \notin U
  BY <1>5, EmptyAfterIs
<1>8. /\ a \in Int /\ -1 <= a /\ a < m /\ a \notin U
      /\ \A p \in (a + 1)..m : p \in U
  BY <1>5, EmptyBeforeIs
<1> HIDE DEF a, b
<1>9. a < e /\ e < b
  <2>1. a < e
    BY <1>5, <1>6, <1>8
  <2>2. e < b
    <3>1. CASE b < z
      BY <1>5, <1>7, <3>1
    <3>2. CASE ~(b < z)
      BY <1>1, <1>6, <1>7, <3>2
    <3> QED BY <3>1, <3>2
  <2> QED BY <2>1, <2>2
<1>14. \A p \in (a + 1)..(b - 1) : p \in U
  <2> SUFFICES ASSUME NEW p \in (a + 1)..(b - 1) PROVE p \in U
    OBVIOUS
  <2>1. p \in Int /\ (p <= m \/ m <= p)
    BY <1>6, <1>7, <1>8
  <2> QED BY <1>6, <1>7, <1>8, <2>1
<1>10. InRunFrom(s, i, l, e) /\ a <= l
  <2>1. \A y \in (a + 1)..e : y \in U
    <3>1. TAKE y \in (a + 1)..e
    <3>2. y \in (a + 1)..(b - 1)
      BY <1>6, <1>7, <1>8, <1>9
    <3> QED BY <1>14, <3>2
  <2> QED BY <1>8, <1>9, <2>1, RunFrom DEF e
<1> HIDE DEF l
<1>11. /\ l \in Int /\ -1 <= l /\ l < e
       /\ \A y \in (l + 1)..(e - 1) : y \notin R
  BY <1>10 DEF InRunFrom
<1>12. r \in (l + 1)..(e + 1)
  BY <1>6, <1>11, PlaceInRunIs
<1>13. Between(s, i, x, r)
  BY <1>10, PlaceBetween
<1> HIDE DEF r
<1>15. r \in Nat /\ a + 1 <= r /\ r <= e + 1 /\ r <= b
  BY <1>6, <1>7, <1>8, <1>9, <1>10, <1>11, <1>12
<1>16. (i \notin O) = FALSE
  OBVIOUS
<1>17. (\A y \in R : y \in Nat) /\ \A p \in U : Below(R, p) \in Nat
  BY <1>1, GoodCounts
<1>18. CASE b < z
  <2>1. /\ t.runends = ShiftRunendsRight(R, e, b)
        /\ t.slots = [ShiftSlotsRight(s.slots, r, b) EXCEPT ![r] = x]
    BY <1>2, <1>3, <1>18 DEF ShiftIntoRun, Fields
  <2>2. WrittenUp(z, s.slots, t.slots, x, r, b)
    <3>1. \A p \in r..(b - 1) : s.slots[p] # 0
      <4>1. TAKE p \in r..(b - 1)
      <4>2. p \in (a + 1)..(b - 1)
        BY <1>7, <1>8, <1>15
      <4>3. p \in U /\ p \in Nat /\ p < z
        BY <1>1, <1>14, <4>2
      <4> QED BY <1>1, <4>3
    <3>2. s.slots[b] = 0
      BY <1>1, <1>7, <1>18
    <3> HIDE DEF z
    <3>3. WrittenUp(z, s.slots, [ShiftSlotsRight(s.slots, r, b) EXCEPT ![r] = x], x, r, b)
      BY <1>1, <1>2, <1>7, <1>15, <1>18, <3>1, <3>2, WrittenRight
    <3> QED BY <2>1, <3>3
  <2>3. b \notin U /\ b \notin R
    BY <1>1, <1>7, <1>18
  <2>4. /\ Below(ShiftRunendsRight(R, e, b), r) = Below(R, e)
        /\ \A p \in Nat : p # b => Below(ShiftRunendsRight(R, e, b), Up(r, b, p)) = Below(R, p)
    <3>1. \A e1 \in R : \A l1 \in Int : -1 <= l1 /\ l1 < e1 /\ (\A y \in (l1 + 1)..(e1 - 1) : y \notin R) =>
              \A r1 \in (l1 + 1)..(e1 + 1) : \A b1 \in Nat : e1 < b1 /\ b1 \notin R =>
                 /\ Below(ShiftRunendsRight(R, e1, b1), r1) = Below(R, e1)
                 /\ \A p \in Nat : p # b1 => Below(ShiftRunendsRight(R, e1, b1), Up(r1, b1, p)) = Below(R, p)
      <4> HIDE DEF R
      <4> QED BY <1>17, UpIntoRuns
    <3> HIDE DEF R
    <3> QED BY <1>4, <1>7, <1>9, <1>11, <1>12, <2>3, <3>1
  <2>5. \A p \in U : RankMoves(R, t.runends, i \notin O, c, p, Up(r, b, p))
    <3>1. TAKE p \in U
    <3>2. p \in Nat /\ p # b /\ Below(R, p) \in Nat
      BY <1>1, <1>17, <2>3
    <3>3. Below(t.runends, Up(r, b, p)) = Below(R, p)
      BY <2>1, <2>4, <3>2
    <3> QED BY <1>16, <3>2, <3>3, SameRankMoves
  <2>6. Below(t.runends, r) = c
    BY <1>4, <2>1, <2>4
  <2>7. PutsUp(s, i, x, t.slots, t.runends, r, b)
    BY <1>7, <1>13, <1>15, <1>18, <2>2, <2>5, <2>6 DEF PutsUp
  <2> QED BY <1>7, <1>15, <2>7 DEF Puts
<1>19. CASE ~(b < z)
  <2> DEFINE d == Min({e, r})
  <2>0. b = z /\ a # -1
    <3>1. b = z
      BY <1>1, <1>7, <1>19
    <3>2. ASSUME a = -1 PROVE FALSE
      <4>1. PICK q \in 0..(z - 1) : q \notin U
        BY SomeEmpty
      <4>2. q \in (a + 1)..(b - 1)
        BY <1>1, <3>1, <3>2, <4>1
      <4> QED BY <1>14, <4>1, <4>2
    <3> QED BY <3>1, <3>2
  <2>1. /\ t.runends = ShiftRunendsLeft(R, a + 1, d)
        /\ t.slots = [ShiftSlotsLeft(s.slots, a + 1, r) EXCEPT ![r - 1] = x]
    BY <1>2, <1>3, <1>19 DEF ShiftIntoRun, Fields
  <2>d. d = IF e <= r THEN e ELSE r
    BY <1>6, <1>15, MinTwo
  <2> HIDE DEF d
  <2>a. a \in Nat /\ a < r /\ r <= z /\ r - 1 \in Nat /\ a <= r - 1 /\ r - 1 < z /\ (r - 1) + 1 = r
    BY <1>1, <1>6, <1>8, <1>15, <2>0
  <2>2. WrittenDown(z, s.slots, t.slots, x, r - 1, a)
    <3>1. \A p \in (a + 1)..(r - 1) : s.slots[p] # 0
      <4>1. TAKE p \in (a + 1)..(r - 1)
      <4>2. p \in (a + 1)..(b - 1)
        BY <1>7, <1>15, <2>a
      <4>3. p \in U /\ p \in Nat /\ p < z
        BY <1>1, <1>14, <4>2
      <4> QED BY <1>1, <4>3
    <3>2. s.slots[a] = 0
      BY <1>1, <1>6, <1>8, <2>a
    <3> HIDE DEF z
    <3>3. WrittenDown(z, s.slots, [ShiftSlotsLeft(s.slots, a + 1, r) EXCEPT ![r - 1] = x], x, r - 1, a)
      BY <1>1, <1>2, <1>15, <2>a, <3>1, <3>2, WrittenLeft
    <3> QED BY <2>1, <3>3
  <2>3. a \notin R
    BY <1>1, <1>8
  <2>4. /\ Below(ShiftRunendsLeft(R, a + 1, d), r - 1) = Below(R, e)
        /\ \A p \in Nat : p # a =>
              Below(ShiftRunendsLeft(R, a + 1, d), Down(a, r - 1, p)) = Below(R, p)
    <3>1. DownAt(R, l, e, r, a, d, r - 1, a + 1)
      <4>1. a \in Nat /\ a <= l /\ a \notin R
        BY <1>10, <2>3, <2>a
      <4> QED BY <1>4, <1>11, <1>12, <1>17, <2>d, <4>1 DEF DownAt
    <3> QED BY <3>1, DownIntoRun
  <2>5. \A p \in U : RankMoves(R, t.runends, i \notin O, c, p, Down(a, r - 1, p))
    <3>1. TAKE p \in U
    <3>2. p \in Nat /\ p # a /\ Below(R, p) \in Nat
      BY <1>1, <1>8, <1>17
    <3>3. Below(t.runends, Down(a, r - 1, p)) = Below(R, p)
      BY <2>1, <2>4, <3>2
    <3> QED BY <1>16, <3>2, <3>3, SameRankMoves
  <2>6. Below(t.runends, r - 1) = c
    BY <1>4, <2>1, <2>4
  <2>7. PutsDown(s, i, x, t.slots, t.runends, r - 1, a)
    BY <1>13, <2>2, <2>5, <2>6, <2>a DEF PutsDown
  <2> QED BY <2>a, <2>7 DEF Puts
<1> QED BY <1>18, <1>19

\* The explicit part of an odd infix is odd: it ends in the last bit.
LEMMA OddPart ==
    ASSUME NEW size \in 1..InfixSize, NEW key \in InsertedInfixes(size),
           NEW x, x = Explicit(key, size)
    PROVE  x \in Nat /\ x % 2 = 1 /\ LowBitPos(x) = 0 /\ LowBit(x) = 1 /\ Start(x) = x - 1
<1>1. key \in Nat /\ key % 2 = 1 /\ Slotted(x, size)
  BY OddKeys
<1>2. PICK h \in Nat : h > 0 /\ 2^size = 2 * h
  <2>1. PICK k \in 0..InfixSize : size = k + 1
    <3>1. size - 1 \in 0..InfixSize /\ size = (size - 1) + 1
      BY Powers
    <3> QED BY <3>1
  <2> QED BY <2>1, Powers
<1>3. x % 2 = 1 /\ x \in Nat
  <2>1. 2^size \in Nat /\ 2^size > 0
    BY <1>2
  <2>2. PICK d \in Nat : \E r \in 0..(2^size - 1) :
            key \div 2^size = d /\ key % 2^size = r /\ key = 2^size * d + r
    BY <1>1, <2>1, DivMod
  <2>3. PICK r \in 0..(2^size - 1) : key % 2^size = r /\ key = 2^size * d + r
    BY <2>2
  <2>4. PICK c \in Nat : c = h * d
    OBVIOUS
  <2>5. 2^size * d = 2 * c
    BY <1>2, <2>4
  <2>6. x = r /\ r \in Nat /\ key = 2 * c + r
    BY <2>1, <2>3, <2>5 DEF Explicit
  <2> QED BY <1>1, <2>6
<1>4. LowBitPos(x) \in 0..(size - 1) /\ \A j \in 1..LowBitPos(x) : x % 2^j = 0
  BY <1>1, LowBitIs
<1>5. LowBitPos(x) = 0
  <2> SUFFICES ASSUME LowBitPos(x) # 0 PROVE FALSE
    OBVIOUS
  <2>1. 1 \in 1..LowBitPos(x)
    BY <1>4
  <2>2. x % 2^1 = 0
    BY <1>4, <2>1
  <2>3. 2^1 = 2
    <3>1. 0 \in 0..InfixSize /\ 2^(0 + 1) = 2 * 2^0
      BY Powers
    <3> QED BY <3>1, Powers
  <2> QED BY <1>3, <2>2, <2>3
<1>6. x # 0
  BY <1>1 DEF Slotted
<1>7. LowBit(x) = 1
  BY <1>5, <1>6, Powers DEF LowBit
<1>8. Start(x) = x - 1
  BY <1>7 DEF Start
<1> QED BY <1>3, <1>5, <1>7, <1>8

\* However an infix is placed, it goes where it belongs.
LEMMA PlacedPuts ==
    ASSUME NEW s, NEW size \in 1..InfixSize, Good(s, size), Sorted(s), NEW i \in Parts,
           NEW x \in Nat, NEW m, m = Mapping(s.size_grade)[i], NEW t, t = Placed(s, i, x, m)
    PROVE  Puts(s, i, x, t.slots, t.runends)
<1>1. CASE i \in s.occupieds
  <2>1. t = InsertIntoRun(s, i, x, m)
    BY <1>1 DEF Placed
  <2> QED BY <1>1, <2>1, PutsInRun
<1>2. CASE i \notin s.occupieds /\ s.slots[m] = 0
  <2>1. t = InsertAtMappedPos(s, i, x, m)
    BY <1>2 DEF Placed
  <2>2. t.slots = [s.slots EXCEPT ![m] = x] /\ t.runends = s.runends \cup {m}
    <3>1. Fields \subseteq DOMAIN s
      BY DEF Good
    <3> QED BY <2>1, <3>1 DEF InsertAtMappedPos, Fields
  <2> QED BY <1>2, <2>2, PutsAtEmpty
<1>3. CASE i \notin s.occupieds /\ s.slots[m] # 0
  <2>1. t = InsertNewRun(s, i, x, m)
    BY <1>3 DEF Placed
  <2> QED BY <1>3, <2>1, PutsNewRun
<1> QED BY <1>1, <1>2, <1>3

\* Where x lies among the infixes of its run once it is put there.
Orderly(s, i, x, r, f) ==
    \A p \in UsedSlots(s) : OccupiedOf(s, p) = i =>
        /\ f[p] < r => Start(s.slots[p]) < x
        /\ r < f[p] => ~(Start(s.slots[p]) < x)

\* Put so, an infix is one more in its store, at a place its run allows.
LEMMA PutsGrows ==
    ASSUME NEW s, NEW size, Good(s, size), NEW i \in Nat, NEW x, x # 0,
           NEW t, Ranked(t), Size(t) = Size(s), t.occupieds = s.occupieds \cup {i},
           Puts(s, i, x, t.slots, t.runends)
    PROVE  \E r, f : Grows(s, t, i, x, r, f) /\ Orderly(s, i, x, r, f)
<1> DEFINE U == UsedSlots(s)
           V == UsedSlots(t)
           c == Below(s.occupieds, i)
           z == Size(s)
<1>1. /\ z \in Nat
      /\ \A e \in s.runends : e \in Nat
      /\ \A p \in U : p \in Nat /\ p < z
  BY GoodFacts
<1>2. U = InUse(z, s.slots) /\ V = InUse(z, t.slots)
  BY DEF UsedSlots, Positions, InUse
<1>3. \A o \in s.occupieds : o \in t.occupieds
  OBVIOUS
<1>4. ASSUME NEW r, NEW f, Spaced(U, s.slots, V, t.slots, x, r, f), Below(t.runends, r) = c,
             \A p \in U : RankMoves(s.runends, t.runends, i \notin s.occupieds, c, p, f[p])
      PROVE  Grows(s, t, i, x, r, f)
  <2>1. \A p \in U : p \in Nat
    BY <1>1
  <2> QED BY <1>1, <1>3, <1>4, <2>1, GrowsBy
<1>5. ASSUME NEW r \in Nat, NEW b \in Nat, PutsUp(s, i, x, t.slots, t.runends, r, b)
      PROVE  \E r1, f1 : Grows(s, t, i, x, r1, f1) /\ Orderly(s, i, x, r1, f1)
  <2> DEFINE f == [p \in U |-> Up(r, b, p)]
  <2>1. /\ r <= b /\ b < z /\ WrittenUp(z, s.slots, t.slots, x, r, b)
        /\ Below(t.runends, r) = c
        /\ \A p \in U : RankMoves(s.runends, t.runends, i \notin s.occupieds, c, p, Up(r, b, p))
        /\ Between(s, i, x, r)
    BY <1>5 DEF PutsUp
  <2>2. Spaced(U, s.slots, V, t.slots, x, r, f) /\ b \notin U
    <3> HIDE DEF z, U, V
    <3> QED BY <1>1, <1>2, <2>1, SpacedUp
  <2>3. \A p \in U : f[p] = Up(r, b, p)
    OBVIOUS
  <2> HIDE DEF f
  <2>4. Grows(s, t, i, x, r, f)
    BY <1>4, <2>1, <2>2, <2>3
  <2>5. Orderly(s, i, x, r, f)
    <3>1. \A p \in U : /\ f[p] < r => p < r
                       /\ r < f[p] => ~(p < r)
      <4>1. TAKE p \in U
      <4>2. p \in Nat /\ p # b
        BY <1>1, <2>2
      <4> QED BY <2>1, <2>3, <4>2 DEF Up
    <3> QED BY <2>1, <3>1 DEF Orderly, Between
  <2> QED BY <2>4, <2>5
<1>6. ASSUME NEW r \in Nat, NEW a \in Nat, PutsDown(s, i, x, t.slots, t.runends, r, a)
      PROVE  \E r1, f1 : Grows(s, t, i, x, r1, f1) /\ Orderly(s, i, x, r1, f1)
  <2> DEFINE f == [p \in U |-> Down(a, r, p)]
  <2>1. /\ a <= r /\ r < z /\ WrittenDown(z, s.slots, t.slots, x, r, a)
        /\ Below(t.runends, r) = c
        /\ \A p \in U : RankMoves(s.runends, t.runends, i \notin s.occupieds, c, p, Down(a, r, p))
        /\ Between(s, i, x, r + 1)
    BY <1>6 DEF PutsDown
  <2>2. Spaced(U, s.slots, V, t.slots, x, r, f) /\ a \notin U
    <3> HIDE DEF z, U, V
    <3> QED BY <1>1, <1>2, <2>1, SpacedDown
  <2>3. \A p \in U : f[p] = Down(a, r, p)
    OBVIOUS
  <2> HIDE DEF f
  <2>4. Grows(s, t, i, x, r, f)
    BY <1>4, <2>1, <2>2, <2>3
  <2>5. Orderly(s, i, x, r, f)
    <3>1. \A p \in U : /\ f[p] < r => p < r + 1
                       /\ r < f[p] => ~(p < r + 1)
      <4>1. TAKE p \in U
      <4>2. p \in Nat /\ p # a
        BY <1>1, <2>2
      <4> QED BY <2>1, <2>3, <4>2 DEF Down
    <3> QED BY <2>1, <3>1 DEF Orderly, Between
  <2> QED BY <2>4, <2>5
<1> QED BY <1>5, <1>6 DEF Puts

\* An insertion adds its infix, and leaves the runs sorted.
LEMMA InsertGrows ==
    ASSUME NEW s, NEW size \in 1..InfixSize, Good(s, size), Sorted(s), s.elem_count + 1 < Size(s),
           NEW key \in InsertedInfixes(size), NEW i, i = Implicit(key, size),
           NEW x, x = Explicit(key, size), NEW t, t = InsertInto(s, i, x, TotalImplicit)
    PROVE  /\ Good(t, size) /\ Sorted(t)
           /\ BagOf(t, size) = BagOf(s, size) (+) SetToBag({i * 2^size + x})
<1>1. i \in Parts /\ Slotted(x, size) /\ i \in Nat
  <2>1. TargetSize \in Nat
    BY SizesAssumption
  <2> QED BY <2>1, OddKeys DEF Parts
<1>2. x \in Nat /\ Start(x) = x - 1 /\ LowBit(x) = 1 /\ x # 0
  BY <1>1, OddPart DEF Slotted
<1>3. Good(t, size)
  BY <1>1, InsertedGood
<1>4. PICK m : m = Mapping(s.size_grade)[i]
  OBVIOUS
<1>5. PICK u : u = Placed(s, i, x, m)
  OBVIOUS
<1>6. Puts(s, i, x, u.slots, u.runends)
  BY <1>1, <1>2, <1>4, <1>5, PlacedPuts
<1>7. PlacedWell(s, size, i, u)
  BY <1>1, <1>4, <1>5, PlacedIsWell
<1>8. /\ t.slots = u.slots /\ t.runends = u.runends
      /\ t.occupieds = s.occupieds \cup {i}
      /\ t.size_grade = s.size_grade
  <2>1. GetMappedPos(i, s.size_grade, TotalImplicit) = m
    BY <1>1, <1>4 DEF Mapping
  <2>2. t = [u EXCEPT !.occupieds = @ \cup {i}, !.elem_count = @ + 1]
    BY <1>5, <2>1 DEF InsertInto
  <2>3. Fields \subseteq DOMAIN u /\ u.size_grade = s.size_grade /\ u.occupieds = s.occupieds
    BY <1>7 DEF PlacedWell
  <2> QED BY <2>2, <2>3 DEF Fields
<1>9. Ranked(t) /\ Size(t) = Size(s)
  BY <1>3, <1>8, GoodRanked DEF Size
<1>10. PICK r, f : Grows(s, t, i, x, r, f) /\ Orderly(s, i, x, r, f)
  BY <1>1, <1>2, <1>6, <1>8, <1>9, PutsGrows
<1>11. Bounded(s) /\ Bounded(t)
  BY <1>3, GoodFacts DEF Bounded
<1>12. BagOf(t, size) = BagOf(s, size) (+) SetToBag({i * 2^size + x})
  BY <1>10, <1>11, GrowsBag
<1>13. ASSUME NEW v, Slotted(v, size)
       PROVE  /\ Start(v) < x => ListBefore(v, x)
              /\ ~(Start(v) < x) => ListBefore(x, v)
  <2>1. Start(v) \in Nat /\ LowBit(v) \in Nat /\ LowBit(v) > 0
    BY <1>13, StartInt
  <2> QED BY <1>2, <2>1 DEF ListBefore
<1>14. Sorted(t)
  <2>1. \A p \in UsedSlots(t) : p \in Nat
    BY <1>3, GoodFacts
  <2>2. \A p \in UsedSlots(s) : p \in Nat
    BY GoodFacts
  <2>3. \A p \in UsedSlots(s) : OccupiedOf(s, p) = i =>
               /\ f[p] < r => ListBefore(s.slots[p], x)
               /\ r < f[p] => ListBefore(x, s.slots[p])
    <3>1. \A p \in UsedSlots(s) : Slotted(s.slots[p], size)
      BY GoodSlotted
    <3> QED BY <1>10, <1>13, <3>1 DEF Orderly
  <2> QED BY <1>10, <2>1, <2>2, <2>3, GrowsSorted
<1> QED BY <1>3, <1>12, <1>14

-----------------------------------------------------------------------------
(* Deletions.                                                                *)

\* Where a right shift out of the runs up to e may start: at the first slot of a
\* run, or at the empty slot before it.
StartsAt(s, e, L, start) ==
    /\ L \in Nat /\ L <= e /\ start \in Nat
    /\ \A x \in L..(Size(s) - 1) : x \in UsedSlots(s)
    /\ L - 1 \in UsedSlots(s) => L - 1 \in s.runends
    /\ start = L \/ (start + 1 = L /\ start \notin UsedSlots(s))

\* ShiftStart finds such a start, or none.
LEMMA ShiftStartsAt ==
    ASSUME NEW s, NEW size, Good(s, size), NEW e \in s.runends,
           ~RightOfRun(s, e, TotalImplicit).found,
           NEW start, start = ShiftStart(s, e, TotalImplicit)
    PROVE  start = -1 \/ \E L : StartsAt(s, e, L, start)
<1> DEFINE R == s.runends
           U == UsedSlots(s)
           z == Size(s)
           a == FindEmptySlotBefore(s, e)
           first == FirstEnd(s, e)
           p == PreviousRunend(s, first)
           st(f) == StartOf(s, first, a, f)
           m(f) == MappedOf(s, f)
           inner == {f \in R : first < f /\ f <= e /\ m(f) > PreviousRunend(s, f) + 1}
           outer == IF p >= 0 THEN {k \in {FindEmptySlotBefore(s, first) + 1} : m(first) > k}
                    ELSE {k \in {a} : 0 <= k /\ k < m(first)}
           starts == outer \cup {PreviousRunend(s, f) + 1 : f \in inner}
<1>0. start = IF starts = {} THEN -1 ELSE Min(starts)
  BY DEF ShiftStart, FirstEnd, MappedOf
<1>1. /\ z \in Nat /\ z > 0
      /\ \A x \in R : x \in Nat /\ x < z /\ x \in U
      /\ \A x \in U : x \in Nat /\ x < z
  BY GoodFacts
<1>2. e \in Nat /\ e < z /\ e \in U
  BY <1>1
<1>3. \A x \in e..(z - 1) : x \in U
  BY RightOfRunIs
<1>4. /\ a \in Nat /\ a < e /\ a \notin U
      /\ \A x \in (a + 1)..(z - 1) : x \in U
      /\ first \in R /\ a < first /\ first <= e
      /\ \A f \in R : a < f => first <= f
      /\ FindEmptySlotBefore(s, first) = a
  BY <1>3, FirstEndIs
<1>5. first \in Nat
  BY <1>1, <1>4
<1> HIDE DEF a, first
<1>6. ASSUME NEW f \in R, first <= f
      PROVE  /\ st(f) \in Nat /\ a + 1 <= st(f) /\ st(f) <= f
             /\ st(f) - 1 \in U => st(f) - 1 \in R
  BY <1>4, <1>6, StartOfIs
<1>7. st(first) = a + 1
  BY DEF StartOf
<1>8. \A f \in R : first < f => st(f) = PreviousRunend(s, f) + 1
  BY <1>1, <1>5 DEF StartOf
<1> HIDE DEF st, m, p, U, R, z
<1>9. \A k \in starts : k = a \/ \E f \in R : first <= f /\ f <= e /\ k = st(f)
  <2>1. TAKE k \in starts
  <2>2. CASE k \in outer
    <3>1. k = a \/ k = a + 1
      BY <1>4, <2>2
    <3> QED BY <1>4, <1>5, <1>7, <3>1
  <2>3. CASE k \notin outer
    <3>1. PICK f \in inner : k = PreviousRunend(s, f) + 1
      BY <2>3
    <3>2. f \in R /\ first < f /\ f <= e /\ first <= f
      BY <1>1, <1>5, <3>1
    <3> QED BY <1>8, <3>1, <3>2
  <2> QED BY <2>2, <2>3
<1> HIDE DEF starts
<1>10. CASE starts = {}
  BY <1>0, <1>10
<1>11. CASE starts # {}
  <2>1. \A k \in starts : k \in 0..z
    <3>1. TAKE k \in starts
    <3>2. CASE k = a
      BY <1>1, <1>2, <1>4, <3>2
    <3>3. CASE k # a
      <4>1. PICK f \in R : first <= f /\ f <= e /\ k = st(f)
        BY <1>9, <3>3
      <4>2. st(f) \in Nat /\ st(f) <= f /\ f \in Nat /\ f < z
        BY <1>1, <1>6, <4>1
      <4> QED BY <1>1, <4>1, <4>2
    <3> QED BY <3>2, <3>3
  <2>2. start \in starts
    <3>1. 0 \in Int /\ z \in Int
      BY <1>1
    <3>2. Min(starts) \in starts
      BY <1>11, <2>1, <3>1, MinOf
    <3> QED BY <1>0, <1>11, <3>2
  <2>3. CASE start = a
    <3>1. PICK L \in Nat : L = a + 1
      BY <1>4
    <3>2. L <= e /\ L - 1 = a
      BY <1>2, <1>4, <3>1
    <3>3. \A x \in L..(z - 1) : x \in U
      BY <1>4, <3>1
    <3>4. StartsAt(s, e, L, start)
      BY <1>4, <2>3, <3>1, <3>2, <3>3 DEF StartsAt, U, R, z
    <3> QED BY <3>4
  <2>4. CASE start # a
    <3>1. PICK f \in R : first <= f /\ f <= e /\ start = st(f)
      BY <1>9, <2>2, <2>4
    <3>2. /\ start \in Nat /\ a + 1 <= start /\ start <= f
          /\ start - 1 \in U => start - 1 \in R
      BY <1>6, <3>1
    <3>3. start <= e
      BY <1>1, <1>2, <3>1, <3>2
    <3>4. \A x \in start..(z - 1) : x \in U
      <4>1. TAKE x \in start..(z - 1)
      <4>2. x \in (a + 1)..(z - 1)
        BY <1>1, <1>4, <3>2
      <4> QED BY <1>4, <4>2
    <3>5. StartsAt(s, e, start, start)
      BY <3>2, <3>3, <3>4 DEF StartsAt, U, R, z
    <3> QED BY <3>5
  <2> QED BY <2>3, <2>4
<1> QED BY <1>10, <1>11

\* Writing back what a deletion closed from the right over k ...
LEMMA ClosedLeftWrites ==
    ASSUME NEW z \in Nat, NEW S, DOMAIN S = 0..(z - 1), NEW k \in Nat, NEW h \in Nat, k <= h, h < z,
           \A p \in k..h : S[p] # 0, NEW T, T = ShiftSlotsLeft(S, k + 1, h + 1)
    PROVE  WrittenUp(z, T, S, S[k], k, h)
<1>1. \A p \in 0..(z - 1) : T[p] = IF p = h THEN 0 ELSE IF k <= p /\ p < h THEN S[p + 1] ELSE S[p]
  BY DEF ShiftSlotsLeft
<1>2. \A p \in 0..(z - 1) : S[p] = IF p = k THEN S[k]
                                    ELSE IF k < p /\ p <= h THEN T[p - 1] ELSE T[p]
  <2>1. TAKE p \in 0..(z - 1)
  <2>2. CASE k < p /\ p <= h
    <3>1. p - 1 \in 0..(z - 1) /\ k <= p - 1 /\ p - 1 < h /\ (p - 1) + 1 = p
      BY <2>2
    <3>2. T[p - 1] = S[p]
      BY <1>1, <3>1
    <3> QED BY <2>2, <3>2
  <2>3. CASE ~(k < p /\ p <= h) /\ p # k
    <3>1. T[p] = S[p]
      BY <1>1, <2>3
    <3> QED BY <2>3, <3>1
  <2> QED BY <2>2, <2>3
<1>3. T[h] = 0
  BY <1>1
<1>4. \A p \in k..(h - 1) : T[p] # 0
  <2>1. TAKE p \in k..(h - 1)
  <2>2. p \in 0..(z - 1) /\ p + 1 \in k..h
    OBVIOUS
  <2>3. T[p] = S[p + 1]
    BY <1>1, <2>2
  <2> QED BY <2>2, <2>3
<1> QED BY <1>2, <1>3, <1>4 DEF WrittenUp

\* ... and from the left.
LEMMA ClosedRightWrites ==
    ASSUME NEW z \in Nat, NEW S, DOMAIN S = 0..(z - 1), NEW k \in Nat, NEW L \in Nat, L <= k, k < z,
           NEW a \in Nat, a = L \/ (a + 1 = L /\ S[a] = 0),
           \A p \in L..k : S[p] # 0, NEW T, T = ShiftSlotsRight(S, a, k)
    PROVE  WrittenDown(z, T, S, S[k], k, L)
<1>1. \A p \in 0..(z - 1) : T[p] = IF p = a THEN 0 ELSE IF a < p /\ p <= k THEN S[p - 1] ELSE S[p]
  BY DEF ShiftSlotsRight
<1>2. \A p \in 0..(z - 1) : S[p] = IF p = k THEN S[k]
                                    ELSE IF L <= p /\ p < k THEN T[p + 1] ELSE T[p]
  <2>1. TAKE p \in 0..(z - 1)
  <2>2. CASE L <= p /\ p < k
    <3>1. p + 1 \in 0..(z - 1) /\ a < p + 1 /\ p + 1 <= k /\ (p + 1) - 1 = p /\ p + 1 # a
      BY <2>2
    <3>2. T[p + 1] = S[p]
      BY <1>1, <3>1
    <3> QED BY <2>2, <3>2
  <2>3. CASE ~(L <= p /\ p < k) /\ p # k
    <3>1. T[p] = S[p]
      <4>1. CASE p = a
        <5>1. a # L
          BY <2>3, <4>1
        <5> QED BY <1>1, <4>1, <5>1
      <4>2. CASE p # a
        <5>1. ~(a < p /\ p <= k)
          BY <2>3, <4>2
        <5> QED BY <1>1, <4>2, <5>1
      <4> QED BY <4>1, <4>2
    <3> QED BY <2>3, <3>1
  <2> QED BY <2>2, <2>3
<1>3. T[L] = 0
  <2>1. CASE a = L
    BY <1>1, <2>1
  <2>2. CASE a # L
    <3>1. a + 1 = L /\ S[a] = 0 /\ a < L /\ L - 1 = a /\ L \in 0..(z - 1)
      BY <2>2
    <3> QED BY <1>1, <3>1
  <2> QED BY <2>1, <2>2
<1>4. \A p \in (L + 1)..k : T[p] # 0
  <2>1. TAKE p \in (L + 1)..k
  <2>2. p \in 0..(z - 1) /\ p - 1 \in L..k /\ a < p
    OBVIOUS
  <2>3. T[p] = S[p - 1]
    BY <1>1, <2>2
  <2> QED BY <2>2, <2>3
<1> QED BY <1>2, <1>3, <1>4 DEF WrittenDown

\* Slots T and run ends S are those of s without the infix at k of the run of i,
\* which goes with it when it is `gone'.
Takes(s, i, k, gone, T, S) ==
    /\ Below(s.runends, k) = Below(s.occupieds, i)
    /\ \A y \in S : y \in Nat
    /\ \E f : /\ Spaced(InUse(Size(s), T), T, UsedSlots(s), s.slots, s.slots[k], k, f)
              /\ \A p \in InUse(Size(s), T) :
                    RankMoves(S, s.runends, gone, Below(s.occupieds, i), p, f[p])

\* The run [rs, e] of i with all its slots.
WholeRun(s, i, rs, e) ==
    /\ Run(UsedSlots(s), s.occupieds, s.runends, i, rs, e)
    /\ \A p \in UsedSlots(s) : Below(s.runends, p) = Below(s.occupieds, i) => p \in rs..e

\* The slots before a run are of a smaller rank.
LEMMA RankBefore ==
    ASSUME NEW s, NEW size, Good(s, size), NEW i, NEW rs, NEW e, WholeRun(s, i, rs, e)
    PROVE  \A p \in UsedSlots(s) : p < rs => Below(s.runends, p) < Below(s.runends, e)
<1>1. TAKE p \in UsedSlots(s)
<1>2. HAVE p < rs
<1>3. p \in Nat /\ e \in Nat /\ rs \in Nat /\ rs <= e /\ e \in s.runends
  <2>1. e \in s.runends /\ rs \in 0..e
    BY DEF WholeRun, Run
  <2>2. e \in Nat /\ p \in Nat
    BY <2>1, GoodFacts
  <2> QED BY <2>1, <2>2
<1>4. Below(s.runends, p) <= Below(s.runends, e)
  <2>1. p <= e
    BY <1>2, <1>3
  <2> QED BY <1>3, <2>1, GoodCounts
<1>5. Below(s.runends, p) # Below(s.runends, e)
  <2>1. p \notin rs..e
    BY <1>2, <1>3
  <2>2. Below(s.runends, e) = Below(s.occupieds, i)
    BY DEF WholeRun, Run
  <2> QED BY <2>1, <2>2 DEF WholeRun
<1>6. Below(s.runends, p) \in Nat /\ Below(s.runends, e) \in Nat
  BY <1>3, GoodCounts
<1> QED BY <1>4, <1>5, <1>6

\* Every slot of a run has its rank.
LEMMA RankWithin ==
    ASSUME NEW s, NEW size, Good(s, size), NEW i, NEW rs, NEW e, WholeRun(s, i, rs, e), NEW k \in rs..e
    PROVE  Below(s.runends, k) = Below(s.occupieds, i)
<1>1. /\ e \in s.runends /\ rs \in 0..e /\ Below(s.runends, e) = Below(s.occupieds, i)
      /\ \A p \in rs..(e - 1) : p \notin s.runends
  BY DEF WholeRun, Run
<1>2. e \in Nat /\ k \in Nat /\ k <= e
  BY <1>1, GoodFacts
<1>3. \A y \in s.runends : ~(k <= y /\ y < e)
  <2>1. TAKE y \in s.runends
  <2>2. y \in Nat
    BY GoodFacts
  <2>3. k <= y /\ y < e => y \in rs..(e - 1)
    BY <1>1, <1>2, <2>2
  <2> QED BY <1>1, <2>3
<1>4. Below(s.runends, k) = Below(s.runends, e)
  BY <1>2, <1>3, GoodCounts
<1> QED BY <1>1, <1>4

\* Closing the hole from the right takes the infix out ...
LEMMA TakesLeft ==
    ASSUME NEW s, NEW size, Good(s, size), NEW i, NEW rs, NEW e, WholeRun(s, i, rs, e),
           NEW k \in rs..e, NEW h \in s.runends, e <= h, \A p \in e..h : p \in UsedSlots(s),
           NEW t, t = DeleteShiftingLeft(s, k, h, e, rs = e)
    PROVE  Takes(s, i, k, rs = e, t.slots, t.runends)
<1> DEFINE R == s.runends
           U == UsedSlots(s)
           z == Size(s)
           c == Below(s.occupieds, i)
           A == ShiftRunendsLeft(R, k + 1, h + 1) \ (IF k = h THEN {k} ELSE {})
           V == InUse(z, t.slots)
           f == [p \in V |-> Up(k, h, p)]
<1>1. /\ z \in Nat /\ z > 0
      /\ \A y \in R : y \in Nat /\ y < z /\ y \in U
      /\ \A p \in U : p \in Nat /\ p < z
      /\ \A p \in Nat : p < z => (p \in U <=> s.slots[p] # 0)
  BY GoodFacts
<1>2. /\ Fields \subseteq DOMAIN s
      /\ DOMAIN s.slots = 0..(z - 1)
  BY DEF Good, Positions
<1>3. /\ e \in R /\ rs \in 0..e /\ Below(R, e) = c
      /\ \A p \in rs..e : p \in U
      /\ \A p \in rs..(e - 1) : p \notin R
  BY DEF WholeRun, Run
<1>4. e \in Nat /\ h \in Nat /\ h < z /\ k \in Nat /\ k <= e /\ rs \in Nat /\ rs <= k /\ k <= h
  BY <1>1, <1>3
<1>5. /\ t.runends = IF rs = e THEN A ELSE A \cup {e - 1}
      /\ t.slots = ShiftSlotsLeft(s.slots, k + 1, h + 1)
  BY <1>2 DEF DeleteShiftingLeft, Fields
<1> HIDE DEF A
<1>6. \A p \in k..h : s.slots[p] # 0
  <2>1. TAKE p \in k..h
  <2>2. p \in Nat /\ p < z /\ (p \in rs..e \/ p \in e..h)
    BY <1>1, <1>4
  <2>3. p \in U
    BY <1>3, <2>2
  <2> QED BY <1>1, <2>2, <2>3
<1>7. WrittenUp(z, t.slots, s.slots, s.slots[k], k, h)
  <2> HIDE DEF z
  <2> QED BY <1>1, <1>2, <1>4, <1>5, <1>6, ClosedLeftWrites
<1>8. s.slots[k] # 0 /\ U = InUse(z, s.slots)
  BY <1>4, <1>6 DEF UsedSlots, Positions, InUse
<1>9. Spaced(V, t.slots, U, s.slots, s.slots[k], k, f) /\ h \notin V
  <2>1. PICK x : x = s.slots[k]
    OBVIOUS
  <2> HIDE DEF z, V
  <2> QED BY <1>1, <1>4, <1>7, <1>8, <2>1, SpacedUp DEF V
<1>10. \A p \in V : f[p] = Up(k, h, p) /\ p \in Nat /\ p # h
  BY <1>9 DEF InUse
<1> HIDE DEF f
<1>11. Below(R, k) = c
  BY RankWithin
<1>12. \A y \in R : y \in Nat
  BY <1>1
<1>13. CASE rs = e
  <2>1. k = e
    BY <1>4, <1>13
  <2>2. t.runends = ShiftRunendsLeft(R \ {e}, e + 1, h + 1)
    <3>1. LeftGone(R, e, h, 0)
      <4>1. e \in R /\ h \in R /\ e <= h /\ Naturals(R) /\ 0 \in Nat
        BY <1>3, <1>12 DEF Naturals
      <4> HIDE DEF R
      <4> QED BY <4>1, EndsLeftGone
    <3> QED BY <1>5, <1>13, <2>1, <3>1 DEF LeftGone, A
  <2>3. \A p \in V : p < e => Below(R, p) < c
    <3>1. TAKE p \in V
    <3>2. HAVE p < e
    <3>3. p \in U
      <4>1. p \in 0..(z - 1) /\ t.slots[p] # 0
        BY DEF InUse
      <4>2. t.slots[p] = s.slots[p]
        <5>1. p # (h + 1) - 1 /\ ~((k + 1) - 1 <= p)
          BY <1>4, <2>1, <3>2, <4>1
        <5> QED BY <1>2, <1>5, <4>1, <5>1 DEF ShiftSlotsLeft
      <4> QED BY <1>1, <4>1, <4>2
    <3>4. Below(R, p) < Below(R, e)
      BY <1>13, <3>2, <3>3, RankBefore
    <3> QED BY <1>3, <3>4
  <2>4. \A p \in V : RankMoves(ShiftRunendsLeft(R \ {e}, e + 1, h + 1), R, TRUE, c, p, Up(e, h, p))
    <3> HIDE DEF R, V, c
    <3>1. c = Below(R, e) /\ \A p \in V : p \in Nat /\ p # h
      BY <1>3, <1>10
    <3> QED BY <1>3, <1>4, <1>12, <2>3, <3>1, UpRunGone
  <2>5. \A p \in V : RankMoves(t.runends, R, TRUE, c, p, f[p])
    BY <1>10, <2>1, <2>2, <2>4
  <2>6. \A y \in t.runends : y \in Nat
    <3>1. PICK Q : Q = R \ {e}
      OBVIOUS
    <3>2. \A y \in Q : y \in Nat
      BY <1>12, <3>1
    <3>3. PICK g \in Nat : g = e + 1
      BY <1>4
    <3>4. PICK w \in Nat : w = h + 1
      BY <1>4
    <3>5. 1 <= g /\ g <= w
      BY <1>4, <3>3, <3>4
    <3>6. \A y \in ShiftRunendsLeft(Q, g, w) : y \in Nat
      BY <3>2, <3>5, ShiftedLeft
    <3> QED BY <2>2, <3>1, <3>3, <3>4, <3>6
  <2>7. (rs = e) = TRUE
    BY <1>13
  <2> QED BY <1>9, <1>11, <2>5, <2>6, <2>7 DEF Takes
<1>14. CASE rs # e
  <2>1. rs < e /\ e - 1 \in Nat
    BY <1>4, <1>14
  <2>2. t.runends = ShiftRunendsLeft(R, e, h + 1)
    <3>1. LeftOut(R, e, k, h, 0)
      <4>1. /\ e \in R /\ h \in R /\ e <= h /\ rs \in Nat /\ Naturals(R) /\ 0 \in Nat
            /\ Barren(R, rs, e)
        BY <1>3, <1>4, <1>12 DEF Naturals, Barren
      <4> HIDE DEF R
      <4> QED BY <2>1, <4>1, EndsLeft
    <3> QED BY <1>5, <1>14, <3>1 DEF LeftOut, A
  <2>3. \A q \in Nat : q # h => Below(R, Up(k, h, q)) = Below(ShiftRunendsLeft(R, e, h + 1), q)
    <3>1. \A k1 \in rs..e : \A h1 \in Nat : e <= h1 =>
             \A q \in Nat : q # h1 => Below(R, Up(k1, h1, q)) = Below(ShiftRunendsLeft(R, e, h1 + 1), q)
      <4>1. e \in R /\ rs \in Nat /\ rs < e /\ \A y \in rs..(e - 1) : y \notin R
        BY <1>3, <1>4, <2>1
      <4> HIDE DEF R, z, U, c, V, f
      <4>2. ASSUME NEW k1 \in rs..e, NEW h1 \in Nat, e <= h1
            PROVE  \A q \in Nat : q # h1 => Below(R, Up(k1, h1, q)) = Below(ShiftRunendsLeft(R, e, h1 + 1), q)
        BY <1>12, <4>1, <4>2, UpRunShrunk
      <4> QED BY <4>2
    <3> QED BY <1>4, <3>1
  <2>4. \A p \in V : RankMoves(t.runends, R, FALSE, c, p, f[p])
    <3>1. TAKE p \in V
    <3>2. p \in Nat /\ p # h /\ f[p] = Up(k, h, p)
      BY <1>10
    <3>3. Below(R, f[p]) = Below(t.runends, p)
      BY <2>2, <2>3, <3>2
    <3>4. Bit(FALSE /\ c <= Below(t.runends, p)) = 0
      BY DEF Bit
    <3>5. Below(R, f[p]) \in Nat
      <4>1. Up(k, h, p) \in Nat
        BY <1>4, <3>2 DEF Up
      <4> QED BY <3>2, <4>1, GoodCounts
    <3> QED BY <3>3, <3>4, <3>5 DEF RankMoves
  <2>5. \A y \in t.runends : y \in Nat
    <3>1. PICK w \in Nat : w = h + 1
      BY <1>4
    <3>2. 1 <= e /\ e <= w
      BY <1>4, <2>1, <3>1
    <3>3. \A y \in ShiftRunendsLeft(R, e, w) : y \in Nat
      <4> HIDE DEF R
      <4> QED BY <1>4, <1>12, <3>2, ShiftedLeft
    <3> QED BY <2>2, <3>1, <3>3
  <2>6. (rs = e) = FALSE
    BY <1>14
  <2> QED BY <1>9, <1>11, <2>4, <2>5, <2>6 DEF Takes
<1> QED BY <1>13, <1>14

\* ... and so does closing it from the left.
LEMMA TakesRight ==
    ASSUME NEW s, NEW size, Good(s, size), NEW i, NEW rs, NEW e, WholeRun(s, i, rs, e),
           NEW k \in rs..e, NEW L, NEW start, StartsAt(s, e, L, start),
           NEW t, t = DeleteShiftingRight(s, k, start, e, rs = e)
    PROVE  Takes(s, i, k, rs = e, t.slots, t.runends)
<1> DEFINE R == s.runends
           U == UsedSlots(s)
           z == Size(s)
           c == Below(s.occupieds, i)
           A == ShiftRunendsRight(R, start, k) \ (IF k = start /\ rs = e THEN {e} ELSE {})
           V == InUse(z, t.slots)
           f == [p \in V |-> Down(L, k, p)]
<1>0. /\ L \in Nat /\ L <= e /\ start \in Nat
      /\ \A p \in L..(z - 1) : p \in U
      /\ L - 1 \in U => L - 1 \in R
      /\ start = L \/ (start + 1 = L /\ start \notin U)
  BY DEF StartsAt
<1>1. /\ z \in Nat /\ z > 0
      /\ \A y \in R : y \in Nat /\ y < z /\ y \in U
      /\ \A p \in U : p \in Nat /\ p < z
      /\ \A p \in Nat : p < z => (p \in U <=> s.slots[p] # 0)
  BY GoodFacts
<1>2. /\ Fields \subseteq DOMAIN s
      /\ DOMAIN s.slots = 0..(z - 1)
  BY DEF Good, Positions
<1>3. /\ e \in R /\ rs \in 0..e /\ Below(R, e) = c
      /\ \A p \in rs..e : p \in U
      /\ \A p \in rs..(e - 1) : p \notin R
  BY DEF WholeRun, Run
<1>4. e \in Nat /\ e < z /\ k \in Nat /\ k <= e /\ rs \in Nat /\ rs <= k /\ k < z
  BY <1>1, <1>3
<1>l. L <= rs
  <2> SUFFICES ASSUME rs < L PROVE FALSE
    BY <1>0, <1>4
  <2>1. L - 1 \in rs..e /\ L - 1 \in rs..(e - 1)
    BY <1>0, <1>4
  <2> QED BY <1>0, <1>3, <2>1
<1>v. start <= L /\ start <= k /\ L <= k /\ start <= e
  BY <1>0, <1>4, <1>l
<1>5. /\ t.runends = IF rs = e THEN A ELSE A \cup {e}
      /\ t.slots = ShiftSlotsRight(s.slots, start, k)
  BY <1>2 DEF DeleteShiftingRight, Fields
<1> HIDE DEF A
<1>6. \A p \in L..k : s.slots[p] # 0
  <2>1. TAKE p \in L..k
  <2>2. p \in Nat /\ p < z /\ p \in L..(z - 1)
    BY <1>0, <1>1, <1>4
  <2>3. p \in U
    BY <1>0, <2>2
  <2> QED BY <1>1, <2>2, <2>3
<1>u. start = L \/ (start + 1 = L /\ s.slots[start] = 0)
  <2>1. CASE start = L
    BY <2>1
  <2>2. CASE start + 1 = L /\ start \notin U
    <3>1. start < z
      BY <1>0, <1>1, <1>v, <1>4
    <3> QED BY <1>0, <1>1, <2>2, <3>1
  <2> QED BY <1>0, <2>1, <2>2
<1>7. WrittenDown(z, t.slots, s.slots, s.slots[k], k, L)
  <2> HIDE DEF z
  <2> QED BY <1>0, <1>1, <1>2, <1>4, <1>5, <1>6, <1>u, <1>v, ClosedRightWrites
<1>8. s.slots[k] # 0 /\ U = InUse(z, s.slots)
  <2>1. k \in L..k
    BY <1>0, <1>4, <1>v
  <2> QED BY <1>6, <2>1 DEF UsedSlots, Positions, InUse
<1>9. Spaced(V, t.slots, U, s.slots, s.slots[k], k, f) /\ L \notin V
  <2>1. PICK x : x = s.slots[k]
    OBVIOUS
  <2> HIDE DEF z, V
  <2> QED BY <1>0, <1>1, <1>4, <1>7, <1>8, <1>v, <2>1, SpacedDown DEF V
<1>10. \A p \in V : f[p] = Down(L, k, p) /\ p \in Nat /\ p < z /\ p # L
  <2>1. TAKE p \in V
  <2>2. p \in 0..(z - 1)
    BY DEF InUse
  <2> QED BY <1>1, <1>9, <2>2
<1> HIDE DEF f
<1>11. Below(R, k) = c
  BY RankWithin
<1>12. \A y \in R : y \in Nat
  BY <1>1
<1>r. start = L \/ (start + 1 = L /\ start \notin R)
  BY <1>0, <1>1
<1>13. CASE rs = e
  <2>1. k = e /\ L \in 0..e
    BY <1>0, <1>4, <1>13
  <2>2. t.runends = ShiftRunendsRight(R, L, e)
    <3>1. RightGone(R, e, L, start, 0)
      <4>1. e \in R /\ Naturals(R) /\ 0 \in Nat
        BY <1>3, <1>12 DEF Naturals
      <4> HIDE DEF R
      <4> QED BY <1>0, <1>r, <2>1, <4>1, EndsRightGone
    <3>2. A = ShiftRunendsRight(R, start, e) \ (IF e = start THEN {e} ELSE {})
      BY <1>13, <2>1 DEF A
    <3>3. ShiftRunendsRight(R, start, e) \ (IF e = start THEN {e} ELSE {}) = ShiftRunendsRight(R, L, e)
      BY <3>1 DEF RightGone
    <3> QED BY <1>5, <1>13, <3>2, <3>3
  <2>3. \A p \in U : p < e => Below(R, p) < c
    <3>1. TAKE p \in U
    <3>2. HAVE p < e
    <3>3. Below(R, p) < Below(R, e)
      BY <1>13, <3>2, RankBefore
    <3> QED BY <1>3, <3>3
  <2>4. \A p \in V : /\ p < L => Below(R, p) < c
                     /\ L < p /\ p <= e => Below(R, p - 1) < c
    <3>1. TAKE p \in V
    <3>2. p \in Nat /\ p < z
      BY <1>10
    <3>3. ASSUME p < L PROVE Below(R, p) < c
      <4>1. p \in U
        <5>1. p \in 0..(z - 1) /\ t.slots[p] # 0
          BY DEF InUse
        <5>2. p # start
          <6>1. t.slots[start] = 0
            <7>1. start \in 0..(z - 1)
              BY <1>0, <1>1, <1>4, <1>v
            <7> QED BY <1>2, <1>5, <7>1 DEF ShiftSlotsRight
          <6> QED BY <5>1, <6>1
        <5>3. p < start
          BY <1>0, <3>2, <3>3, <5>2
        <5>4. t.slots[p] = s.slots[p]
          <6>1. ~(start < p) /\ p # start
            BY <1>0, <3>2, <5>3
          <6> QED BY <1>2, <1>5, <5>1, <6>1 DEF ShiftSlotsRight
        <5> QED BY <1>1, <3>2, <5>1, <5>4
      <4>2. p < e
        BY <1>0, <1>4, <3>2, <3>3
      <4> QED BY <2>3, <4>1, <4>2
    <3>4. ASSUME L < p, p <= e PROVE Below(R, p - 1) < c
      <4>1. p - 1 \in L..(z - 1) /\ p - 1 < e
        BY <1>0, <1>1, <1>4, <3>2, <3>4
      <4>2. p - 1 \in U
        BY <1>0, <4>1
      <4> QED BY <2>3, <4>1, <4>2
    <3> QED BY <3>3, <3>4
  <2>5. \A p \in V : RankMoves(ShiftRunendsRight(R, L, e), R, TRUE, c, p, Down(L, e, p))
    <3> HIDE DEF R, V, c, z, U
    <3>1. c = Below(R, e) /\ \A p \in V : p \in Nat /\ p # L
      BY <1>3, <1>10
    <3> QED BY <1>3, <1>12, <2>1, <2>4, <3>1, DownRunGone
  <2>6. \A p \in V : RankMoves(t.runends, R, TRUE, c, p, f[p])
    BY <1>10, <2>1, <2>2, <2>5
  <2>7. \A y \in t.runends : y \in Nat
    <3>1. \A y \in ShiftRunendsRight(R, L, e) : y \in Nat
      <4> HIDE DEF R
      <4> QED BY <1>0, <1>4, <1>12, ShiftedRight
    <3> QED BY <2>2, <3>1
  <2>8. (rs = e) = TRUE
    BY <1>13
  <2> QED BY <1>9, <1>11, <2>6, <2>7, <2>8 DEF Takes
<1>14. CASE rs # e
  <2>1. rs < e /\ L \in 0..rs
    BY <1>0, <1>4, <1>l, <1>14
  <2>2. t.runends = ShiftRunendsRight(R, L, rs)
    <3>1. RightOut(R, e, rs, k, L, start, 0)
      <4>1. e \in R /\ Naturals(R) /\ 0 \in Nat /\ Barren(R, rs, e)
        BY <1>3, <1>12 DEF Naturals, Barren
      <4> HIDE DEF R
      <4> QED BY <1>0, <1>4, <1>r, <2>1, <4>1, EndsRight
    <3>2. A = ShiftRunendsRight(R, start, k)
      BY <1>14 DEF A
    <3> QED BY <1>5, <1>14, <3>1, <3>2 DEF RightOut
  <2>3. \A q \in Nat : q # L => Below(R, Down(L, k, q)) = Below(ShiftRunendsRight(R, L, rs), q)
    <3>1. e \in R /\ rs \in Nat /\ rs < e /\ \A y \in rs..(e - 1) : y \notin R
      BY <1>3, <1>4, <2>1
    <3> HIDE DEF R, z, U, c, V, f
    <3>2. ASSUME NEW k1 \in rs..e, NEW L1 \in 0..rs
          PROVE  \A q \in Nat : q # L1 => Below(R, Down(L1, k1, q)) = Below(ShiftRunendsRight(R, L1, rs), q)
      BY <1>12, <3>1, <3>2, DownRunShrunk
    <3> QED BY <2>1, <3>2
  <2>4. \A p \in V : RankMoves(t.runends, R, FALSE, c, p, f[p])
    <3>1. TAKE p \in V
    <3>2. p \in Nat /\ p # L /\ f[p] = Down(L, k, p)
      BY <1>10
    <3>3. Below(R, f[p]) = Below(t.runends, p)
      BY <2>2, <2>3, <3>2
    <3>4. Bit(FALSE /\ c <= Below(t.runends, p)) = 0
      BY DEF Bit
    <3>5. Below(R, f[p]) \in Nat
      <4>1. Down(L, k, p) \in Nat
        BY <1>0, <1>4, <3>2 DEF Down
      <4> QED BY <3>2, <4>1, GoodCounts
    <3> QED BY <3>3, <3>4, <3>5 DEF RankMoves
  <2>5. \A y \in t.runends : y \in Nat
    <3>1. \A y \in ShiftRunendsRight(R, L, rs) : y \in Nat
      <4> HIDE DEF R
      <4> QED BY <1>0, <1>4, <1>12, <1>l, ShiftedRight
    <3> QED BY <2>2, <3>1
  <2>6. (rs = e) = FALSE
    BY <1>14
  <2> QED BY <1>9, <1>11, <2>4, <2>5, <2>6 DEF Takes
<1> QED BY <1>13, <1>14

\* The store without that infix.
LEMMA TakesGrows ==
    ASSUME NEW s, NEW size, Good(s, size), NEW i \in s.occupieds, NEW k, NEW gone \in BOOLEAN,
           NEW t, Size(t) = Size(s),
           t.occupieds = (IF gone THEN s.occupieds \ {i} ELSE s.occupieds),
           Takes(s, i, k, gone, t.slots, t.runends)
    PROVE  \E f : Grows(t, s, i, s.slots[k], k, f)
<1> DEFINE U == UsedSlots(t)
           V == UsedSlots(s)
           z == Size(s)
           Q == t.occupieds
           O == s.occupieds
           c == Below(O, i)
           x == s.slots[k]
<1>1. (\A o \in O : o \in Nat) /\ z \in Nat
  BY GoodFacts
<1>2. U = InUse(z, t.slots)
  BY DEF UsedSlots, Positions, InUse
<1>3. PICK f : /\ Spaced(U, t.slots, V, s.slots, x, k, f)
               /\ \A p \in U : RankMoves(t.runends, s.runends, gone, c, p, f[p])
  BY <1>2 DEF Takes
<1>4. Below(s.runends, k) = c /\ \A y \in t.runends : y \in Nat
  BY DEF Takes
<1>5. \A p \in U : p \in Nat
  BY <1>1, <1>2 DEF InUse
<1>6. (\A o \in Q : o \in O) /\ O = Q \cup {i} /\ (i \notin Q) = gone
  BY DEF Q
<1>7. c = Below(Q, i)
  <2>1. CASE gone
    <3>1. Below(O \ {i}, i) = Below(O, i) - Bit(i < i)
      BY <1>1, BelowRemoved
    <3>2. Bit(i < i) = 0
      <4>1. i \in Nat
        BY <1>1
      <4> QED BY <4>1 DEF Bit
    <3>3. Below(O, i) \in Nat
      BY <1>1, BelowFacts
    <3> QED BY <2>1, <3>1, <3>2, <3>3
  <2>2. CASE ~gone
    BY <2>2
  <2> QED BY <2>1, <2>2
<1>8. i \in Nat /\ Ranked(s)
  BY <1>1, GoodRanked
<1> HIDE DEF c, x, U, V, Q, O
<1>9. \A p \in U : RankMoves(t.runends, s.runends, i \notin Q, c, p, f[p])
  BY <1>3, <1>6
<1>10. Grows(t, s, i, x, k, f)
  BY <1>3, <1>4, <1>5, <1>6, <1>7, <1>8, <1>9, GrowsBy DEF U, V, Q, O
<1> QED BY <1>10 DEF x

\* A deletion from the slot k of a run takes out the infix there, and no other.
LEMMA DeletedShrinks ==
    ASSUME NEW s, NEW size, Good(s, size), NEW i \in s.occupieds,
           NEW e, e = RunEndOf(s, i), NEW rs, rs = RunStart(s, i, e), NEW k \in rs..e,
           NEW t, t = DeleteFrom(s, i, k, rs, e, TotalImplicit)
    PROVE  /\ Size(t) = Size(s)
           /\ \E f : Grows(t, s, i, s.slots[k], k, f)
<1> DEFINE right == RightOfRun(s, e, TotalImplicit)
           start == ChosenStart(s, e, right, TotalImplicit)
           c == Closed(s, k, e, rs = e, right, start)
           gone == rs = e
<1>1. WholeRun(s, i, rs, e)
  BY RunIs DEF WholeRun
<1>2. e \in s.runends
  BY <1>1 DEF WholeRun, Run
<1>3. /\ right.shift_end \in s.runends /\ e <= right.shift_end
      /\ \A p \in e..right.shift_end : p \in UsedSlots(s)
  BY <1>2, RightOfRunIs DEF Leftward
<1>4. Takes(s, i, k, gone, c.slots, c.runends)
  <2>1. CASE start = -1
    <3>1. PICK h : h = right.shift_end
      OBVIOUS
    <3>2. c = DeleteShiftingLeft(s, k, h, e, rs = e)
      BY <2>1, <3>1 DEF Closed
    <3> HIDE DEF c, right, start
    <3>3. Takes(s, i, k, rs = e, c.slots, c.runends)
      BY <1>1, <1>3, <3>1, <3>2, TakesLeft
    <3> QED BY <3>3
  <2>2. CASE start # -1
    <3>1. ~right.found /\ start = ShiftStart(s, e, TotalImplicit)
      BY <2>2 DEF ChosenStart
    <3>2. c = DeleteShiftingRight(s, k, start, e, rs = e)
      BY <2>2 DEF Closed
    <3>3. ~RightOfRun(s, e, TotalImplicit).found
      BY <3>1
    <3> HIDE DEF c, right, start
    <3>4. PICK L : StartsAt(s, e, L, start)
      BY <1>2, <2>2, <3>1, <3>3, ShiftStartsAt
    <3>5. Takes(s, i, k, rs = e, c.slots, c.runends)
      BY <1>1, <3>2, <3>4, TakesRight
    <3> QED BY <3>5
  <2> QED BY <2>1, <2>2
<1>5. Fields \subseteq DOMAIN c /\ c.size_grade = s.size_grade /\ c.occupieds = s.occupieds
  <2>1. Fields \subseteq DOMAIN s
    BY DEF Good
  <2> QED BY <2>1 DEF Closed, DeleteShiftingLeft, DeleteShiftingRight, Fields
<1>6. t = [c EXCEPT !.occupieds = IF rs = e THEN @ \ {i} ELSE @,
                    !.popcnts[0] = @ - Bit(rs = e /\ i < Half),
                    !.elem_count = @ - 1]
  BY DEF DeleteFrom
<1> HIDE DEF c, right, start
<1>7. /\ t.size_grade = s.size_grade
      /\ t.occupieds = IF gone THEN s.occupieds \ {i} ELSE s.occupieds
      /\ t.runends = c.runends /\ t.slots = c.slots
  BY <1>5, <1>6 DEF Fields
<1>8. Size(t) = Size(s)
  BY <1>7 DEF Size
<1>9. gone \in BOOLEAN
  OBVIOUS
<1> HIDE DEF gone
<1>10. \E f : Grows(t, s, i, s.slots[k], k, f)
  BY <1>4, <1>7, <1>8, <1>9, TakesGrows
<1> QED BY <1>8, <1>10

\* DeleteFrom takes one copy of one infix out of the bag, and keeps the runs in order.
LEMMA DeletedBag ==
    ASSUME NEW s, NEW size, Good(s, size), NEW i \in s.occupieds,
           NEW e, e = RunEndOf(s, i), NEW rs, rs = RunStart(s, i, e), NEW k \in rs..e,
           NEW t, t = DeleteFrom(s, i, k, rs, e, TotalImplicit)
    PROVE  /\ BagOf(t, size) = BagOf(s, size) (-) SetToBag({i * 2^size + s.slots[k]})
           /\ Sorted(s) => Sorted(t)
<1>1. PICK f : Grows(t, s, i, s.slots[k], k, f)
  BY DeletedShrinks
<1>2. Bounded(s) /\ Bounded(t)
  <2>1. Size(t) = Size(s)
    BY DeletedShrinks
  <2>2. Size(s) \in Nat
    BY GoodFacts
  <2> QED BY <2>1, <2>2 DEF Bounded
<1>3. BagOf(t, size) = BagOf(s, size) (-) SetToBag({i * 2^size + s.slots[k]})
  <2>1. PICK x : x = s.slots[k]
    OBVIOUS
  <2> QED BY <1>1, <1>2, <2>1, ShrinksBag
<1>4. Sorted(s) => Sorted(t)
  <2>1. PICK x : x = s.slots[k]
    OBVIOUS
  <2> QED BY <1>1, <2>1, ShrinksSorted
<1> QED BY <1>3, <1>4

-----------------------------------------------------------------------------
(* Lists, loads and resizes.                                                 *)

\* The n infixes of a list lie in the used slots P[1] < ... < P[n] of t.
Placing(t, list, n, size, P) ==
    /\ n \in Nat /\ DOMAIN list = 1..n
    /\ \A j \in 1..n : /\ P[j] \in UsedSlots(t)
                       /\ OccupiedOf(t, P[j]) = Implicit(list[j], size)
                       /\ t.slots[P[j]] = Explicit(list[j], size)
    /\ \A j, k \in 1..n : j < k => P[j] < P[k]
    /\ \A p \in UsedSlots(t) : \E j \in 1..n : P[j] = p

\* The infixes of a list are put together from their parts.
Composed(list, n, size) ==
    \A j \in 1..n : list[j] = Implicit(list[j], size) * 2^size + Explicit(list[j], size)

\* The infixes of one part follow each other in order.
OrderedList(list, n, size) ==
    \A j, k \in 1..n : j < k /\ Implicit(list[j], size) = Implicit(list[k], size)
                         => ListBefore(Explicit(list[j], size), Explicit(list[k], size))

\* GetInfixList lists a store by its slots in use.
LEMMA ListPlacing ==
    ASSUME NEW s, NEW size, Good(s, size), NEW list, list = GetInfixList(s, size),
           NEW P, P = Ascending(UsedSlots(s))
    PROVE  Placing(s, list, s.elem_count, size, P) /\ Composed(list, s.elem_count, size)
<1> DEFINE U == UsedSlots(s)
           n == s.elem_count
           q == 2^size
<1>1. /\ Size(s) \in Nat
      /\ \A p \in U : p \in Nat /\ p < Size(s)
      /\ \A o \in s.occupieds : o \in Nat
  BY GoodFacts
<1>2. n = Cardinality(U) /\ q \in Nat /\ q > 0 /\ s.slots \in [Positions(s) -> 0..(q - 1)]
  BY DEF Good
<1>3. /\ n \in Nat /\ DOMAIN P = 1..n
      /\ \A j \in 1..n : P[j] \in U
      /\ \A j, k \in 1..n : j <= k => P[j] <= P[k]
      /\ \A p \in U : \E j \in 1..n : P[j] = p
  <2>1. PICK V : V = U
    OBVIOUS
  <2>2. PICK z \in Nat : \A p \in V : p \in Nat /\ p < z
    BY <1>1, <2>1
  <2>3. PICK m : m = n /\ m = Cardinality(V)
    BY <1>2, <2>1
  <2>4. P = Ascending(V)
    BY <2>1
  <2>5. /\ m \in Nat /\ DOMAIN P = 1..m
        /\ \A j \in 1..m : P[j] \in V
        /\ \A j, k \in 1..m : j <= k => P[j] <= P[k]
        /\ \A p \in V : \E j \in 1..m : P[j] = p
    BY <2>2, <2>3, <2>4, AscendingIs
  <2> QED BY <2>1, <2>3, <2>5
<1>4. \A p \in U : OccupiedOf(s, p) \in Nat /\ s.slots[p] \in 0..(q - 1)
  <2>1. TAKE p \in U
  <2>2. p \in Positions(s)
    BY DEF UsedSlots
  <2> QED BY <1>1, <1>2, <2>2, OccupiedOfIs
<1>5. list = [j \in 1..n |-> OccupiedOf(s, P[j]) * q + s.slots[P[j]]]
  BY <1>3 DEF GetInfixList
<1>6. \A j, k \in 1..n : j < k => P[j] < P[k]
  <2>1. \A j, k \in 1..n : P[j] = P[k] => j = k
    <3>1. Bounded(s)
      BY <1>1 DEF Bounded
    <3>2. \A j, k \in DOMAIN P : P[j] = P[k] => j = k
      BY <3>1, ListIs
    <3> QED BY <1>3, <3>2
  <2>2. TAKE j, k \in 1..n
  <2>3. P[j] \in Nat /\ P[k] \in Nat
    BY <1>1, <1>3
  <2> QED BY <1>3, <2>1, <2>3
<1> HIDE DEF U, q
<1>7. ASSUME NEW j \in 1..n
      PROVE  /\ Implicit(list[j], size) = OccupiedOf(s, P[j])
             /\ Explicit(list[j], size) = s.slots[P[j]]
             /\ list[j] = OccupiedOf(s, P[j]) * q + s.slots[P[j]]
  <2>1. P[j] \in U
    BY <1>3
  <2>2. PICK o \in Nat : o = OccupiedOf(s, P[j])
    BY <1>4, <2>1
  <2>3. PICK v \in 0..(q - 1) : v = s.slots[P[j]]
    BY <1>4, <2>1
  <2>4. (o * q + v) \div q = o /\ (o * q + v) % q = v
    BY <1>2, Recompose
  <2>5. list[j] = o * q + v
    BY <1>5, <2>2, <2>3
  <2> QED BY <2>2, <2>3, <2>4, <2>5 DEF Implicit, Explicit, q
<1>8. DOMAIN list = 1..n
  BY <1>5
<1>9. Composed(list, n, size)
  BY <1>7 DEF Composed, q
<1>10. Placing(s, list, n, size, P)
  BY <1>3, <1>6, <1>7, <1>8 DEF Placing, U
<1> QED BY <1>9, <1>10

\* LoadListToInfixStore places each infix of its list.
LEMMA LoadedPlacing ==
    ASSUME NEW list, NEW n, NEW size, Listed(list, n, size), NEW g \in Grades, n < ScaledSize(g),
           2^size \in Nat, 2^size > 0,
           NEW t, t = LoadListToInfixStore(list, n, g, TotalImplicit, size)
    PROVE  \E P : Placing(t, list, n, size, P)
<1> DEFINE z == ScaledSize(g)
           M == Mapping(g)
           imp == [j \in 1..n |-> Implicit(list[j], size)]
           P == Layout(list, g, TotalImplicit, size)
           U == {P[j] : j \in 1..n}
<1>1. n \in Nat /\ z \in Nat /\ z > 0 /\ DOMAIN list = 1..n
  BY SizesAssumption DEF Listed
<1>2. Table(z, M)
  BY <1>1, MappingTable
<1>3. t = Written(list, n, g, size, P)
  BY DEF LoadListToInfixStore
<1>4. t.size_grade = g
  BY <1>3 DEF Written
<1>5. imp = [j \in 1..n |-> Implicit(list[j], size)] /\ P = Layout(list, g, TotalImplicit, size)
  OBVIOUS
<1>i. \A j \in 1..n : imp[j] = Implicit(list[j], size)
  OBVIOUS
<1> HIDE DEF imp, P
<1>u. U = {P[j] : j \in 1..n}
  OBVIOUS
<1> HIDE DEF U
<1>6. Loaded(z, M, n, imp, P, U, t.occupieds, t.runends)
  BY <1>3, <1>5, <1>u, LoadedIs
<1>7. /\ \A j \in 1..n : /\ imp[j] \in t.occupieds /\ P[j] \in U
                         /\ P[j] \in 0..(z - 1)
      /\ \A j, k \in 1..n : j < k => P[j] < P[k]
      /\ \A j \in 1..n : Below(t.runends, P[j]) = Below(t.occupieds, imp[j])
  <2> HIDE DEF z, M, U
  <2>1. /\ \A j \in 1..n : /\ imp[j] \in t.occupieds /\ P[j] \in U
                           /\ P[j] \in 0..(z - 1)
        /\ \A j, k \in 1..n : j < k => P[j] < P[k]
    BY <1>2, <1>6, LoadedSteps
  <2>2. \A j \in 1..n : Below(t.runends, P[j]) = Below(t.occupieds, imp[j])
    BY <1>2, <1>6, LoadedRank
  <2> QED BY <2>1, <2>2
<1>8. /\ \A j \in 1..n : t.slots[P[j]] = Explicit(list[j], size)
      /\ \A p \in 0..(z - 1) : t.slots[p] # 0 <=> \E j \in 1..n : p = P[j]
  <2>1. Ascend(P, n, ScaledSize(g))
    BY <1>7 DEF Ascend
  <2>2. P = Layout(list, g, TotalImplicit, size)
    BY <1>5
  <2>3. SlotsOf(list, n, size, P, ScaledSize(g), t.slots)
    BY <1>3, <2>1, <2>2, LoadedSlots
  <2> QED BY <2>3 DEF SlotsOf
<1>9. Positions(t) = 0..(z - 1)
  BY <1>4 DEF Size, Positions
<1>10. \A p : p \in UsedSlots(t) <=> \E j \in 1..n : p = P[j]
  BY <1>7, <1>8, <1>9 DEF UsedSlots
<1>11. Ranked(t)
  <2>1. Good(t, size)
    BY LoadedGood
  <2> QED BY <2>1, GoodRanked
<1> HIDE DEF z, M
<1>12. \A j \in 1..n : OccupiedOf(t, P[j]) = imp[j]
  <2>1. TAKE j \in 1..n
  <2>2. InRun(t, P[j], imp[j])
    BY <1>7 DEF InRun
  <2> QED BY <1>11, <2>2, InRunIs
<1>13. Placing(t, list, n, size, P)
  BY <1>1, <1>7, <1>8, <1>10, <1>12, <1>i DEF Placing
<1> QED BY <1>13

\* The runs of a store are in order when the list it was placed from is.
LEMMA PlacingSorted ==
    ASSUME NEW t, NEW list, NEW n, NEW size, NEW P, Placing(t, list, n, size, P),
           \A p \in UsedSlots(t) : p \in Nat
    PROVE  Sorted(t) <=> OrderedList(list, n, size)
<1>1. /\ n \in Nat
      /\ \A j \in 1..n : /\ P[j] \in UsedSlots(t)
                         /\ OccupiedOf(t, P[j]) = Implicit(list[j], size)
                         /\ t.slots[P[j]] = Explicit(list[j], size)
      /\ \A j, k \in 1..n : j < k => P[j] < P[k]
      /\ \A p \in UsedSlots(t) : \E j \in 1..n : P[j] = p
  BY DEF Placing
<1>2. ASSUME Sorted(t) PROVE OrderedList(list, n, size)
  <2>1. ASSUME NEW j \in 1..n, NEW k \in 1..n, j < k, Implicit(list[j], size) = Implicit(list[k], size)
        PROVE  ListBefore(Explicit(list[j], size), Explicit(list[k], size))
    <3>1. P[j] \in UsedSlots(t) /\ P[k] \in UsedSlots(t) /\ P[j] < P[k]
          /\ OccupiedOf(t, P[j]) = OccupiedOf(t, P[k])
      BY <1>1, <2>1
    <3>2. ListBefore(t.slots[P[j]], t.slots[P[k]])
      BY <1>2, <3>1 DEF Sorted
    <3> QED BY <1>1, <3>2
  <2> QED BY <2>1 DEF OrderedList
<1>3. ASSUME OrderedList(list, n, size) PROVE Sorted(t)
  <2>1. ASSUME NEW p \in UsedSlots(t), NEW q \in UsedSlots(t), p < q, OccupiedOf(t, p) = OccupiedOf(t, q)
        PROVE  ListBefore(t.slots[p], t.slots[q])
    <3>1. PICK j \in 1..n : P[j] = p
      BY <1>1
    <3>2. PICK k \in 1..n : P[k] = q
      BY <1>1
    <3>3. j < k
      <4>1. k < j => q < p
        BY <1>1, <3>1, <3>2
      <4>2. p \in Nat /\ q \in Nat
        OBVIOUS
      <4> QED BY <2>1, <3>1, <3>2, <4>1, <4>2
    <3>4. Implicit(list[j], size) = Implicit(list[k], size)
      BY <1>1, <2>1, <3>1, <3>2
    <3>5. ListBefore(Explicit(list[j], size), Explicit(list[k], size))
      BY <1>3, <3>3, <3>4 DEF OrderedList
    <3> QED BY <1>1, <3>1, <3>2, <3>5
  <2> QED BY <2>1 DEF Sorted
<1> QED BY <1>2, <1>3

\* The bag of a store is that of the list that lies in it.
LEMMA PlacingBag ==
    ASSUME NEW t, Bounded(t), NEW list, NEW n, NEW size, NEW P, Placing(t, list, n, size, P),
           Composed(list, n, size)
    PROVE  BagOf(t, size) = ToBag(list)
<1>1. /\ n \in Nat /\ DOMAIN list = 1..n
      /\ \A j \in 1..n : P[j] \in UsedSlots(t)
      /\ \A j, k \in 1..n : j < k => P[j] < P[k]
      /\ \A p \in UsedSlots(t) : \E j \in 1..n : P[j] = p
  BY DEF Placing
<1>2. \A j \in 1..n : list[j] = Item(t, size, P[j])
  BY DEF Placing, Composed, Item
<1>3. \A p \in UsedSlots(t) : p \in Nat
  BY UsedBounded
<1>4. \A j, k \in 1..n : P[j] = P[k] => j = k
  <2>1. TAKE j, k \in 1..n
  <2>2. P[j] \in Nat /\ P[k] \in Nat
    BY <1>1, <1>3
  <2> QED BY <1>1, <2>2
<1>5. PICK B : B = BagOf(t, size)
  OBVIOUS
<1>6. /\ B = [v \in DOMAIN B |-> Cardinality(Copies(t, size, v))]
      /\ \A v : v \in DOMAIN B <=> \E p \in UsedSlots(t) : Item(t, size, p) = v
  BY <1>5, BagIs
<1>7. ToBag(list) = [v \in Range(list) |-> Cardinality({j \in 1..n : list[j] = v})]
  BY <1>1 DEF ToBag
<1>8. \A v : v \in Range(list) <=> \E j \in 1..n : v = list[j]
  BY <1>1 DEF Range
<1>9. DOMAIN B = Range(list)
  <2>1. \A v : v \in DOMAIN B <=> v \in Range(list)
    BY <1>1, <1>2, <1>6, <1>8
  <2> QED BY <2>1
<1>10. ASSUME NEW v PROVE Cardinality(Copies(t, size, v)) = Cardinality({j \in 1..n : list[j] = v})
  <2> DEFINE A == {j \in 1..n : list[j] = v}
             C == Copies(t, size, v)
             f == [j \in A |-> P[j]]
  <2>1. \A j \in A : P[j] \in C
    BY <1>1, <1>2 DEF Copies
  <2>2. f \in [A -> C]
    BY <2>1
  <2>3. IsFiniteSet(A)
    <3>1. IsFiniteSet(1..n)
      BY <1>1, FS_Interval
    <3> QED BY <3>1, FS_Subset
  <2>4. \A p, q \in A : f[p] = f[q] => p = q
    BY <1>4
  <2>5. \A y \in C : \E p \in A : f[p] = y
    <3>1. TAKE y \in C
    <3>2. y \in UsedSlots(t) /\ Item(t, size, y) = v
      BY DEF Copies
    <3>3. PICK j \in 1..n : P[j] = y
      BY <1>1, <3>2
    <3>4. j \in A /\ f[j] = y
      BY <1>2, <3>2, <3>3
    <3> QED BY <3>4
  <2> HIDE DEF A, C, f
  <2>6. Cardinality(C) = Cardinality(A)
    BY <2>2, <2>3, <2>4, <2>5, SameCardinality
  <2> QED BY <2>6 DEF A, C
<1>11. B = ToBag(list)
  <2>1. B = [v \in Range(list) |-> Cardinality(Copies(t, size, v))]
    BY <1>6, <1>9
  <2> QED BY <1>7, <1>10, <2>1
<1> QED BY <1>5, <1>11

\* A resize keeps the bag, and the order of the runs.
LEMMA ResizedBag ==
    ASSUME NEW s, NEW size, Good(s, size), NEW delta \in Int, s.size_grade + delta \in Grades,
           s.elem_count < ScaledSize(s.size_grade + delta),
           NEW t, t = ResizeInfixStore(s, delta, TotalImplicit, size)
    PROVE  BagOf(t, size) = BagOf(s, size) /\ (Sorted(s) => Sorted(t))
<1>1. PICK g \in Grades : g = s.size_grade + delta
  OBVIOUS
<1>2. PICK list : list = GetInfixList(s, size)
  OBVIOUS
<1>3. PICK n : n = s.elem_count
  OBVIOUS
<1>4. t = LoadListToInfixStore(list, n, g, TotalImplicit, size)
  BY <1>1, <1>2, <1>3 DEF ResizeInfixStore
<1>5. Listed(list, n, size) /\ n < ScaledSize(g) /\ 2^size \in Nat /\ 2^size > 0
  BY <1>1, <1>2, <1>3, ListedGood DEF Good
<1>6. PICK P : Placing(t, list, n, size, P)
  BY <1>4, <1>5, LoadedPlacing
<1>7. PICK Q : Q = Ascending(UsedSlots(s))
  OBVIOUS
<1>8. Placing(s, list, n, size, Q) /\ Composed(list, n, size)
  BY <1>2, <1>3, <1>7, ListPlacing
<1>9. Good(t, size)
  BY <1>4, <1>5, LoadedGood
<1>10. /\ Bounded(s) /\ Bounded(t)
       /\ \A p \in UsedSlots(s) : p \in Nat
       /\ \A p \in UsedSlots(t) : p \in Nat
  <2>1. Size(s) \in Nat /\ \A p \in UsedSlots(s) : p \in Nat
    BY GoodFacts
  <2>2. Size(t) \in Nat /\ \A p \in UsedSlots(t) : p \in Nat
    BY <1>9, GoodFacts
  <2> QED BY <2>1, <2>2 DEF Bounded
<1>11. BagOf(t, size) = ToBag(list)
  BY <1>6, <1>8, <1>10, PlacingBag
<1>12. BagOf(s, size) = ToBag(list)
  BY <1>8, <1>10, PlacingBag
<1>13. Sorted(s) => OrderedList(list, n, size)
  BY <1>8, <1>10, PlacingSorted
<1>14. OrderedList(list, n, size) => Sorted(t)
  BY <1>6, <1>10, PlacingSorted
<1> QED BY <1>11, <1>12, <1>13, <1>14

-----------------------------------------------------------------------------
(* The operations.                                                           *)

\* The store an insertion works on holds what the store held, in the same order.
LEMMA RoomForBag ==
    ASSUME NEW s, NEW size, Good(s, size), s.elem_count < MaxElems,
           NEW t, t = RoomFor(s, TotalImplicit, size)
    PROVE  BagOf(t, size) = BagOf(s, size) /\ (Sorted(s) => Sorted(t))
<1>1. s.size_grade \in Grades /\ s.elem_count \in Nat /\ Size(s) = ScaledSize(s.size_grade)
      /\ s.elem_count < Size(s)
  BY GoodFacts DEF Good, Size
<1>2. CASE s.elem_count >= ExpandAt(s.size_grade)
  <2>1. t = ResizeInfixStore(s, 1, TotalImplicit, size)
    BY <1>2 DEF RoomFor
  <2>2. s.size_grade + 1 \in Grades
    BY <1>1, <1>2, SizesAssumption, BoundAssumption DEF Grades, ExpandAt
  <2>3. /\ ScaledSize(s.size_grade) < ScaledSize(s.size_grade + 1)
        /\ ScaledSize(s.size_grade) \in Nat /\ ScaledSize(s.size_grade + 1) \in Nat
    BY <1>1, <2>2, SizesAssumption DEF Grades
  <2>4. s.elem_count < ScaledSize(s.size_grade + 1)
    BY <1>1, <2>3
  <2> QED BY <2>1, <2>2, <2>4, ResizedBag
<1>3. CASE ~(s.elem_count >= ExpandAt(s.size_grade))
  BY <1>3 DEF RoomFor
<1> QED BY <1>2, <1>3

\* So does the store a deletion works on.
LEMMA FitForBag ==
    ASSUME NEW s, NEW size, Good(s, size), NEW t, t = FitFor(s, TotalImplicit, size)
    PROVE  BagOf(t, size) = BagOf(s, size) /\ (Sorted(s) => Sorted(t))
<1>1. s.size_grade \in Grades /\ s.elem_count \in Nat
  BY GoodFacts DEF Good
<1>2. CASE s.size_grade > 0 /\ s.elem_count <= ShrinkAt(s.size_grade)
  <2>1. s.size_grade + (-1) \in Grades /\ s.size_grade + (-1) = s.size_grade - 1
    BY <1>1, <1>2, SizesAssumption DEF Grades
  <2>2. s.elem_count < ScaledSize(s.size_grade - 1)
    <3>1. CASE s.size_grade = 1
      <4>1. ExceptionSize \in 0..(ScaledSize(0) - 1) /\ ScaledSize(0) \in Nat
        BY <2>1, <3>1, SizesAssumption
      <4> QED BY <1>1, <1>2, <3>1, <4>1 DEF ShrinkAt
    <3>2. CASE s.size_grade > 1
      <4>1. s.elem_count <= ScaledSize(s.size_grade - 2)
        BY <1>2, <3>2 DEF ShrinkAt
      <4>2. s.size_grade - 2 \in Grades /\ s.size_grade - 2 < s.size_grade - 1
        BY <1>1, <3>2, SizesAssumption DEF Grades
      <4>3. /\ ScaledSize(s.size_grade - 2) < ScaledSize(s.size_grade - 1)
            /\ ScaledSize(s.size_grade - 2) \in Nat
            /\ ScaledSize(s.size_grade - 1) \in Nat
        BY <2>1, <4>2, SizesAssumption
      <4> QED BY <1>1, <4>1, <4>3
    <3> QED BY <1>1, <1>2, <3>1, <3>2, SizesAssumption DEF Grades
  <2>3. t = ResizeInfixStore(s, -1, TotalImplicit, size)
    BY <1>2 DEF FitFor
  <2>4. s.elem_count < ScaledSize(s.size_grade + (-1))
    BY <2>1, <2>2
  <2> QED BY <2>1, <2>3, <2>4, ResizedBag
<1>3. CASE ~(s.size_grade > 0 /\ s.elem_count <= ShrinkAt(s.size_grade))
  BY <1>3 DEF FitFor
<1> QED BY <1>2, <1>3

\* InsertRawIntoInfixStore adds its key to the bag, and keeps the runs in order.
LEMMA InsertedBag ==
    ASSUME NEW s, NEW size \in 1..InfixSize, Good(s, size), Sorted(s), s.elem_count < MaxElems,
           NEW key \in InsertedInfixes(size),
           NEW t, t = InsertRawIntoInfixStore(s, key, TotalImplicit, size)
    PROVE  /\ BagOf(t, size) = BagOf(s, size) (+) SetToBag({key})
           /\ Sorted(t) /\ Good(t, size)
<1>1. PICK r : r = RoomFor(s, TotalImplicit, size)
  OBVIOUS
<1>2. Good(r, size) /\ r.elem_count + 1 < Size(r)
  BY <1>1, RoomForGood
<1>3. BagOf(r, size) = BagOf(s, size) /\ Sorted(r)
  BY <1>1, RoomForBag
<1>4. PICK i : i = Implicit(key, size)
  OBVIOUS
<1>5. PICK x : x = Explicit(key, size)
  OBVIOUS
<1>6. t = InsertInto(r, i, x, TotalImplicit)
  BY <1>1, <1>4, <1>5 DEF InsertRawIntoInfixStore
<1>7. Good(t, size) /\ Sorted(t) /\ BagOf(t, size) = BagOf(r, size) (+) SetToBag({i * 2^size + x})
  <2>1. ASSUME NEW s1, NEW key1 \in InsertedInfixes(size), Good(s1, size), Sorted(s1),
               s1.elem_count + 1 < Size(s1)
        PROVE  /\ Good(InsertInto(s1, Implicit(key1, size), Explicit(key1, size), TotalImplicit), size)
               /\ Sorted(InsertInto(s1, Implicit(key1, size), Explicit(key1, size), TotalImplicit))
               /\ BagOf(InsertInto(s1, Implicit(key1, size), Explicit(key1, size), TotalImplicit), size)
                    = BagOf(s1, size) (+) SetToBag({Implicit(key1, size) * 2^size + Explicit(key1, size)})
    <3>1. PICK i1 : i1 = Implicit(key1, size)
      OBVIOUS
    <3>2. PICK x1 : x1 = Explicit(key1, size)
      OBVIOUS
    <3>3. PICK t1 : t1 = InsertInto(s1, i1, x1, TotalImplicit)
      OBVIOUS
    <3>4. Good(t1, size) /\ Sorted(t1)
      BY <2>1, <3>1, <3>2, <3>3, InsertGrows
    <3>5. BagOf(t1, size) = BagOf(s1, size) (+) SetToBag({i1 * 2^size + x1})
      BY <2>1, <3>1, <3>2, <3>3, InsertGrows
    <3> QED BY <3>1, <3>2, <3>3, <3>4, <3>5
  <2> QED BY <1>2, <1>3, <1>4, <1>5, <1>6, <2>1
<1>8. i * 2^size + x = key
  <2>1. PICK q \in Nat : q = 2^size /\ q > 0
    BY Powers
  <2>2. key \in Nat
    <3>1. TotalImplicit * q \in Nat
      BY <2>1, PartsAssumption
    <3> QED BY <2>1, <3>1 DEF InsertedInfixes
  <2>3. PICK o \in Nat : \E v \in 0..(q - 1) : key \div q = o /\ key % q = v /\ key = q * o + v
    BY <2>1, <2>2, DivMod
  <2>4. PICK v \in 0..(q - 1) : key \div q = o /\ key % q = v /\ key = q * o + v
    BY <2>3
  <2>5. i = o /\ x = v
    BY <1>4, <1>5, <2>1, <2>4 DEF Implicit, Explicit
  <2> QED BY <2>1, <2>4, <2>5
<1> QED BY <1>3, <1>7, <1>8

-----------------------------------------------------------------------------
(* Prefixes as intervals.                                                    *)

\* Two numbers put together from a block and an offset compare by block first.
LEMMA Blocks ==
    ASSUME NEW q \in Nat, NEW o \in Nat, NEW p \in Nat, NEW a \in 0..(q - 1), NEW b \in 0..(q - 1)
    PROVE  (o * q + a <= p * q + b) <=> (o < p \/ (o = p /\ a <= b))
<1>1. CASE o < p
  <2>1. PICK c \in Nat : p = (o + 1) + c
    <3>1. p - (o + 1) \in Nat /\ p = (o + 1) + (p - (o + 1))
      BY <1>1
    <3> QED BY <3>1
  <2>2. p * q = (o * q + q) + c * q
    BY <2>1
  <2>3. c * q \in Nat /\ o * q \in Nat
    OBVIOUS
  <2> QED BY <1>1, <2>2, <2>3
<1>2. CASE p < o
  <2>1. PICK c \in Nat : o = (p + 1) + c
    <3>1. o - (p + 1) \in Nat /\ o = (p + 1) + (o - (p + 1))
      BY <1>2
    <3> QED BY <3>1
  <2>2. o * q = (p * q + q) + c * q
    BY <2>1
  <2>3. c * q \in Nat /\ p * q \in Nat
    OBVIOUS
  <2> QED BY <1>2, <2>2, <2>3
<1>3. CASE o = p
  <2>1. o * q \in Nat
    OBVIOUS
  <2> QED BY <1>3, <2>1
<1> QED BY <1>1, <1>2, <1>3

\* v marks the prefix f with the bit h.
Marks(v, h, f) ==
    /\ h \in Nat /\ f \in Nat /\ h > 0
    /\ LowBit(v) = h /\ v = (2 * h) * f + h

\* An infix stands for the interval of the keys that extend its prefix.
LEMMA MarksInterval ==
    ASSUME NEW v, NEW h, NEW f, Marks(v, h, f)
    PROVE  /\ v \in Nat /\ v # 0 /\ Start(v) \in Nat /\ End(v) \in Nat
           /\ Start(v) = (2 * h) * f /\ End(v) = (2 * h) * f + (2 * h - 1)
           /\ v \div (2 * h) = f
           /\ \A e \in Nat : Covers(v, e) <=> (Start(v) <= e /\ e <= End(v))
<1>1. /\ h \in Nat /\ f \in Nat /\ h > 0
      /\ LowBit(v) = h /\ v = (2 * h) * f + h
  BY DEF Marks
<1>2. PICK c \in Nat : c = (2 * h) * f
  BY <1>1
<1>3. v = c + h
  BY <1>1, <1>2
<1>4. Start(v) = c /\ End(v) = c + (2 * h - 1) /\ v \in Nat /\ v # 0 /\ c + (2 * h - 1) \in Nat
  BY <1>1, <1>3 DEF Start, End
<1>5. PICK g \in Nat : g = 2 * h /\ g > 0
  BY <1>1
<1>6. v \div g = f
  <2>1. h \in 0..(g - 1) /\ f * g + h = v
    BY <1>1, <1>5
  <2> QED BY <1>1, <1>5, <2>1, Recompose
<1>7. ASSUME NEW e \in Nat PROVE Covers(v, e) <=> (Start(v) <= e /\ e <= End(v))
  <2>1. PICK d \in Nat : \E r \in 0..(g - 1) : e \div g = d /\ e % g = r /\ e = g * d + r
    BY <1>5, DivMod
  <2>2. PICK r \in 0..(g - 1) : e \div g = d /\ e = d * g + r
    BY <2>1
  <2>3. Covers(v, e) <=> f = d
    BY <1>1, <1>4, <1>5, <1>6, <2>2 DEF Covers
  <2>4. 0 \in 0..(g - 1) /\ g - 1 \in 0..(g - 1)
    BY <1>5
  <2>5. (f * g + 0 <= d * g + r) <=> (f < d \/ (f = d /\ 0 <= r))
    BY <1>1, <1>5, <2>4, Blocks
  <2>6. (d * g + r <= f * g + (g - 1)) <=> (d < f \/ (d = f /\ r <= g - 1))
    BY <1>1, <1>5, <2>4, Blocks
  <2>7. c = f * g
    BY <1>1, <1>2, <1>5
  <2>8. (Start(v) <= e) <=> f <= d
    <3>1. f * g + 0 = Start(v)
      BY <1>4, <2>7
    <3> QED BY <1>1, <2>2, <2>5, <3>1
  <2>9. (e <= End(v)) <=> d <= f
    <3>1. f * g + (g - 1) = End(v)
      BY <1>4, <1>5, <2>7
    <3> QED BY <1>1, <2>2, <2>6, <3>1
  <2> QED BY <1>1, <2>3, <2>8, <2>9
<1> QED BY <1>2, <1>4, <1>5, <1>6, <1>7

\* The value of a slot marks a prefix.
LEMMA SlottedMarks ==
    ASSUME NEW size \in 1..InfixSize, NEW v, Slotted(v, size)
    PROVE  /\ \E h, f : Marks(v, h, f)
           /\ LowBitPos(v) \in 0..(size - 1) /\ LowBit(v) = 2^LowBitPos(v)
           /\ v \in Nat /\ v # 0
<1>1. /\ LowBitPos(v) \in 0..(size - 1)
      /\ \E h \in Nat : \E f \in Nat :
            h > 0 /\ LowBit(v) = h /\ v = (2 * h) * f + h /\ v \div (2 * h) = f
  BY LowBitIs
<1>2. PICK h \in Nat, f \in Nat : h > 0 /\ LowBit(v) = h /\ v = (2 * h) * f + h
  BY <1>1
<1>3. Marks(v, h, f)
  BY <1>2 DEF Marks
<1>4. v \in Nat /\ v # 0
  BY <1>3, MarksInterval
<1> QED BY <1>1, <1>3, <1>4 DEF LowBit

\* Powers of two grow.
LEMMA PowersGrow ==
    ASSUME NEW a \in Nat, NEW b \in Nat, a < b, b <= InfixSize
    PROVE  \E m \in Nat : m > 0 /\ 2^b = (2 * 2^a) * m /\ 2^a < 2^b /\ m = 2^(b - (a + 1))
<1>0. InfixSize \in Nat
  BY Powers
<1>1. PICK c \in Nat : c = b - (a + 1) /\ b = (a + 1) + c
  <2>1. b - (a + 1) \in Nat /\ b = (a + 1) + (b - (a + 1))
    OBVIOUS
  <2> QED BY <2>1
<1>2. a + 1 \in Nat /\ (a + 1) + c <= InfixSize /\ a \in 0..InfixSize /\ c \in 0..InfixSize
  BY <1>0, <1>1
<1>3. 2^((a + 1) + c) = 2^(a + 1) * 2^c
  BY <1>2, PowersMultiply
<1>4. PICK p \in Nat : p = 2^a /\ p > 0 /\ 2^(a + 1) = 2 * p
  BY <1>2, Powers
<1>5. PICK m \in Nat : m = 2^c /\ m > 0
  BY <1>2, Powers
<1>6. 2^b = (2 * p) * m
  BY <1>1, <1>3, <1>4, <1>5
<1>7. p < (2 * p) * m
  <2>1. PICK k \in Nat : m = k + 1
    <3>1. m - 1 \in Nat /\ m = (m - 1) + 1
      BY <1>5
    <3> QED BY <3>1
  <2>2. (2 * p) * m = (2 * p) * k + 2 * p
    BY <2>1
  <2>3. (2 * p) * k \in Nat
    OBVIOUS
  <2> QED BY <1>4, <2>2, <2>3
<1> QED BY <1>1, <1>4, <1>5, <1>6, <1>7

\* The mark is what is left below the prefix.
LEMMA MarksMod ==
    ASSUME NEW v, NEW h, NEW f, Marks(v, h, f)
    PROVE  v % (2 * h) = h
<1>1. h \in Nat /\ f \in Nat /\ h > 0 /\ v = (2 * h) * f + h
  BY DEF Marks
<1>2. PICK g \in Nat : g = 2 * h /\ g > 0
  BY <1>1
<1>3. h \in 0..(g - 1) /\ v = f * g + h
  BY <1>1, <1>2
<1>4. (f * g + h) % g = h
  BY <1>1, <1>2, <1>3, Recompose
<1> QED BY <1>2, <1>3, <1>4

\* A slot value under its part ends at the same bit as by itself.
LEMMA ItemLowBit ==
    ASSUME NEW size \in 1..InfixSize, NEW o \in Nat, NEW v, Slotted(v, size),
           NEW w, w = o * 2^size + v
    PROVE  LowBitPos(w) = LowBitPos(v) /\ LowBit(w) = LowBit(v) /\ w \in Nat /\ w # 0
<1> DEFINE p == LowBitPos(v)
<1>1. InfixSize \in Nat /\ size \in Nat /\ size <= InfixSize /\ InfixSize < WordBits
      /\ WordBits \in Nat /\ size \in 0..InfixSize
  BY Powers DEF WordBits
<1>2. p \in 0..(size - 1) /\ p \in Nat /\ p + 1 \in 1..size /\ v \in Nat /\ v # 0 /\ LowBit(v) = 2^p
  BY <1>1, SlottedMarks
<1>3. \A j \in 1..p : v % 2^j = 0
  BY LowBitIs
<1>4. v % 2^(p + 1) # 0
  <2>1. PICK h, f : Marks(v, h, f)
    BY SlottedMarks
  <2>2. h \in Nat /\ f \in Nat /\ h > 0 /\ h = 2^p /\ v = (2 * h) * f + h
    BY <1>2, <2>1 DEF Marks
  <2>3. 2^(p + 1) = 2 * h
    <3>1. p \in 0..InfixSize
      BY <1>1, <1>2
    <3> QED BY <2>2, <3>1, Powers
  <2>4. v % (2 * h) = h
    BY <2>1, MarksMod
  <2> HIDE DEF p
  <2> QED BY <2>2, <2>3, <2>4
<1> HIDE DEF p
<1>5. ASSUME NEW n \in 1..size PROVE w % 2^n = v % 2^n
  <2>1. PICK c \in Nat : c = size - n /\ n + c = size
    <3>1. size - n \in Nat /\ n + (size - n) = size
      BY <1>1
    <3> QED BY <3>1
  <2>2. n \in Nat /\ n \in 0..InfixSize /\ c \in 0..InfixSize /\ n + c <= InfixSize
    BY <1>1, <2>1
  <2>3. PICK a \in Nat : a = 2^n /\ a > 0
    BY <2>2, Powers
  <2>4. PICK m \in Nat : m = 2^c
    BY <2>2, Powers
  <2>5. 2^size = a * m
    BY <2>1, <2>2, <2>3, <2>4, PowersMultiply
  <2>6. PICK d \in Nat : \E r \in 0..(a - 1) : v \div a = d /\ v % a = r /\ v = a * d + r
    BY <1>2, <2>3, DivMod
  <2>7. PICK r \in 0..(a - 1) : v % a = r /\ v = a * d + r
    BY <2>6
  <2>8. PICK k \in Nat : k = o * m + d
    OBVIOUS
  <2>9. w = k * a + r
    <3>1. w = o * (a * m) + (a * d + r)
      BY <2>5, <2>7
    <3> QED BY <2>8, <3>1
  <2>10. (k * a + r) % a = r
    BY <2>3, Recompose
  <2> QED BY <2>3, <2>7, <2>9, <2>10
<1>6. \A k \in 0..(WordBits - 1) :
         (w % 2^(k + 1) # 0 /\ \A j \in 1..k : w % 2^j = 0) <=> k = p
  <2>1. TAKE k \in 0..(WordBits - 1)
  <2>2. CASE k = p
    <3>1. w % 2^(p + 1) # 0
      BY <1>2, <1>4, <1>5
    <3>2. \A j \in 1..p : w % 2^j = 0
      <4>1. TAKE j \in 1..p
      <4>2. j \in 1..size
        BY <1>1, <1>2
      <4> QED BY <1>3, <1>5, <4>2
    <3> QED BY <2>2, <3>1, <3>2
  <2>3. CASE k < p
    <3>1. k + 1 \in 1..p /\ k + 1 \in 1..size
      BY <1>1, <1>2, <2>3
    <3>2. w % 2^(k + 1) = 0
      BY <1>3, <1>5, <3>1
    <3> QED BY <1>2, <2>3, <3>2
  <2>4. CASE p < k
    <3>1. p + 1 \in 1..k
      BY <1>1, <1>2, <2>4
    <3>2. w % 2^(p + 1) # 0
      BY <1>2, <1>4, <1>5
    <3> QED BY <1>2, <2>4, <3>1, <3>2
  <2>5. k \in Nat /\ p \in Nat
    BY <1>1, <1>2
  <2> QED BY <2>2, <2>3, <2>4, <2>5
<1>7. p \in 0..(WordBits - 1)
  BY <1>1, <1>2
<1>8. LowBitPos(w) = p
  <2>1. LowBitPos(w) = CHOOSE k \in 0..(WordBits - 1) :
                          w % 2^(k + 1) # 0 /\ \A j \in 1..k : w % 2^j = 0
    BY DEF LowBitPos
  <2> QED BY <1>6, <1>7, <2>1
<1>9. w \in Nat /\ w # 0
  <2>1. PICK q \in Nat : q = 2^size
    BY <1>1, Powers
  <2>2. o * q \in Nat
    OBVIOUS
  <2> QED BY <1>2, <2>1, <2>2
<1> QED BY <1>2, <1>8, <1>9 DEF LowBit, p

\* So the interval of an infix is that of its slot value, moved into the block of its part.
LEMMA ItemIs ==
    ASSUME NEW size \in 1..InfixSize, NEW o \in Nat, NEW v, Slotted(v, size),
           NEW w, w = o * 2^size + v
    PROVE  /\ \E h, f : Marks(w, h, f)
           /\ Start(w) = o * 2^size + Start(v) /\ End(w) = o * 2^size + End(v)
           /\ Start(v) \in Nat /\ End(v) \in Nat /\ End(v) < 2^size /\ Start(v) <= End(v)
<1>1. InfixSize \in Nat /\ size \in Nat /\ size <= InfixSize /\ size \in 0..InfixSize
  BY Powers
<1>2. LowBit(w) = LowBit(v)
  BY ItemLowBit
<1>3. PICK h, f : Marks(v, h, f)
  BY SlottedMarks
<1>4. h \in Nat /\ f \in Nat /\ h > 0 /\ v = (2 * h) * f + h /\ LowBit(v) = h
  BY <1>3 DEF Marks
<1>5. PICK g \in Nat : g = 2 * h /\ g > 0
  BY <1>4
<1>6. PICK p \in 0..(size - 1) : h = 2^p
  BY <1>4, SlottedMarks
<1>7. \E m \in Nat : 2^size = g * m
  <2>1. PICK c \in Nat : c = size - (p + 1) /\ (p + 1) + c = size
    <3>1. size - (p + 1) \in Nat /\ (p + 1) + (size - (p + 1)) = size
      BY <1>1
    <3> QED BY <3>1
  <2>2. p \in 0..InfixSize /\ p + 1 \in Nat /\ c \in 0..InfixSize /\ (p + 1) + c <= InfixSize
    BY <1>1, <2>1
  <2>3. 2^(p + 1) = g
    BY <1>5, <1>6, <2>2, Powers
  <2>4. PICK m \in Nat : m = 2^c
    BY <2>2, Powers
  <2>5. 2^((p + 1) + c) = 2^(p + 1) * 2^c
    BY <2>2, PowersMultiply
  <2> QED BY <2>1, <2>3, <2>4, <2>5
<1>8. PICK m \in Nat : 2^size = g * m
  BY <1>7
<1>9. PICK k \in Nat : k = o * m + f
  BY <1>4
<1>10. w = g * k + h
  <2>1. w = o * (g * m) + (g * f + h)
    BY <1>4, <1>5, <1>8
  <2> QED BY <1>4, <1>9, <2>1
<1>11. Marks(w, h, k)
  BY <1>2, <1>4, <1>5, <1>10 DEF Marks
<1>12. Start(w) = g * k /\ End(w) = g * k + (g - 1)
  BY <1>5, <1>11, MarksInterval
<1>13. Start(v) = g * f /\ End(v) = g * f + (g - 1) /\ Start(v) \in Nat /\ End(v) \in Nat
  BY <1>3, <1>5, MarksInterval
<1>14. g * k = o * (g * m) + g * f
  BY <1>4, <1>9
<1>15. PICK b \in Nat : b = o * (g * m) /\ b = o * 2^size
  BY <1>8
<1>16. Start(w) = o * 2^size + Start(v) /\ End(w) = o * 2^size + End(v)
  BY <1>5, <1>12, <1>13, <1>14, <1>15
<1>17. f < m
  <2>1. v < 2^size
    BY <1>1, Powers DEF Slotted
  <2>2. 0 \in 0..(g - 1) /\ h \in 0..(g - 1)
    BY <1>4, <1>5
  <2>3. (m * g + 0 <= f * g + h) <=> (m < f \/ (m = f /\ 0 <= h))
    BY <1>4, <1>5, <1>8, <2>2, Blocks
  <2>4. m * g \in Nat /\ f * g \in Nat /\ m * g = 2^size /\ f * g + h = v
    BY <1>4, <1>5, <1>8
  <2>5. ~(m * g + 0 <= f * g + h)
    BY <1>4, <2>1, <2>4
  <2> QED BY <1>4, <1>8, <2>3, <2>5
<1>18. End(v) < 2^size
  <2>1. PICK c \in Nat : m = (f + 1) + c
    <3>1. m - (f + 1) \in Nat /\ m = (f + 1) + (m - (f + 1))
      BY <1>4, <1>17
    <3> QED BY <3>1
  <2>2. g * m = (g * f + g) + g * c
    BY <1>4, <2>1
  <2>3. g * c \in Nat /\ g * f \in Nat
    BY <1>4
  <2> QED BY <1>5, <1>8, <1>13, <2>2, <2>3
<1>19. Start(v) <= End(v)
  BY <1>5, <1>13, <1>4
<1> QED BY <1>11, <1>13, <1>16, <1>18, <1>19

\* Of two prefixes of one key, the one that starts later is the longer.
LEMMA Nested ==
    ASSUME NEW size \in 1..InfixSize, NEW v, Slotted(v, size), NEW w, Slotted(w, size),
           NEW x \in Nat, Covers(v, x), Covers(w, x), Start(v) < Start(w)
    PROVE  LowBit(w) <= LowBit(v)
<1>1. PICK h, f : Marks(v, h, f)
  BY SlottedMarks
<1>2. PICK j, g : Marks(w, j, g)
  BY SlottedMarks
<1>3. /\ h \in Nat /\ f \in Nat /\ h > 0 /\ LowBit(v) = h
      /\ j \in Nat /\ g \in Nat /\ j > 0 /\ LowBit(w) = j
  BY <1>1, <1>2 DEF Marks
<1>4. /\ Start(v) = (2 * h) * f /\ Start(v) <= x /\ x <= (2 * h) * f + (2 * h - 1)
      /\ Start(w) = (2 * j) * g /\ Start(w) <= x /\ x <= (2 * j) * g + (2 * j - 1)
  BY <1>1, <1>2, MarksInterval
<1>5. /\ LowBitPos(v) \in 0..(size - 1) /\ h = 2^LowBitPos(v)
      /\ LowBitPos(w) \in 0..(size - 1) /\ j = 2^LowBitPos(w)
  BY <1>3, SlottedMarks
<1>6. InfixSize \in Nat /\ size <= InfixSize
  BY Powers
<1> SUFFICES ASSUME h < j PROVE FALSE
  BY <1>3
<1>7. PICK a \in Nat : a = LowBitPos(v) /\ a < size
  BY <1>5
<1>8. PICK b \in Nat : b = LowBitPos(w) /\ b < size
  BY <1>5
<1>9. a < b
  <2>1. CASE b < a
    <3>1. 2^b < 2^a
      BY <1>6, <1>7, <1>8, <2>1, PowersGrow
    <3> QED BY <1>3, <1>5, <1>7, <1>8, <3>1
  <2>2. CASE b = a
    BY <1>3, <1>5, <1>7, <1>8, <2>2
  <2> QED BY <1>7, <1>8, <2>1, <2>2
<1>10. PICK m \in Nat : j = (2 * h) * m
  <2>0. b <= InfixSize
    BY <1>6, <1>8
  <2>1. \E m \in Nat : m > 0 /\ 2^b = (2 * 2^a) * m
    <3>1. \E m \in Nat : m > 0 /\ 2^b = (2 * 2^a) * m /\ 2^a < 2^b /\ m = 2^(b - (a + 1))
      BY <1>9, <2>0, PowersGrow
    <3> QED BY <3>1
  <2> QED BY <1>5, <1>7, <1>8, <2>1
<1>11. PICK n \in Nat : n = (2 * m) * g
  BY <1>3
<1>12. PICK c \in Nat : c = 2 * h /\ c > 0
  BY <1>3
<1>13. Start(w) = n * c
  <2>1. Start(w) = (2 * ((2 * h) * m)) * g
    BY <1>4, <1>10
  <2>2. (2 * ((2 * h) * m)) * g = ((2 * m) * g) * (2 * h)
    BY <1>3
  <2> QED BY <1>11, <1>12, <2>1, <2>2
<1>14. n * c <= f * c + (c - 1)
  BY <1>3, <1>4, <1>12, <1>13
<1>15. n <= f
  <2>1. 0 \in 0..(c - 1) /\ c - 1 \in 0..(c - 1)
    BY <1>12
  <2>2. (n * c + 0 <= f * c + (c - 1)) <=> (n < f \/ (n = f /\ 0 <= c - 1))
    BY <1>3, <2>1, Blocks
  <2>3. n * c \in Nat
    OBVIOUS
  <2> QED BY <1>14, <2>2, <2>3, <1>3
<1>16. n * c <= f * c
  <2>1. PICK d \in Nat : f = n + d
    <3>1. f - n \in Nat /\ f = n + (f - n)
      BY <1>3, <1>15
    <3> QED BY <3>1
  <2>2. f * c = n * c + d * c
    BY <2>1
  <2>3. d * c \in Nat /\ n * c \in Nat
    OBVIOUS
  <2> QED BY <2>2, <2>3
<1>17. f * c = Start(v)
  BY <1>3, <1>4, <1>12
<1>18. n * c \in Nat /\ f * c \in Nat
  BY <1>3
<1> QED BY <1>13, <1>16, <1>17, <1>18

-----------------------------------------------------------------------------
(* The longest prefix of a key.                                              *)

\* The slots of the run of an occupied part are those that hold its infixes.
LEMMA RunSlots ==
    ASSUME NEW s, NEW size, Good(s, size), NEW i \in s.occupieds,
           NEW e, e = RunEndOf(s, i), NEW rs, rs = RunStart(s, i, e)
    PROVE  /\ rs \in Nat /\ e \in Nat /\ rs <= e
           /\ \A p : p \in rs..e <=> p \in UsedSlots(s) /\ OccupiedOf(s, p) = i
<1>1. WholeRun(s, i, rs, e)
  BY RunIs DEF WholeRun
<1>2. /\ e \in s.runends /\ rs \in 0..e
      /\ \A p \in rs..e : p \in UsedSlots(s)
      /\ \A p \in UsedSlots(s) : Below(s.runends, p) = Below(s.occupieds, i) => p \in rs..e
  BY <1>1 DEF WholeRun, Run
<1>3. rs \in Nat /\ e \in Nat /\ rs <= e
  BY <1>2, GoodFacts
<1>4. Ranked(s)
  BY GoodRanked
<1>5. ASSUME NEW p \in rs..e PROVE OccupiedOf(s, p) = i
  <2>1. Below(s.runends, p) = Below(s.occupieds, i)
    BY <1>1, RankWithin
  <2>2. InRun(s, p, i)
    BY <2>1 DEF InRun
  <2> QED BY <1>4, <2>2, InRunIs
<1>6. ASSUME NEW p \in UsedSlots(s), OccupiedOf(s, p) = i PROVE p \in rs..e
  <2>1. Below(s.occupieds, OccupiedOf(s, p)) = Below(s.runends, p)
    BY OccupiedOfIs
  <2> QED BY <1>2, <1>6, <2>1
<1> QED BY <1>2, <1>3, <1>5, <1>6

\* The infix of a slot in use.
LEMMA SlotItem ==
    ASSUME NEW s, NEW size \in 1..InfixSize, Good(s, size), NEW p \in UsedSlots(s)
    PROVE  /\ Slotted(s.slots[p], size) /\ OccupiedOf(s, p) \in Nat
           /\ OccupiedOf(s, p) \in s.occupieds
           /\ LowBit(Item(s, size, p)) = LowBit(s.slots[p])
           /\ LowBitPos(Item(s, size, p)) = LowBitPos(s.slots[p])
           /\ \E h, f : Marks(Item(s, size, p), h, f)
           /\ Start(Item(s, size, p)) = OccupiedOf(s, p) * 2^size + Start(s.slots[p])
           /\ End(Item(s, size, p)) = OccupiedOf(s, p) * 2^size + End(s.slots[p])
<1>1. p \in Positions(s) /\ s.slots[p] # 0
  BY DEF UsedSlots
<1>2. Slotted(s.slots[p], size)
  BY <1>1 DEF Good, Slotted
<1>3. OccupiedOf(s, p) \in Nat /\ OccupiedOf(s, p) \in s.occupieds
  <2>1. OccupiedOf(s, p) \in s.occupieds
    BY OccupiedOfIs
  <2> QED BY <2>1, GoodFacts
<1>4. PICK v : v = s.slots[p]
  OBVIOUS
<1>5. PICK o \in Nat : o = OccupiedOf(s, p)
  BY <1>3
<1>6. PICK w : w = o * 2^size + v
  OBVIOUS
<1>7. w = Item(s, size, p)
  BY <1>4, <1>5, <1>6 DEF Item
<1>8. LowBit(w) = LowBit(v) /\ LowBitPos(w) = LowBitPos(v)
  BY <1>2, <1>4, <1>6, ItemLowBit
<1>9. /\ \E h, f : Marks(w, h, f)
      /\ Start(w) = o * 2^size + Start(v) /\ End(w) = o * 2^size + End(v)
  BY <1>2, <1>4, <1>6, ItemIs
<1> QED BY <1>2, <1>3, <1>4, <1>5, <1>7, <1>8, <1>9

\* A key's part and offset.
LEMMA KeyParts ==
    ASSUME NEW size \in 1..InfixSize, NEW key \in Nat
    PROVE  /\ Implicit(key, size) \in Nat /\ Explicit(key, size) \in 0..(2^size - 1)
           /\ key = Implicit(key, size) * 2^size + Explicit(key, size)
           /\ 2^size \in Nat /\ 2^size > 0
<1>1. PICK q \in Nat : q = 2^size /\ q > 0
  BY Powers
<1>2. PICK d \in Nat : \E r \in 0..(q - 1) : key \div q = d /\ key % q = r /\ key = q * d + r
  BY <1>1, DivMod
<1>3. PICK r \in 0..(q - 1) : key \div q = d /\ key % q = r /\ key = q * d + r
  BY <1>2
<1>4. key = d * q + r
  BY <1>3
<1> QED BY <1>1, <1>3, <1>4 DEF Implicit, Explicit

\* An infix is a prefix of a key when it is of the key's part and its slot value is a
\* prefix of the rest.
LEMMA ItemCovers ==
    ASSUME NEW s, NEW size \in 1..InfixSize, Good(s, size), NEW p \in UsedSlots(s), NEW key \in Nat
    PROVE  Covers(Item(s, size, p), key) <=>
               (OccupiedOf(s, p) = Implicit(key, size) /\ Covers(s.slots[p], Explicit(key, size)))
<1>1. PICK v : v = s.slots[p]
  OBVIOUS
<1>2. PICK o \in Nat : o = OccupiedOf(s, p)
  BY SlotItem
<1>3. PICK w : w = Item(s, size, p)
  OBVIOUS
<1>4. Slotted(v, size) /\ w = o * 2^size + v
  BY <1>1, <1>2, <1>3, SlotItem DEF Item
<1>5. PICK q \in Nat : q = 2^size /\ q > 0
  BY Powers
<1>6. /\ \E h, f : Marks(w, h, f)
      /\ Start(w) = o * q + Start(v) /\ End(w) = o * q + End(v)
      /\ Start(v) \in Nat /\ End(v) \in Nat /\ End(v) < q /\ Start(v) <= End(v)
  BY <1>4, <1>5, ItemIs
<1>7. Covers(w, key) <=> (Start(w) <= key /\ key <= End(w))
  BY <1>6, MarksInterval
<1>8. PICK i \in Nat : i = Implicit(key, size)
  BY KeyParts
<1>9. PICK x \in 0..(q - 1) : x = Explicit(key, size)
  BY <1>5, KeyParts
<1>10. key = i * q + x
  BY <1>5, <1>8, <1>9, KeyParts
<1>11. Covers(v, x) <=> (Start(v) <= x /\ x <= End(v))
  <2>1. PICK h, f : Marks(v, h, f)
    BY <1>4, SlottedMarks
  <2>2. x \in Nat
    BY <1>9
  <2> QED BY <2>1, <2>2, MarksInterval
<1>12. PICK a \in 0..(q - 1) : a = Start(v)
  BY <1>5, <1>6
<1>13. PICK b \in 0..(q - 1) : b = End(v)
  BY <1>5, <1>6
<1>14. (o * q + a <= i * q + x) <=> (o < i \/ (o = i /\ a <= x))
  BY Blocks
<1>15. (i * q + x <= o * q + b) <=> (i < o \/ (i = o /\ x <= b))
  BY Blocks
<1>16. Covers(w, key) <=> (o = i /\ a <= x /\ x <= b)
  BY <1>6, <1>7, <1>10, <1>12, <1>13, <1>14, <1>15
<1> QED BY <1>1, <1>2, <1>3, <1>8, <1>9, <1>11, <1>12, <1>13, <1>16

\* The last match of a key in its run is a longest prefix of it.
LEMMA LastMatchIs ==
    ASSUME NEW s, NEW size \in 1..InfixSize, Good(s, size), Sorted(s),
           NEW key \in InsertedInfixes(size), NEW i \in s.occupieds, i = Implicit(key, size),
           NEW e, e = RunEndOf(s, i), NEW rs, rs = RunStart(s, i, e),
           NEW k, k = LastMatch(s, key, rs, e, size)
    PROVE  /\ k < rs => \A p \in UsedSlots(s) : ~Covers(Item(s, size, p), key)
           /\ k >= rs => /\ k \in rs..e /\ k \in UsedSlots(s) /\ OccupiedOf(s, k) = i
                         /\ Covers(Item(s, size, k), key)
                         /\ \A p \in UsedSlots(s) : Covers(Item(s, size, p), key) =>
                               LowBit(Item(s, size, k)) <= LowBit(Item(s, size, p))
<1> DEFINE x == Explicit(key, size)
           matches == {p \in rs..e : /\ Start(s.slots[p]) < key
                                     /\ Covers(s.slots[p], Explicit(key, size))}
<1>1. /\ rs \in Nat /\ e \in Nat /\ rs <= e
      /\ \A p : p \in rs..e <=> p \in UsedSlots(s) /\ OccupiedOf(s, p) = i
  BY RunSlots
<1>2. key \in Nat /\ key % 2 = 1
  BY OddKeys
<1>3. \A p : p \in matches <=> p \in UsedSlots(s) /\ Covers(Item(s, size, p), key)
  <2>1. TAKE p
  <2>2. CASE p \in UsedSlots(s)
    <3>1. Slotted(s.slots[p], size)
      BY <2>2, SlotItem
    <3>2. Covers(s.slots[p], x) => Start(s.slots[p]) < key
      BY <1>2, <3>1, StartBelow
    <3>3. Covers(Item(s, size, p), key) <=> (OccupiedOf(s, p) = i /\ Covers(s.slots[p], x))
      BY <1>2, <2>2, ItemCovers
    <3> QED BY <1>1, <2>2, <3>2, <3>3
  <2>3. CASE p \notin UsedSlots(s)
    BY <1>1, <2>3
  <2> QED BY <2>2, <2>3
<1>4. k = Max(matches \cup {rs - 1})
  BY DEF LastMatch
<1>5. \A y \in matches : y \in rs..e
  OBVIOUS
<1>x. x \in Nat
  <2>1. Explicit(key, size) \in 0..(2^size - 1) /\ 2^size \in Nat
    BY <1>2, KeyParts
  <2> QED BY <2>1
<1>y. \A p \in matches : Covers(s.slots[p], x)
  OBVIOUS
<1> HIDE DEF matches, x
<1>6. k \in matches \cup {rs - 1} /\ \A y \in matches \cup {rs - 1} : y <= k
  <2>1. \A y \in matches \cup {rs - 1} : y \in (rs - 1)..e
    BY <1>1, <1>5
  <2>2. rs - 1 \in Int /\ e \in Int /\ matches \cup {rs - 1} # {}
    BY <1>1
  <2> QED BY <1>4, <2>1, <2>2, MaxOf
<1>7. ASSUME k < rs PROVE \A p \in UsedSlots(s) : ~Covers(Item(s, size, p), key)
  <2>1. TAKE p \in UsedSlots(s)
  <2>2. ASSUME p \in matches PROVE FALSE
    <3>1. p \in rs..e /\ p <= k
      BY <1>5, <1>6, <2>2
    <3>2. k \in Int
      BY <1>1, <1>5, <1>6
    <3> QED BY <1>1, <1>7, <3>1, <3>2
  <2> QED BY <1>3, <2>2
<1>8. ASSUME k >= rs
      PROVE  /\ k \in rs..e /\ k \in UsedSlots(s) /\ OccupiedOf(s, k) = i
             /\ Covers(Item(s, size, k), key)
             /\ \A p \in UsedSlots(s) : Covers(Item(s, size, p), key) =>
                   LowBit(Item(s, size, k)) <= LowBit(Item(s, size, p))
  <2>1. k \in matches
    BY <1>1, <1>6, <1>8
  <2>2. k \in rs..e /\ k \in UsedSlots(s) /\ OccupiedOf(s, k) = i
    BY <1>1, <1>5, <2>1
  <2>3. Covers(Item(s, size, k), key)
    BY <1>3, <2>1
  <2>4. ASSUME NEW p \in UsedSlots(s), Covers(Item(s, size, p), key)
        PROVE  LowBit(Item(s, size, k)) <= LowBit(Item(s, size, p))
    <3>1. p \in matches /\ p \in rs..e /\ p <= k /\ OccupiedOf(s, p) = i
      BY <1>1, <1>3, <1>5, <1>6, <2>4
    <3>2. PICK a : a = s.slots[p]
      OBVIOUS
    <3>3. PICK b : b = s.slots[k]
      OBVIOUS
    <3>4. Slotted(a, size) /\ LowBit(Item(s, size, p)) = LowBit(a)
      BY <3>2, SlotItem
    <3>5. Slotted(b, size) /\ LowBit(Item(s, size, k)) = LowBit(b)
      BY <2>2, <3>3, SlotItem
    <3>6. Covers(a, x) /\ Covers(b, x)
      BY <1>y, <2>1, <3>1, <3>2, <3>3
    <3>7. LowBit(b) \in Nat
      <4>1. PICK h, f : Marks(b, h, f)
        BY <3>5, SlottedMarks
      <4> QED BY <4>1 DEF Marks
    <3>8. CASE p = k
      BY <3>2, <3>3, <3>4, <3>5, <3>7, <3>8
    <3>9. CASE p # k
      <4>1. p < k
        BY <1>1, <2>2, <3>1, <3>9
      <4>2. ListBefore(a, b)
        BY <2>2, <3>1, <3>2, <3>3, <4>1 DEF Sorted
      <4>3. CASE Start(a) < Start(b)
        <5>1. LowBit(b) <= LowBit(a)
          BY <1>x, <3>4, <3>5, <3>6, <4>3, Nested
        <5> QED BY <3>4, <3>5, <5>1
      <4>4. CASE Start(a) = Start(b) /\ LowBit(a) >= LowBit(b)
        BY <3>4, <3>5, <4>4
      <4> QED BY <4>2, <4>3, <4>4 DEF ListBefore
    <3> QED BY <3>8, <3>9
  <2> QED BY <2>2, <2>3, <2>4
<1> QED BY <1>7, <1>8

\* Two prefixes of one key of one length are equal.
LEMMA SamePrefix ==
    ASSUME NEW v, NEW w, NEW key \in Nat, \E h, f : Marks(v, h, f), \E h, f : Marks(w, h, f),
           Covers(v, key), Covers(w, key), LowBit(v) = LowBit(w)
    PROVE  v = w
<1>1. PICK h, f : Marks(v, h, f)
  OBVIOUS
<1>2. PICK j, g : Marks(w, j, g)
  OBVIOUS
<1>3. h = LowBit(v) /\ v = (2 * h) * f + h /\ j = LowBit(w) /\ w = (2 * j) * g + j
  BY <1>1, <1>2 DEF Marks
<1>4. v # 0 /\ w # 0 /\ v \div (2 * h) = f /\ w \div (2 * j) = g
  BY <1>1, <1>2, MarksInterval
<1>5. f = key \div (2 * h) /\ g = key \div (2 * j)
  BY <1>3, <1>4 DEF Covers
<1> QED BY <1>3, <1>5

\* The abstract specification reads infixes as the store does.
LEMMA SameInfixes ==
    /\ \A v : Abstract!LowBitPos(v) = LowBitPos(v)
    /\ \A v : Abstract!LowBit(v) = LowBit(v)
    /\ \A v, e : Abstract!Covers(v, e) <=> Covers(v, e)
<1>1. \A v : Abstract!LowBitPos(v) = LowBitPos(v)
  BY DEF Abstract!LowBitPos, LowBitPos, Abstract!WordBits, WordBits
<1>2. \A v : Abstract!LowBit(v) = LowBit(v)
  BY <1>1 DEF Abstract!LowBit, LowBit
<1>3. \A v, e : Abstract!Covers(v, e) <=> Covers(v, e)
  BY <1>2 DEF Abstract!Covers, Covers
<1> QED BY <1>1, <1>2, <1>3

\* The abstract specification's longest prefix is the one the search finds.
LEMMA LongestIs ==
    ASSUME NEW s, NEW size \in 1..InfixSize, Good(s, size), NEW key \in Nat,
           NEW k \in UsedSlots(s), Covers(Item(s, size, k), key),
           \A p \in UsedSlots(s) : Covers(Item(s, size, p), key) =>
               LowBit(Item(s, size, k)) <= LowBit(Item(s, size, p))
    PROVE  Abstract!Longest(DOMAIN BagOf(s, size), key) = {Item(s, size, k)}
<1>1. PICK D : D = DOMAIN BagOf(s, size)
  OBVIOUS
<1>2. \A v : v \in D <=> \E p \in UsedSlots(s) : Item(s, size, p) = v
  <2>1. Bounded(s)
    BY GoodFacts DEF Bounded
  <2>2. PICK B : B = BagOf(s, size)
    OBVIOUS
  <2>3. \A v : v \in DOMAIN B <=> \E p \in UsedSlots(s) : Item(s, size, p) = v
    BY <2>1, <2>2, BagIs
  <2> QED BY <1>1, <2>2, <2>3
<1>3. PICK w : w = Item(s, size, k)
  OBVIOUS
<1>4. \A v \in D : /\ \E h, f : Marks(v, h, f)
                   /\ Covers(v, key) => LowBit(w) <= LowBit(v)
  BY <1>2, <1>3, SlotItem
<1>5. w \in D /\ Covers(w, key)
  BY <1>2, <1>3
<1>6. \A v \in D : LowBit(v) \in Nat
  <2>1. TAKE v \in D
  <2>2. PICK h, f : Marks(v, h, f)
    BY <1>4
  <2> QED BY <2>2 DEF Marks
<1>7. ASSUME NEW v \in D, Covers(v, key), LowBit(v) <= LowBit(w) PROVE v = w
  <2>1. LowBit(v) = LowBit(w)
    BY <1>4, <1>5, <1>6, <1>7
  <2> QED BY <1>4, <1>5, <1>7, <2>1, SamePrefix
<1>8. \A v : v \in {u \in {y \in D : Covers(y, key)} :
                       \A y \in {y2 \in D : Covers(y2, key)} : LowBit(u) <= LowBit(y)} <=> v = w
  BY <1>4, <1>5, <1>7
<1>9. Abstract!Longest(D, key) = {w}
  <2>1. {u \in {y \in D : Covers(y, key)} :
            \A y \in {y2 \in D : Covers(y2, key)} : LowBit(u) <= LowBit(y)} = {w}
    BY <1>8
  <2> QED BY <2>1, SameInfixes DEF Abstract!Longest
<1> QED BY <1>1, <1>3, <1>9

\* DeleteRawFromInfixStore takes out a longest prefix of its key, and keeps the runs in
\* order.
LEMMA DeletedKey ==
    ASSUME NEW s, NEW size \in 1..InfixSize, Good(s, size), Sorted(s),
           NEW key \in InsertedInfixes(size), PointQueryInfixStore(s, key, size),
           NEW d, d = DeleteRawFromInfixStore(s, key, TotalImplicit, size)
    PROVE  /\ \E v : /\ Abstract!Longest(DOMAIN BagOf(s, size), key) = {v}
                     /\ BagOf(d, size) = BagOf(s, size) (-) SetToBag({v})
           /\ Sorted(d)
<1>1. PICK t : t = FitFor(s, TotalImplicit, size)
  OBVIOUS
<1>2. Good(t, size) /\ \A i, v : Holds(s, i, v) => Holds(t, i, v)
  BY <1>1, FitForGood
<1>3. BagOf(t, size) = BagOf(s, size) /\ Sorted(t)
  BY <1>1, FitForBag
<1>4. PICK v : /\ Holds(s, Implicit(key, size), v) /\ Slotted(v, size)
               /\ Covers(v, Explicit(key, size))
  BY QueryHolds
<1>5. Holds(t, Implicit(key, size), v)
  BY <1>2, <1>4
<1>6. PICK i \in t.occupieds : i = Implicit(key, size)
  BY <1>5 DEF Holds
<1>7. PICK e : e = RunEndOf(t, i)
  OBVIOUS
<1>8. PICK rs : rs = RunStart(t, i, e)
  OBVIOUS
<1>9. PICK k : k = LastMatch(t, key, rs, e, size)
  OBVIOUS
<1>10. k \in rs..e /\ rs \in Nat /\ e \in Nat
  <2>1. LastMatch(t, key, rs, e, size) \in rs..e
    BY <1>2, <1>4, <1>5, <1>6, <1>7, <1>8, MatchInRun
  <2> QED BY <1>2, <1>7, <1>8, <1>9, <2>1, RunSlots
<1>11. k >= rs
  BY <1>10
<1>12. /\ k \in UsedSlots(t) /\ OccupiedOf(t, k) = i
       /\ Covers(Item(t, size, k), key)
       /\ \A p \in UsedSlots(t) : Covers(Item(t, size, p), key) =>
             LowBit(Item(t, size, k)) <= LowBit(Item(t, size, p))
  BY <1>2, <1>3, <1>6, <1>7, <1>8, <1>9, <1>11, LastMatchIs
<1>13. key \in Nat
  BY OddKeys
<1>14. PICK w : w = Item(t, size, k)
  OBVIOUS
<1>15. Abstract!Longest(DOMAIN BagOf(t, size), key) = {w}
  BY <1>2, <1>12, <1>13, <1>14, LongestIs
<1>16. d = DeleteFrom(t, i, k, rs, e, TotalImplicit)
  BY <1>1, <1>6, <1>7, <1>8, <1>9 DEF DeleteRawFromInfixStore, DeleteKey
<1>17. /\ BagOf(d, size) = BagOf(t, size) (-) SetToBag({i * 2^size + t.slots[k]})
       /\ Sorted(t) => Sorted(d)
  BY <1>2, <1>7, <1>8, <1>10, <1>16, DeletedBag
<1>18. w = i * 2^size + t.slots[k]
  BY <1>12, <1>14 DEF Item
<1> QED BY <1>3, <1>15, <1>17, <1>18

\* What a store holds are the infixes of its used slots.
LEMMA HeldIs ==
    ASSUME NEW s, NEW size, Good(s, size), NEW held, held = Range(GetInfixList(s, size))
    PROVE  \A v : v \in held <=> \E p \in UsedSlots(s) : Item(s, size, p) = v
<1>1. Bounded(s)
  BY GoodFacts DEF Bounded
<1>2. PICK used : used = Ascending(UsedSlots(s))
  OBVIOUS
<1>3. /\ GetInfixList(s, size) = [j \in DOMAIN used |-> Item(s, size, used[j])]
      /\ \A j \in DOMAIN used : used[j] \in UsedSlots(s)
      /\ \A p \in UsedSlots(s) : \E j \in DOMAIN used : used[j] = p
  BY <1>1, <1>2, ListIs
<1>4. held = {Item(s, size, used[j]) : j \in DOMAIN used}
  BY <1>3 DEF Range
<1> QED BY <1>3, <1>4

\* Lengths of prefixes and their lowest bits.
LEMMA BitPosOrder ==
    ASSUME NEW size \in 1..InfixSize, NEW v, Slotted(v, size), NEW w, Slotted(w, size),
           LowBit(w) <= LowBit(v)
    PROVE  LowBitPos(w) <= LowBitPos(v)
<1>1. PICK a \in 0..(size - 1) : a = LowBitPos(v) /\ LowBit(v) = 2^a
  BY SlottedMarks
<1>2. PICK b \in 0..(size - 1) : b = LowBitPos(w) /\ LowBit(w) = 2^b
  BY SlottedMarks
<1>3. InfixSize \in Nat /\ a \in Nat /\ b \in Nat /\ b <= InfixSize /\ a \in 0..InfixSize
      /\ b \in 0..InfixSize
  BY Powers
<1> SUFFICES ASSUME a < b PROVE FALSE
  BY <1>1, <1>2, <1>3
<1>4. 2^a < 2^b
  <2>1. \E m \in Nat : m > 0 /\ 2^b = (2 * 2^a) * m /\ 2^a < 2^b /\ m = 2^(b - (a + 1))
    BY <1>3, PowersGrow
  <2> QED BY <2>1
<1>5. 2^b <= 2^a
  BY <1>1, <1>2
<1>6. 2^a \in Nat /\ 2^b \in Nat
  BY <1>3, Powers
<1> QED BY <1>4, <1>5, <1>6

\* GetLongestMatchingInfixSize is the length of a longest stored prefix, 0 when there is
\* none.
LEMMA LongestMatchIs ==
    ASSUME NEW s, NEW size \in 1..InfixSize, Good(s, size), Sorted(s),
           NEW key \in InsertedInfixes(size), NEW held, held = Range(GetInfixList(s, size))
    PROVE  GetLongestMatchingInfixSize(s, key, size)
             = Max({size - LowBitPos(v) : v \in {u \in held : Covers(u, key)}} \cup {0})
<1> DEFINE i == Implicit(key, size)
           e == RunEndOf(s, i)
           rs == RunStart(s, i, e)
           k == LastMatch(s, key, rs, e, size)
           X == {size - LowBitPos(v) : v \in {u \in held : Covers(u, key)}} \cup {0}
<1>1. GetLongestMatchingInfixSize(s, key, size) =
          IF i \in s.occupieds /\ k >= rs THEN size - LowBitPos(s.slots[k]) ELSE 0
  BY DEF GetLongestMatchingInfixSize
<1>2. \A v : v \in held <=> \E p \in UsedSlots(s) : Item(s, size, p) = v
  BY HeldIs
<1>3. key \in Nat
  BY OddKeys
<1>s. size \in Nat /\ size >= 1
  BY Powers
<1>4. \A y : y \in X <=> y = 0 \/ \E p \in UsedSlots(s) : /\ Covers(Item(s, size, p), key)
                                                         /\ y = size - LowBitPos(s.slots[p])
  <2>1. \A p \in UsedSlots(s) : LowBitPos(Item(s, size, p)) = LowBitPos(s.slots[p])
    BY SlotItem
  <2> QED BY <1>2, <2>1
<1>5. \A p \in UsedSlots(s) : LowBitPos(s.slots[p]) \in 0..(size - 1) /\ Slotted(s.slots[p], size)
  BY SlotItem, SlottedMarks
<1> HIDE DEF X
<1>6. Max(X) \in X /\ \A y \in X : y <= Max(X)
  <2>1. \A y \in X : y \in 0..size
    BY <1>4, <1>5, <1>s
  <2>2. X # {} /\ 0 \in Int /\ size \in Int
    BY <1>4
  <2> QED BY <2>1, <2>2, MaxOf
<1>7. CASE i \notin s.occupieds
  <2>1. \A p \in UsedSlots(s) : ~Covers(Item(s, size, p), key)
    <3>1. TAKE p \in UsedSlots(s)
    <3>2. OccupiedOf(s, p) # i
      BY <1>7, SlotItem
    <3> QED BY <1>3, <3>2, ItemCovers
  <2>2. Max(X) = 0
    BY <1>4, <1>6, <2>1
  <2> QED BY <1>1, <1>7, <2>2 DEF X
<1>8. CASE i \in s.occupieds
  <2>1. PICK j \in s.occupieds : j = i
    BY <1>8
  <2>2. PICK f : f = RunEndOf(s, j)
    OBVIOUS
  <2>3. PICK r : r = RunStart(s, j, f)
    OBVIOUS
  <2>4. PICK n : n = LastMatch(s, key, r, f, size)
    OBVIOUS
  <2>5. j = Implicit(key, size) /\ f = e /\ r = rs /\ n = k
    BY <2>1, <2>2, <2>3, <2>4
  <2>6. /\ n < r => \A p \in UsedSlots(s) : ~Covers(Item(s, size, p), key)
        /\ n >= r => /\ n \in r..f /\ n \in UsedSlots(s)
                     /\ Covers(Item(s, size, n), key)
                     /\ \A p \in UsedSlots(s) : Covers(Item(s, size, p), key) =>
                           LowBit(Item(s, size, n)) <= LowBit(Item(s, size, p))
    BY <2>2, <2>3, <2>4, <2>5, LastMatchIs
  <2>7. n \in Int /\ r \in Int
    <3>1. r \in Nat /\ f \in Nat
      BY <2>2, <2>3, RunSlots
    <3>2. n \in {p \in r..f : /\ Start(s.slots[p]) < key
                              /\ Covers(s.slots[p], Explicit(key, size))} \cup {r - 1}
      <4> DEFINE Y == {p \in r..f : /\ Start(s.slots[p]) < key
                                    /\ Covers(s.slots[p], Explicit(key, size))} \cup {r - 1}
      <4>1. n = Max(Y)
        BY <2>4 DEF LastMatch
      <4>2. \A y \in Y : y \in (r - 1)..(f + r)
        BY <3>1
      <4>3. Y # {} /\ r - 1 \in Int /\ f + r \in Int
        BY <3>1
      <4> HIDE DEF Y
      <4>4. Max(Y) \in Y
        BY <4>2, <4>3, MaxOf
      <4> QED BY <4>1, <4>4 DEF Y
    <3> QED BY <3>1, <3>2
  <2>8. CASE n < r
    <3>1. Max(X) = 0
      BY <1>4, <1>6, <2>6, <2>8
    <3>2. ~(k >= rs)
      BY <2>5, <2>7, <2>8
    <3> QED BY <1>1, <3>1, <3>2 DEF X
  <2>9. CASE n >= r
    <3>1. n \in UsedSlots(s) /\ Covers(Item(s, size, n), key)
      BY <2>6, <2>9
    <3>2. PICK w : w = s.slots[n]
      OBVIOUS
    <3>3. Slotted(w, size) /\ LowBit(Item(s, size, n)) = LowBit(w) /\ LowBitPos(w) \in 0..(size - 1)
      BY <1>5, <3>1, <3>2, SlotItem
    <3>4. size - LowBitPos(w) \in X
      BY <1>4, <3>1, <3>2
    <3>5. \A p \in UsedSlots(s) : Covers(Item(s, size, p), key) =>
             size - LowBitPos(s.slots[p]) <= size - LowBitPos(w)
      <4>1. TAKE p \in UsedSlots(s)
      <4>2. HAVE Covers(Item(s, size, p), key)
      <4>3. PICK v : v = s.slots[p]
        OBVIOUS
      <4>4. Slotted(v, size) /\ LowBit(Item(s, size, p)) = LowBit(v) /\ LowBitPos(v) \in 0..(size - 1)
        BY <1>5, <4>3, SlotItem
      <4>5. LowBit(w) <= LowBit(v)
        BY <2>6, <2>9, <3>3, <4>2, <4>4
      <4>6. LowBitPos(w) <= LowBitPos(v)
        BY <3>3, <4>4, <4>5, BitPosOrder
      <4> QED BY <1>s, <3>3, <4>3, <4>4, <4>6
    <3>6. Max(X) = size - LowBitPos(w)
      <4>1. Max(X) <= size - LowBitPos(w)
        <5>1. size - LowBitPos(w) >= 0
          BY <1>s, <3>3
        <5> QED BY <1>4, <1>6, <3>5, <5>1
      <4>2. size - LowBitPos(w) <= Max(X)
        BY <1>6, <3>4
      <4>3. Max(X) \in Int
        BY <1>4, <1>5, <1>6, <1>s
      <4> QED BY <1>s, <3>3, <4>1, <4>2, <4>3
    <3>7. GetLongestMatchingInfixSize(s, key, size) = size - LowBitPos(w)
      BY <1>1, <1>8, <2>5, <2>9, <3>2
    <3> QED BY <3>6, <3>7 DEF X
  <2> QED BY <2>7, <2>8, <2>9
<1> QED BY <1>7, <1>8

-----------------------------------------------------------------------------
(* Shrinking the infix size.                                                 *)

\* A number that is an odd multiple of a power of two ends at its bit.
LEMMA LowBitOf ==
    ASSUME NEW n \in Nat, n + 1 <= InfixSize, NEW f \in Nat, NEW u, u = (2 * 2^n) * f + 2^n
    PROVE  LowBitPos(u) = n /\ Marks(u, 2^n, f)
<1>1. InfixSize \in Nat /\ InfixSize < WordBits /\ WordBits \in Nat /\ n \in 0..InfixSize
  BY Powers DEF WordBits
<1>2. PICK h \in Nat : h = 2^n /\ h > 0 /\ 2^(n + 1) = 2 * h
  BY <1>1, Powers
<1>3. u = (2 * h) * f + h
  BY <1>2
<1>4. PICK g \in Nat : g = 2 * h /\ g > 0
  BY <1>2
<1>5. u % 2^(n + 1) # 0
  <2>1. h \in 0..(g - 1) /\ u = f * g + h
    BY <1>2, <1>3, <1>4
  <2>2. (f * g + h) % g = h
    BY <1>4, <2>1, Recompose
  <2> QED BY <1>2, <1>4, <2>1, <2>2
<1>6. ASSUME NEW j \in 1..n PROVE u % 2^j = 0
  <2>1. PICK c \in Nat : c = n - j /\ j + c = n
    <3>1. n - j \in Nat /\ j + (n - j) = n
      OBVIOUS
    <3> QED BY <3>1
  <2>2. j \in Nat /\ j \in 0..InfixSize /\ c \in 0..InfixSize /\ j + c <= InfixSize
    BY <1>1, <2>1
  <2>3. PICK a \in Nat : a = 2^j /\ a > 0
    BY <2>2, Powers
  <2>4. PICK m \in Nat : m = 2^c
    BY <2>2, Powers
  <2>5. h = a * m
    BY <1>2, <2>1, <2>2, <2>3, <2>4, PowersMultiply
  <2>6. PICK k \in Nat : k = (2 * m) * f + m
    OBVIOUS
  <2>7. u = k * a + 0
    <3>1. u = (2 * (a * m)) * f + a * m
      BY <1>3, <2>5
    <3> QED BY <2>6, <3>1
  <2>8. 0 \in 0..(a - 1)
    BY <2>3
  <2>9. (k * a + 0) % a = 0
    BY <2>3, <2>8, Recompose
  <2> QED BY <2>3, <2>7, <2>9
<1>7. \A k \in 0..(WordBits - 1) :
         (u % 2^(k + 1) # 0 /\ \A j \in 1..k : u % 2^j = 0) <=> k = n
  <2>1. TAKE k \in 0..(WordBits - 1)
  <2>2. CASE k = n
    BY <1>5, <1>6, <2>2
  <2>3. CASE k < n
    <3>1. k + 1 \in 1..n
      BY <2>3
    <3>2. u % 2^(k + 1) = 0
      BY <1>6, <3>1
    <3> QED BY <2>3, <3>2
  <2>4. CASE n < k
    <3>1. n + 1 \in 1..k
      BY <2>4
    <3> QED BY <1>5, <2>4, <3>1
  <2>5. k \in Nat
    BY <1>1
  <2> QED BY <2>2, <2>3, <2>4, <2>5
<1>8. n \in 0..(WordBits - 1)
  BY <1>1
<1>9. LowBitPos(u) = n
  <2>1. LowBitPos(u) = CHOOSE k \in 0..(WordBits - 1) :
                          u % 2^(k + 1) # 0 /\ \A j \in 1..k : u % 2^j = 0
    BY DEF LowBitPos
  <2> QED BY <1>7, <1>8, <2>1
<1>10. u # 0
  <2>1. (2 * h) * f \in Nat
    BY <1>2
  <2> QED BY <1>2, <1>3, <2>1
<1>11. LowBit(u) = h
  BY <1>2, <1>9, <1>10 DEF LowBit
<1> QED BY <1>2, <1>3, <1>9, <1>11 DEF Marks

\* What a shrink by the factor K makes of a prefix: it keeps it, or cuts it to g.
Kept(v, u, K) == \E h, j, f : Marks(v, h, f) /\ Marks(u, j, f) /\ h = K * j

\* See Kept.
Cut(v, u, K) == \E h, f, g, r : /\ Marks(v, h, f) /\ h < K
                                /\ Marks(u, 1, g) /\ r \in 0..(2 * K - 1)
                                /\ Start(v) = (2 * K) * g + r
                                /\ v = (2 * K) * g + (r + h) /\ r + h < 2 * K

\* ShrinkInfixStoreInfixSize keeps a prefix or cuts it.
LEMMA ShrunkMarks ==
    ASSUME NEW old \in 1..InfixSize, NEW new \in 1..InfixSize, new < old,
           NEW v, Slotted(v, old), NEW u, u = ShrunkSlot(v, old, new), NEW K, K = 2^(old - new)
    PROVE  /\ K \in Nat /\ K > 0
           /\ LowBitPos(v) >= old - new => Kept(v, u, K)
           /\ LowBitPos(v) < old - new => Cut(v, u, K)
<1> DEFINE c == old - new
<1>1. InfixSize \in Nat /\ c \in Nat /\ c \in 1..InfixSize /\ c + new = old /\ old <= InfixSize
      /\ c < old /\ old \in Nat /\ c \in 0..InfixSize /\ new \in Nat
  BY Powers
<1>2. K = 2^c
  OBVIOUS
<1>2a. K \in Nat /\ K > 0 /\ 2^(c + 1) = 2 * K
  BY <1>1, <1>2, Powers
<1> HIDE DEF c
<1>3. PICK h, f : Marks(v, h, f)
  BY SlottedMarks
<1>4. h \in Nat /\ f \in Nat /\ h > 0 /\ v = (2 * h) * f + h /\ LowBit(v) = h
  BY <1>3 DEF Marks
<1>5. PICK p \in 0..(old - 1) : p = LowBitPos(v) /\ h = 2^p /\ v \in Nat /\ v # 0
  BY <1>4, SlottedMarks
<1>6. p \in Nat /\ p < old /\ p \in 0..InfixSize
  BY <1>1, <1>5
<1>7. u = IF (v # 0 /\ old > new + LowBitPos(v)) /\ (v \div K) % 2 = 0 THEN v \div K + 1 ELSE v \div K
  BY DEF ShrunkSlot
<1>8. (old > new + LowBitPos(v)) <=> p < c
  BY <1>1, <1>5, <1>6
<1>9. ASSUME p >= c PROVE Kept(v, u, K)
  <2>1. PICK n \in Nat : n = p - c /\ c + n = p
    <3>1. p - c \in Nat /\ c + (p - c) = p
      BY <1>1, <1>6, <1>9
    <3> QED BY <3>1
  <2>2. n + 1 <= InfixSize /\ n \in 0..InfixSize /\ c + n <= InfixSize
    BY <1>1, <1>6, <2>1
  <2>3. PICK j \in Nat : j = 2^n /\ j > 0
    BY <2>2, Powers
  <2>4. h = K * j
    BY <1>1, <1>2, <1>5, <2>1, <2>2, <2>3, PowersMultiply
  <2>5. PICK w \in Nat : w = (2 * j) * f + j
    BY <1>4
  <2>6. v = w * K + 0
    <3>1. v = (2 * (K * j)) * f + K * j
      BY <1>4, <2>4
    <3> QED BY <1>2a, <1>4, <2>5, <3>1
  <2>7. v \div K = w
    <3>1. 0 \in 0..(K - 1)
      BY <1>2a
    <3>2. (w * K + 0) \div K = w
      BY <1>2a, <3>1, Recompose
    <3> QED BY <2>6, <3>2
  <2>8. u = w
    BY <1>1, <1>6, <1>7, <1>8, <1>9, <2>7
  <2>9. Marks(w, 2^n, f)
    BY <1>4, <2>2, <2>3, <2>5, LowBitOf
  <2> QED BY <1>3, <2>3, <2>4, <2>8, <2>9 DEF Kept
<1>10. ASSUME p < c PROVE Cut(v, u, K)
  <2>1. PICK m \in Nat : m > 0 /\ K = (2 * h) * m /\ h < K
    <3>1. c <= InfixSize
      BY <1>1
    <3>2. \E m \in Nat : m > 0 /\ 2^c = (2 * 2^p) * m /\ 2^p < 2^c /\ m = 2^(c - (p + 1))
      BY <1>1, <1>6, <1>10, <3>1, PowersGrow
    <3> QED BY <1>2, <1>5, <3>2
  <2>2. PICK n \in Nat : n = 2 * m /\ n > 0
    BY <2>1
  <2>3. PICK g \in Nat : \E r2 \in 0..(n - 1) : f \div n = g /\ f % n = r2 /\ f = n * g + r2
    BY <1>4, <2>2, DivMod
  <2>4. PICK r2 \in 0..(n - 1) : f = n * g + r2
    BY <2>3
  <2>5. PICK r \in Nat : r = (2 * h) * r2
    BY <1>4
  <2>6. (2 * h) * f = (2 * K) * g + r
    <3>1. (2 * h) * f = (2 * h) * ((2 * m) * g) + (2 * h) * r2
      BY <1>4, <2>2, <2>4
    <3>2. (2 * h) * ((2 * m) * g) = (2 * ((2 * h) * m)) * g
      BY <1>4
    <3> QED BY <2>1, <2>5, <3>1, <3>2
  <2>7. r + 2 * h <= 2 * K
    <3>1. PICK d \in Nat : n = (r2 + 1) + d
      <4>1. n - (r2 + 1) \in Nat /\ n = (r2 + 1) + (n - (r2 + 1))
        BY <2>2
      <4> QED BY <4>1
    <3>2. (2 * h) * n = (2 * h) * r2 + 2 * h + (2 * h) * d
      BY <1>4, <3>1
    <3>3. (2 * h) * n = 2 * K
      <4>1. (2 * h) * (2 * m) = 2 * ((2 * h) * m)
        BY <1>4
      <4> QED BY <2>1, <2>2, <4>1
    <3>4. (2 * h) * d \in Nat
      BY <1>4
    <3> QED BY <1>4, <2>5, <3>2, <3>3, <3>4
  <2>8. Start(v) = (2 * K) * g + r
    BY <1>3, <2>6, MarksInterval
  <2>9. v = (2 * K) * g + (r + h) /\ r + h < 2 * K /\ r \in 0..(2 * K - 1)
    <3>1. (2 * K) * g \in Nat
      BY <1>2a
    <3> QED BY <1>2a, <1>4, <2>6, <2>7, <3>1
  <2>10. u = 2 * g + 1
    <3>1. PICK k \in Nat : \E s \in 0..(K - 1) : v \div K = k /\ v % K = s /\ v = K * k + s
      BY <1>2a, <1>5, DivMod
    <3>2. PICK s \in 0..(K - 1) : v \div K = k /\ v = k * K + s
      BY <3>1
    <3>3. PICK t \in Nat : t = r + h
      BY <1>4
    <3>4. PICK b \in {0, 1} : \E a \in 0..(K - 1) : t = b * K + a
      <4>1. CASE t < K
        <5>1. t = 0 * K + t /\ t \in 0..(K - 1)
          BY <1>2a, <4>1
        <5> QED BY <5>1
      <4>2. CASE t >= K
        <5>1. t = 1 * K + (t - K) /\ t - K \in 0..(K - 1)
          BY <1>2a, <2>9, <3>3, <4>2
        <5> QED BY <5>1
      <4> QED BY <1>2a, <4>1, <4>2
    <3>5. PICK a \in 0..(K - 1) : t = b * K + a
      BY <3>4
    <3>6. PICK l \in Nat : l = 2 * g + b
      OBVIOUS
    <3>7. v = l * K + a
      <4>1. v = (2 * K) * g + (b * K + a)
        BY <2>9, <3>3, <3>5
      <4>2. (2 * g + b) * K = (2 * K) * g + b * K
        BY <1>2a
      <4> QED BY <1>2a, <3>6, <4>1, <4>2
    <3>8. v \div K = l
      <4>1. (l * K + a) \div K = l
        BY <1>2a, Recompose
      <4> QED BY <3>7, <4>1
    <3>9. v # 0 /\ old > new + LowBitPos(v)
      BY <1>5, <1>8, <1>10
    <3>10. CASE b = 0
      <4>1. l % 2 = 0 /\ l = 2 * g
        BY <3>6, <3>10
      <4> QED BY <1>7, <3>8, <3>9, <4>1
    <3>11. CASE b = 1
      <4>1. l % 2 # 0 /\ l = 2 * g + 1
        BY <3>6, <3>11
      <4> QED BY <1>7, <3>8, <3>9, <4>1
    <3> QED BY <3>10, <3>11
  <2>11. Marks(u, 1, g)
    <3>1. u = (2 * 2^0) * g + 2^0 /\ 2^0 = 1
      BY <2>10, Powers
    <3>2. 0 + 1 <= InfixSize
      BY <1>1
    <3>3. Marks(u, 2^0, g)
      BY <3>1, <3>2, LowBitOf
    <3> QED BY <3>1, <3>3
  <2> QED BY <1>3, <2>1, <2>8, <2>9, <2>11 DEF Cut
<1>11. (LowBitPos(v) >= old - new) <=> p >= c
  BY <1>5 DEF c
<1>12. (LowBitPos(v) < old - new) <=> p < c
  BY <1>5 DEF c
<1> QED BY <1>2a, <1>9, <1>10, <1>11, <1>12

\* Where a shrunk prefix starts, and how long it is.
Shortened(v, u, K) ==
    \E G \in Nat : \E r \in 0..(2 * K - 1) :
        /\ Start(v) = G * (2 * K) + r /\ Start(u) = 2 * G
        /\ LowBit(u) \in Nat /\ LowBit(u) >= 1 /\ LowBit(v) \in Nat
        /\ \/ r = 0 /\ LowBit(v) = K * LowBit(u)
           \/ LowBit(u) = 1 /\ LowBit(v) < K

\* Either way it shortens it.
LEMMA ShrunkShortened ==
    ASSUME NEW old \in 1..InfixSize, NEW new \in 1..InfixSize, new < old,
           NEW v, Slotted(v, old), NEW u, u = ShrunkSlot(v, old, new), NEW K, K = 2^(old - new)
    PROVE  K \in Nat /\ K > 0 /\ Shortened(v, u, K)
<1>1. /\ K \in Nat /\ K > 0
      /\ LowBitPos(v) >= old - new => Kept(v, u, K)
      /\ LowBitPos(v) < old - new => Cut(v, u, K)
  BY ShrunkMarks
<1>2. LowBitPos(v) \in Int
  BY SlottedMarks
<1>3. ASSUME Kept(v, u, K) PROVE Shortened(v, u, K)
  <2>1. PICK h, j, f : Marks(v, h, f) /\ Marks(u, j, f) /\ h = K * j
    BY <1>3 DEF Kept
  <2>2. j \in Nat /\ f \in Nat /\ j > 0 /\ h \in Nat /\ LowBit(v) = h /\ LowBit(u) = j
    BY <2>1 DEF Marks
  <2>3. Start(v) = (2 * h) * f /\ Start(u) = (2 * j) * f
    BY <2>1, MarksInterval
  <2>4. PICK G \in Nat : G = j * f
    BY <2>2
  <2>5. Start(u) = 2 * G
    BY <2>2, <2>3, <2>4
  <2>6. Start(v) = G * (2 * K) + 0
    <3>1. (2 * (K * j)) * f = (j * f) * (2 * K)
      BY <1>1, <2>2
    <3> QED BY <1>1, <2>1, <2>3, <2>4, <3>1
  <2>7. 0 \in 0..(2 * K - 1)
    BY <1>1
  <2>8. j >= 1
    BY <2>2
  <2> QED BY <2>1, <2>2, <2>5, <2>6, <2>7, <2>8 DEF Shortened
<1>4. ASSUME Cut(v, u, K) PROVE Shortened(v, u, K)
  <2>1. PICK h, f, g, r : /\ Marks(v, h, f) /\ h < K
                          /\ Marks(u, 1, g) /\ r \in 0..(2 * K - 1)
                          /\ Start(v) = (2 * K) * g + r
    BY <1>4 DEF Cut
  <2>2. h \in Nat /\ LowBit(v) = h /\ g \in Nat /\ LowBit(u) = 1
    BY <2>1 DEF Marks
  <2>3. Start(u) = 2 * g
    BY <2>1, MarksInterval
  <2>4. (2 * K) * g = g * (2 * K)
    BY <1>1, <2>2
  <2>5. Start(v) = g * (2 * K) + r
    BY <2>1, <2>4
  <2> QED BY <2>1, <2>2, <2>3, <2>5 DEF Shortened
<1> QED BY <1>1, <1>2, <1>3, <1>4

\* So a shrink keeps the order of a list.
LEMMA ShrunkBefore ==
    ASSUME NEW old \in 1..InfixSize, NEW new \in 1..InfixSize, new < old,
           NEW a, Slotted(a, old), NEW b, Slotted(b, old), ListBefore(a, b)
    PROVE  ListBefore(ShrunkSlot(a, old, new), ShrunkSlot(b, old, new))
<1>1. PICK K : K = 2^(old - new)
  OBVIOUS
<1>2. PICK x : x = ShrunkSlot(a, old, new)
  OBVIOUS
<1>3. PICK y : y = ShrunkSlot(b, old, new)
  OBVIOUS
<1>4. K \in Nat /\ K > 0 /\ Shortened(a, x, K) /\ Shortened(b, y, K)
  BY <1>1, <1>2, <1>3, ShrunkShortened
<1>5. PICK G \in Nat, r \in 0..(2 * K - 1) :
        /\ Start(a) = G * (2 * K) + r /\ Start(x) = 2 * G
        /\ LowBit(x) \in Nat /\ LowBit(x) >= 1 /\ LowBit(a) \in Nat
        /\ \/ r = 0 /\ LowBit(a) = K * LowBit(x)
           \/ LowBit(x) = 1 /\ LowBit(a) < K
  BY <1>4 DEF Shortened
<1>6. PICK H \in Nat, q \in 0..(2 * K - 1) :
        /\ Start(b) = H * (2 * K) + q /\ Start(y) = 2 * H
        /\ LowBit(y) \in Nat /\ LowBit(y) >= 1 /\ LowBit(b) \in Nat
        /\ \/ q = 0 /\ LowBit(b) = K * LowBit(y)
           \/ LowBit(y) = 1 /\ LowBit(b) < K
  BY <1>4 DEF Shortened
<1>7. PICK M \in Nat : M = 2 * K
  BY <1>4
<1>8. (G * M + r <= H * M + q) <=> (G < H \/ (G = H /\ r <= q))
  BY <1>7, Blocks
<1>9. G * M \in Nat /\ H * M \in Nat
  OBVIOUS
<1>10. Start(a) <= Start(b) /\ (Start(a) = Start(b) => LowBit(a) >= LowBit(b))
  BY <1>5, <1>6, <1>7, <1>9 DEF ListBefore
<1>11. G < H \/ (G = H /\ r <= q)
  BY <1>5, <1>6, <1>7, <1>8, <1>10
<1>12. CASE G < H
  <2>1. Start(x) < Start(y)
    BY <1>5, <1>6, <1>12
  <2> QED BY <1>2, <1>3, <2>1 DEF ListBefore
<1>13. CASE G = H /\ r <= q
  <2>1. Start(x) = Start(y)
    BY <1>5, <1>6, <1>13
  <2>2. LowBit(x) >= LowBit(y)
    <3>1. CASE LowBit(y) = 1
      BY <1>5, <3>1
    <3>2. CASE LowBit(y) # 1
      <4>1. q = 0 /\ LowBit(b) = K * LowBit(y)
        BY <1>6, <3>2
      <4>2. r = 0
        BY <1>13, <4>1, <1>4
      <4>3. Start(a) = Start(b)
        BY <1>5, <1>6, <1>13, <4>1, <4>2
      <4>4. LowBit(a) >= K * LowBit(y)
        BY <1>10, <4>1, <4>3
      <4>5. PICK l \in Nat : l = LowBit(y) /\ l >= 1
        BY <1>6
      <4>6. K * l >= K
        <5>1. PICK d \in Nat : l = d + 1
          <6>1. l - 1 \in Nat /\ l = (l - 1) + 1
            BY <4>5
          <6> QED BY <6>1
        <5>2. K * l = K * d + K
          BY <1>4, <5>1
        <5>3. K * d \in Nat
          BY <1>4
        <5> QED BY <1>4, <5>2, <5>3
      <4>7. K * l \in Nat
        BY <1>4
      <4>8. LowBit(a) = K * LowBit(x)
        BY <1>4, <1>5, <4>4, <4>5, <4>6, <4>7
      <4>9. PICK k \in Nat : k = LowBit(x)
        BY <1>5
      <4>10. K * k >= K * l
        BY <4>4, <4>5, <4>8, <4>9
      <4>11. ~(k < l)
        <5> SUFFICES ASSUME k < l PROVE FALSE
          OBVIOUS
        <5>1. PICK d \in Nat : l = (k + 1) + d
          <6>1. l - (k + 1) \in Nat /\ l = (k + 1) + (l - (k + 1))
            OBVIOUS
          <6> QED BY <6>1
        <5>2. K * l = K * k + K + K * d
          BY <1>4, <5>1
        <5>3. K * d \in Nat /\ K * k \in Nat
          BY <1>4
        <5> QED BY <1>4, <4>10, <5>2, <5>3
      <4> QED BY <4>5, <4>9, <4>11
    <3> QED BY <3>1, <3>2
  <2> QED BY <1>2, <1>3, <2>1, <2>2 DEF ListBefore
<1> QED BY <1>11, <1>12, <1>13

\* The infix of shortened length that InfixBag names.
ShrunkTo(v, old, new) ==
    IF LowBitPos(v) >= old - new THEN v \div 2^(old - new) ELSE 2 * (v \div 2^((old - new) + 1)) + 1

\* The shrunk slot value is the infix shrunk whole.
LEMMA ShrunkItem ==
    ASSUME NEW old \in 1..InfixSize, NEW new \in 1..InfixSize, new < old, NEW o \in Nat,
           NEW v, Slotted(v, old), NEW w, w = o * 2^old + v
    PROVE  ShrunkTo(w, old, new) = o * 2^new + ShrunkSlot(v, old, new)
<1>1. InfixSize \in Nat /\ old \in Nat /\ new \in Nat /\ new >= 1 /\ old <= InfixSize
      /\ new \in 0..InfixSize
  BY Powers
<1>2. PICK c \in Nat : c = old - new /\ c + new = old /\ c > 0
  <2>1. old - new \in Nat /\ (old - new) + new = old /\ old - new > 0
    BY <1>1
  <2> QED BY <2>1
<1>3. c \in 0..InfixSize /\ c + new <= InfixSize
  BY <1>1, <1>2
<1>4. PICK K : K = 2^(old - new)
  OBVIOUS
<1>5. PICK u : u = ShrunkSlot(v, old, new)
  OBVIOUS
<1>6. /\ K \in Nat /\ K > 0
      /\ LowBitPos(v) >= old - new => Kept(v, u, K)
      /\ LowBitPos(v) < old - new => Cut(v, u, K)
  BY <1>4, <1>5, ShrunkMarks
<1>7. K = 2^c /\ 2^((old - new) + 1) = 2 * K
  BY <1>2, <1>3, <1>4, Powers
<1>8. LowBitPos(w) = LowBitPos(v)
  BY ItemLowBit
<1>9. PICK N \in Nat : N = 2^new
  BY <1>1, Powers
<1>10. 2^old = K * N
  BY <1>2, <1>3, <1>7, <1>9, <1>1, PowersMultiply
<1>11. CASE LowBitPos(v) >= old - new
  <2>1. PICK h, j, f : Marks(v, h, f) /\ Marks(u, j, f) /\ h = K * j
    BY <1>6, <1>11 DEF Kept
  <2>2. j \in Nat /\ f \in Nat /\ v = (2 * h) * f + h /\ u = (2 * j) * f + j
    BY <2>1 DEF Marks
  <2>3. PICK m \in Nat : m = o * N + u
    <3>1. u \in Nat
      BY <2>2
    <3> QED BY <3>1
  <2>4. v = u * K
    <3>1. (2 * (K * j)) * f + K * j = ((2 * j) * f + j) * K
      BY <1>6, <2>2
    <3> QED BY <2>1, <2>2, <3>1
  <2>5. w = m * K + 0
    <3>1. u \in Nat
      BY <2>2
    <3>2. w = o * (K * N) + u * K
      BY <1>10, <2>4
    <3>3. (o * N + u) * K = o * (K * N) + u * K
      BY <1>6, <3>1
    <3> QED BY <1>6, <2>3, <3>2, <3>3
  <2>6. w \div K = m
    <3>1. 0 \in 0..(K - 1)
      BY <1>6
    <3>2. (m * K + 0) \div K = m
      BY <1>6, <3>1, Recompose
    <3> QED BY <2>5, <3>2
  <2>7. ShrunkTo(w, old, new) = w \div K
    BY <1>4, <1>8, <1>11 DEF ShrunkTo
  <2> QED BY <1>5, <1>9, <2>3, <2>6, <2>7
<1>12. CASE ~(LowBitPos(v) >= old - new)
  <2>0. LowBitPos(v) < old - new
    <3>1. LowBitPos(v) \in Int
      BY SlottedMarks
    <3> QED BY <1>1, <1>12, <3>1
  <2>1. PICK h, f, g, r : /\ Marks(v, h, f) /\ h < K
                          /\ Marks(u, 1, g) /\ r \in 0..(2 * K - 1)
                          /\ v = (2 * K) * g + (r + h) /\ r + h < 2 * K
    BY <1>6, <2>0 DEF Cut
  <2>2. h \in Nat /\ g \in Nat /\ u = 2 * g + 1
    BY <2>1 DEF Marks
  <2>3. PICK t \in Nat : t = r + h /\ t < 2 * K
    BY <1>6, <2>1, <2>2
  <2>4. PICK H \in Nat : N = 2 * H
    <3>1. PICK n \in 0..InfixSize : new = n + 1
      <4>1. new - 1 \in 0..InfixSize /\ new = (new - 1) + 1
        BY <1>1
      <4> QED BY <4>1
    <3> QED BY <1>9, <3>1, Powers
  <2>5. PICK m \in Nat : m = o * H + g
    BY <2>2
  <2>6. PICK D \in Nat : D = 2 * K /\ D > 0
    BY <1>6
  <2>7. w = m * D + t
    <3>1. w = o * (K * (2 * H)) + ((2 * K) * g + t)
      BY <1>10, <2>1, <2>3, <2>4
    <3>2. (o * H + g) * (2 * K) = o * (K * (2 * H)) + (2 * K) * g
      BY <1>6, <2>2
    <3>3. o * (K * (2 * H)) \in Nat /\ (2 * K) * g \in Nat
      BY <1>6, <2>2
    <3> QED BY <2>5, <2>6, <3>1, <3>2, <3>3
  <2>8. w \div D = m
    <3>1. t \in 0..(D - 1)
      BY <2>3, <2>6
    <3>2. (m * D + t) \div D = m
      BY <2>6, <3>1, Recompose
    <3> QED BY <2>7, <3>2
  <2>9. ShrunkTo(w, old, new) = 2 * (w \div D) + 1
    BY <1>7, <1>8, <1>12, <2>6 DEF ShrunkTo
  <2>10. 2 * m + 1 = o * N + u
    <3>1. 2 * (o * H + g) = o * (2 * H) + 2 * g
      BY <2>2
    <3>2. o * (2 * H) \in Nat
      OBVIOUS
    <3> QED BY <2>2, <2>4, <2>5, <3>1, <3>2
  <2> QED BY <1>5, <1>9, <2>8, <2>9, <2>10
<1> QED BY <1>11, <1>12

\* The copies that the bag B of s counts of infixes in W, and the slots that hold them.
Selects(s, size, B, W, C, A) ==
    /\ Bounded(s) /\ B = BagOf(s, size)
    /\ \A c : c \in C <=> c \in Abstract!Each(B) /\ c[1] \in W
    /\ \A p : p \in A <=> p \in UsedSlots(s) /\ Item(s, size, p) \in W

\* The copies a bag counts of some infixes are as many as the slots that hold them.
LEMMA EachCount ==
    ASSUME NEW s, NEW size, NEW B, NEW W, NEW C, NEW A, Selects(s, size, B, W, C, A)
    PROVE  Cardinality(C) = Cardinality(A)
<1>s. /\ Bounded(s) /\ B = BagOf(s, size)
      /\ \A c : c \in C <=> c \in Abstract!Each(B) /\ c[1] \in W
      /\ \A p : p \in A <=> p \in UsedSlots(s) /\ Item(s, size, p) \in W
  BY DEF Selects
<1> DEFINE rank(p) == 1 + Below(Copies(s, size, Item(s, size, p)), p)
           f == [p \in A |-> <<Item(s, size, p), rank(p)>>]
<1>1. /\ B = [v \in DOMAIN B |-> Cardinality(Copies(s, size, v))]
      /\ \A v : v \in DOMAIN B <=> \E p \in UsedSlots(s) : Item(s, size, p) = v
  BY <1>s, BagIs
<1>2. Size(s) \in Nat /\ IsFiniteSet(UsedSlots(s))
      /\ \A p \in UsedSlots(s) : p \in Nat /\ p < Size(s)
  BY <1>s, UsedBounded DEF Bounded
<1>3. \A c : c \in Abstract!Each(B) <=> \E v \in DOMAIN B : \E n \in 1..B[v] : c = <<v, n>>
  BY DEF Abstract!Each
<1>4. ASSUME NEW v \in DOMAIN B
      PROVE  /\ B[v] = Below(Copies(s, size, v), Size(s)) /\ B[v] \in Nat
             /\ \A p \in Copies(s, size, v) : p \in Nat /\ p < Size(s)
  <2>1. PICK S : S = Copies(s, size, v)
    OBVIOUS
  <2>2. \A p \in S : p \in Nat /\ p < Size(s)
    BY <1>2, <2>1 DEF Copies
  <2>3. Below(S, Size(s)) = Cardinality(S) /\ Below(S, Size(s)) \in Nat
    BY <1>2, <2>2, BelowAll, BelowFinite
  <2> QED BY <1>1, <2>1, <2>2, <2>3
<1>5. ASSUME NEW p \in UsedSlots(s)
      PROVE  Item(s, size, p) \in DOMAIN B /\ rank(p) \in 1..B[Item(s, size, p)]
  <2>1. PICK v : v = Item(s, size, p)
    OBVIOUS
  <2>2. v \in DOMAIN B
    BY <1>1, <2>1
  <2>3. PICK S : S = Copies(s, size, v)
    OBVIOUS
  <2>4. \A y \in S : y \in Nat /\ y < Size(s)
    BY <1>4, <2>2, <2>3
  <2>5. p \in S /\ p \in Nat /\ p + 1 <= Size(s) /\ p + 1 \in Nat
    BY <1>2, <2>1, <2>3 DEF Copies
  <2>6. Below(S, p + 1) = Below(S, p) + 1 /\ Below(S, p + 1) <= Below(S, Size(s))
        /\ Below(S, p) \in Nat
    <3>1. /\ \A x \in Nat : Below(S, x) \in Nat
          /\ \A x \in Nat : x \in S => Below(S, x + 1) = Below(S, x) + 1
          /\ \A x, y \in Nat : x <= y => Below(S, x) <= Below(S, y)
      BY <2>4, BelowFacts
    <3> QED BY <1>2, <2>5, <3>1
  <2>7. B[v] = Below(S, Size(s)) /\ B[v] \in Nat
    BY <1>4, <2>2, <2>3
  <2>8. 1 + Below(S, p) \in 1..B[v]
    BY <2>6, <2>7
  <2> QED BY <2>1, <2>2, <2>3, <2>8
<1>6. f \in [A -> C]
  <2>1. ASSUME NEW p \in A PROVE f[p] \in C
    <3>1. p \in UsedSlots(s) /\ Item(s, size, p) \in W
      BY <1>s
    <3>2. f[p] = <<Item(s, size, p), rank(p)>>
      OBVIOUS
    <3>3. PICK v : v = Item(s, size, p)
      OBVIOUS
    <3>4. PICK n : n = rank(p)
      OBVIOUS
    <3>5. v \in DOMAIN B /\ n \in 1..B[v] /\ v \in W
      BY <1>5, <3>1, <3>3, <3>4
    <3>6. <<v, n>> \in Abstract!Each(B)
      BY <1>3, <3>5
    <3>7. <<v, n>>[1] = v
      OBVIOUS
    <3>8. <<v, n>> \in C
      BY <1>s, <3>5, <3>6, <3>7
    <3> HIDE DEF f, rank
    <3> QED BY <3>2, <3>3, <3>4, <3>8
  <2>2. f = [p \in A |-> f[p]]
    OBVIOUS
  <2> HIDE DEF f
  <2> QED BY <2>1, <2>2
<1>7. \A p, q \in A : f[p] = f[q] => p = q
  <2>1. TAKE p, q \in A
  <2>2. HAVE f[p] = f[q]
  <2>3. Item(s, size, p) = Item(s, size, q) /\ rank(p) = rank(q)
    BY <2>2
  <2>z. p \in UsedSlots(s) /\ q \in UsedSlots(s)
    BY <1>s
  <2>4. PICK S : S = Copies(s, size, Item(s, size, p))
    OBVIOUS
  <2>5. p \in S /\ q \in S
    BY <2>3, <2>4, <2>z DEF Copies
  <2>6. \A y \in S : y \in Nat
    BY <1>2, <2>4 DEF Copies
  <2>7. Below(S, p) \in Nat /\ Below(S, q) \in Nat
    BY <2>5, <2>6, BelowFinite
  <2>8. rank(p) = 1 + Below(S, p) /\ rank(q) = 1 + Below(S, q)
    BY <2>3, <2>4
  <2>9. Below(S, p) = Below(S, q)
    BY <2>3, <2>7, <2>8
  <2> QED BY <2>5, <2>6, <2>9, SameRank
<1>8. \A y \in C : \E p \in A : f[p] = y
  <2>1. TAKE y \in C
  <2>2. y \in Abstract!Each(B) /\ y[1] \in W
    BY <1>s
  <2>a. PICK v \in DOMAIN B : \E n \in 1..B[v] : y = <<v, n>>
    BY <1>3, <2>2
  <2>3. PICK n \in 1..B[v] : y = <<v, n>>
    BY <2>a
  <2>4. PICK S : S = Copies(s, size, v)
    OBVIOUS
  <2>5. /\ B[v] = Below(S, Size(s)) /\ B[v] \in Nat
        /\ \A p \in S : p \in Nat /\ p < Size(s)
    BY <1>4, <2>4
  <2>6. n - 1 \in Nat /\ n - 1 < Below(S, Size(s))
    BY <2>5
  <2>7. PICK p \in S : Below(S, p) = n - 1
    <3>1. \E p \in S : p < Size(s) /\ Below(S, p) = n - 1
      BY <1>2, <2>5, <2>6, HasRank
    <3> QED BY <3>1
  <2>8. p \in UsedSlots(s) /\ Item(s, size, p) = v
    BY <2>4 DEF Copies
  <2>9. p \in A
    BY <1>s, <2>2, <2>3, <2>8
  <2>10. rank(p) = n
    <3>1. rank(p) = 1 + Below(S, p)
      BY <2>4, <2>8
    <3> HIDE DEF rank
    <3> QED BY <2>7, <3>1
  <2>11. f[p] = y
    <3>1. f[p] = <<Item(s, size, p), rank(p)>>
      BY <2>9
    <3> HIDE DEF rank, f
    <3> QED BY <2>3, <2>8, <2>10, <3>1
  <2> QED BY <2>9, <2>11
<1>9. IsFiniteSet(A)
  BY <1>s, <1>2, FS_Subset
<1>10. Cardinality(C) = Cardinality(A)
  <2> HIDE DEF f
  <2> QED BY <1>6, <1>7, <1>8, <1>9, SameCardinality
<1> QED BY <1>10

\* The bag of the infixes of another, shortened copy by copy.
ShrunkCounts(B, old, new) ==
    [w \in {ShrunkTo(c[1], old, new) : c \in Abstract!Each(B)} |->
        Cardinality({c \in Abstract!Each(B) : ShrunkTo(c[1], old, new) = w})]

\* ShrinkInfixStoreInfixSize shortens every infix of a store of the fresh grade, and
\* keeps the runs in order.
LEMMA ShrunkBag ==
    ASSUME NEW s, NEW old \in 1..InfixSize, Good(s, old), NEW new \in 1..InfixSize, new < old,
           s.size_grade = GrowGrade, (HeaderBits + TargetSize + Size(s)) % ByteBits # 0,
           NEW t, t = ShrinkInfixStoreInfixSize(s, old, new), NEW B, B = BagOf(s, old)
    PROVE  /\ Sorted(s) => Sorted(t)
           /\ BagOf(t, new) = ShrunkCounts(B, old, new)
<1>1. s.slots \in [Positions(s) -> 0..(2^old - 1)]
  BY DEF Good
<1>2. /\ t.size_grade = s.size_grade
      /\ t.occupieds = s.occupieds /\ t.runends = s.runends
      /\ t.slots = [p \in Positions(s) |-> ShrunkSlot(s.slots[p], old, new)]
  BY ReadWhereWritten
<1>3. Size(t) = Size(s) /\ Positions(t) = Positions(s)
  BY <1>2 DEF Size, Positions
<1>4. \A p \in Positions(s) : t.slots[p] # 0 <=> s.slots[p] # 0
  <2>1. TAKE p \in Positions(s)
  <2>2. PICK v \in 0..(2^old - 1) : v = s.slots[p]
    BY <1>1
  <2>3. t.slots[p] = ShrunkSlot(v, old, new)
    BY <1>2, <2>2
  <2>4. ShrunkSlot(v, old, new) # 0 <=> v # 0
    BY ShrunkIs
  <2> QED BY <2>2, <2>3, <2>4
<1>5. UsedSlots(t) = UsedSlots(s)
  BY <1>3, <1>4 DEF UsedSlots
<1>6. \A p : OccupiedOf(t, p) = OccupiedOf(s, p)
  BY <1>2 DEF OccupiedOf
<1>7. \A p \in UsedSlots(s) : t.slots[p] = ShrunkSlot(s.slots[p], old, new)
  BY <1>2 DEF UsedSlots
<1>8. ASSUME Sorted(s) PROVE Sorted(t)
  <2>1. ASSUME NEW p \in UsedSlots(t), NEW q \in UsedSlots(t), p < q, OccupiedOf(t, p) = OccupiedOf(t, q)
        PROVE  ListBefore(t.slots[p], t.slots[q])
    <3>1. p \in UsedSlots(s) /\ q \in UsedSlots(s) /\ OccupiedOf(s, p) = OccupiedOf(s, q)
      BY <1>5, <1>6, <2>1
    <3>2. ListBefore(s.slots[p], s.slots[q])
      BY <1>8, <2>1, <3>1 DEF Sorted
    <3>3. Slotted(s.slots[p], old) /\ Slotted(s.slots[q], old)
      BY <3>1, SlotItem
    <3>4. ListBefore(ShrunkSlot(s.slots[p], old, new), ShrunkSlot(s.slots[q], old, new))
      BY <3>2, <3>3, ShrunkBefore
    <3> QED BY <1>7, <3>1, <3>4
  <2> QED BY <2>1 DEF Sorted
<1>9. ASSUME NEW p \in UsedSlots(s) PROVE Item(t, new, p) = ShrunkTo(Item(s, old, p), old, new)
  <2>1. PICK o \in Nat : o = OccupiedOf(s, p)
    BY SlotItem
  <2>2. PICK v : v = s.slots[p]
    OBVIOUS
  <2>3. Slotted(v, old)
    BY <2>2, SlotItem
  <2>4. PICK w : w = o * 2^old + v
    OBVIOUS
  <2>5. ShrunkTo(w, old, new) = o * 2^new + ShrunkSlot(v, old, new)
    BY <2>3, <2>4, ShrunkItem
  <2>6. w = Item(s, old, p) /\ Item(t, new, p) = o * 2^new + ShrunkSlot(v, old, new)
    BY <1>6, <1>7, <2>1, <2>2, <2>4 DEF Item
  <2> QED BY <2>5, <2>6
<1>10. Bounded(s) /\ Bounded(t)
  BY <1>3, GoodFacts DEF Bounded
<1>11. PICK D : D = BagOf(t, new)
  OBVIOUS
<1>12. /\ D = [v \in DOMAIN D |-> Cardinality(Copies(t, new, v))]
       /\ \A v : v \in DOMAIN D <=> \E p \in UsedSlots(t) : Item(t, new, p) = v
  BY <1>10, <1>11, BagIs
<1>13. /\ B = [v \in DOMAIN B |-> Cardinality(Copies(s, old, v))]
       /\ \A v : v \in DOMAIN B <=> \E p \in UsedSlots(s) : Item(s, old, p) = v
  BY <1>10, BagIs
<1>14. \A c : c \in Abstract!Each(B) <=> \E v \in DOMAIN B : \E n \in 1..B[v] : c = <<v, n>>
  BY DEF Abstract!Each
<1>15. \A v \in DOMAIN B : B[v] \in Nat /\ B[v] >= 1
  <2>1. TAKE v \in DOMAIN B
  <2>2. Cardinality(Copies(s, old, v)) \in Nat /\ Cardinality(Copies(s, old, v)) > 0
    BY <1>10, <1>13, CopiesFinite
  <2> QED BY <1>13, <2>2
<1>16. DOMAIN D = {ShrunkTo(c[1], old, new) : c \in Abstract!Each(B)}
  <2>1. ASSUME NEW w \in DOMAIN D PROVE \E c \in Abstract!Each(B) : ShrunkTo(c[1], old, new) = w
    <3>1. PICK p \in UsedSlots(s) : Item(t, new, p) = w
      BY <1>5, <1>12
    <3>2. PICK v : v = Item(s, old, p)
      OBVIOUS
    <3>3. v \in DOMAIN B /\ 1 \in 1..B[v]
      BY <1>13, <1>15, <3>2
    <3>4. PICK c : c = <<v, 1>>
      OBVIOUS
    <3>5. c \in Abstract!Each(B) /\ c[1] = v
      BY <1>14, <3>3, <3>4
    <3> QED BY <1>9, <3>1, <3>2, <3>5
  <2>2. ASSUME NEW c \in Abstract!Each(B) PROVE ShrunkTo(c[1], old, new) \in DOMAIN D
    <3>1. PICK v \in DOMAIN B : \E n \in 1..B[v] : c = <<v, n>>
      BY <1>14
    <3>2. c[1] = v
      BY <3>1
    <3>3. PICK p \in UsedSlots(s) : Item(s, old, p) = v
      BY <1>13
    <3> QED BY <1>5, <1>9, <1>12, <3>2, <3>3
  <2> QED BY <2>1, <2>2
<1>17. ASSUME NEW w
       PROVE  Cardinality(Copies(t, new, w))
                = Cardinality({c \in Abstract!Each(B) : ShrunkTo(c[1], old, new) = w})
  <2>1. PICK W : W = {v \in DOMAIN B : ShrunkTo(v, old, new) = w}
    OBVIOUS
  <2>a. PICK C : C = {c \in Abstract!Each(B) : c[1] \in W}
    OBVIOUS
  <2>b. PICK A : A = {p \in UsedSlots(s) : Item(s, old, p) \in W}
    OBVIOUS
  <2>2. Cardinality(C) = Cardinality(A)
    <3>1. \A c : c \in C <=> c \in Abstract!Each(B) /\ c[1] \in W
      BY <2>a
    <3>2. \A p : p \in A <=> p \in UsedSlots(s) /\ Item(s, old, p) \in W
      BY <2>b
    <3>3. Selects(s, old, B, W, C, A)
      BY <1>10, <3>1, <3>2 DEF Selects
    <3> QED BY <3>3, EachCount
  <2>3. C = {c \in Abstract!Each(B) : ShrunkTo(c[1], old, new) = w}
    <3>1. \A c \in Abstract!Each(B) : c[1] \in DOMAIN B
      <4>1. TAKE c \in Abstract!Each(B)
      <4>2. PICK v \in DOMAIN B : \E n \in 1..B[v] : c = <<v, n>>
        BY <1>14
      <4> QED BY <4>2
    <3> QED BY <2>1, <2>a, <3>1
  <2>4. A = Copies(t, new, w)
    <3>1. \A p \in UsedSlots(s) : Item(s, old, p) \in W <=> Item(t, new, p) = w
      BY <1>9, <1>13, <2>1
    <3> QED BY <1>5, <2>b, <3>1 DEF Copies
  <2> QED BY <2>2, <2>3, <2>4
<1>18. D = [w \in {ShrunkTo(c[1], old, new) : c \in Abstract!Each(B)} |->
               Cardinality({c \in Abstract!Each(B) : ShrunkTo(c[1], old, new) = w})]
  BY <1>12, <1>16, <1>17
<1> QED BY <1>8, <1>11, <1>18 DEF ShrunkCounts

-----------------------------------------------------------------------------
(* The inductive invariant, and the refinement.                              *)

\* The inductive invariant with the order of the runs.
InOrder == InShape /\ Sorted(store)

\* A bulk load holds the infixes of its list, in order.
LEMMA InitPlaced ==
    SpareSlot /\ Init =>
        /\ infix_size = InfixSize
        /\ \E list \in InitialLists : \E n, P :
              /\ Placing(store, list, n, InfixSize, P) /\ Composed(list, n, InfixSize)
              /\ OrderedList(list, n, InfixSize)
              /\ \A j \in 1..n : list[j] \in InfixesOf(InfixSize)
<1> SUFFICES ASSUME SpareSlot, Init
             PROVE  /\ infix_size = InfixSize
                    /\ \E list \in InitialLists : \E n, P :
                          /\ Placing(store, list, n, InfixSize, P) /\ Composed(list, n, InfixSize)
                          /\ OrderedList(list, n, InfixSize)
                          /\ \A j \in 1..n : list[j] \in InfixesOf(InfixSize)
  OBVIOUS
<1>1. infix_size = InfixSize /\ InfixSize \in 1..InfixSize
  BY PartsAssumption DEF Init, WordBits
<1>2. PICK list \in InitialLists : \E grade \in LoadGrades(Len(list)) :
          store = LoadListToInfixStore(list, Len(list), grade, TotalImplicit, InfixSize)
  BY DEF Init
<1>3. PICK grade \in LoadGrades(Len(list)) :
          store = LoadListToInfixStore(list, Len(list), grade, TotalImplicit, InfixSize)
  BY <1>2
<1>4. PICK n : n = Len(list)
  OBVIOUS
<1>5. n < ScaledSize(grade)
  BY <1>4 DEF SpareSlot
<1>6. grade \in Grades
  BY LoadGradesFit
<1>7. /\ list \in Seq(InfixesOf(InfixSize))
      /\ \A j, k \in DOMAIN list :
            j <= k => Implicit(list[j], InfixSize) <= Implicit(list[k], InfixSize)
      /\ \A j, k \in DOMAIN list :
            j <= k /\ Implicit(list[j], InfixSize) = Implicit(list[k], InfixSize)
                   => ListBefore(Explicit(list[j], InfixSize), Explicit(list[k], InfixSize))
  BY ListsAssumption
<1>8. n \in Nat /\ DOMAIN list = 1..n /\ \A j \in 1..n : list[j] \in InfixesOf(InfixSize)
  BY <1>4, <1>7
<1>9. ASSUME NEW j \in 1..n
      PROVE  /\ Implicit(list[j], InfixSize) \in Parts
             /\ Slotted(Explicit(list[j], InfixSize), InfixSize)
             /\ list[j] = Implicit(list[j], InfixSize) * 2^InfixSize + Explicit(list[j], InfixSize)
  <2>1. PICK key : key = list[j]
    OBVIOUS
  <2>2. key \in 0..(TotalImplicit * 2^InfixSize - 1) /\ key % 2^InfixSize # 0
    BY <1>8, <2>1 DEF InfixesOf
  <2>3. Implicit(key, InfixSize) \in Parts /\ Slotted(Explicit(key, InfixSize), InfixSize)
    BY <1>1, <2>2, InfixParts
  <2>4. key \in Nat
    <3>1. 2^InfixSize \in Nat /\ TotalImplicit \in Nat
      BY <1>1, Powers, PartsAssumption
    <3>2. TotalImplicit * 2^InfixSize \in Nat
      BY <3>1
    <3> QED BY <2>2, <3>2
  <2>5. key = Implicit(key, InfixSize) * 2^InfixSize + Explicit(key, InfixSize)
    BY <1>1, <2>4, KeyParts
  <2> QED BY <2>1, <2>3, <2>5
<1>10. Listed(list, n, InfixSize)
  BY <1>4, <1>7, <1>8, <1>9 DEF Listed
<1>11. 2^InfixSize \in Nat /\ 2^InfixSize > 0
  BY <1>1, Powers
<1>12. store = LoadListToInfixStore(list, n, grade, TotalImplicit, InfixSize)
  BY <1>3, <1>4
<1>13. PICK P : Placing(store, list, n, InfixSize, P)
  BY <1>5, <1>6, <1>10, <1>11, <1>12, LoadedPlacing
<1>14. Composed(list, n, InfixSize)
  BY <1>9 DEF Composed
<1>15. OrderedList(list, n, InfixSize)
  BY <1>7, <1>8 DEF OrderedList
<1> QED BY <1>1, <1>8, <1>13, <1>14, <1>15

\* A bulk load in order makes a store in order.
LEMMA InitInOrder == SpareSlot /\ Init => InOrder
<1> SUFFICES ASSUME SpareSlot, Init PROVE InOrder
  OBVIOUS
<1>1. InShape
  BY InitInShape
<1>2. \A p \in UsedSlots(store) : p \in Nat
  BY <1>1, GoodFacts DEF InShape
<1>3. PICK list \in InitialLists : \E n, P :
              /\ Placing(store, list, n, InfixSize, P) /\ Composed(list, n, InfixSize)
              /\ OrderedList(list, n, InfixSize)
              /\ \A j \in 1..n : list[j] \in InfixesOf(InfixSize)
  BY InitPlaced
<1>4. PICK n, P : Placing(store, list, n, InfixSize, P) /\ OrderedList(list, n, InfixSize)
  BY <1>3
<1>5. Sorted(store)
  <2>1. PICK t : t = store
    OBVIOUS
  <2> QED BY <1>2, <1>4, PlacingSorted
<1> QED BY <1>1, <1>5 DEF InOrder

\* Every bag of a load is one of the abstract specification's.
LEMMA InitBag == SpareSlot /\ Init => Abstract!BagInit
<1> SUFFICES ASSUME SpareSlot, Init PROVE Abstract!BagInit
  OBVIOUS
<1>1. InShape /\ infix_size = InfixSize
  BY InitInShape, InitPlaced
<1>2. Bounded(store)
  BY <1>1, GoodFacts DEF InShape, Bounded
<1>3. PICK list \in InitialLists : \E n, P :
              /\ Placing(store, list, n, InfixSize, P) /\ Composed(list, n, InfixSize)
              /\ OrderedList(list, n, InfixSize)
              /\ \A j \in 1..n : list[j] \in InfixesOf(InfixSize)
  BY InitPlaced
<1>4. PICK n, P : /\ Placing(store, list, n, InfixSize, P) /\ Composed(list, n, InfixSize)
                  /\ \A j \in 1..n : list[j] \in InfixesOf(InfixSize)
  BY <1>3
<1>5. PICK B : B = BagOf(store, InfixSize)
  OBVIOUS
<1>6. B = ToBag(list)
  BY <1>2, <1>4, <1>5, PlacingBag
<1>7. \A v \in DOMAIN B : v \in Abstract!AnyInfixes(InfixSize)
  <2>1. DOMAIN B = Range(list)
    BY <1>6 DEF ToBag
  <2>2. DOMAIN list = 1..n
    BY <1>4 DEF Placing
  <2>3. \A v \in Range(list) : v \in InfixesOf(InfixSize)
    BY <1>4, <2>2 DEF Range
  <2> QED BY <2>1, <2>3 DEF InfixesOf, Abstract!AnyInfixes
<1>8. IsABag(B)
  <2>1. /\ B = [v \in DOMAIN B |-> Cardinality(Copies(store, InfixSize, v))]
        /\ \A v : v \in DOMAIN B <=> \E p \in UsedSlots(store) : Item(store, InfixSize, p) = v
    BY <1>2, <1>5, BagIs
  <2>2. \A v \in DOMAIN B : B[v] \in Nat /\ B[v] > 0
    <3>1. TAKE v \in DOMAIN B
    <3>2. /\ Cardinality(Copies(store, InfixSize, v)) \in Nat
          /\ Cardinality(Copies(store, InfixSize, v)) > 0
      BY <1>2, <2>1, CopiesFinite
    <3> QED BY <2>1, <3>2
  <2>3. B = [v \in DOMAIN B |-> B[v]]
    BY <2>1
  <2> QED BY <2>2, <2>3 DEF IsABag
<1>9. Bag = B
  BY <1>1, <1>5 DEF Bag, BagOf
<1>10. BagToSet(Bag) \subseteq Abstract!AnyInfixes(InfixSize)
  BY <1>7, <1>9 DEF BagToSet
<1> QED BY <1>1, <1>8, <1>9, <1>10 DEF Abstract!BagInit, Abstract!IsABag, IsABag, Abstract!BagToSet, BagToSet

\* The bag of the store in the two states of a step.
LEMMA BagNow == Bag = BagOf(store, infix_size) /\ Bag' = BagOf(store', infix_size')
BY DEF Bag, BagOf

\* The bag operators of the abstract specification are the store's own.
LEMMA SameBags ==
    /\ \A a, b : Abstract!(+)(a, b) = a (+) b
    /\ \A a, b : Abstract!(-)(a, b) = a (-) b
    /\ \A S : Abstract!SetToBag(S) = SetToBag(S)
    /\ \A b : Abstract!BagToSet(b) = DOMAIN b
    /\ \A S : Abstract!Cardinality(S) = Cardinality(S)
BY DEF Abstract!(+), (+), Abstract!(-), (-), Abstract!SetToBag, SetToBag, Abstract!BagToSet,
       Abstract!Cardinality, Cardinality

\* An insertion is one of the abstract specification.
LEMMA InsertImplements ==
    ASSUME InOrder, NEW key \in InsertedInfixes(infix_size), Insert(key)
    PROVE  Sorted(store') /\ Abstract!BagInsert
<1>1. infix_size \in 1..InfixSize /\ Good(store, infix_size) /\ Sorted(store)
  BY DEF InOrder, InShape
<1>2. /\ store.elem_count < MaxElems
      /\ store' = InsertRawIntoInfixStore(store, key, TotalImplicit, infix_size)
      /\ infix_size' = infix_size
  BY DEF Insert
<1>3. /\ BagOf(store', infix_size) = BagOf(store, infix_size) (+) SetToBag({key})
      /\ Sorted(store')
  BY <1>1, <1>2, InsertedBag
<1>4. Bag' = Bag (+) SetToBag({key})
  BY <1>2, <1>3, BagNow
<1>5. key \in Abstract!FullInfixes(infix_size)
  BY DEF InsertedInfixes, Abstract!FullInfixes
<1>6. Bag' = Abstract!(+)(Bag, Abstract!SetToBag({key}))
  BY <1>4, SameBags
<1>7. Abstract!BagInsert
  BY <1>2, <1>5, <1>6 DEF Abstract!BagInsert
<1> QED BY <1>3, <1>7

\* A deletion is one of the abstract specification.
LEMMA DeleteImplements ==
    ASSUME InOrder, NEW key \in InsertedInfixes(infix_size), Delete(key)
    PROVE  Sorted(store') /\ Abstract!BagDelete
<1>1. infix_size \in 1..InfixSize /\ Good(store, infix_size) /\ Sorted(store)
  BY DEF InOrder, InShape
<1>2. /\ PointQueryInfixStore(store, key, infix_size)
      /\ store' = DeleteRawFromInfixStore(store, key, TotalImplicit, infix_size)
      /\ infix_size' = infix_size
  BY DEF Delete
<1> DEFINE TakesOut(d) == \E v : /\ Abstract!Longest(DOMAIN BagOf(store, infix_size), key) = {v}
                                 /\ BagOf(d, infix_size)
                                      = BagOf(store, infix_size) (-) SetToBag({v})
<1>3. TakesOut(store') /\ Sorted(store')
  <2>1. \A d : d = DeleteRawFromInfixStore(store, key, TotalImplicit, infix_size)
                 => TakesOut(d) /\ Sorted(d)
    BY <1>1, <1>2, DeletedKey
  <2> HIDE DEF TakesOut
  <2> QED BY <1>2, <2>1
<1>4. PICK v : /\ Abstract!Longest(DOMAIN BagOf(store, infix_size), key) = {v}
               /\ BagOf(store', infix_size) = BagOf(store, infix_size) (-) SetToBag({v})
  BY <1>3
<1>5. Abstract!Longest(DOMAIN Bag, key) = {v} /\ Bag' = Bag (-) SetToBag({v})
  BY <1>2, <1>4, BagNow
<1>6. key \in Abstract!FullInfixes(infix_size)
  BY DEF InsertedInfixes, Abstract!FullInfixes
<1>7. Abstract!Longest(Abstract!BagToSet(Bag), key) = {v}
  BY <1>5, SameBags
<1>8. Bag' = Abstract!(-)(Bag, Abstract!SetToBag({v}))
  BY <1>5, SameBags
<1>9. v \in UNION {Abstract!Longest(Abstract!BagToSet(Bag), k) :
                       k \in Abstract!FullInfixes(infix_size)}
  BY <1>6, <1>7
<1>10. Abstract!BagDelete
  BY <1>2, <1>8, <1>9 DEF Abstract!BagDelete
<1> QED BY <1>3, <1>10

\* Shortening a store of the fresh grade is a step of the abstract specification, when
\* no run end is masked away.
LEMMA ShrinkImplements ==
    ASSUME InOrder, KeepsRunends, NEW new \in ShrinkSizes, ShrinkFresh(new)
    PROVE  /\ Sorted(store')
           /\ new \in 1..(infix_size - 1) /\ Abstract!BagShrink(new)
<1>1. infix_size \in 1..InfixSize /\ Good(store, infix_size) /\ Sorted(store)
  BY DEF InOrder, InShape
<1>2. /\ store.size_grade = GrowGrade
      /\ new < infix_size
      /\ store' = ShrinkInfixStoreInfixSize(store, infix_size, new)
      /\ infix_size' = new
  BY DEF ShrinkFresh, Shrink
<1>3. new \in 1..InfixSize
  BY ListsAssumption
<1>4. (HeaderBits + TargetSize + Size(store)) % ByteBits # 0
  BY <1>2 DEF KeepsRunends, Size
<1>5. PICK B : B = BagOf(store, infix_size)
  OBVIOUS
<1>6. Sorted(store') /\ BagOf(store', new) = ShrunkCounts(B, infix_size, new)
  BY <1>1, <1>2, <1>3, <1>4, <1>5, ShrunkBag
<1>7. Bag' = ShrunkCounts(Bag, infix_size, new)
  BY <1>2, <1>5, <1>6, BagNow
<1>8. \A v : Abstract!ShrunkInfix(v, new) = ShrunkTo(v, infix_size, new)
  BY SameInfixes DEF Abstract!ShrunkInfix, ShrunkTo
<1>9. Bag' = [w \in {Abstract!ShrunkInfix(c[1], new) : c \in Abstract!Each(Bag)} |->
                 Abstract!Cardinality({c \in Abstract!Each(Bag) : Abstract!ShrunkInfix(c[1], new) = w})]
  BY <1>7, <1>8, SameBags DEF ShrunkCounts
<1>10. Abstract!BagShrink(new)
  BY <1>2, <1>9 DEF Abstract!BagShrink
<1> QED BY <1>1, <1>2, <1>3, <1>6, <1>10

\* Every step keeps the runs in order as well: InOrder is inductive ...
LEMMA NextInOrder == KeepsRunends /\ InOrder /\ [SettledNext]_vars => InOrder'
<1> SUFFICES ASSUME KeepsRunends, InOrder, [SettledNext]_vars PROVE InOrder'
  OBVIOUS
<1>1. InShape'
  BY NextInShape DEF InOrder
<1>2. ASSUME NEW key \in InsertedInfixes(infix_size), Insert(key) PROVE Sorted(store')
  BY <1>2, InsertImplements
<1>3. ASSUME NEW key \in InsertedInfixes(infix_size), DeleteUnlessSettled(key)
      PROVE  Sorted(store')
  BY <1>3, DeleteImplements DEF DeleteUnlessSettled
<1>4. ASSUME NEW new_size \in ShrinkSizes, ShrinkFresh(new_size) PROVE Sorted(store')
  BY <1>4, ShrinkImplements
<1>5. ASSUME UNCHANGED vars PROVE Sorted(store')
  <2>1. store' = store
    BY <1>5 DEF vars
  <2> QED BY <2>1 DEF InOrder, Sorted, UsedSlots, Positions, Size
<1>6. Sorted(store')
  BY <1>2, <1>3, <1>4, <1>5 DEF SettledNext, InOrder
<1> QED BY <1>1, <1>6 DEF InOrder

\* ... and under it every step is one of the abstract specification, or none.
LEMMA NextImplements ==
    KeepsRunends /\ InOrder /\ [SettledNext]_vars => [Abstract!BagNext]_(Abstract!bagVars)
<1> SUFFICES ASSUME KeepsRunends, InOrder, [SettledNext]_vars
             PROVE  Abstract!BagNext \/ UNCHANGED Abstract!bagVars
  OBVIOUS
<1>1. ASSUME NEW key \in InsertedInfixes(infix_size), Insert(key) PROVE Abstract!BagNext
  BY <1>1, InsertImplements DEF Abstract!BagNext
<1>2. ASSUME NEW key \in InsertedInfixes(infix_size), DeleteUnlessSettled(key)
      PROVE  Abstract!BagNext
  BY <1>2, DeleteImplements DEF DeleteUnlessSettled, Abstract!BagNext
<1>3. ASSUME NEW new_size \in ShrinkSizes, ShrinkFresh(new_size) PROVE Abstract!BagNext
  BY <1>3, ShrinkImplements DEF Abstract!BagNext
<1>4. CASE UNCHANGED vars
  <2>1. store' = store /\ infix_size' = infix_size
    BY <1>4 DEF vars
  <2>2. Bag' = Bag
    BY <2>1, BagNow
  <2> QED BY <2>1, <2>2 DEF Abstract!bagVars
<1> QED BY <1>1, <1>2, <1>3, <1>4 DEF SettledNext

\* So every store that can be reached has its runs in order.
LEMMA SettledInOrder == SpareSlot /\ KeepsRunends => (SettledSpec => []InOrder)
<1> SUFFICES ASSUME SpareSlot, KeepsRunends PROVE SettledSpec => []InOrder
  OBVIOUS
<1>1. Init => InOrder
  BY InitInOrder
<1>2. InOrder /\ [SettledNext]_vars => InOrder'
  BY NextInOrder
<1> QED BY <1>1, <1>2, PTL DEF SettledSpec

\* InsertRawIntoInfixStore, DeleteRawFromInfixStore and ShrinkInfixStoreInfixSize
\* implement a bag of infixes: an insertion adds its infix and nothing else, a deletion
\* takes out one copy of the longest stored prefix of its key, a shrink of a store of
\* the fresh grade shortens each infix - through every expansion, shift and resize, for
\* every table of grades.
THEOREM ImplementsBagTheorem == SpareSlot /\ KeepsRunends => (SettledSpec => ImplementsBag)
<1> SUFFICES ASSUME SpareSlot, KeepsRunends PROVE SettledSpec => ImplementsBag
  OBVIOUS
<1>1. Init => Abstract!BagInit
  BY InitBag
<1>2. InOrder /\ [SettledNext]_vars => [Abstract!BagNext]_(Abstract!bagVars)
  BY NextImplements
<1>3. SettledSpec => []InOrder
  BY SettledInOrder
<1>4. SettledSpec => Abstract!BagSpec
  BY <1>1, <1>2, <1>3, PTL DEF SettledSpec, Abstract!BagSpec
<1> QED BY <1>4 DEF ImplementsBag

\* In every reachable store a deletion of any key a point query finds takes out one copy
\* of the longest prefix stored for it, and no other: DeleteRawFromInfixStore picks the
\* last match of the run, and that is the longest because runs are sorted.
LEMMA OrderedDeletes == InOrder => DeleteExact
<1> SUFFICES ASSUME InOrder, NEW k \in InsertedInfixes(infix_size),
                    PointQueryInfixStore(store, k, infix_size)
             PROVE  BagOf(DeleteRawFromInfixStore(store, k, TotalImplicit, infix_size), infix_size)
                      = Bag (-) SetToBag(Abstract!Longest(DOMAIN Bag, k))
  BY DEF DeleteExact, BagOf
<1>1. infix_size \in 1..InfixSize /\ Good(store, infix_size) /\ Sorted(store)
  BY DEF InOrder, InShape
<1>2. PICK d : d = DeleteRawFromInfixStore(store, k, TotalImplicit, infix_size)
  OBVIOUS
<1>3. \E v : /\ Abstract!Longest(DOMAIN BagOf(store, infix_size), k) = {v}
             /\ BagOf(d, infix_size) = BagOf(store, infix_size) (-) SetToBag({v})
  BY <1>1, <1>2, DeletedKey
<1> QED BY <1>2, <1>3, BagNow

\* A deletion takes out one copy of the longest stored prefix of its own key.
THEOREM DeleteExactTheorem == SpareSlot /\ KeepsRunends => (SettledSpec => []DeleteExact)
BY SettledInOrder, OrderedDeletes, PTL

\* GetLongestMatchingInfixSize finds the longest prefix in a store with its runs in order.
LEMMA OrderedMatches == InOrder => LongestMatchExact
<1> SUFFICES ASSUME InOrder, NEW k \in InsertedInfixes(infix_size),
                    NEW held, held = Range(GetInfixList(store, infix_size))
             PROVE  GetLongestMatchingInfixSize(store, k, infix_size)
                      = Max({infix_size - LowBitPos(v) : v \in {u \in held : Covers(u, k)}}
                                \cup {0})
  BY DEF LongestMatchExact
<1>1. infix_size \in 1..InfixSize /\ Good(store, infix_size) /\ Sorted(store)
  BY DEF InOrder, InShape
<1> QED BY <1>1, LongestMatchIs

\* The length a deletion compares with a partial boundary key is that of the longest
\* stored prefix of the deleted key, in every reachable store.
THEOREM LongestMatchTheorem ==
    SpareSlot /\ KeepsRunends => (SettledSpec => []LongestMatchExact)
BY SettledInOrder, OrderedMatches, PTL

-----------------------------------------------------------------------------
(* Queries.                                                                  *)

\* The slots a query scans from the end of a part's run are those that hold the
\* infixes of the part: the scan stops neither early nor late.
LEMMA ScannedIs ==
    ASSUME NEW s, NEW size, Good(s, size), NEW i \in s.occupieds
    PROVE  \A p : p \in RunScanned(s, i) <=> p \in UsedSlots(s) /\ OccupiedOf(s, p) = i
<1> DEFINE R == s.runends
           U == UsedSlots(s)
<1>1. PICK e : e = RunEndOf(s, i)
  OBVIOUS
<1>2. PICK rs : rs = RunStart(s, i, e)
  OBVIOUS
<1>3. /\ rs \in Nat /\ e \in Nat /\ rs <= e
      /\ \A p : p \in rs..e <=> p \in U /\ OccupiedOf(s, p) = i
  BY <1>1, <1>2, RunSlots
<1>4. e \in R /\ Below(R, e) = Below(s.occupieds, i)
  BY <1>1, RunEndIs
<1>5. /\ Size(s) \in Nat /\ e < Size(s) /\ e \in U
      /\ \A y \in Nat : y < Size(s) => (y \in U <=> s.slots[y] # 0)
      /\ \A y \in R : y \in Nat
  BY <1>4, GoodFacts
<1> DEFINE stops == {y \in 0..(e - 1) : s.slots[y] = 0 \/ y \in R} \cup {-1}
<1>6. PICK m : m = Max(stops)
  OBVIOUS
<1>7. m \in stops /\ \A y \in stops : y <= m
  <2>1. \A y \in stops : y \in (-1)..(e - 1)
    BY <1>3
  <2>2. stops # {} /\ -1 \in Int /\ e - 1 \in Int
    BY <1>3
  <2> HIDE DEF stops
  <2> QED BY <1>6, <2>1, <2>2, MaxOf
<1>8. \A p : p \in RunScanned(s, i) <=> p \in (m + 1)..e
  BY <1>1, <1>6 DEF RunScanned, Scanned
<1>9. m \in (-1)..(e - 1)
  BY <1>3, <1>7
<1>10. \A y \in Nat : m < y /\ y < e => s.slots[y] # 0 /\ y \notin R
  <2> SUFFICES ASSUME NEW y \in Nat, m < y, y < e, s.slots[y] = 0 \/ y \in R PROVE FALSE
    OBVIOUS
  <2>1. y \in stops
    BY <1>3
  <2>2. y <= m
    BY <1>7, <2>1
  <2> HIDE DEF stops
  <2> QED BY <1>9, <2>2
<1>11. ASSUME m # -1 PROVE m \in Nat /\ m < e /\ (s.slots[m] = 0 \/ m \in R)
  BY <1>3, <1>7, <1>11
<1> HIDE DEF stops
<1>12. ASSUME NEW p, p \in (m + 1)..e PROVE p \in U /\ OccupiedOf(s, p) = i
  <2>1. p \in Nat /\ p <= e /\ m < p /\ p < Size(s)
    BY <1>3, <1>5, <1>9, <1>12
  <2>2. p \in U
    <3>1. CASE p = e
      BY <1>5, <3>1
    <3>2. CASE p # e
      <4>1. p < e /\ s.slots[p] # 0
        BY <1>3, <1>10, <2>1, <3>2
      <4> QED BY <1>5, <2>1, <4>1
    <3> QED BY <3>1, <3>2
  <2>3. \A y \in R : ~(p <= y /\ y < e)
    <3> SUFFICES ASSUME NEW y \in R, p <= y, y < e PROVE FALSE
      OBVIOUS
    <3>1. y \in Nat /\ m < y
      BY <1>5, <1>9, <2>1
    <3> QED BY <1>10, <3>1
  <2>4. Below(R, p) = Below(R, e)
    BY <1>3, <2>1, <2>3, GoodCounts
  <2>5. InRun(s, p, i)
    BY <1>4, <2>4 DEF InRun
  <2> QED BY <2>2, <2>5, GoodRanked, InRunIs
<1>13. ASSUME NEW p, p \in rs..e PROVE p \in (m + 1)..e
  <2>1. p \in Nat /\ p <= e
    BY <1>3, <1>13
  <2>2. CASE m < p
    BY <1>3, <1>9, <2>1, <2>2
  <2>3. CASE ~(m < p)
    <3>1. m \in rs..e /\ m # -1
      BY <1>3, <1>9, <1>13, <2>1, <2>3
    <3>2. m \in U /\ OccupiedOf(s, m) = i
      BY <1>3, <3>1
    <3>3. m \in Nat /\ m < e /\ m \in R
      <4>1. m \in Nat /\ m < e /\ (s.slots[m] = 0 \/ m \in R)
        BY <1>11, <3>1
      <4>2. m < Size(s)
        BY <1>3, <1>5, <4>1
      <4>3. s.slots[m] # 0
        BY <1>5, <3>2, <4>1, <4>2
      <4> QED BY <4>1, <4>3
    <3>4. Below(R, m) + 1 <= Below(R, e) /\ Below(R, m) \in Nat
      BY <1>3, <3>3, GoodCounts
    <3>5. Below(s.occupieds, i) = Below(R, m)
      BY <3>2, OccupiedOfIs
    <3> QED BY <1>4, <3>4, <3>5
  <2> QED BY <2>2, <2>3
<1> QED BY <1>3, <1>8, <1>12, <1>13

\* Every occupied part has an infix.
LEMMA PartHeld ==
    ASSUME NEW s, NEW size, Good(s, size), NEW i \in s.occupieds
    PROVE  \E p \in UsedSlots(s) : OccupiedOf(s, p) = i
<1>1. PICK e : e = RunEndOf(s, i)
  OBVIOUS
<1>2. PICK rs : rs = RunStart(s, i, e)
  OBVIOUS
<1>3. /\ rs \in Nat /\ e \in Nat /\ rs <= e
      /\ \A p : p \in rs..e <=> p \in UsedSlots(s) /\ OccupiedOf(s, p) = i
  BY <1>1, <1>2, RunSlots
<1>4. e \in rs..e
  BY <1>3
<1> QED BY <1>3, <1>4

\* A point query answers by the infixes: it finds every prefix of its key, and nothing else.
LEMMA PointIs ==
    ASSUME NEW s, NEW size \in 1..InfixSize, Good(s, size), NEW key \in Nat
    PROVE  PointQueryInfixStore(s, key, size) <=>
               \E p \in UsedSlots(s) : Covers(Item(s, size, p), key)
<1>1. PICK i : i = Implicit(key, size)
  OBVIOUS
<1>2. PointQueryInfixStore(s, key, size) <=>
          i \in s.occupieds /\ \E p \in RunScanned(s, i) : Covers(s.slots[p], Explicit(key, size))
  BY <1>1 DEF PointQueryInfixStore
<1>3. \A p \in UsedSlots(s) :
          Covers(Item(s, size, p), key) <=>
              OccupiedOf(s, p) = i /\ Covers(s.slots[p], Explicit(key, size))
  BY <1>1, ItemCovers
<1>4. \A p \in UsedSlots(s) : OccupiedOf(s, p) \in s.occupieds
  BY SlotItem
<1>5. i \in s.occupieds =>
          \A p : p \in RunScanned(s, i) <=> p \in UsedSlots(s) /\ OccupiedOf(s, p) = i
  BY ScannedIs
<1> QED BY <1>2, <1>3, <1>4, <1>5

\* An infix starts no later than a key, or ends no earlier, by its part first.
LEMMA ItemMeets ==
    ASSUME NEW s, NEW size \in 1..InfixSize, Good(s, size), NEW p \in UsedSlots(s), NEW key \in Nat
    PROVE  /\ Start(Item(s, size, p)) <= key <=>
                  \/ OccupiedOf(s, p) < Implicit(key, size)
                  \/ /\ OccupiedOf(s, p) = Implicit(key, size)
                     /\ Start(s.slots[p]) <= Explicit(key, size)
           /\ key <= End(Item(s, size, p)) <=>
                  \/ Implicit(key, size) < OccupiedOf(s, p)
                  \/ /\ Implicit(key, size) = OccupiedOf(s, p)
                     /\ Explicit(key, size) <= End(s.slots[p])
<1>1. PICK v : v = s.slots[p]
  OBVIOUS
<1>2. PICK o \in Nat : o = OccupiedOf(s, p)
  BY SlotItem
<1>3. PICK w : w = Item(s, size, p)
  OBVIOUS
<1>4. Slotted(v, size) /\ w = o * 2^size + v
  BY <1>1, <1>2, <1>3, SlotItem DEF Item
<1>5. PICK q \in Nat : q = 2^size /\ q > 0
  BY Powers
<1>6. /\ Start(w) = o * q + Start(v) /\ End(w) = o * q + End(v)
      /\ Start(v) \in Nat /\ End(v) \in Nat /\ End(v) < q /\ Start(v) <= End(v)
  BY <1>4, <1>5, ItemIs
<1>7. PICK i \in Nat : i = Implicit(key, size)
  BY KeyParts
<1>8. PICK x \in 0..(q - 1) : x = Explicit(key, size)
  BY <1>5, KeyParts
<1>9. key = i * q + x
  BY <1>5, <1>7, <1>8, KeyParts
<1>10. PICK a \in 0..(q - 1) : a = Start(v)
  BY <1>5, <1>6
<1>11. PICK b \in 0..(q - 1) : b = End(v)
  BY <1>5, <1>6
<1>12. (o * q + a <= i * q + x) <=> (o < i \/ (o = i /\ a <= x))
  BY Blocks
<1>13. (i * q + x <= o * q + b) <=> (i < o \/ (i = o /\ x <= b))
  BY Blocks
<1> QED BY <1>1, <1>2, <1>3, <1>6, <1>7, <1>8, <1>9, <1>10, <1>11, <1>12, <1>13

\* The first slot of a run starts no later than the others.
LEMMA RunStartsFirst ==
    ASSUME NEW s, NEW size \in 1..InfixSize, Good(s, size), Sorted(s), NEW i \in s.occupieds,
           NEW rs, rs = RunStart(s, i, RunEndOf(s, i))
    PROVE  /\ rs \in UsedSlots(s) /\ OccupiedOf(s, rs) = i
           /\ \A p \in UsedSlots(s) : OccupiedOf(s, p) = i => Start(s.slots[rs]) <= Start(s.slots[p])
<1>1. PICK e : e = RunEndOf(s, i)
  OBVIOUS
<1>2. /\ rs \in Nat /\ e \in Nat /\ rs <= e
      /\ \A p : p \in rs..e <=> p \in UsedSlots(s) /\ OccupiedOf(s, p) = i
  BY <1>1, RunSlots
<1>3. rs \in UsedSlots(s) /\ OccupiedOf(s, rs) = i
  <2>1. rs \in rs..e
    BY <1>2
  <2> QED BY <1>2, <2>1
<1>4. ASSUME NEW p \in UsedSlots(s) PROVE Start(s.slots[p]) \in Nat
  <2>1. PICK v : v = s.slots[p]
    OBVIOUS
  <2>2. Slotted(v, size)
    BY <2>1, SlotItem
  <2>3. PICK h, f : Marks(v, h, f)
    BY <2>2, SlottedMarks
  <2> QED BY <2>1, <2>3, MarksInterval
<1>5. ASSUME NEW p \in UsedSlots(s), OccupiedOf(s, p) = i
      PROVE  Start(s.slots[rs]) <= Start(s.slots[p])
  <2>1. p \in rs..e
    BY <1>2, <1>5
  <2>2. CASE p = rs
    BY <1>4, <2>2
  <2>3. CASE p # rs
    <3>1. rs < p
      BY <1>2, <2>1, <2>3
    <3>2. ListBefore(s.slots[rs], s.slots[p])
      BY <1>3, <1>5, <3>1 DEF Sorted
    <3> QED BY <1>3, <1>4, <3>2 DEF ListBefore
  <2> QED BY <2>2, <2>3
<1> QED BY <1>3, <1>5

\* The next occupied part lies before r when some occupied part lies between.
LEMMA NextOccupiedIs ==
    ASSUME NEW s, NEW size, Good(s, size), NEW l \in Nat, NEW r \in Nat, r < TargetSize
    PROVE  NextOccupied(s, l) < r <=> \E o \in s.occupieds : l < o /\ o < r
<1>1. \A o \in s.occupieds : o \in Nat /\ o < TargetSize
  BY GoodFacts
<1>2. TargetSize \in Nat
  BY SizesAssumption
<1> DEFINE S == {o \in s.occupieds : l < o} \cup {TargetSize}
<1>3. Min(S) \in S /\ \A y \in S : Min(S) <= y
  <2>1. \A y \in S : y \in 0..TargetSize
    BY <1>1, <1>2
  <2>2. S # {} /\ 0 \in Int /\ TargetSize \in Int
    BY <1>2
  <2> HIDE DEF S
  <2> QED BY <2>1, <2>2, MinOf
<1>4. PICK m : m = Min(S) /\ m = NextOccupied(s, l)
  BY DEF NextOccupied
<1>5. m \in Nat
  BY <1>1, <1>2, <1>3, <1>4
<1>6. m < r => \E o \in s.occupieds : l < o /\ o < r
  <2>1. CASE m = TargetSize
    BY <1>2, <2>1
  <2>2. CASE m # TargetSize
    <3>1. m \in s.occupieds /\ l < m
      BY <1>3, <1>4, <2>2
    <3> QED BY <3>1
  <2> QED BY <2>1, <2>2
<1>7. ASSUME NEW o \in s.occupieds, l < o, o < r PROVE m < r
  <2>1. o \in S
    BY <1>7
  <2>2. m <= o
    BY <1>3, <1>4, <2>1
  <2> QED BY <1>1, <1>5, <1>7, <2>2
<1> QED BY <1>4, <1>6, <1>7

\* A slot's infix starts at a natural number, as the offset of a key is one.
LEMMA StartIsNat ==
    ASSUME NEW s, NEW size \in 1..InfixSize, Good(s, size), NEW p \in UsedSlots(s)
    PROVE  Start(s.slots[p]) \in Nat
<1>1. PICK v : v = s.slots[p]
  OBVIOUS
<1>2. Slotted(v, size)
  BY <1>1, SlotItem
<1>3. PICK h, f : Marks(v, h, f)
  BY <1>2, SlottedMarks
<1> QED BY <1>1, <1>3, MarksInterval

\* The offset of a key in its part.
LEMMA ExplicitNat ==
    ASSUME NEW size \in 1..InfixSize, NEW key \in Nat
    PROVE  Explicit(key, size) \in Nat
<1>1. Explicit(key, size) \in 0..(2^size - 1) /\ 2^size \in Nat
  BY KeyParts
<1> QED BY <1>1

\* The part of a key of the store has a bit among the occupieds.
LEMMA KeyPart ==
    ASSUME NEW size \in 1..InfixSize, NEW n \in Nat, n = TotalImplicit * 2^size,
           NEW key \in 0..(n - 1)
    PROVE  Implicit(key, size) < TargetSize
<1>1. PICK q \in Nat : q = 2^size /\ q > 0
  BY Powers
<1>2. PICK i \in Nat : i = Implicit(key, size)
  BY KeyParts
<1>3. PICK x \in 0..(q - 1) : x = Explicit(key, size)
  BY <1>1, KeyParts
<1>4. key = i * q + x
  BY <1>1, <1>2, <1>3, KeyParts
<1>5. PICK t \in Nat : t = TotalImplicit /\ t <= TargetSize
  BY PartsAssumption, SizesAssumption
<1>6. (t * q + 0 <= i * q + x) <=> (t < i \/ (t = i /\ 0 <= x))
  BY <1>1, Blocks
<1>7. ASSUME t <= i PROVE FALSE
  <2>1. t * q + 0 <= i * q + x
    BY <1>3, <1>6, <1>7
  <2>2. n = t * q /\ t * q \in Nat
    BY <1>1, <1>5
  <2> QED BY <1>4, <2>1, <2>2
<1> QED BY <1>2, <1>5, <1>7, SizesAssumption

\* A range query answers by the infixes: whether one of them meets the range.
LEMMA RangeIs ==
    ASSUME NEW s, NEW size \in 1..InfixSize, Good(s, size), Sorted(s),
           NEW lk \in Nat, NEW rk \in Nat, lk <= rk, Implicit(rk, size) < TargetSize
    PROVE  RangeQueryInfixStore(s, lk, rk, size) <=>
               \E p \in UsedSlots(s) :
                   Start(Item(s, size, p)) <= rk /\ lk <= End(Item(s, size, p))
<1>1. PICK l \in Nat : l = Implicit(lk, size)
  BY KeyParts
<1>2. PICK r \in Nat : r = Implicit(rk, size)
  BY KeyParts
<1>3. PICK x : x = Explicit(lk, size)
  OBVIOUS
<1>4. PICK z : z = Explicit(rk, size)
  OBVIOUS
<1> DEFINE U == UsedSlots(s)
           Of(p) == OccupiedOf(s, p)
           A(p) == Start(s.slots[p])
           B(p) == End(s.slots[p])
           meets(p) == Start(Item(s, size, p)) <= rk /\ lk <= End(Item(s, size, p))
<1>5. \A p \in U : Of(p) \in Nat /\ Of(p) \in s.occupieds
  BY SlotItem
<1>6. \A p \in U : meets(p) <=> /\ Of(p) < r \/ (Of(p) = r /\ A(p) <= z)
                                /\ l < Of(p) \/ (l = Of(p) /\ x <= B(p))
  BY <1>1, <1>2, <1>3, <1>4, ItemMeets
<1>7. l <= r
  <2>1. PICK q \in Nat : q = 2^size /\ q > 0
    BY Powers
  <2>2. /\ lk = l * q + x /\ x \in 0..(q - 1)
        /\ rk = r * q + z /\ z \in 0..(q - 1)
    BY <1>1, <1>2, <1>3, <1>4, <2>1, KeyParts
  <2>3. (l * q + x <= r * q + z) <=> (l < r \/ (l = r /\ x <= z))
    BY <2>2, Blocks
  <2> QED BY <2>2, <2>3
<1>8. \A i \in s.occupieds : \A p : p \in RunScanned(s, i) <=> p \in U /\ Of(p) = i
  BY ScannedIs
<1>9. CASE l < r
  <2>1. RangeQueryInfixStore(s, lk, rk, size) <=>
            \/ NextOccupied(s, l) < r
            \/ r \in s.occupieds /\ A(RunStart(s, r, RunEndOf(s, r))) <= z
            \/ l \in s.occupieds /\ \E p \in RunScanned(s, l) : x <= B(p)
    BY <1>1, <1>2, <1>3, <1>4, <1>9 DEF RangeQueryInfixStore
  <2>2. NextOccupied(s, l) < r <=> \E p \in U : l < Of(p) /\ Of(p) < r
    <3>1. NextOccupied(s, l) < r <=> \E o \in s.occupieds : l < o /\ o < r
      BY <1>2, NextOccupiedIs
    <3>2. \A o \in s.occupieds : \E p \in U : Of(p) = o
      BY PartHeld
    <3> QED BY <1>5, <3>1, <3>2
  <2>3. r \in s.occupieds /\ A(RunStart(s, r, RunEndOf(s, r))) <= z
            <=> \E p \in U : Of(p) = r /\ A(p) <= z
    <3>1. CASE r \notin s.occupieds
      BY <1>5, <3>1
    <3>2. CASE r \in s.occupieds
      <4>1. PICK rs : rs = RunStart(s, r, RunEndOf(s, r))
        OBVIOUS
      <4>2. /\ rs \in U /\ Of(rs) = r
            /\ \A p \in U : Of(p) = r => A(rs) <= A(p)
        BY <3>2, <4>1, RunStartsFirst
      <4>3. \A p \in U : A(p) \in Nat
        BY StartIsNat
      <4>4. z \in Nat
        BY <1>4, ExplicitNat
      <4>5. A(rs) <= z => \E p \in U : Of(p) = r /\ A(p) <= z
        BY <4>2
      <4>6. ASSUME NEW p \in U, Of(p) = r, A(p) <= z PROVE A(rs) <= z
        <5>1. A(rs) <= A(p) /\ A(rs) \in Nat /\ A(p) \in Nat
          BY <4>2, <4>3, <4>6
        <5> HIDE DEF A
        <5> QED BY <4>4, <4>6, <5>1
      <4> QED BY <3>2, <4>1, <4>5, <4>6
    <3> QED BY <3>1, <3>2
  <2>4. l \in s.occupieds /\ (\E p \in RunScanned(s, l) : x <= B(p))
            <=> \E p \in U : Of(p) = l /\ x <= B(p)
    BY <1>5, <1>8
  <2>5. \A p \in U : meets(p) <=> \/ l < Of(p) /\ Of(p) < r
                                  \/ Of(p) = r /\ A(p) <= z
                                  \/ Of(p) = l /\ x <= B(p)
    <3>1. TAKE p \in U
    <3>2. PICK o \in Nat : o = Of(p)
      BY <1>5
    <3>3. meets(p) <=> /\ o < r \/ (o = r /\ A(p) <= z)
                       /\ l < o \/ (l = o /\ x <= B(p))
      BY <1>6, <3>2
    <3> HIDE DEF meets, Of, A, B
    <3> QED BY <1>9, <3>2, <3>3
  <2> HIDE DEF meets, Of, A, B, U
  <2>6. (\E p \in U : meets(p)) <=> \/ \E p \in U : l < Of(p) /\ Of(p) < r
                                    \/ \E p \in U : Of(p) = r /\ A(p) <= z
                                    \/ \E p \in U : Of(p) = l /\ x <= B(p)
    BY <2>5
  <2>7. RangeQueryInfixStore(s, lk, rk, size) <=> \E p \in U : meets(p)
    BY <2>1, <2>2, <2>3, <2>4, <2>6
  <2> QED BY <2>7 DEF meets, U
<1>10. CASE ~(l < r)
  <2>1. l = r
    BY <1>7, <1>10
  <2>2. RangeQueryInfixStore(s, lk, rk, size) <=>
            /\ l \in s.occupieds
            /\ \E p \in RunScanned(s, l) : x <= B(p) /\ A(p) <= z
    BY <1>1, <1>2, <1>3, <1>4, <1>10 DEF RangeQueryInfixStore
  <2>3. \A p \in U : meets(p) <=> Of(p) = l /\ x <= B(p) /\ A(p) <= z
    <3>1. TAKE p \in U
    <3>2. PICK o \in Nat : o = Of(p)
      BY <1>5
    <3>3. meets(p) <=> /\ o < r \/ (o = r /\ A(p) <= z)
                       /\ l < o \/ (l = o /\ x <= B(p))
      BY <1>6, <3>2
    <3> HIDE DEF meets, Of, A, B
    <3> QED BY <2>1, <3>2, <3>3
  <2> HIDE DEF meets, Of, A, B
  <2>4. RangeQueryInfixStore(s, lk, rk, size) <=> \E p \in U : meets(p)
    BY <1>5, <1>8, <2>2, <2>3
  <2> QED BY <2>4 DEF meets
<1> QED BY <1>9, <1>10

\* Under the invariant the queries answer by what the store holds.
LEMMA OrderedQueries == InOrder => QueriesExact
<1> SUFFICES ASSUME InOrder PROVE QueriesExact
  OBVIOUS
<1>1. infix_size \in 1..InfixSize /\ Good(store, infix_size) /\ Sorted(store)
  BY DEF InOrder, InShape
<1>2. PICK held : held = Range(GetInfixList(store, infix_size))
  OBVIOUS
<1>3. \A v : v \in held <=> \E p \in UsedSlots(store) : Item(store, infix_size, p) = v
  BY <1>1, <1>2, HeldIs
<1>4. PICK n \in Nat : n = TotalImplicit * 2^infix_size
  <2>1. 2^infix_size \in Nat /\ TotalImplicit \in Nat
    BY <1>1, Powers, PartsAssumption
  <2>2. TotalImplicit * 2^infix_size \in Nat
    BY <2>1
  <2> QED BY <2>2
<1>5. ASSUME NEW k \in 0..(n - 1)
      PROVE  PointQueryInfixStore(store, k, infix_size) <=> PointAnswer(held, k)
  <2>1. PointQueryInfixStore(store, k, infix_size) <=>
            \E p \in UsedSlots(store) : Covers(Item(store, infix_size, p), k)
    BY <1>1, PointIs
  <2> QED BY <1>3, <2>1 DEF PointAnswer
<1>6. ASSUME NEW l \in 0..(n - 1), NEW r \in 0..(n - 1), l <= r
      PROVE  RangeQueryInfixStore(store, l, r, infix_size) <=> RangeAnswer(held, l, r)
  <2>1. Implicit(r, infix_size) < TargetSize
    BY <1>1, <1>4, KeyPart
  <2>2. RangeQueryInfixStore(store, l, r, infix_size) <=>
            \E p \in UsedSlots(store) : /\ Start(Item(store, infix_size, p)) <= r
                                        /\ l <= End(Item(store, infix_size, p))
    BY <1>1, <1>6, <2>1, RangeIs
  <2> QED BY <1>3, <2>2 DEF RangeAnswer
<1> QED BY <1>2, <1>4, <1>5, <1>6 DEF QueriesExact

\* In every reachable store a point query answers yes exactly when a stored infix is a
\* prefix of its key, and a range query exactly when one meets the range: the scans of
\* PointQueryInfixStore and RangeQueryInfixStore see every infix of a part, and no other.
THEOREM QueriesExactTheorem == SpareSlot /\ KeepsRunends => (SettledSpec => []QueriesExact)
BY SettledInOrder, OrderedQueries, PTL
=============================================================================
