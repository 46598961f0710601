-------------------------------- MODULE Diva --------------------------------
(* The filter above the infix stores (src/include/diva.hpp): boundary keys in *)
(* an ordered map, each with the store of the gap up to the next one.         *)
(*                                                                            *)
(* Keys have one length of KeyBits bits, in bytes of ByteBits bits, and are   *)
(* numbers; a boundary key may be cut to fewer bytes and stands for the value *)
(* it has with zeros behind it.  The map is a function from these values to   *)
(* the stores, a store the sorted list of its infixes (InfixStore shows that  *)
(* a store is such a list) with the size grade and the partial-key fields of  *)
(* its status word.                                                           *)
EXTENDS Infix, SizeGrades, Sequences, SequencesExt, FiniteSetsExt, Functions, Bags, TLC

CONSTANTS
    KeyBits, ByteBits,     \* the length of a key and of a byte
    BaseImplicit,          \* base_implicit_size
    InfixSize,             \* the initial infix_size_
    Keys,                  \* bound: the keys callers use, the end marks 00.. and FF.. excepted
    Queries,               \* bound: the keys that queries ask for
    MaxKeys,               \* bound: how many keys are in the filter at once
    MaxInfixes,            \* bound: how many infixes it stores at once
    ShrinkSizes            \* bound: the infix sizes a caller shrinks to

\* The two end marks are boundaries of every filter; they are not inserted (an
\* InsertSplit at the upper one has no boundary behind it) nor deleted.
ASSUME KeysAssumption == Keys \subseteq 1..(2^KeyBits - 2)

VARIABLES
    tree,                  \* better_tree_: boundary value -> store
    infix_size,            \* infix_size_
    held,                  \* history: the bag of keys inserted and not deleted
    stuck                  \* an insertion went into a loop it never leaves

vars == <<tree, infix_size, held, stuck>>

KeyLen == KeyBits \div ByteBits
MaxKey == 2^KeyBits - 1

-----------------------------------------------------------------------------
(* Keys as infinite byte strings, zero behind their end.                     *)

BitsAt(key, pos, width) ==
    IF pos + width <= KeyBits THEN (key \div 2^(KeyBits - pos - width)) % 2^width
    ELSE IF pos < KeyBits THEN (key % 2^(KeyBits - pos)) * 2^(pos + width - KeyBits)
    ELSE 0

GetBit(key, pos) == BitsAt(key, pos, 1)

\* The first bits of a key, zeros behind them.
CutTo(key, bits) ==
    IF bits >= KeyBits THEN key ELSE (key \div 2^(KeyBits - bits)) * 2^(KeyBits - bits)

-----------------------------------------------------------------------------
(* The gap between two boundary keys.                                        *)

\* GetSharedIgnoreImplicitLengths for key_1 < key_2 (for equal keys its loop
\* does not end), and the position behind the implicit part.
GapOf(key_1, key_2, shared, ignore) ==
    LET first  == BitsAt(key_1, shared + ignore + 1, BaseImplicit - 1)
        last   == 2^(BaseImplicit - 1) + BitsAt(key_2, shared + ignore + 1, BaseImplicit - 1)
        longer == 2 * (last - first + 1) < 2^BaseImplicit
    IN  [shared |-> shared, ignore |-> ignore,
         implicit |-> IF longer THEN BaseImplicit + 1 ELSE BaseImplicit]

IgnoreLength(key_1, key_2, shared) ==
    Min({n \in 0..KeyBits : \/ GetBit(key_1, shared + 1 + n) = 0
                            \/ GetBit(key_2, shared + 1 + n) = 1})

SharedLength(key_1, key_2) ==
    Min({n \in 0..(KeyBits - 1) : GetBit(key_1, n) # GetBit(key_2, n)})

Gap(key_1, key_2) ==
    LET shared == SharedLength(key_1, key_2)
    IN  GapOf(key_1, key_2, shared, IgnoreLength(key_1, key_2, shared))

ImplicitEnd(gap) == gap.shared + gap.ignore + gap.implicit

\* The bits of a key that an infix of this gap is made of.  The top one is the
\* key's own at the first difference (the code passes 0 and 1 for the two
\* boundaries, which is what they have there).
ExtractPartialKey(key, gap, size) ==
    GetBit(key, gap.shared) * 2^(gap.implicit - 1 + size)
        + BitsAt(key, gap.shared + gap.ignore + 1, gap.implicit - 1 + size)

ImplicitOf(key, gap, size) == ExtractPartialKey(key, gap, size) \div 2^size

TotalImplicit(key_1, key_2, gap, size) ==
    ImplicitOf(key_2, gap, size) - ImplicitOf(key_1, gap, size) + 1

\* A key of the gap behind key_1 as a query infix, and with the end mark as a
\* full infix.
QueryInfix(key, key_1, gap, size) ==
    ExtractPartialKey(key, gap, size) - ImplicitOf(key_1, gap, size) * 2^size

Marked(n) == IF n % 2 = 0 THEN n + 1 ELSE n
FullInfix(key, key_1, gap, size) == Marked(QueryInfix(key, key_1, gap, size))

-----------------------------------------------------------------------------
(* The ordered map.  Seek positions between the boundary at or before a key  *)
(* and the one behind it; a cut boundary key sorts before its extensions.    *)

IsBoundary(t, key) == key \in DOMAIN t /\ t[key].len = KeyLen
PrevKey(t, key) == Max({b \in DOMAIN t : b <= key})
NextKey(t, key) == Min({b \in DOMAIN t : b > key})

\* How many bits of a boundary key mean something, and IsPrefixOf.
PrefixBits(store) == ByteBits * store.len - store.invalid
IsPrefixOf(boundary, store, key) ==
    CutTo(boundary, PrefixBits(store)) = CutTo(key, PrefixBits(store))

Store(list, grade, len, partial, invalid) ==
    [list |-> list, grade |-> grade, len |-> len, partial |-> partial, invalid |-> invalid]

EmptyStore == Store(<<>>, GrowGrade, KeyLen, FALSE, 0)

\* AllocateInfixStoreWithList in the place of a store whose list has changed.
Reallocated(store, list) == [store EXCEPT !.list = list, !.grade = AllocGrade(Len(list))]

\* InsertRawIntoInfixStore and DeleteRawFromInfixStore: behind the infixes that
\* start earlier; the last of the prefixes of the key.  Either may resize the
\* store first.
Inserted(store, infix) ==
    [store EXCEPT
       !.list = InsertAt(@, 1 + Max({j \in DOMAIN @ : Start(@[j]) < infix} \cup {0}), infix),
       !.grade = IF Len(store.list) >= ExpandAt(@) THEN @ + 1 ELSE @]

PrefixesOf(list, infix) == {j \in DOMAIN list : Covers(list[j], infix)}

Deleted(store, infix) ==
    [store EXCEPT
       !.list = RemoveAt(@, Max(PrefixesOf(@, infix))),
       !.grade = IF @ > 0 /\ Len(store.list) <= ShrinkAt(@) THEN @ - 1 ELSE @]

-----------------------------------------------------------------------------
(* Splitting the list of a gap.                                              *)

\* The infixes that stand for several implicit parts of the narrower gap; those
\* parts, within the limits of the gap.
Short(infix, shamt, size) == infix # 0 /\ LowBitPos(infix) + shamt >= size

PartsOf(implicit, lower, upper) ==
    Max({Start(implicit), lower})..Min({End(implicit), upper})

Expansion(val, lower_lim, upper_lim, size) ==
    LET lower == lower_lim \div 2^size
        parts == PartsOf(val \div 2^size, lower, upper_lim \div 2^size)
        first == Min(parts)
    IN  [n \in 1..Cardinality(parts) |-> (first + n - 1 - lower) * 2^size + 2^(size - 1)]

UpdateInfixList_Whole(list, shamt, lower_lim, upper_lim, size) ==
    [j \in DOMAIN list |-> list[j] * 2^shamt - lower_lim]

UpdateInfixList(list, shamt, lower_lim, upper_lim, size) ==
    LET piece(v) == IF v % 2^size # 0 THEN <<v - lower_lim>>
                    ELSE Expansion(v, lower_lim, upper_lim, size)
    IN  IF \E j \in DOMAIN list : Short(list[j], shamt, size)
        THEN SortSeq(FlattenSeq([j \in DOMAIN list |-> piece(list[j] * 2^shamt)]),
                     LAMBDA a, b : ListBefore(a, b) /\ a # b)
        ELSE [j \in DOMAIN list |-> list[j] * 2^shamt - lower_lim]

\* The separator of a split: the first position of the list that goes to the
\* right, and the length of the shortest stored prefix of the new boundary, 0
\* when there is none.
SplitPos(list, separator) ==
    Min(PrefixesOf(list, separator)
            \cup {1 + Max({j \in DOMAIN list : Start(list[j]) < separator} \cup {0})})

ZeroPos(list, separator, gap, size) ==
    IF PrefixesOf(list, separator) = {} THEN 0
    ELSE ImplicitEnd(gap) + size - 1 - LowBitPos(list[SplitPos(list, separator)])

\* The position of a key within the gap behind key_1, in parts of a narrower
\* gap.
Limit(key, key_1, gap, shamt, size) ==
    (ImplicitOf(key, gap, size) - ImplicitOf(key_1, gap, size)) * 2^(shamt + size)
        + BitsAt(key, ImplicitEnd(gap), shamt) * 2^size

\* The store behind the new boundary.  A boundary key that takes the place of
\* a stored prefix is cut to it, the prefix goes, and the key itself becomes an
\* infix at the start of the gap.
RightStore(right, key, zero_pos, gt, size) ==
    IF zero_pos = 0 THEN Reallocated(EmptyStore, right)
    ELSE Inserted(Store(Tail(right), AllocGrade(Len(right) - 1),
                        Min({KeyLen, (zero_pos - 1) \div ByteBits + 1}),
                        TRUE,
                        ByteBits - 1 - ((zero_pos - 1) % ByteBits)),
                  Marked(ExtractPartialKey(key, gt, size) % 2^size))

\* The two lists of a split at `edited', prev and next being its neighbours.
LeftList(list, prev, edited, gap, lt, size) ==
    LET shamt == ImplicitEnd(lt) - ImplicitEnd(gap)
    IN  UpdateInfixList(list, shamt, Limit(prev, prev, gap, shamt, size),
                        Limit(edited, prev, gap, shamt, size), size)

RightList(list, prev, edited, next, gap, gt, size) ==
    LET shamt == ImplicitEnd(gt) - ImplicitEnd(gap)
    IN  UpdateInfixList(list, shamt, Limit(edited, prev, gap, shamt, size),
                        Limit(next, prev, gap, shamt, size), size)

SplitTree(t, key, prev, next, edited, gap, lt, gt, pos, zero_pos, size) ==
    LET list  == t[prev].list
        right == RightList(SubSeq(list, pos, Len(list)), prev, edited, next, gap, gt, size)
    IN  (edited :> RightStore(right, key, zero_pos, gt, size))
            @@ [t EXCEPT ![prev] =
                   Reallocated(@, LeftList(SubSeq(list, 1, pos - 1), prev, edited, gap, lt, size))]

-----------------------------------------------------------------------------
(* Merging the lists of two gaps.                                            *)

\* Mutated: the difference bit is taken the other way round.
IgnoredBits_Swapped(diff, width) == IF diff = 1 THEN 2^width - 1 ELSE 0

\* The bits that the narrower gap did not store: a run of the ignored bits, or
\* zeros behind a 1 and ones behind a 0.
IgnoredBits(diff, width) == IF diff = 0 THEN 2^width - 1 ELSE 0

\* An infix of width bits with its first cnt bits replaced by head and the
\* others following, as far as they fit.
Recovered(head, cnt, rest, width) ==
    IF cnt >= width THEN Marked(head)
    ELSE LET kept == rest \div 2^(cnt - 1)
         IN  head * 2^(width - cnt)
                 + (IF rest = 0 \/ LowBitPos(rest) >= cnt - 1 THEN kept ELSE Marked(kept))

\* UpdateInfixListDelete for one infix of the gap `old' behind `left', to be
\* moved to the wider gap `new'.
RecoveredShared(diff, rest, old, new, width) ==
    LET run == Min({old.ignore - new.ignore, width - 1})
    IN  Recovered(diff * 2^run + IgnoredBits(diff, run), 1 + run, rest, width)

RecoveredPrefix(diff, rest, old, new, left, width) ==
    LET known == Min({old.shared - new.shared - new.ignore - 1, width - 1})
        run   == Min({old.ignore + 1, width - 1 - known})
        head  == GetBit(left, new.shared) * 2^known
                     + BitsAt(left, new.shared + new.ignore + 1, known)
    IN  Recovered(IF run = 0 THEN head
                  ELSE (head * 2 + diff) * 2^(run - 1) + IgnoredBits(diff, run - 1),
                  1 + known + run, rest, width)

Moved(infix, left, old, new, size) ==
    LET value == infix + ImplicitOf(left, old, size) * 2^size
        half  == 2^(old.implicit - 1 + size)
        low   == value % half
        rest  == IF new.implicit >= old.implicit THEN low * 2^(new.implicit - old.implicit)
                 ELSE IF low % 2 = 1 THEN Marked(low \div 2) ELSE low \div 2
    IN  IF old.shared = new.shared
        THEN RecoveredShared(value \div half, rest, old, new, new.implicit + size)
        ELSE RecoveredPrefix(value \div half, rest, old, new, left, new.implicit + size)

UpdateInfixListDelete(list, left, old, new, base, size) ==
    [j \in DOMAIN list |-> Moved(list[j], left, old, new, size) - base * 2^size]

MergeLists(t, left, middle, right, new, base, size) ==
    UpdateInfixListDelete(t[left].list, left, Gap(left, middle), new, base, size)
        \o UpdateInfixListDelete(t[middle].list, middle, Gap(middle, right), new, base, size)

MergeTree(t, left, middle, right, new, size) ==
    [b \in DOMAIN t \ {middle} |->
        IF b # left THEN t[b]
        ELSE Reallocated(t[b], MergeLists(t, left, middle, right, new,
                                          ImplicitOf(left, new, size), size))]

-----------------------------------------------------------------------------
(* Insertions and deletions.                                                 *)

SimpleTree(t, key, prev, gap, size) ==
    [t EXCEPT ![prev] = Inserted(@, FullInfix(key, prev, gap, size))]

InsertSimple(key) ==
    /\ tree' = SimpleTree(tree, key, PrevKey(tree, key),
                          Gap(PrevKey(tree, key), NextKey(tree, key)), infix_size)
    /\ UNCHANGED stuck

\* Mutated: a boundary is cut although a neighbour extends it.
SplitAt_Anyway(key, prev, next, edited, gap, pos, zero_pos) ==
    IF edited = prev THEN stuck' = TRUE /\ UNCHANGED tree
    ELSE tree' = SplitTree(tree, key, prev, next, edited, gap, Gap(prev, edited),
                           Gap(edited, next), pos, zero_pos, infix_size) /\ UNCHANGED stuck

\* The rest of a split at `edited', whose neighbours are prev and next.
SplitAt(key, prev, next, edited, gap, pos, zero_pos) ==
    IF edited = prev THEN stuck' = TRUE /\ UNCHANGED tree
    ELSE LET lt == Gap(prev, edited)
             gt == Gap(edited, next)
         IN  IF zero_pos # 0 /\ zero_pos <= Max({lt.shared, gt.shared}) THEN InsertSimple(key)
             ELSE /\ tree' = SplitTree(tree, key, prev, next, edited, gap, lt, gt, pos,
                                       zero_pos, infix_size)
                  /\ UNCHANGED stuck

SplitFrom(key, prev, next, gap, separator) ==
    LET list == tree[prev].list
        zero_pos == ZeroPos(list, separator, gap, infix_size)
    IN  SplitAt(key, prev, next, IF zero_pos = 0 THEN key ELSE CutTo(key, zero_pos), gap,
                SplitPos(list, separator), zero_pos)

SplitGap(key, prev, next, gap) ==
    SplitFrom(key, prev, next, gap, FullInfix(key, prev, gap, infix_size))

InsertSplit(key) ==
    LET prev == PrevKey(tree, key)
        next == NextKey(tree, key)
    IN  IF tree[prev].partial /\ IsPrefixOf(prev, tree[prev], key) THEN InsertSimple(key)
        ELSE SplitGap(key, prev, next, Gap(prev, next))

DeleteMerge(middle) ==
    LET left  == PrevKey(tree, middle - 1)
        right == NextKey(tree, middle)
    IN  /\ tree' = MergeTree(tree, left, middle, right, Gap(left, right), infix_size)
        /\ UNCHANGED stuck

\* The longest stored prefix of a key has this many bits, 0 if there is none.
LongestMatch(list, infix, gap, size) ==
    IF PrefixesOf(list, infix) = {} THEN 0
    ELSE ImplicitEnd(gap) + size - LowBitPos(list[Max(PrefixesOf(list, infix))]) - 1

\* A partial boundary is the longest prefix of the key and goes instead.
TakesBoundary(store, longest) == store.partial /\ (longest = 0 \/ PrefixBits(store) > longest)

DeleteInfix(prev, infix, longest) ==
    IF TakesBoundary(tree[prev], longest) THEN DeleteMerge(prev)
    ELSE /\ tree' = [tree EXCEPT ![prev] = Deleted(@, infix)]
         /\ UNCHANGED stuck

DeleteFromGap(key, prev, gap) ==
    DeleteInfix(prev, FullInfix(key, prev, gap, infix_size),
                LongestMatch(tree[prev].list, FullInfix(key, prev, gap, infix_size), gap, infix_size))

DeleteKey(key) ==
    IF IsBoundary(tree, key) /\ ~tree[key].partial THEN DeleteMerge(key)
    ELSE DeleteFromGap(key, PrevKey(tree, key), Gap(PrevKey(tree, key), NextKey(tree, key)))

\* The copy that ShrinkInfixStoreInfixSize makes of a store has the grade of a
\* fresh one whatever the grade of the store is: of a store of another grade it
\* leaves no list of infixes at all (InfixStore).
AllFresh == \A b \in DOMAIN tree : tree[b].grade = GrowGrade

\* ShrinkInfixSize, of the filters that it does not break.
ShrunkInfix(infix, old_size, new_size) ==
    Implicit(infix, old_size) * 2^new_size
        + ShrunkSlot(Explicit(infix, old_size), old_size, new_size)

ShrinkInfixSize(new_size) ==
    /\ new_size < infix_size /\ AllFresh
    /\ tree' = [b \in DOMAIN tree |->
                   [tree[b] EXCEPT !.list =
                       [j \in DOMAIN @ |-> ShrunkInfix(@[j], infix_size, new_size)]]]
    /\ infix_size' = new_size
    /\ UNCHANGED <<held, stuck>>

-----------------------------------------------------------------------------
(* Queries.                                                                  *)

PointInGap(t, key, prev, gap, size) ==
    PointAnswer(Range(t[prev].list), QueryInfix(key, prev, gap, size))

\* Mutated: the partial boundary is not looked at.
PointQuery_Infixes(t, key, size) ==
    \/ IsBoundary(t, key)
    \/ PointInGap(t, key, PrevKey(t, key), Gap(PrevKey(t, key), NextKey(t, key)), size)

PointQuery(t, key, size) ==
    LET prev == PrevKey(t, key)
    IN  \/ IsBoundary(t, key)
        \/ t[prev].partial /\ IsPrefixOf(prev, t[prev], key)
        \/ PointInGap(t, key, prev, Gap(prev, NextKey(t, key)), size)

RangeInGap(t, l, r, prev, gap, size) ==
    RangeAnswer(Range(t[prev].list), FullInfix(l, prev, gap, size), FullInfix(r, prev, gap, size))

\* Mutated: the right end of the range is left out.
RangeQuery_Open(t, l, r, size) ==
    LET prev == PrevKey(t, l)
        next == NextKey(t, l)
    IN  \/ IsBoundary(t, l)
        \/ next < r
        \/ t[prev].partial /\ IsPrefixOf(prev, t[prev], l)
        \/ RangeInGap(t, l, r, prev, Gap(prev, next), size)

RangeQuery(t, l, r, size) ==
    LET prev == PrevKey(t, l)
        next == NextKey(t, l)
    IN  \/ IsBoundary(t, l)
        \/ next <= r
        \/ t[prev].partial /\ IsPrefixOf(prev, t[prev], l)
        \/ RangeInGap(t, l, r, prev, Gap(prev, next), size)

-----------------------------------------------------------------------------

InfixCount == MapThenSumSet(LAMBDA b : Len(tree[b].list), DOMAIN tree)

\* The end marks that a caller of the constructor without keys puts (AddTreeKey), as
\* the tests do.
Init == /\ tree = (0 :> EmptyStore) @@ (MaxKey :> EmptyStore)
        /\ infix_size = InfixSize
        /\ held = EmptyBag
        /\ stuck = FALSE

\* Which of the two it is, the code leaves to a random number.
Insert(key) == /\ ~stuck
               /\ BagCardinality(held) < MaxKeys /\ InfixCount < MaxInfixes
               /\ InsertSimple(key) \/ InsertSplit(key)
               /\ held' = IF stuck' THEN held ELSE held (+) SetToBag({key})
               /\ UNCHANGED infix_size

\* Only keys that were inserted are deleted.
Delete(key) == /\ ~stuck
               /\ BagIn(key, held)
               /\ DeleteKey(key)
               /\ held' = held (-) SetToBag({key})
               /\ UNCHANGED infix_size

Shrink(new_size) == ~stuck /\ ShrinkInfixSize(new_size)

Next == \/ \E key \in Keys : Insert(key) \/ Delete(key)
        \/ \E new_size \in ShrinkSizes : Shrink(new_size)

Spec == Init /\ [][Next]_vars

-----------------------------------------------------------------------------
(* Properties.                                                               *)

\* The shape of the state: the end marks are boundaries, every other boundary
\* is a key or the beginning of one, and stores hold lists of infixes.
TypeOK ==
    /\ {0, MaxKey} \subseteq DOMAIN tree /\ DOMAIN tree \subseteq 0..MaxKey
    /\ \A b \in DOMAIN tree :
          /\ tree[b].list \in Seq(Nat) /\ tree[b].grade \in Grades
          /\ tree[b].partial \in BOOLEAN
          /\ tree[b].len \in 1..KeyLen /\ tree[b].invalid \in 0..(ByteBits - 1)
    /\ infix_size \in Nat /\ stuck \in BOOLEAN
    /\ IsABag(held) /\ BagToSet(held) \subseteq Keys

\* The list of a gap is sorted by where the prefixes start and, at the same
\* start, short prefixes first: what the binary searches and "the last match
\* is the longest" rely on.
ListsSorted ==
    \A b \in DOMAIN tree : \A j \in 2..Len(tree[b].list) :
        ListBefore(tree[b].list[j - 1], tree[b].list[j])

\* The first half of it, which DeleteMerge asserts of the list it builds.
ListsStartSorted ==
    \A b \in DOMAIN tree : \A j \in 2..Len(tree[b].list) :
        Start(tree[b].list[j - 1]) <= Start(tree[b].list[j])

\* However a gap came to be, by splits or by merges, the number of its implicit
\* parts is one that the scaling table has an entry for, and every infix
\* behind the boundary has its implicit part among them and a slot that is not
\* the mark of an empty one.
GapFits(list, total, size) ==
    /\ total \in 2^(BaseImplicit - 1)..2^BaseImplicit
    /\ \A j \in DOMAIN list : list[j] \div 2^size < total /\ list[j] % 2^size # 0

\* Every infix behind a boundary fits the gap to the next one, and the store has a
\* slot for each.
InfixesFit ==
    \A b \in DOMAIN tree \ {MaxKey} :
        /\ Len(tree[b].list) <= ScaledSize(tree[b].grade)
        /\ GapFits(tree[b].list,
                   TotalImplicit(b, NextKey(tree, b), Gap(b, NextKey(tree, b)), infix_size),
                   infix_size)

\* No boundary lies inside the interval of keys that a partial boundary stands
\* for: a query only looks at the boundary right before its key, so a key of
\* that interval behind another boundary would be missed.
PartialsApart ==
    \A b \in DOMAIN tree : tree[b].partial =>
        \A c \in DOMAIN tree : c > b => ~IsPrefixOf(b, tree[b], c)

\* No false negative: a key that was inserted and not deleted is found, and so
\* is it by every range around it.
PointComplete == \A key \in BagToSet(held) : PointQuery(tree, key, infix_size)

\* No range that a held key lies in is answered with no.
RangeComplete == \A key \in BagToSet(held), l, r \in Queries :
                     l <= key /\ key <= r => RangeQuery(tree, l, r, infix_size)

\* Every key of the bag has a stored item of its own, an infix or a boundary,
\* that stands for it (Hall's condition).  It is what keeps deletions from
\* making a false negative: one item goes, and another is left for everyone
\* else.
ItemsFor(key, prev, infix) ==
    {<<prev, j>> : j \in PrefixesOf(tree[prev].list, infix)}
        \cup (IF IsBoundary(tree, key) \/ (tree[prev].partial /\ IsPrefixOf(prev, tree[prev], key))
              THEN {<<prev, 0>>} ELSE {})

Items(key) ==
    ItemsFor(key, PrevKey(tree, key),
             QueryInfix(key, PrevKey(tree, key), Gap(PrevKey(tree, key), NextKey(tree, key)),
                        infix_size))

Accounts(items) ==
    \A ks \in SUBSET DOMAIN items :
        Cardinality(UNION {items[key] : key \in ks})
            >= FoldSet(LAMBDA key, sum : sum + held[key], 0, ks)

\* Hall's condition for the held keys.
Accounted == Accounts([key \in BagToSet(held) |-> Items(key)])

\* An insertion or a new infix size takes no answer back: whatever the filter
\* said yes to, it still does.
AnswersKept ==
    [][held \sqsubseteq held' =>
           \A key \in Queries :
               PointQuery(tree, key, infix_size) => PointQuery(tree', key, infix_size')]_vars

\* An insertion comes back: InsertSplit only asserts prev_key <= key, so a key
\* may be equal to a boundary.
Returns == ~stuck

-----------------------------------------------------------------------------
(* Three defects of the code (Returns, and the two ways in which a deletion  *)
(* loses a key) hide what else is true of it.  These steps stay clear of     *)
(* them: no insertion that loops, no merge into an unsorted list, and no     *)
(* deletion that takes away a partial boundary which its key does not extend.*)

Directed(key, prev, gap) ==
    TakesBoundary(tree[prev],
                  LongestMatch(tree[prev].list, FullInfix(key, prev, gap, infix_size), gap, infix_size))
        => IsPrefixOf(prev, tree[prev], key)

SettledInsert(key) == Insert(key) /\ ~stuck'

SettledDelete(key) ==
    /\ Directed(key, PrevKey(tree, key), Gap(PrevKey(tree, key), NextKey(tree, key)))
    /\ Delete(key)
    /\ ListsSorted'

SettledNext == \/ \E key \in Keys : SettledInsert(key) \/ SettledDelete(key)
               \/ \E new_size \in ShrinkSizes : Shrink(new_size)

SettledSpec == Init /\ [][SettledNext]_vars
=============================================================================
