------------------------------- MODULE Records -------------------------------
(* Key-value records (src/include/wormhole/kv.c) and what they rest on in       *)
(* lib.c: the order of keys, their common prefixes, the variable-length         *)
(* integers of the packed form kv128, and the partial sort of an array.  Keys   *)
(* and values are sequences of bytes; a byte has one bit more than a group.     *)
EXTENDS Integers, Sequences, FiniteSets, Bags, Functions

CONSTANTS
    GroupBits,             \* the bits of a number that one byte holds, 7
    Narrow, Wide,          \* the bits of a u32 and of a u64
    Word,                  \* the bytes of a u64, 8
    Keys, Values,          \* bound: keys and values of records, some of Word bytes
    MaxArray, MaxStream,   \* bound: records in the array and in the packed stream
    None

VARIABLES
    kvs,                   \* an array of pointers to records
    sorted,                \* history: the limits that the last kv_psort had, or None
    given,                 \* history: the keys that came into the array
    stream,                \* packed records, one behind the other
    packed                 \* history: what was packed

vars == <<kvs, sorted, given, stream, packed>>

Smaller(a, b) == IF a < b THEN a ELSE b

-----------------------------------------------------------------------------
(* The order of keys.                                                           *)
KlenCompare(len1, len2) == IF len1 < len2 THEN -1 ELSE IF len1 > len2 THEN 1 ELSE 0

\* The sign of memcmp over len bytes.
Memcmp(p1, p2, len) ==
    LET apart == {j \in 1..len : p1[j] # p2[j]}
        first == CHOOSE j \in apart : \A i \in apart : j <= i
    IN  IF apart = {} THEN 0 ELSE IF p1[first] < p2[first] THEN -1 ELSE 1

KvCompare(k1, k2) ==
    LET cmp == Memcmp(k1, k2, Smaller(Len(k1), Len(k2)))
    IN  IF cmp # 0 THEN cmp ELSE KlenCompare(Len(k1), Len(k2))

\* A word as it lies in memory, and turned round by _bswap64.
WordAt(p, from) == FoldFunctionOnSet(LAMBDA x, sum : x + sum, 0,
                                     [j \in 1..Word |-> p[from + j] * 2^((GroupBits + 1) * (j - 1))],
                                     1..Word)
Bswap(p) == WordAt([j \in 1..Word |-> p[Word + 1 - j]], 0)

\* Two keys of eight bytes are compared as numbers.
KrefKvCompare(ref, k) ==
    IF Len(ref) = Word /\ Len(k) = Word
    THEN KlenCompare(Bswap(ref), Bswap(k))
    ELSE KvCompare(ref, k)

KvMatch(k1, k2) == Len(k1) = Len(k2) /\ Memcmp(k1, k2, Len(k1)) = 0

\* The equal bytes at the front of two strings from a place on, up to a limit.
EqualFrom(p1, p2, from, max) ==
    CHOOSE n \in 0..(max - from) :
        /\ \A j \in 1..n : p1[from + j] = p2[from + j]
        /\ from + n = max \/ p1[from + n + 1] # p2[from + n + 1]

\* memlcp: whole words, then a half, then bytes; a word with a difference ends it.
Memlcp(p1, p2, max) ==
    LET words[clen \in 0..max] ==
            IF clen + Word <= max /\ EqualFrom(p1, p2, clen, clen + Word) = Word
            THEN words[clen + Word] ELSE clen
        clen == words[0]
        half == Word \div 2
    IN  IF clen + Word <= max THEN clen + EqualFrom(p1, p2, clen, clen + Word)
        ELSE IF clen + half <= max
             THEN IF EqualFrom(p1, p2, clen, clen + half) < half
                  THEN clen + EqualFrom(p1, p2, clen, clen + half)
                  ELSE clen + half + EqualFrom(p1, p2, clen + half, max)
             ELSE clen + EqualFrom(p1, p2, clen, max)

KvKeyLcp(k1, k2) == Memlcp(k1, k2, Smaller(Len(k1), Len(k2)))

-----------------------------------------------------------------------------
(* vi128.                                                                       *)
\* The table that is indexed by the leading zeros of v.
Estimate(v, width) ==
    IF v = 0 THEN 2
    ELSE CHOOSE n \in 1..width : v < 2^(GroupBits * n) /\ v >= 2^(GroupBits * (n - 1))

Mark == 2^GroupBits        \* 0x80

\* Every byte but the last carries the mark; the case labels fall through.
Encode(v, width) ==
    LET n == Estimate(v, width)
    IN  [j \in 1..n |-> ((v \div 2^(GroupBits * (j - 1))) % Mark) + (IF j < n THEN Mark ELSE 0)]

\* The value, and how many bytes it took; None when the width ends first.
Decode(src, width) ==
    LET from[shift \in Nat] ==
            IF shift >= width THEN None
            ELSE LET byte == src[shift \div GroupBits + 1]
                     low  == ((byte % Mark) * 2^shift) % 2^width
                 IN  IF byte < Mark THEN <<low, shift \div GroupBits + 1>>
                     ELSE LET rest == from[shift + GroupBits]
                          IN  IF rest = None THEN None ELSE <<low + rest[1], rest[2]>>
    IN  from[0]

Vi128EncodeU64(v) == Encode(v, Wide)
Vi128DecodeU64(src) == Decode(src, Wide)

-----------------------------------------------------------------------------
(* kv128: the lengths of key and value, key, value.                             *)
Kv128Encode(kv) ==
    Encode(Len(kv.key), Narrow) \o Encode(Len(kv.value), Narrow) \o kv.key \o kv.value

From(src, n) == SubSeq(src, n + 1, Len(src))

\* The lengths in front of a packed record and where its key begins.
Kv128Head(src) ==
    LET klen == Decode(src, Narrow)
        vlen == Decode(From(src, klen[2]), Narrow)
    IN  [klen |-> klen[1], vlen |-> vlen[1], data |-> klen[2] + vlen[2]]

Kv128Decode(src) ==
    LET h == Kv128Head(src)
    IN  [key   |-> SubSeq(src, h.data + 1, h.data + h.klen),
         value |-> SubSeq(src, h.data + h.klen + 1, h.data + h.klen + h.vlen)]

Kv128Size(src) == LET h == Kv128Head(src) IN h.data + h.klen + h.vlen

Kv128Estimate(kv) ==
    Estimate(Len(kv.key), Narrow) + Estimate(Len(kv.value), Narrow) + Len(kv.key) + Len(kv.value)

\* A key against a packed record, without unpacking it.
KrefKv128Compare(key, src) ==
    LET h == Kv128Head(src)
        cmp == Memcmp(key, From(src, h.data), Smaller(Len(key), h.klen))
    IN  IF cmp # 0 THEN cmp ELSE KlenCompare(Len(key), h.klen)

-----------------------------------------------------------------------------
(* kv_psort.  Positions count from one here.                                    *)

Exchange(a, i, j) == [a EXCEPT ![i] = a[j], ![j] = a[i]]

\* The two inner loops: the next place that stops each of them.
StopUp(a, i, lo, hi) ==
    CHOOSE n \in (i + 1)..hi : /\ KvCompare(a[n], a[lo]) >= 0 \/ n = hi
                               /\ \A k \in (i + 1)..(n - 1) : KvCompare(a[k], a[lo]) < 0
StopDown(a, j, lo) ==
    CHOOSE n \in lo..(j - 1) : /\ KvCompare(a[n], a[lo]) <= 0
                               /\ \A k \in (n + 1)..(j - 1) : KvCompare(a[k], a[lo]) > 0

\* The array with the pivot at its place, and the place.
Partition(a, lo, hi) ==
    LET start == Exchange(a, lo, (lo - 1 + hi - 1) \div 2 + 1)
        scan[x \in [a : Seq(Keys), i : lo..hi, j : lo..(hi + 1)]] ==
            LET i == StopUp(x.a, x.i, lo, hi)
                j == StopDown(x.a, x.j, lo)
            IN  IF i >= j THEN [a |-> Exchange(x.a, lo, j), at |-> j]
                ELSE scan[[a |-> Exchange(x.a, i, j), i |-> i, j |-> j]]
    IN  IF lo >= hi THEN [a |-> a, at |-> lo]
        ELSE scan[[a |-> start, i |-> lo, j |-> hi + 1]]

\* Mutated: the left part is left when the pivot is the first place asked for.
GoesLeft_Late(c, tlo) == c > tlo + 1

GoesLeft(c, tlo) == c > tlo
GoesRight(c, thi) == c < thi

PsortRec(array, first, last, tlo, thi) ==
    LET rec[x \in [a : Seq(Keys), lo : Nat, hi : Nat]] ==
            IF x.lo >= x.hi THEN x.a
            ELSE LET part  == Partition(x.a, x.lo, x.hi)
                     left  == IF GoesLeft(part.at, tlo)
                              THEN rec[[a |-> part.a, lo |-> x.lo, hi |-> part.at - 1]] ELSE part.a
                 IN  IF GoesRight(part.at, thi)
                     THEN rec[[a |-> left, lo |-> part.at + 1, hi |-> x.hi]] ELSE left
    IN  rec[[a |-> array, lo |-> first, hi |-> last]]

-----------------------------------------------------------------------------
Init == /\ kvs = <<>> /\ sorted = None /\ given = EmptyBag
        /\ stream = <<>> /\ packed = <<>>

Add(key) == /\ Len(kvs) < MaxArray
            /\ kvs' = Append(kvs, key)
            /\ given' = given (+) SetToBag({key})
            /\ sorted' = None
            /\ UNCHANGED <<stream, packed>>

Psort(tlo, thi) == /\ kvs' = PsortRec(kvs, 1, Len(kvs), tlo, thi)
                   /\ sorted' = <<tlo, thi>>
                   /\ UNCHANGED <<given, stream, packed>>

Pack(kv) == /\ kvs = <<>> /\ Len(packed) < MaxStream
            /\ stream' = stream \o Kv128Encode(kv)
            /\ packed' = Append(packed, kv)
            /\ UNCHANGED <<kvs, sorted, given>>

Next == \/ \E key \in Keys : packed = <<>> /\ Add(key)
        \/ \E tlo \in DOMAIN kvs : \E thi \in tlo..Len(kvs) : Psort(tlo, thi)
        \/ \E kv \in [key : Keys, value : Values] : Pack(kv)

Spec == Init /\ [][Next]_vars

-----------------------------------------------------------------------------
\* The places asked for hold what a full sort would put there, whatever the array held
\* and however often it was sorted in part before.
PlacesSorted ==
    sorted # None =>
        \A j \in sorted[1]..sorted[2] :
            /\ Cardinality({i \in DOMAIN kvs : KvCompare(kvs[i], kvs[j]) < 0}) < j
            /\ Cardinality({i \in DOMAIN kvs : KvCompare(kvs[i], kvs[j]) <= 0}) >= j
            /\ \A i \in DOMAIN kvs : /\ i < j => KvCompare(kvs[i], kvs[j]) <= 0
                                     /\ i > j => KvCompare(kvs[i], kvs[j]) >= 0

\* Sorting loses and doubles no pointer.
KeysKept == given = FoldFunction(LAMBDA key, bag : bag (+) SetToBag({key}), EmptyBag, kvs)

\* The order is the one of the dictionary, for keys of eight bytes and for others: the
\* leaves of the index are searched with kref_kv_compare and split with kv_compare.
Before(a, b) == \/ Len(a) < Len(b) /\ \A j \in DOMAIN a : a[j] = b[j]
                \/ \E j \in DOMAIN a \cap DOMAIN b : /\ a[j] < b[j]
                                                     /\ \A i \in 1..(j - 1) : a[i] = b[i]
\* All comparisons agree with that order, and the common prefix ends where they differ.
OneOrder ==
    \A i, j \in DOMAIN kvs :
        LET a == kvs[i] b == kvs[j]
        IN  /\ KvCompare(a, b) < 0 <=> Before(a, b)
            /\ KrefKvCompare(a, b) = KvCompare(a, b)
            /\ KvMatch(a, b) <=> KvCompare(a, b) = 0
            /\ KvCompare(a, b) # 0 =>
                  LET n == KvKeyLcp(a, b)
                  IN  /\ SubSeq(a, 1, n) = SubSeq(b, 1, n)
                      /\ n = Len(a) \/ n = Len(b) \/ a[n + 1] # b[n + 1]

\* The records that are met in the stream, going from one to the next by its size.
Met == LET from[at \in Nat] ==
               IF at >= Len(stream) THEN <<>>
               ELSE <<Kv128Decode(From(stream, at))>> \o from[at + Kv128Size(From(stream, at))]
       IN  from[0]

\* What was packed is met again, in its order; a packed record compares as the record,
\* has the size that was estimated for it, and never begins with a zero byte.
StreamExact ==
    /\ \A j \in DOMAIN packed :
          LET bytes == Kv128Encode(packed[j])
          IN  /\ Len(bytes) = Kv128Estimate(packed[j]) /\ Len(bytes) = Kv128Size(bytes)
              /\ bytes[1] # 0
              /\ \A key \in Keys : KrefKv128Compare(key, bytes) = KvCompare(key, packed[j].key)
    /\ Met = packed

\* Every number of either width comes back from its bytes.
NumbersBack ==
    kvs = <<>> /\ packed = <<>> =>
        /\ \A v \in 0..(2^Narrow - 1) : /\ Decode(Encode(v, Narrow), Narrow)
                                             = <<v, Estimate(v, Narrow)>>
                                        /\ Encode(v, Narrow)[1] # 0
        /\ \A v \in 0..(2^Wide - 1) : Vi128DecodeU64(Vi128EncodeU64(v)) = <<v, Estimate(v, Wide)>>
=============================================================================
