------------------------------- MODULE Infix -------------------------------
(* The arithmetic of infixes (src/include/diva.hpp).  An infix is an integer  *)
(* whose upper part is the implicit part (the quotient, stored as the number  *)
(* of a run) and whose lower infix_size bits are the explicit part (stored in *)
(* a slot).  The lowest set bit of the explicit part is not data: it marks    *)
(* where the key's prefix ends, so an infix stands for the whole interval of  *)
(* keys that extend that prefix, and 0 is free to mean "empty slot".          *)
EXTENDS Integers, FiniteSets

\* The key bits of 64-bit words are numbered 0 .. WordBits - 1.
WordBits == 64

\* lowbit_pos(v) for v > 0 (the tzcnt instruction): the trailing zero bits, and
\* the code's v & -v.
LowBitPos(v) ==
    CHOOSE k \in 0..(WordBits - 1) : v % 2^(k + 1) # 0 /\ \A j \in 1..k : v % 2^j = 0
LowBit(v)    == IF v = 0 THEN 0 ELSE 2^LowBitPos(v)

\* v - (v & -v): the smallest value the prefix of v stands for.
Start(v) == v - LowBit(v)

\* v | (v - 1): the largest value the prefix of v stands for.
End(v) == IF v = 0 THEN 0 ELSE v + LowBit(v) - 1

\* (v | mask) == (e | mask) with mask = ((v & -v) << 1) - 1: e extends the
\* prefix of v.  An empty slot has an all-ones mask and would match anything.
Covers(v, e) == v = 0 \/ v \div (2 * LowBit(v)) = e \div (2 * LowBit(v))

\* key >> infix_size_ and key & BITMASK(infix_size_).
Implicit(key, infix_size) == key \div 2^infix_size
Explicit(key, infix_size) == key % 2^infix_size

\* The slot-by-slot rewriting of ShrinkInfixStoreInfixSize: drop the low bits
\* and put the end mark back at bit 0 when it was among the dropped ones.
ShrunkSlot(v, old_size, new_size) ==
    LET kept == v \div 2^(old_size - new_size)
        marked == v # 0 /\ old_size > new_size + LowBitPos(v)
    IN  IF marked /\ kept % 2 = 0 THEN kept + 1 ELSE kept

\* The order of a list of infixes: by interval start and, at equal starts,
\* short prefixes first.
ListBefore(a, b) == Start(a) < Start(b) \/ (Start(a) = Start(b) /\ LowBit(a) >= LowBit(b))

\* The answers a set of infixes owes: no false negative, and no positive that
\* no prefix in the set accounts for.
PointAnswer(held, k)    == \E v \in held : Covers(v, k)
RangeAnswer(held, l, r) == \E v \in held : Start(v) <= r /\ l <= End(v)
=============================================================================
