------------------------------ MODULE InfixBag ------------------------------
(* What an infix store promises: a bag of infixes under insertion, deletion   *)
(* of the longest stored prefix of a key, and shortening of all the infixes.  *)
(* No slots, bitmaps, runs or sizes: InfixStore implements it.                *)
EXTENDS Infix, Bags

CONSTANTS InfixSize,       \* the initial infix_size_, in bits
          TotalImplicit    \* the number of implicit parts the store spans

VARIABLES bag, infix_size

bagVars == <<bag, infix_size>>

\* Full-length infixes: what InsertSimple and Delete hand to the store.
FullInfixes(size) == {k \in 0..(TotalImplicit * 2^size - 1) : k % 2 = 1}

\* Infixes of any length: those with a mark somewhere in the explicit part.
AnyInfixes(size) == {k \in 0..(TotalImplicit * 2^size - 1) : k % 2^size # 0}

BagInit == /\ infix_size = InfixSize
           /\ IsABag(bag)
           /\ BagToSet(bag) \subseteq AnyInfixes(InfixSize)

BagInsert == /\ LET before == bag
                IN  bag' \in {before (+) SetToBag({k}) : k \in FullInfixes(infix_size)}
             /\ UNCHANGED infix_size

\* The longest stored prefixes of k: at most one value.
Longest(held, k) ==
    LET matches == {v \in held : Covers(v, k)}
    IN  {v \in matches : \A w \in matches : LowBit(v) <= LowBit(w)}

\* Of the stored prefixes of k exactly one copy of the longest goes.  A key
\* that was inserted as a long infix must not take away a shorter one: that
\* one may be all that stands for another key.
BagDelete == /\ LET before == bag
                    longest == UNION {Longest(BagToSet(before), k) : k \in FullInfixes(infix_size)}
                IN  bag' \in {before (-) SetToBag({v}) : v \in longest}
             /\ UNCHANGED infix_size

\* The prefix of v cut to what new_size bits can hold: unchanged when its mark
\* is above the cut, otherwise marked in the lowest bit that is left.
ShrunkInfix(v, new_size) ==
    LET cut == infix_size - new_size
    IN  IF LowBitPos(v) >= cut THEN v \div 2^cut ELSE 2 * (v \div 2^(cut + 1)) + 1

\* The infixes of a bag, copy by copy.
Each(held) == UNION {{v} \X (1..held[v]) : v \in DOMAIN held}

BagShrink(new_size) ==
    /\ new_size < infix_size
    /\ infix_size' = new_size
    /\ bag' = LET each == Each(bag)
                  cut(c) == ShrunkInfix(c[1], new_size)
              IN  [w \in {cut(c) : c \in each} |-> Cardinality({c \in each : cut(c) = w})]

BagNext == \/ BagInsert \/ BagDelete
           \/ \E n \in 1..(infix_size - 1) : BagShrink(n)

BagSpec == BagInit /\ [][BagNext]_bagVars
=============================================================================
