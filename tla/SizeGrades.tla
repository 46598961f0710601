------------------------------ MODULE SizeGrades ------------------------------
(* The sizes of infix stores (src/include/diva.hpp): the table that            *)
(* SetupScaleFactors fills, the grades at which stores are made and those to   *)
(* which they grow and shrink. InfixStore and Diva go by the same table.       *)
EXTENDS Integers, FiniteSetsExt

CONSTANTS
    TargetSize,            \* infix_store_target_size
    SizeScalarCount,       \* size_scalar_count
    SizeScalars,           \* size_scalars_: grade -> fixed-point scale factor
    ScaleShift,            \* scale_shift = scale_implicit_shift
    GrowGrade,             \* size_scalar_shrink_grow_sep
    ExceptionSize          \* exception_scaled_size_

Grades == 0..(SizeScalarCount - 1)

\* scaled_sizes_[grade].
ScaledSize(grade) == (TargetSize * SizeScalars[grade]) \div 2^ScaleShift

\* The element count at which an insertion into a store of this grade expands
\* it first; a deletion shrinks a store whose smaller grade would not be there.
ExpandAt(grade) == IF grade > 0 THEN ScaledSize(grade - 1) ELSE ExceptionSize
ShrinkAt(grade) == IF grade > 1 THEN ScaledSize(grade - 2) ELSE ExceptionSize

\* The smallest grade with room for `len' elements: with the slack of the load
\* factor (AllocateInfixStoreWithList), or without (the last batch of a bulk
\* load, by std::lower_bound).
AllocGrade(len) ==
    LET scaled_len == (SizeScalars[GrowGrade] * len) \div 2^ScaleShift
    IN  Min({g \in Grades : ScaledSize(g) >= scaled_len})
LastBatchGrade(len) == Min({g \in Grades : ScaledSize(g) >= len})

\* SetupScaleFactors: sizes grow strictly with the grade, one factor of
\* 1 / load_factor a grade; the grade of a fresh store has the slack of a load
\* factor; the exception leaves the smallest store below its own size.
ASSUME SizesAssumption ==
    /\ TargetSize \in Nat /\ SizeScalarCount \in Nat /\ SizeScalarCount > 1
    /\ 2^ScaleShift \in Nat /\ 2^ScaleShift > 0
    /\ GrowGrade \in Grades
    /\ SizeScalars[GrowGrade] \in Nat /\ 2^ScaleShift <= SizeScalars[GrowGrade]
    /\ \A g \in Grades : SizeScalars[g] \in Nat /\ ScaledSize(g) \in Nat
    /\ \A g, h \in Grades : g < h => ScaledSize(g) < ScaledSize(h)
    /\ ExceptionSize \in 0..(ScaledSize(0) - 1)
=============================================================================
