------------------------------ MODULE ElInt128 ------------------------------
(***************************************************************************)
(* The emulated branch of util/int128.h: integers of two limbs, as a       *)
(* compiler without a 128-bit type builds them and as util/int128.c always *)
(* builds them.  A limb of the source has 64 bits and a half of it 32; the *)
(* width is a parameter here.                                              *)
(*                                                                         *)
(* This module has the comparisons and the arithmetic that is not a loop.  *)
(* Shifts, bit operations and division are in ElDivision.                  *)
(***************************************************************************)
EXTENDS ElBits

CONSTANTS
    HalfBits,   \* bits of half a limb (32 in the source)
    HalfSize    \* 2 to the power HalfBits

ASSUME HalfAssumption ==
    /\ HalfBits \in Nat \ {0}
    /\ HalfSize \in Nat \ {0, 1}
    /\ HalfSize = Pow2[HalfBits]
    /\ HalfSize % 2 = 0

LimbBits == 2 * HalfBits
LimbSize == HalfSize * HalfSize
WideSize == LimbSize * LimbSize

Limb == 0 .. LimbSize - 1
Wide == [lo : Limb, hi : Limb]

\* The conversions of C between an integer and a limb, and the union through
\* which the source reads a limb as a signed one.
ToLimb(n) == n % LimbSize
AsSigned(l) == IF 2 * l >= LimbSize THEN l - LimbSize ELSE l

\* Every number the source makes an integer of fits a limb; one that does not,
\* in a small instance, takes the next limb too.
INT128(v)       == [lo |-> ToLimb(v), hi |-> IF v < 0 THEN LimbSize - 1 ELSE 0]
UINT128(v)      == [lo |-> ToLimb(v), hi |-> v \div LimbSize]
UINT128_H(l, h) == [lo |-> l, hi |-> h]

INT128_MIN  == [lo |-> 0, hi |-> LimbSize \div 2]
INT128_MAX  == [lo |-> LimbSize - 1, hi |-> (LimbSize \div 2) - 1]
UINT128_MAX == [lo |-> LimbSize - 1, hi |-> LimbSize - 1]

-----------------------------------------------------------------------------
(* What the two limbs stand for: the meaning the operations are held to.   *)

UValue(x) == x.hi * LimbSize + x.lo
IValue(x) == AsSigned(x.hi) * LimbSize + x.lo

-----------------------------------------------------------------------------
(* Comparison.                                                             *)

u128_lt(a, b) == IF a.hi = b.hi THEN a.lo < b.lo ELSE a.hi < b.hi
u128_gt(a, b) == IF a.hi = b.hi THEN a.lo > b.lo ELSE a.hi > b.hi

i128_lt(a, b) == IF AsSigned(a.hi) = AsSigned(b.hi) THEN a.lo < b.lo
                 ELSE AsSigned(a.hi) < AsSigned(b.hi)
i128_gt(a, b) == IF AsSigned(a.hi) = AsSigned(b.hi) THEN a.lo > b.lo
                 ELSE AsSigned(a.hi) > AsSigned(b.hi)

u128_eq(a, b) == a.lo = b.lo /\ a.hi = b.hi
i128_eq(a, b) == a.lo = b.lo /\ a.hi = b.hi
u128_ne(a, b) == ~u128_eq(a, b)
i128_ne(a, b) == ~i128_eq(a, b)
u128_le(a, b) == u128_lt(a, b) \/ u128_eq(a, b)
u128_ge(a, b) == u128_gt(a, b) \/ u128_eq(a, b)
i128_le(a, b) == i128_lt(a, b) \/ i128_eq(a, b)
i128_ge(a, b) == i128_gt(a, b) \/ i128_eq(a, b)

-----------------------------------------------------------------------------
(* Sums.                                                                   *)

\* Adds two int128s, wrapping: the low limb wrapped iff it is below an
\* operand, and then the high limb takes the carry.
i128_add(a, b) ==
    LET lo == ToLimb(a.lo + b.lo)
        hi == ToLimb(a.hi + b.hi)
    IN  [lo |-> lo, hi |-> IF lo < a.lo THEN ToLimb(hi + 1) ELSE hi]

u128_add(a, b) == i128_add(a, b)

\* ~x + 1, the 1 carried into the high limb iff the low limb is zero.
i128_neg(x) ==
    [lo |-> ToLimb((LimbSize - 1 - x.lo) + 1),
     hi |-> ToLimb((LimbSize - 1 - x.hi) + (IF x.lo = 0 THEN 1 ELSE 0))]

u128_neg(x) == i128_neg(x)

i128_sub(a, b) == i128_add(a, i128_neg(b))

u128_sub(a, b) ==
    LET hi == ToLimb(a.hi - b.hi)
    IN  [lo |-> ToLimb(a.lo - b.lo),
         hi |-> IF a.lo < b.lo THEN ToLimb(hi - 1) ELSE hi]

\* el_i128_abs_u128: the magnitude; that of INT128_MIN is its own negation
\* read as unsigned.
i128_abs_u128(v) == IF i128_lt(v, INT128(0)) THEN i128_neg(v) ELSE v

-----------------------------------------------------------------------------
(* Products.                                                               *)

\* Mutant: the high limb without the carry out of the middle products.
MulWithoutCarry(l, r) ==
    LET ll == l % HalfSize
        lh == l \div HalfSize
        rl == r % HalfSize
        rh == r \div HalfSize
    IN  [lo |-> ToLimb(l * r),
         hi |-> ToLimb((lh * rh) + ((ll * rh) \div HalfSize) + ((lh * rl) \div HalfSize))]

\* The product of two limbs from the four products of their halves.
u128_mul64(l, r) ==
    LET ll == l % HalfSize
        lh == l \div HalfSize
        rl == r % HalfSize
        rh == r \div HalfSize
        lo_lo == ll * rl
        lo_hi == ll * rh
        hi_lo == lh * rl
        hi_hi == lh * rh
        carry == ((lo_lo \div HalfSize) + (lo_hi % HalfSize) + (hi_lo % HalfSize)) \div HalfSize
    IN  [lo |-> ToLimb(lo_lo + ToLimb(lo_hi * HalfSize) + ToLimb(hi_lo * HalfSize)),
         hi |-> ToLimb(hi_hi + (lo_hi \div HalfSize) + (hi_lo \div HalfSize) + carry)]

\* The signed product of two limbs: the unsigned one, corrected by the other
\* factor for each negative one.
i128_mul64(l, r) ==
    LET p == u128_mul64(ToLimb(l), ToLimb(r))
        corrected == p.hi - (IF l < 0 THEN r ELSE 0) - (IF r < 0 THEN l ELSE 0)
    IN  [lo |-> p.lo, hi |-> ToLimb(corrected)]

\* Three of the four partial products: the fourth is beyond the width.
u128_mul(a, b) ==
    LET i == u128_mul64(a.lo, b.lo)
        j == u128_mul64(a.lo, b.hi)
        k == u128_mul64(a.hi, b.lo)
    IN  u128_add(u128_add(i, UINT128_H(0, j.lo)), UINT128_H(0, k.lo))

i128_mul(a, b) ==
    IF i128_eq(a, INT128(-1)) THEN i128_neg(b)
    ELSE IF i128_eq(b, INT128(-1)) THEN i128_neg(a)
    ELSE LET an == i128_lt(a, INT128(0))
             bn == i128_lt(b, INT128(0))
             p  == u128_mul(IF an THEN i128_neg(a) ELSE a, IF bn THEN i128_neg(b) ELSE b)
         IN  IF an # bn THEN i128_neg(p) ELSE p

-----------------------------------------------------------------------------
(* What a type of twice the width would give, for any two operands.        *)

\* v is what is left of n in two limbs.
Holds(v, n) == v \in Wide /\ UValue(v) = n % WideSize

\* The order of two limbs is that of the numbers they stand for.
OrderExact(x, y) ==
    LET ux == UValue(x)   uy == UValue(y)
        ix == IValue(x)   iy == IValue(y)
    IN  /\ u128_lt(x, y) <=> ux < uy
        /\ u128_gt(x, y) <=> ux > uy
        /\ u128_le(x, y) <=> ux <= uy
        /\ u128_ge(x, y) <=> ux >= uy
        /\ i128_lt(x, y) <=> ix < iy
        /\ i128_gt(x, y) <=> ix > iy
        /\ i128_le(x, y) <=> ix <= iy
        /\ i128_ge(x, y) <=> ix >= iy
        /\ u128_eq(x, y) <=> ux = uy
        /\ i128_eq(x, y) <=> ix = iy

\* Sums, differences and negations are exact but for the width; a magnitude always fits.
SumsExact(x, y) ==
    /\ Holds(u128_add(x, y), UValue(x) + UValue(y))
    /\ Holds(i128_add(x, y), IValue(x) + IValue(y))
    /\ Holds(u128_sub(x, y), UValue(x) - UValue(y))
    /\ Holds(i128_sub(x, y), IValue(x) - IValue(y))
    /\ Holds(u128_neg(x), -UValue(x))
    /\ Holds(i128_neg(x), -IValue(x))
    /\ UValue(i128_abs_u128(x)) = IF IValue(x) < 0 THEN -IValue(x) ELSE IValue(x)

\* So are products; that of two limbs always fits.
ProductsExact(x, y) ==
    /\ UValue(u128_mul64(x.lo, y.lo)) = x.lo * y.lo
    /\ Holds(i128_mul64(AsSigned(x.lo), AsSigned(y.lo)), AsSigned(x.lo) * AsSigned(y.lo))
    /\ Holds(u128_mul(x, y), UValue(x) * UValue(y))
    /\ Holds(i128_mul(x, y), IValue(x) * IValue(y))
=============================================================================
