----------------------------- MODULE ElDivision -----------------------------
(***************************************************************************)
(* The rest of the emulated branch of util/int128.h: the bit operations,   *)
(* the shifts, and the division by shifting and subtracting.               *)
(***************************************************************************)
EXTENDS ElInt128

i128_not(x)    == [lo |-> LimbSize - 1 - x.lo, hi |-> LimbSize - 1 - x.hi]
i128_and(a, b) == [lo |-> BitAnd(a.lo, b.lo), hi |-> BitAnd(a.hi, b.hi)]
i128_or(a, b)  == [lo |-> BitOr(a.lo, b.lo),  hi |-> BitOr(a.hi, b.hi)]
i128_xor(a, b) == [lo |-> BitXor(a.lo, b.lo), hi |-> BitXor(a.hi, b.hi)]

u128_not(x)    == i128_not(x)
u128_and(a, b) == i128_and(a, b)
u128_or(a, b)  == i128_or(a, b)
u128_xor(a, b) == i128_xor(a, b)

-----------------------------------------------------------------------------
(* Shifts.  A limb shifted by its whole width is undefined in C: the cases *)
(* keep every count of a limb shift below LimbBits.                        *)

shl64(l, n) == ToLimb(l * Pow2[n])
shr64(l, n) == l \div Pow2[n]

i128_shl(a, n) ==
    IF n = 0 THEN a
    ELSE IF n >= 2 * LimbBits THEN INT128(0)
    ELSE IF n >= LimbBits THEN [lo |-> 0, hi |-> shl64(a.lo, n - LimbBits)]
    ELSE [lo |-> shl64(a.lo, n), hi |-> BitOr(shl64(a.hi, n), shr64(a.lo, LimbBits - n))]

u128_shl(a, n) == i128_shl(a, n)

u128_shr(a, n) ==
    IF n = 0 THEN a
    ELSE IF n >= 2 * LimbBits THEN UINT128(0)
    ELSE IF n >= LimbBits THEN [lo |-> shr64(a.hi, n - LimbBits), hi |-> 0]
    ELSE [lo |-> BitOr(shr64(a.lo, n), shl64(a.hi, LimbBits - n)), hi |-> shr64(a.hi, n)]

\* The arithmetic shift: the sign is shifted in.  The branch of the source for
\* a count of exactly one limb comes after the one for at least one limb.
i128_shr(a, n) ==
    IF n = 0 THEN a
    ELSE IF n >= 2 * LimbBits
    THEN INT128(IF i128_lt(a, INT128(0)) THEN -1 ELSE 0)
    ELSE IF i128_ge(a, INT128(0)) THEN u128_shr(a, n)
    ELSE IF n >= LimbBits
    THEN [lo |-> ToLimb(AsSigned(a.hi) \div Pow2[n - LimbBits]), hi |-> LimbSize - 1]
    ELSE [lo |-> BitOr(shr64(a.lo, n), shl64(a.hi, LimbBits - n)),
          hi |-> BitOr(shr64(a.hi, n), shl64(LimbSize - 1, LimbBits - n))]

-----------------------------------------------------------------------------
(* Division.  The first loop doubles the divisor until it passes the       *)
(* dividend or a doubling leaves nothing; the second one halves it again   *)
(* and subtracts.                                                          *)

\* The divisor and the power of two by which it was multiplied.
Doubled(lhs, rhs) ==
    LET Of(divisor, current) == [divisor |-> divisor, current |-> current]
        loop[s \in [divisor : Wide, current : Wide]] ==
            LET d == u128_shl(s.divisor, 1)
                c == u128_shl(s.current, 1)
            IN  IF ~u128_le(s.divisor, lhs)
                THEN Of(u128_shr(s.divisor, 1), u128_shr(s.current, 1))
                ELSE IF u128_eq(d, UINT128(0)) \/ u128_eq(c, UINT128(0)) THEN s
                ELSE loop[Of(d, c)]
    IN  loop[Of(rhs, UINT128(1))]

\* The quotient, and what is left of the dividend.
Subtracted(lhs, top) ==
    LET Of(left, divisor, current, result) ==
            [lhs |-> left, divisor |-> divisor, current |-> current, result |-> result]
        loop[s \in [lhs : Wide, divisor : Wide, current : Wide, result : Wide]] ==
            LET divisor == u128_shr(s.divisor, 1)
                current == u128_shr(s.current, 1)
            IN  IF u128_eq(s.current, UINT128(0)) THEN [quotient |-> s.result, rest |-> s.lhs]
                ELSE IF u128_ge(s.lhs, s.divisor)
                THEN loop[Of(u128_sub(s.lhs, s.divisor), divisor, current,
                             u128_or(s.result, s.current))]
                ELSE loop[Of(s.lhs, divisor, current, s.result)]
    IN  loop[Of(lhs, top.divisor, top.current, UINT128(0))]

LongDivision(lhs, rhs) == Subtracted(lhs, Doubled(lhs, rhs))

u128_div(lhs, rhs) ==
    IF u128_eq(rhs, UINT128(0)) \/ u128_gt(rhs, lhs) THEN UINT128(0)
    ELSE IF u128_eq(lhs, rhs) THEN UINT128(1)
    ELSE LongDivision(lhs, rhs).quotient

u128_mod(lhs, rhs) ==
    IF u128_eq(rhs, UINT128(0)) THEN UINT128(0)
    ELSE IF u128_gt(rhs, lhs) THEN lhs
    ELSE IF u128_eq(lhs, rhs) THEN UINT128(0)
    ELSE LongDivision(lhs, rhs).rest

i128_div(lhs, rhs) ==
    IF i128_eq(rhs, INT128(0)) THEN INT128(0)
    ELSE LET q == u128_div(i128_abs_u128(lhs), i128_abs_u128(rhs))
         IN  IF i128_lt(lhs, INT128(0)) # i128_lt(rhs, INT128(0)) THEN i128_neg(q) ELSE q

\* Mutant: the rest takes the sign of the divisor.
RestOfDivisorsSign(lhs, rhs) ==
    IF i128_eq(rhs, INT128(0)) THEN INT128(0)
    ELSE LET r == u128_mod(i128_abs_u128(lhs), i128_abs_u128(rhs))
         IN  IF i128_lt(rhs, INT128(0)) /\ u128_ne(r, UINT128(0)) THEN i128_neg(r) ELSE r

i128_mod(lhs, rhs) ==
    IF i128_eq(rhs, INT128(0)) THEN INT128(0)
    ELSE LET r == u128_mod(i128_abs_u128(lhs), i128_abs_u128(rhs))
         IN  IF i128_lt(lhs, INT128(0)) /\ u128_ne(r, UINT128(0)) THEN i128_neg(r) ELSE r
=============================================================================
