---------------------------- MODULE ElConstFold ----------------------------
(***************************************************************************)
(* binder/const-fold.c: what the binder computes itself when the operands  *)
(* of an operator are constants.  Every integer constant is held in 128    *)
(* bits, whatever its type, and is brought back into its type after each   *)
(* operation.                                                              *)
(***************************************************************************)
EXTENDS ElDivision

\* The widths of hir/type/prim.h from half a limb up: those of 32, 64 and 128
\* bits, and the two whose bits the binder chooses.
IntWidth == {"half", "limb", "wide", "native", "efficient"}
IntType == [width : IntWidth, is_signed : BOOLEAN]

prim_int_bits(type) ==
    CASE type.width \in {"half", "efficient"} -> HalfBits
      [] type.width \in {"limb", "native"}    -> LimbBits
      [] type.width = "wide"                  -> 2 * LimbBits

int_bit_mask(bits) ==
    IF bits >= 2 * LimbBits THEN UINT128_MAX
    ELSE u128_sub(u128_shl(UINT128(1), bits), UINT128(1))

Overflows(type, v) ==
    LET bits == prim_int_bits(type)
        one  == i128_shl(INT128(1), bits - 1)
    IN  /\ bits < 2 * LimbBits
        /\ IF type.is_signed
           THEN i128_lt(v, i128_neg(one)) \/ i128_gt(v, i128_sub(one, INT128(1)))
           ELSE u128_ne(u128_shr(v, bits), UINT128(0))

\* Mutant: the sign bit of a narrow type not extended over the constant.
MaskedOnly(type, v) == u128_and(v, int_bit_mask(prim_int_bits(type)))

Wrapped(type, v) ==
    LET bits == prim_int_bits(type)
        mask == int_bit_mask(bits)
        uv   == u128_and(v, mask)
        sign == u128_shl(UINT128(1), bits - 1)
    IN  IF bits >= 2 * LimbBits THEN v
        ELSE IF type.is_signed /\ u128_ne(u128_and(uv, sign), UINT128(0))
        THEN u128_or(uv, u128_not(mask))
        ELSE uv

ArithOp == {"ADD", "SUB", "MUL", "DIV", "MOD", "BW_AND", "BW_OR", "BW_XOR", "BW_IMP", "SHL", "SHR"}
CompOp  == {"EQ", "NEQ", "LT", "LTE", "GT", "GTE"}

\* The shift count is the low limb of the operand, converted to an int.
ShiftCount(b) == b.lo

DividesByZero(op, b) == op \in {"DIV", "MOD"} /\ i128_eq(b, INT128(0))

\* ARITH_BW_BIN_OP_CASES; not for a division by zero.
Arith(op, a, b) ==
    CASE op = "ADD"    -> i128_add(a, b)
      [] op = "SUB"    -> i128_sub(a, b)
      [] op = "MUL"    -> i128_mul(a, b)
      [] op = "DIV"    -> i128_div(a, b)
      [] op = "MOD"    -> i128_mod(a, b)
      [] op = "BW_AND" -> i128_and(a, b)
      [] op = "BW_OR"  -> i128_or(a, b)
      [] op = "BW_XOR" -> i128_xor(a, b)
      [] op = "BW_IMP" -> i128_or(i128_not(a), b)
      [] op = "SHL"    -> i128_shl(a, ShiftCount(b))
      [] op = "SHR"    -> i128_shr(a, ShiftCount(b))

\* COMP_INT_BIN_OP_CASES.
Comp(op, a, b) ==
    CASE op = "EQ"  -> i128_eq(a, b)
      [] op = "NEQ" -> i128_ne(a, b)
      [] op = "LT"  -> i128_lt(a, b)
      [] op = "LTE" -> i128_le(a, b)
      [] op = "GT"  -> i128_gt(a, b)
      [] op = "GTE" -> i128_ge(a, b)

UnaryOp == {"POS", "NEG", "BW_NOT"}

\* UNARY_INT_OP_CASES.
UnaryArith(op, a) ==
    CASE op = "POS"    -> a
      [] op = "NEG"    -> i128_neg(a)
      [] op = "BW_NOT" -> i128_not(a)

\* FOLD_BINARY and FOLD_UNARY: the constant that replaces the operator, brought
\* into the type, and whether a warning says that it did not fit.  An untyped
\* literal is folded alike and is not brought into any type.
FoldBinary(type, op, a, b) ==
    LET exact == Arith(op, a, b)
    IN  [value |-> Wrapped(type, exact), warned |-> Overflows(type, exact)]

FoldUnary(type, op, a) ==
    LET exact == UnaryArith(op, a)
    IN  [value |-> Wrapped(type, exact), warned |-> Overflows(type, exact)]
=============================================================================
