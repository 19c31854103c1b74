----------------------------- MODULE ElNumbers -----------------------------
(***************************************************************************)
(* Numbers on their way through the compiler: the text of an integer       *)
(* literal (sema/intparse.c, util/strconv.c), its value (ElInt128), the    *)
(* folding of constants (ElConstFold) beside what the code generator makes *)
(* of the same operator, and the text again (util/int128.c), which #emit   *)
(* of the preprocessor hands back to the parser as a literal.              *)
(*                                                                         *)
(* A state holds two operands, or a literal being converted one character  *)
(* at a time, or a number being written one digit at a time.               *)
(***************************************************************************)
EXTENDS ElConstFold, SequencesExt

CONSTANTS
    Lexemes,      \* the literals converted: sequences of characters
    OutputBases   \* the bases numbers are written in and read back from

VARIABLES
    mode,      \* "operands", "convert", "write", "done" or "aborted"
    native,    \* whether the compiler that built strconv.c has a 128-bit type
    left, right,      \* two operands; left is also the number that is written
    rest,      \* what is still to be written of it, without its sign
    lexeme,    \* the text read or written
    pos,       \* characters of lexeme behind the loop of el_string_to_u128
    base,
    res,       \* the magnitude converted so far
    digits,    \* has_digits
    value,     \* the number el_parse_int_lit returned
    reports    \* errors reported by the conversion
vars == <<mode, native, left, right, rest, lexeme, pos, base, res, digits, value, reports>>

Zero == UINT128(0)

DigitChars == <<"0", "1", "2", "3", "4", "5", "6", "7", "8", "9", "a", "b", "c", "d",
                "e", "f", "g", "h", "i", "j", "k", "l", "m", "n", "o", "p", "q", "r",
                "s", "t", "u", "v", "w", "x", "y", "z">>
UpperChars == <<"A", "B", "C", "D", "E", "F", "G", "H", "I", "J", "K", "L", "M", "N",
                "O", "P", "Q", "R", "S", "T", "U", "V", "W", "X", "Y", "Z">>

\* The digit a character stands for, -1 for one that stands for none.
DigitOf(c) ==
    IF Contains(DigitChars, c) THEN SelectInSeq(DigitChars, LAMBDA d : d = c) - 1
    ELSE IF Contains(UpperChars, c) THEN SelectInSeq(UpperChars, LAMBDA d : d = c) + 9
    ELSE -1

\* The characters lex_number takes into a literal.
NumberChars == Range(DigitChars) \cup Range(UpperChars) \cup {"'"}

\* Every base fits two limbs, one in which a number is written fits a limb, and all
\* have their digits.
ASSUME LiteralsAssumption ==
    /\ 36 < WideSize
    /\ OutputBases \subseteq {b \in 2 .. 36 : b <= LimbSize}
    /\ Lexemes \subseteq Seq(NumberChars)

Signed(s) == s # <<>> /\ s[1] \in {"-", "+"}
Negative(s) == s # <<>> /\ s[1] = "-"

-----------------------------------------------------------------------------
(* Conversion of a literal.                                                *)

\* el_parse_int_lit: a prefix counts only if something follows it.
HasPrefix(s) == Len(s) > 2 /\ s[1] = "0"
PrefixBase(s) == CASE HasPrefix(s) /\ s[2] = "x" -> 16
                   [] HasPrefix(s) /\ s[2] = "o" -> 8
                   [] HasPrefix(s) /\ s[2] = "b" -> 2
                   [] OTHER -> 10
BadPrefix(s) ==
    /\ HasPrefix(s)
    /\ s[2] \notin {"x", "o", "b"}
    /\ DigitOf(s[2]) \notin 0 .. 9

\* What el_string_to_i128 is given: the literal behind its prefix.
Unprefixed(s) == IF PrefixBase(s) = 10 THEN s ELSE SubSeq(s, 3, Len(s))

Returns(v, errors) ==
    /\ mode' = "done"
    /\ value' = v
    /\ reports' = reports + errors
    /\ UNCHANGED <<native, left, right, rest, lexeme, pos, base, res, digits>>

\* el_parse_int_lit up to the loop: the prefix decides the base, and
\* el_string_to_i128 looks at the sign.
StartConversion ==
    /\ mode = "convert"
    /\ base = 0
    /\ \/ /\ BadPrefix(lexeme)
          /\ Returns(INT128(0), 1)
       \/ /\ ~BadPrefix(lexeme)
          /\ LET b     == PrefixBase(lexeme)
                 first == IF b = 10 THEN 0 ELSE 2
                 body  == Unprefixed(lexeme)
             IN  \/ /\ Signed(body)
                    /\ Len(body) = 1
                    /\ Returns(INT128(0), 1)
                 \/ /\ ~(Signed(body) /\ Len(body) = 1)
                    /\ base' = b
                    /\ pos' = IF Signed(body) THEN first + 1 ELSE first
                    /\ UNCHANGED <<mode, native, left, right, rest, lexeme, res, digits,
                                   value, reports>>

\* The division strconv.c is built with.
BuiltDiv(a, b) ==
    IF native
    THEN LET q == UValue(a) \div UValue(b) IN UINT128_H(q % LimbSize, q \div LimbSize)
    ELSE u128_div(a, b)

\* Mutant: the largest magnitude divided without the digit taken off it.
ThresholdOfMax(digit) == BuiltDiv(UINT128_MAX, UINT128(base))

\* The largest magnitude to which this digit may still be appended.
Threshold(digit) == BuiltDiv(u128_sub(UINT128_MAX, UINT128(digit)), UINT128(base))

\* One pass of the loop of el_string_to_u128.
ConvertChar ==
    /\ mode = "convert"
    /\ base # 0
    /\ pos < Len(lexeme)
    /\ LET c == lexeme[pos + 1]
           d == DigitOf(c)
       IN  \/ /\ d \in 0 .. base - 1
              /\ u128_gt(res, Threshold(d))
              /\ Returns(INT128(0), 1)
           \/ /\ d \in 0 .. base - 1
              /\ ~u128_gt(res, Threshold(d))
              /\ res' = u128_add(u128_mul(res, UINT128(base)), UINT128(d))
              /\ digits' = TRUE
              /\ pos' = pos + 1
              /\ UNCHANGED <<mode, native, left, right, rest, lexeme, base, value, reports>>
           \/ /\ d \notin 0 .. base - 1
              /\ c = "'"
              /\ pos' = pos + 1
              /\ UNCHANGED <<mode, native, left, right, rest, lexeme, base, res, digits,
                             value, reports>>
           \/ /\ d \notin 0 .. base - 1
              /\ c # "'"
              /\ Returns(INT128(0), 1)

\* Mutant: the magnitude of a negative number bounded as that of a positive one.
MinimumExcluded(negative) == INT128_MAX

\* The magnitude of the smallest and of the largest number.
LargestMagnitude(negative) == IF negative THEN i128_abs_u128(INT128_MIN) ELSE INT128_MAX

\* The end of the loop and of el_string_to_i128: a literal of separators only
\* fails an assertion; the sign is applied to a magnitude that fits.
EndConversion ==
    /\ mode = "convert"
    /\ base # 0
    /\ pos = Len(lexeme)
    /\ \/ /\ ~digits
          /\ mode' = "aborted"
          /\ UNCHANGED <<native, left, right, rest, lexeme, pos, base, res, digits, value, reports>>
       \/ /\ digits
          /\ LET negative == Negative(Unprefixed(lexeme))
             IN  \/ /\ u128_gt(res, LargestMagnitude(negative))
                    /\ Returns(INT128(0), 1)
                 \/ /\ ~u128_gt(res, LargestMagnitude(negative))
                    /\ Returns(IF ~negative THEN res
                               ELSE IF u128_eq(res, i128_abs_u128(INT128_MIN)) THEN INT128_MIN
                               ELSE i128_neg(res), 0)

-----------------------------------------------------------------------------
(* Writing a number.                                                       *)

\* el_i128_to_string starts: the number is split into its sign and magnitude.
\* pos counts the digits written; lexeme holds them in reading order.
StartWriting ==
    /\ mode = "operands"
    /\ right = Zero
    /\ mode' = "write"
    /\ base' \in OutputBases
    /\ rest' = i128_abs_u128(left)
    /\ lexeme' = IF u128_eq(left, Zero) THEN <<"0">> ELSE <<>>
    /\ UNCHANGED <<native, left, right, pos, res, digits, value, reports>>

\* One pass of the loop of to_string_internal, whose result is reversed.
WriteDigit ==
    /\ mode = "write"
    /\ u128_ne(rest, Zero)
    /\ lexeme' = <<DigitChars[u128_mod(rest, UINT128(base)).lo + 1]>> \o lexeme
    /\ rest' = u128_div(rest, UINT128(base))
    /\ UNCHANGED <<mode, native, left, right, pos, base, res, digits, value, reports>>

\* The sign is put before the digits and, as #emit does with a number, the text
\* in base 10 becomes a literal that is converted again.
EndWriting ==
    /\ mode = "write"
    /\ u128_eq(rest, Zero)
    /\ lexeme' = IF i128_lt(left, INT128(0)) THEN <<"-">> \o lexeme ELSE lexeme
    /\ mode' = IF base = 10 THEN "convert" ELSE "done"
    /\ base' = IF base = 10 THEN 0 ELSE base
    /\ UNCHANGED <<native, left, right, rest, pos, res, digits, value, reports>>

-----------------------------------------------------------------------------
Init ==
    /\ native \in BOOLEAN
    /\ rest = Zero /\ pos = 0 /\ base = 0 /\ res = Zero /\ digits = FALSE
    /\ value = Zero /\ reports = 0
    /\ \/ /\ mode = "operands"
          /\ left \in Wide /\ right = Zero
          /\ native = FALSE
          /\ lexeme = <<>>
       \/ /\ mode = "convert"
          /\ left = Zero /\ right = Zero
          /\ lexeme \in Lexemes

\* The inputs of the operations: any second operand beside any first one.
SecondOperand ==
    /\ mode = "operands"
    /\ right = Zero
    /\ right' \in Wide \ {Zero}
    /\ UNCHANGED <<mode, native, left, rest, lexeme, pos, base, res, digits, value, reports>>

Next ==
    \/ SecondOperand
    \/ StartConversion
    \/ ConvertChar
    \/ EndConversion
    \/ StartWriting
    \/ WriteDigit
    \/ EndWriting

Spec == Init /\ [][Next]_vars

-----------------------------------------------------------------------------
(* What the code generator makes of the operators: llvm-codegen.c chooses  *)
(* the instruction by the sign of the type of the left operand.            *)

\* The number a constant of a type stands for, and the residue of a number
\* that a register of the type holds, as such a number.
Meaning(type, v) == IF type.is_signed \/ prim_int_bits(type) < 2 * LimbBits
                    THEN IValue(v) ELSE UValue(v)
Residue(type, n) ==
    LET size == Pow2[prim_int_bits(type)]
        r    == n % size
    IN  IF type.is_signed /\ 2 * r >= size THEN r - size ELSE r

Abs(n) == IF n < 0 THEN -n ELSE n
Quotient(m, n) == IF (m < 0) # (n < 0) THEN -(Abs(m) \div Abs(n)) ELSE Abs(m) \div Abs(n)

\* Whether LLVM defines the result of the instruction.
TargetDefines(type, op, m, n) ==
    CASE op \in {"DIV", "MOD"} ->
               n # 0 /\ ~(type.is_signed /\ n = -1 /\ m = -Pow2[prim_int_bits(type) - 1])
      [] op \in {"SHL", "SHR"} -> n \in 0 .. prim_int_bits(type) - 1
      [] OTHER -> TRUE

\* elc_llvm_compile_bin_instr: the number the instruction leaves.
TargetArith(type, op, m, n) ==
    Residue(type,
        LET size == Pow2[prim_int_bits(type)]
            a == m % size
            b == n % size
        IN  CASE op = "ADD"    -> m + n
              [] op = "SUB"    -> m - n
              [] op = "MUL"    -> m * n
              [] op = "DIV"    -> Quotient(m, n)
              [] op = "MOD"    -> m - n * Quotient(m, n)
              [] op = "BW_AND" -> BitAnd(a, b)
              [] op = "BW_OR"  -> BitOr(a, b)
              [] op = "BW_XOR" -> BitXor(a, b)
              [] op = "BW_IMP" -> BitOr(size - 1 - a, b)
              [] op = "SHL"    -> m * Pow2[n]
              [] op = "SHR"    -> m \div Pow2[n])

\* The exact result, before the register cuts it.
TargetExact(op, m, n) ==
    CASE op = "ADD" -> m + n
      [] op = "SUB" -> m - n
      [] op = "MUL" -> m * n

TargetComp(op, m, n) ==
    CASE op = "EQ"  -> m = n
      [] op = "NEQ" -> m # n
      [] op = "LT"  -> m < n
      [] op = "LTE" -> m <= n
      [] op = "GT"  -> m > n
      [] op = "GTE" -> m >= n

\* elc_llvm_compile_unary_instr.
TargetUnary(type, op, m) ==
    Residue(type, CASE op = "POS"    -> m
                    [] op = "NEG"    -> -m
                    [] op = "BW_NOT" -> -1 - m)

-----------------------------------------------------------------------------
(* Properties.                                                             *)

\* The emulated operations are those of a 128-bit type: what the two limbs hold
\* afterwards is the sum, difference, product, combination or shift of what they
\* held before, modulo the width, and the comparisons order what they hold.
ArithmeticExact ==
    mode = "operands" =>
        LET ux == UValue(left)   uy == UValue(right)
            ix == IValue(left)   n  == uy
        IN  /\ OrderExact(left, right) /\ SumsExact(left, right) /\ ProductsExact(left, right)
            /\ Holds(u128_and(left, right), BitAnd(ux, uy))
            /\ Holds(u128_or(left, right), BitOr(ux, uy))
            /\ Holds(u128_xor(left, right), BitXor(ux, uy))
            /\ n <= 2 * LimbBits + 1 =>
                  /\ Holds(u128_shl(left, n), ux * Pow2[n])
                  /\ Holds(u128_shr(left, n), ux \div Pow2[n])
                  /\ Holds(i128_shr(left, n), ix \div Pow2[n])

\* Division gives the quotient rounded towards zero and the rest of the sign of
\* the dividend, for every signed pair and for every unsigned dividend that does
\* not exceed the magnitude of INT128_MIN.  (Above it the emulated unsigned
\* division is wrong: DivisionExact below.)
QuotientsExact ==
    mode = "operands" /\ right # Zero =>
        LET ux == UValue(left)   uy == UValue(right)
            ix == IValue(left)   iy == IValue(right)
            Is(v, number) == UValue(v) = number % WideSize
        IN  /\ 2 * ux <= WideSize => /\ UValue(u128_div(left, right)) = ux \div uy
                                     /\ UValue(u128_mod(left, right)) = ux % uy
            /\ Is(i128_div(left, right), Quotient(ix, iy))
            /\ Is(i128_mod(left, right), ix - iy * Quotient(ix, iy))

\* "Returns lhs / rhs." (int128.h): for every pair of unsigned operands.
DivisionExact ==
    mode = "operands" /\ right # Zero =>
        UValue(u128_div(left, right)) = UValue(left) \div UValue(right)

\* Whether the binder reads a constant of the type with a sign it does not have:
\* an unsigned constant of full width is held in a signed integer.
MisreadSign(type, op) ==
    /\ ~type.is_signed
    /\ prim_int_bits(type) = 2 * LimbBits
    /\ op \in {"DIV", "MOD", "SHR"} \cup CompOp

\* A constant expression has the value its operators would compute at run time,
\* wherever the instruction defines one: folding the operands in 128 bits and
\* wrapping the result agrees with the instruction of the type's width.  The
\* warning is given exactly when the result does not fit a narrower type.
FoldAgrees ==
    mode = "operands" =>
        \A type \in IntType : Wrapped(type, left) = left /\ Wrapped(type, right) = right =>
            LET m == Meaning(type, left)
                n == Meaning(type, right)
            IN  /\ \A op \in ArithOp :
                      /\ TargetDefines(type, op, m, n)
                      /\ ~MisreadSign(type, op)
                      /\ ~DividesByZero(op, right)
                      => LET folded == FoldBinary(type, op, left, right)
                         IN  Meaning(type, folded.value) = TargetArith(type, op, m, n)
                /\ \A op \in UnaryOp :
                      Meaning(type, FoldUnary(type, op, left).value) = TargetUnary(type, op, m)
                /\ \A op \in CompOp :
                      ~MisreadSign(type, op) => Comp(op, left, right) = TargetComp(op, m, n)
                /\ prim_int_bits(type) < 2 * LimbBits =>
                      \A op \in {"ADD", "SUB", "MUL"} :
                          FoldBinary(type, op, left, right).warned <=>
                              Residue(type, TargetExact(op, m, n)) # TargetExact(op, m, n)

\* The number that the digits of a text spell: its parts up to each character, a
\* separator or sign adding nothing.
Spelling(s, b) ==
    LET upto[i \in 0 .. Len(s)] ==
            IF i = 0 THEN 0
            ELSE IF s[i] \in {"'", "-"} THEN upto[i - 1]
            ELSE upto[i - 1] * b + DigitOf(s[i])
    IN  upto
Spelled(s, b) == Spelling(s, b)[Len(s)]

\* The literal behind its prefix has no other characters than digits of its base
\* and separators.
WellFormed(s) ==
    /\ ~BadPrefix(s)
    /\ \A i \in 1 .. Len(Unprefixed(s)) :
          Unprefixed(s)[i] # "'" => DigitOf(Unprefixed(s)[i]) \in 0 .. PrefixBase(s) - 1

\* A literal gets the number it spells if that is one a signed integer holds, and
\* one error otherwise; only one without any digit aborts.  In a build without a
\* 128-bit type this holds of the bases that are powers of two.  No error has been
\* reported before it: after one every literal is 0, because the conversion asks
\* the engine whether it has any (strconv.c:81), not whether this literal had one.
LiteralExact ==
    /\ left = Zero /\ mode = "done" /\ (native \/ PrefixBase(lexeme) # 10) =>
          LET spelled == Spelled(Unprefixed(lexeme), PrefixBase(lexeme))
          IN  IF WellFormed(lexeme) /\ 2 * spelled < WideSize
              THEN reports = 0 /\ IValue(value) = spelled
              ELSE reports = 1 /\ value = Zero
    /\ mode = "aborted" =>
          /\ WellFormed(lexeme)
          /\ \A i \in 1 .. Len(Unprefixed(lexeme)) : Unprefixed(lexeme)[i] = "'"

\* A number survives being written and read back, as #emit and the parser do: the
\* digits spell its magnitude in every base, and the literal is the number.
RoundTrip ==
    mode = "done" /\ left # Zero =>
        /\ Spelled(lexeme, base) = Abs(IValue(left))
        /\ Negative(lexeme) <=> IValue(left) < 0
        /\ base = 10 => reports = 0 /\ value = left
=============================================================================
