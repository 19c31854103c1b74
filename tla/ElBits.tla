------------------------------- MODULE ElBits -------------------------------
(***************************************************************************)
(* Powers of two, and the operators &, | and ^ of C on unsigned integers   *)
(* of any width, bit by bit.                                               *)
(***************************************************************************)
EXTENDS Integers

Pow2[n \in Nat] == IF n = 0 THEN 1 ELSE 2 * Pow2[n - 1]

\* The pairs of bits of which an operator makes a one.
AndOnes == {<<1, 1>>}
OrOnes  == {<<0, 1>>, <<1, 0>>, <<1, 1>>}
XorOnes == {<<0, 1>>, <<1, 0>>}

\* The lowest bit of the result, and above it the rest of the operands.
BitByBit(ones, a, b) ==
    LET Of(p, q) == [left |-> p, right |-> q]
        combine[s \in [left : Nat, right : Nat]] ==
            IF s.left = 0 /\ s.right = 0 THEN 0
            ELSE (IF <<s.left % 2, s.right % 2>> \in ones THEN 1 ELSE 0)
                 + 2 * combine[Of(s.left \div 2, s.right \div 2)]
    IN  combine[Of(a, b)]

BitAnd(a, b) == BitByBit(AndOnes, a, b)
BitOr(a, b)  == BitByBit(OrOnes, a, b)
BitXor(a, b) == BitByBit(XorOnes, a, b)
=============================================================================
