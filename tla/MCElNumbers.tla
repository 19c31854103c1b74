---------------------------- MODULE MCElNumbers ----------------------------
(* Numbers of two limbs of four bits; literals of up to five characters.    *)
EXTENDS ElNumbers, Bitwise

MCHalfBits == 2
MCHalfSize == 4

\* Literals start with a digit.  The characters cover digits of every base, a
\* separator, the prefixes in both cases and letters beyond every base.
MCFirst == {"0", "1", "2"}
MCChars == {"0", "1", "5", "7", "f", "F", "x", "b", "o", "B", "'"}
MCLexemes ==
    {<<c>> : c \in MCFirst}
        \cup {<<c, d>> : c \in MCFirst, d \in MCChars}
        \cup {<<c, d, e>> : c \in MCFirst, d \in MCChars, e \in MCChars}
        \cup {<<c, d, e, f>> : c \in MCFirst, d \in MCChars, e \in MCChars, f \in MCChars}
        \cup {<<"0", d, e, f, g>> : d \in {"x", "b", "o", "1", "'"},
                                    e \in MCChars, f \in MCChars, g \in MCChars}

MCOutputBases == {2, 10, 16}

\* The bit operators are those of the community modules.
ASSUME BitsAssumption ==
    \A a, b \in Limb :
        BitAnd(a, b) = a & b /\ BitOr(a, b) = a | b /\ BitXor(a, b) = a ^^ b
=============================================================================
