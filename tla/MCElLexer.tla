----------------------------- MODULE MCElLexer -----------------------------
(* Short documents over every character, and longer ones over the          *)
(* characters of one kind of token.                                        *)
EXTENDS ElLexer

AnyChar == Alnum \cup High \cup Blank \cup LineEnd
           \cup {"_", "NUL", "$", "\"", "'", "\\", "/", "[", "]", "=", ".", "?", "<", "~"}
CommentChar  == {"/", "[", "]", "LF", "CR"}
LiteralChar  == {"\"", "'", "\\", "a", "NUL", "CR", "LF"}
NumberChar   == {"1", ".", "e", "+", "'", " "}
OperatorChar == {"?", "+", "-", "=", ">", "<", "&", "|", "~", ".", ":", "!", "/"}

MCDocuments ==
    BoundedSeq(AnyChar, 3) \cup BoundedSeq(CommentChar, 6) \cup BoundedSeq(LiteralChar, 5)
        \cup BoundedSeq(NumberChar, 5) \cup BoundedSeq(OperatorChar, 4)

MCFlagSets ==
    {{"ALLOW_UTF8_IDENTS"}, {"SKIP_COMMENTS", "SKIP_WHITESPACE", "SKIP_UNKNOWN"}}
=============================================================================
