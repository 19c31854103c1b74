------------------------------ MODULE ElLexer ------------------------------
(***************************************************************************)
(* The lexer (lexer/lexer.c): each call of token_stream_next reads one     *)
(* token of the document, behind what the flags make it skip, and an error *)
(* gives a token of type UNKNOWN; and the text a token is turned back into *)
(* (lexer/token.c, el_srcdoc_append_token).                                *)
(*                                                                         *)
(* A document is a sequence of characters, each standing for those the     *)
(* source treats alike.  Offsets count from 0, as in the source.           *)
(***************************************************************************)
EXTENDS SequencesExt

CONSTANTS
    Documents,  \* the documents read
    FlagSets    \* the sets of flags the lexer is given

ASSUME DocumentsAssumption == \A d \in Documents : d \in Seq(STRING)

VARIABLES
    doc,          \* the document
    flags,        \* of ALLOW_UNTERM, ALLOW_UTF8_IDENTS, SKIP_COMMENTS, SKIP_WHITESPACE, SKIP_UNKNOWN
    current_loc,  \* where the next call starts: offset, line and column
    tokens,       \* the tokens returned so far
    errors        \* the errors reported so far
vars == <<doc, flags, current_loc, tokens, errors>>

Letter == {"a", "e", "s"}
Digit  == {"0", "1"}
High   == {"HIGH"}           \* a byte of a character outside ASCII
Alnum  == Letter \cup Digit
Blank  == {" "}
LineEnd == {"CR", "LF"}

Location == [offset : Nat, line : Nat, column : Nat]
LOC_ZERO == [offset |-> 0, line |-> 0, column |-> 0]

-----------------------------------------------------------------------------
(* Reading characters.                                                     *)

\* The end of the document reads like a NUL in it.
peek(d, p) == IF p < Len(d) THEN d[p + 1] ELSE "NUL"

\* At most n characters of the document from offset p on.
Ahead(d, p, n) == SubSeq(d, p + 1, Min({p + n, Len(d)}))

\* Mutant: the two characters of a line end counted as two lines.
NextOfEach(d, loc) ==
    IF loc.offset >= Len(d) THEN loc
    ELSE LET ends == peek(d, loc.offset) \in LineEnd
         IN  [offset |-> loc.offset + 1,
              line   |-> IF ends THEN loc.line + 1 ELSE loc.line,
              column |-> IF ends THEN 0 ELSE loc.column + 1]

\* One character forward; CR LF are one character, and one line end.
next(d, loc) ==
    IF loc.offset >= Len(d) THEN loc
    ELSE LET c    == peek(d, loc.offset)
             pair == c = "CR" /\ peek(d, loc.offset + 1) = "LF"
             ends == c \in LineEnd
         IN  [offset |-> loc.offset + (IF pair THEN 2 ELSE 1),
              line   |-> IF ends THEN loc.line + 1 ELSE loc.line,
              column |-> IF ends THEN 0 ELSE loc.column + 1]

\* next, until offset p is reached.
AdvanceTo(d, loc, p) ==
    LET go[l \in Location] == IF l.offset >= p THEN l ELSE go[next(d, l)]
    IN  go[loc]

\* The first offset from p on whose character is not one of set.
SkipFrom(d, p, set) == Min({q \in p .. Len(d) : peek(d, q) \notin set})
\* The first offset from p on whose character is one of set or ends the document.
FindFrom(d, p, set) == Min({q \in p .. Len(d) : peek(d, q) \in set \cup {"NUL"}})

-----------------------------------------------------------------------------
(* Results of a call: a token, whose lexeme is a part of the document; an  *)
(* error, with the part of the document it is about; or nothing, when what *)
(* was read is skipped.                                                    *)

Token(type, from, to, loc) ==
    [status |-> "SUCCESS", type |-> type, from |-> from, to |-> to, loc |-> loc]
Error(code, from, loc) ==
    [status |-> code, type |-> "UNKNOWN", from |-> from, to |-> loc.offset, loc |-> loc]
Skipped(loc) ==
    [status |-> "SKIPPED", type |-> "UNKNOWN", from |-> loc.offset, to |-> loc.offset, loc |-> loc]

\* ret_tok_with_lexeme_auto: the lexeme is all that was read.
Whole(type, start, loc) == Token(type, start.offset, loc.offset, loc)

-----------------------------------------------------------------------------
(* The kinds of tokens.                                                    *)

\* Mutant: a NUL reported and not read.
NulNotRead(d, start) ==
    IF start.offset < Len(d) THEN Error("UNEXPECTED_CHAR", start.offset, start)
    ELSE Token("EOF", start.offset, start.offset, start)

LexNul(d, start) ==
    IF start.offset < Len(d) THEN Error("UNEXPECTED_CHAR", start.offset, next(d, start))
    ELSE Token("EOF", start.offset, start.offset, start)

LexSpace(d, fl, start) ==
    LET newline == peek(d, start.offset) \in LineEnd
        loc == IF newline THEN next(d, start)
               ELSE AdvanceTo(d, start, SkipFrom(d, start.offset, Blank))
    IN  IF "SKIP_WHITESPACE" \in fl THEN Skipped(loc)
        ELSE Whole(IF newline THEN "NEWLINE" ELSE "WHITESPACE", start, loc)

LexLineComment(d, fl, start) ==
    LET from == start.offset + 2
        loc  == AdvanceTo(d, start, FindFrom(d, from, LineEnd))
    IN  IF "SKIP_COMMENTS" \in fl THEN Skipped(loc)
        ELSE Token("LINE_COMMENT", from, loc.offset, loc)

\* Where a block comment ends: comments nest.  terminated says whether a closing
\* delimiter ended it, close where that one starts.
CommentEnd(d, p) ==
    LET At(q, n) == [offset |-> q, depth |-> n]
        scan[s \in [offset : Nat, depth : Nat \ {0}]] ==
            LET q == s.offset
            IN  IF peek(d, q) = "NUL" THEN [terminated |-> FALSE, close |-> q, to |-> q]
                ELSE IF peek(d, q) = "/" /\ peek(d, q + 1) = "[" THEN scan[At(q + 2, s.depth + 1)]
                ELSE IF peek(d, q) = "]" /\ peek(d, q + 1) = "/"
                THEN IF s.depth = 1 THEN [terminated |-> TRUE, close |-> q, to |-> q + 2]
                     ELSE scan[At(q + 2, s.depth - 1)]
                ELSE scan[At(q + 1, s.depth)]
    IN  scan[At(p, 1)]

LexBlockComment(d, fl, start) ==
    LET from == start.offset + 2
        end  == CommentEnd(d, from)
        loc  == AdvanceTo(d, start, end.to)
    IN  IF ~end.terminated /\ "ALLOW_UNTERM" \notin fl
        THEN Error("UNTERM_COMMENT", start.offset, loc)
        ELSE IF "SKIP_COMMENTS" \in fl THEN Skipped(loc)
        ELSE Token("BLOCK_COMMENT", from, end.close, loc)

\* Where a quoted literal ends: at its delimiter, before the end of the line, or
\* at a backslash with nothing behind it.
QuoteEnd(d, p, delimiter) ==
    LET scan[q \in Nat] ==
            IF peek(d, q) \in LineEnd \cup {"NUL"} THEN [kind |-> "open", to |-> q]
            ELSE IF peek(d, q) = "\\"
            THEN IF peek(d, q + 1) = "NUL" THEN [kind |-> "escape", to |-> q + 1]
                 ELSE scan[next(d, [LOC_ZERO EXCEPT !.offset = q + 1]).offset]
            ELSE IF peek(d, q) = delimiter THEN [kind |-> "closed", to |-> q + 1]
            ELSE scan[q + 1]
    IN  scan[p]

\* An unterminated literal that the flags allow loses its last character too.
LexQuoted(d, fl, start, delimiter) ==
    LET end == QuoteEnd(d, start.offset + 1, delimiter)
        loc == AdvanceTo(d, start, end.to)
    IN  IF end.kind = "escape" THEN Error("INVALID_ESCAPE", loc.offset, loc)
        ELSE IF end.kind = "open" /\ "ALLOW_UNTERM" \notin fl
        THEN Error(IF delimiter = "'" THEN "UNTERM_CHAR" ELSE "UNTERM_STRING", start.offset, loc)
        ELSE Token(IF delimiter = "'" THEN "CHAR_LITERAL" ELSE "STRING_LITERAL",
                   start.offset + 1, loc.offset - 1, loc)

Keywords == {<<"a", "s">>}

\* ASCII letters and digits first; then bytes outside ASCII, and no letter again.
LexIdent(d, fl, start) ==
    LET ascii == SkipFrom(d, start.offset + 1, Alnum \cup {"_"})
        to    == IF "ALLOW_UTF8_IDENTS" \in fl THEN SkipFrom(d, ascii, High) ELSE ascii
    IN  Whole(IF SubSeq(d, start.offset + 1, to) \in Keywords THEN "KEYWORD" ELSE "IDENT",
              start, AdvanceTo(d, start, to))

\* Digits, letters and separators, with a fraction if a digit follows the point.
\* (An exponent is read as letters and digits: the branch for it is never taken.)
LexNumber(d, start) ==
    LET number == Alnum \cup {"'"}
        whole  == SkipFrom(d, start.offset + 1, number)
        float  == peek(d, whole) = "." /\ peek(d, whole + 1) \in Digit
        to     == IF float THEN SkipFrom(d, whole + 1, number) ELSE whole
    IN  Whole(IF float THEN "FLOAT_LITERAL" ELSE "INT_LITERAL", start, AdvanceTo(d, start, to))

-----------------------------------------------------------------------------
(* Operators.                                                              *)

\* The operators of token.h and their types.  Brackets, braces, separators and
\* the caret are all spelled with one character that no operator goes on behind:
\* [ ] and # stand for them.
Operators ==
    {<<"OPT", <<"?">>>>, <<"OPT_FB", <<"?", "?">>>>, <<"OPT_FB_ASSIGN", <<"?", "?", "=">>>>,
     <<"OPT_MAP", <<"?", ">">>>>, <<"OPT_DOT", <<"?", ".">>>>, <<"PLUS", <<"+">>>>,
     <<"INC", <<"+", "+">>>>, <<"ADD_ASSIGN", <<"+", "=">>>>, <<"MINUS", <<"-">>>>,
     <<"DEC", <<"-", "-">>>>, <<"SUB_ASSIGN", <<"-", "=">>>>, <<"STAR", <<"*">>>>,
     <<"MUL_ASSIGN", <<"*", "=">>>>, <<"PERCENT", <<"%">>>>, <<"MOD_ASSIGN", <<"%", "=">>>>,
     <<"ASSIGN", <<"=">>>>, <<"EQL", <<"=", "=">>>>, <<"LOGICAL_IMP", <<"=", ">">>>>,
     <<"LOGICAL_IMP_ASSIGN", <<"=", ">", "=">>>>, <<"LOGICAL_NOT", <<"!">>>>,
     <<"NEQ", <<"!", "=">>>>, <<"COLON", <<":">>>>, <<"DOUBLECOLON", <<":", ":">>>>,
     <<"BITWISE_AND", <<"&">>>>, <<"BITWISE_AND_ASSIGN", <<"&", "=">>>>,
     <<"LOGICAL_AND", <<"&", "&">>>>, <<"LOGICAL_AND_ASSIGN", <<"&", "&", "=">>>>,
     <<"BITWISE_OR", <<"|">>>>, <<"BITWISE_OR_ASSIGN", <<"|", "=">>>>,
     <<"LOGICAL_OR", <<"|", "|">>>>, <<"LOGICAL_OR_ASSIGN", <<"|", "|", "=">>>>,
     <<"LT", <<"<">>>>, <<"LTE", <<"<", "=">>>>, <<"SHL", <<"<", "<">>>>,
     <<"SHL_ASSIGN", <<"<", "<", "=">>>>, <<"BITWISE_XOR", <<"<", ">">>>>,
     <<"BITWISE_XOR_ASSIGN", <<"<", ">", "=">>>>, <<"GT", <<">">>>>,
     <<"GTE", <<">", "=">>>>, <<"SHR", <<">", ">">>>>, <<"SHR_ASSIGN", <<">", ">", "=">>>>,
     <<"BITWISE_NOT", <<"~">>>>, <<"BITWISE_IMP", <<"~", ">">>>>,
     <<"BITWISE_IMP_ASSIGN", <<"~", ">", "=">>>>, <<"DOT", <<".">>>>,
     <<"ELLIPSIS", <<".", ".", ".">>>>, <<"LBRACKET", <<"[">>>>, <<"RBRACKET", <<"]">>>>,
     <<"HASH", <<"#">>>>, <<"SLASH", <<"/">>>>, <<"DIV_ASSIGN", <<"/", "=">>>>}

\* The types of operators; the type of one.
OperatorType == {o[1] : o \in Operators}
Spelled(op) == \E o \in Operators : o[2] = op
TypeOf(op) == (CHOOSE o \in Operators : o[2] = op)[1]

\* Mutant: no character but = read behind the first one of <.
NoXor(first) ==
    CASE first = <<"?">> -> {"?", ">", "."}
      [] first \in {<<"+">>, <<"-">>, <<"&">>, <<"|">>, <<">">>} -> {first[1], "="}
      [] first = <<"=">> -> {"=", ">"}
      [] first = <<"<">> -> {"<", "="}
      [] first = <<":">> -> {":"}
      [] first = <<"~">> -> {">"}
      [] first \in {<<"*">>, <<"%">>, <<"!">>, <<"/">>} -> {"="}
      [] first \in {<<"?", "?">>, <<"=", ">">>, <<"&", "&">>, <<"|", "|">>, <<"<", "<">>,
                    <<"<", ">">>, <<">", ">">>, <<"~", ">">>} -> {"="}
      [] OTHER -> {}

\* The characters lex_operator reads behind those it has read.
ReadsAfter(first) ==
    CASE first = <<"?">> -> {"?", ">", "."}
      [] first \in {<<"+">>, <<"-">>, <<"&">>, <<"|">>, <<">">>} -> {first[1], "="}
      [] first = <<"=">> -> {"=", ">"}
      [] first = <<"<">> -> {"<", ">", "="}
      [] first = <<":">> -> {":"}
      [] first = <<"~">> -> {">"}
      [] first \in {<<"*">>, <<"%">>, <<"!">>, <<"/">>} -> {"="}
      [] first \in {<<"?", "?">>, <<"=", ">">>, <<"&", "&">>, <<"|", "|">>, <<"<", "<">>,
                    <<"<", ">">>, <<">", ">">>, <<"~", ">">>} -> {"="}
      [] OTHER -> {}

\* The operator at offset p, read character by character; three points are
\* read together.
OperatorAt(d, p) ==
    LET one   == Ahead(d, p, 1)
        two   == Ahead(d, p, 2)
        three == Ahead(d, p, 3)
    IN  IF three = <<".", ".", ".">> THEN three
        ELSE IF peek(d, p + 1) \notin ReadsAfter(one) THEN one
        ELSE IF peek(d, p + 2) \notin ReadsAfter(two) THEN two
        ELSE three

LexOperator(d, fl, start) ==
    LET op  == OperatorAt(d, start.offset)
        loc == AdvanceTo(d, start, start.offset + Len(op))
    IN  IF Spelled(op) THEN Whole(TypeOf(op), start, loc)
        ELSE IF "SKIP_UNKNOWN" \in fl THEN Skipped(loc)
        ELSE Error("UNEXPECTED_CHAR", start.offset, loc)

-----------------------------------------------------------------------------
(* One pass of the loop of el_lexer_next_token, and the call.              *)

Lex(d, fl, start) ==
    LET c == peek(d, start.offset)
        n == peek(d, start.offset + 1)
    IN  CASE c = "NUL" -> LexNul(d, start)
          [] c \in Blank \cup LineEnd -> LexSpace(d, fl, start)
          [] c = "/" /\ n = "/" -> LexLineComment(d, fl, start)
          [] c = "/" /\ n = "[" -> LexBlockComment(d, fl, start)
          [] c \in {"\"", "'"} -> LexQuoted(d, fl, start, c)
          [] c \in Letter \cup {"_"} -> LexIdent(d, fl, start)
          [] c \in Digit -> LexNumber(d, start)
          [] OTHER -> LexOperator(d, fl, start)

\* el_lexer_next_token: what is skipped is read on over.
NextToken(d, fl, loc) ==
    LET call[l \in Location] ==
            LET r == Lex(d, fl, l)
            IN  IF r.status = "SKIPPED" THEN call[r.loc] ELSE [start |-> l, token |-> r]
    IN  call[loc]

-----------------------------------------------------------------------------
(* The text of a token (el_token_to_raw_string with separators).           *)

NeedsSeparator ==
    {"KEYWORD", "IDENT", "INT_LITERAL", "FLOAT_LITERAL", "PLUS", "MINUS", "STAR", "SLASH",
     "PERCENT", "ASSIGN", "LT", "GT", "LOGICAL_NOT", "BITWISE_AND", "BITWISE_OR",
     "BITWISE_NOT", "COLON", "DOT"}

\* Mutant: a line end left out, as white space that separates nothing.
RawWithoutLines(type, lexeme) ==
    (CASE type = "STRING_LITERAL" -> <<"\"">> \o lexeme \o <<"\"">>
       [] type = "CHAR_LITERAL"   -> <<"'">> \o lexeme \o <<"'">>
       [] type = "LINE_COMMENT"   -> <<"/", "/">> \o lexeme
       [] type = "BLOCK_COMMENT"  -> <<"/", "*">> \o lexeme \o <<"*", "/">>
       [] type \in {"UNKNOWN", "EOF", "NEWLINE"} -> <<>>
       [] OTHER -> lexeme)
    \o (IF type \in NeedsSeparator THEN <<" ">> ELSE <<>>)

RawText(type, lexeme) ==
    (CASE type = "STRING_LITERAL" -> <<"\"">> \o lexeme \o <<"\"">>
       [] type = "CHAR_LITERAL"   -> <<"'">> \o lexeme \o <<"'">>
       [] type = "LINE_COMMENT"   -> <<"/", "/">> \o lexeme
       [] type = "BLOCK_COMMENT"  -> <<"/", "*">> \o lexeme \o <<"*", "/">>
       [] type = "NEWLINE"        -> <<"LF">>
       [] type \in {"UNKNOWN", "EOF"} -> <<>>
       [] OTHER -> lexeme)
    \o (IF type \in NeedsSeparator THEN <<" ">> ELSE <<>>)

-----------------------------------------------------------------------------
(* The stream.                                                             *)

Ended == tokens # <<>> /\ Last(tokens).type = "EOF"

Init ==
    /\ doc \in Documents
    /\ flags \in FlagSets
    /\ current_loc = LOC_ZERO
    /\ tokens = <<>>
    /\ errors = 0

\* A token and its text; for an error, an UNKNOWN token and a report.
token_stream_next ==
    /\ ~Ended
    /\ \E r \in {NextToken(doc, flags, current_loc)} :
          /\ current_loc' = r.token.loc
          /\ tokens' = Append(tokens, [type |-> r.token.type, start |-> r.start,
                                       end |-> r.token.loc,
                                       lexeme |-> SubSeq(doc, r.token.from + 1, r.token.to)])
          /\ errors' = IF r.token.status = "SUCCESS" THEN errors ELSE errors + 1
    /\ UNCHANGED <<doc, flags>>

Next == token_stream_next

Spec == Init /\ [][Next]_vars

-----------------------------------------------------------------------------
(* Properties.                                                             *)

\* Wherever a call leaves the lexer, line and column are those of a reader who
\* counts line ends, CR LF as one: what every diagnostic points at.
LocationsTrue ==
    LET ends == {i \in 1 .. current_loc.offset :
                    \/ doc[i] = "LF"
                    \/ doc[i] = "CR" /\ ~(i < Len(doc) /\ doc[i + 1] = "LF")}
    IN  /\ current_loc.line = Cardinality(ends)
        /\ current_loc.column = current_loc.offset - Max(ends \cup {0})

\* An operator token is the longest operator of token.h the text starts with, so
\* that no operator can be split because the lexer stopped early.
LongestOperator ==
    tokens # <<>> /\ Last(tokens).type \in OperatorType =>
        \A o \in Operators :
            Len(o[2]) > Len(Last(tokens).lexeme) =>
                Ahead(doc, Last(tokens).start.offset, Len(o[2])) # o[2]

\* The tokens of a text, white space apart.
Significant(ts) == SelectSeq(ts, LAMBDA t : t.type # "WHITESPACE")
Meanings(ts) ==
    [i \in DOMAIN Significant(ts) |->
        [type   |-> Significant(ts)[i].type,
         lexeme |-> IF Significant(ts)[i].type = "NEWLINE" THEN <<>>
                    ELSE Significant(ts)[i].lexeme]]

WithLexemes(d, results) ==
    [i \in DOMAIN results |->
        [type |-> results[i].type, lexeme |-> SubSeq(d, results[i].from + 1, results[i].to)]]

Relexed(d, fl) ==
    LET read[l \in Location] ==
            LET r == NextToken(d, fl, l).token
            IN  <<r>> \o (IF r.type = "EOF" THEN <<>> ELSE read[r.loc])
    IN  WithLexemes(d, read[LOC_ZERO])

\* A document rebuilt from its tokens (el_srcdoc_append_token) has the same
\* tokens: with the flags of elc no separator is missing between two of them and
\* no delimiter lost.  Nothing is said of the other flags.  Under these white space
\* is a token and is written back, so the separators that are added where it was
\* dropped are hardly put to the test.  Block comments are the exception: their
\* text is not one.
Respelled ==
    Ended /\ errors = 0 /\ flags \subseteq {"ALLOW_UTF8_IDENTS"}
        /\ (\A i \in DOMAIN tokens : tokens[i].type # "BLOCK_COMMENT")
        => LET text == FlattenSeq([i \in DOMAIN tokens |-> RawText(tokens[i].type, tokens[i].lexeme)])
           IN  Meanings(Relexed(text, flags)) = Meanings(tokens)

\* Every call of the stream reads something or returns the end: a caller that
\* reads until the end gets there, whatever errors it meets.
EveryCallAdvances ==
    [][current_loc'.offset > current_loc.offset \/ Last(tokens').type = "EOF"]_vars
=============================================================================
