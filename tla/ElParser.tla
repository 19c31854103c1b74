----------------------------- MODULE ElParser ------------------------------
(***************************************************************************)
(* The parser (src/elash/parser): recursive descent over a token stream     *)
(* with unbounded lookahead.                                                *)
(*                                                                         *)
(* A token is the string that its lexeme is. The parser is a record s:      *)
(*   t     the tokens of the stream, EOF not among them;                    *)
(*   p     the position of the current token;                               *)
(*   err   an error was reported: the flag is the diagnostic engine's,      *)
(*         global and never cleared;                                        *)
(*   crash a NULL pointer was dereferenced.                                 *)
(* Every parsing function takes the parser and returns [n, s], the node     *)
(* (Null where the code returns NULL) and the parser afterwards.            *)
(***************************************************************************)
EXTENDS ElAst

CONSTANTS Idents, Ints, HugeInts, Literals

ASSUME TokensAssumption ==
    /\ HugeInts \subseteq Ints
    /\ Ints \subseteq Literals
    /\ Idents \cap Literals = {}

Started(t) == [t |-> t, p |-> 1, err |-> FALSE, crash |-> FALSE]

Peek(s, n) == IF s.p + n <= Len(s.t) THEN s.t[s.p + n] ELSE "EOF"
Cur(s)     == Peek(s, 0)

Advance(s) == IF Cur(s) = "EOF" THEN s ELSE [s EXCEPT !.p = @ + 1]
Report(s)  == [s EXCEPT !.err = TRUE]
Expect(s, tok) == IF Cur(s) = tok THEN Advance(s) ELSE Report(s)
ExpectIdent(s) == IF Cur(s) \in Idents THEN Advance(s) ELSE Report(s)

\* Nothing is read after a crash.
Crash(s) == [s EXCEPT !.p = Len(s.t) + 1, !.err = TRUE, !.crash = TRUE]

Node(n, s) == [n |-> n, s |-> s]
Fail(s)    == Node(Null, s)

\* if (el_parser_has_errs(parser)) return NULL;
OrNull(r, F(_, _)) == IF r.s.err THEN Fail(r.s) ELSE F(r.n, r.s)

\* if (node == NULL) return NULL;
OrGone(r, F(_, _)) == IF r.n = Null THEN r ELSE F(r.n, r.s)

(***************************************************************************)
(* Recovery (recovery.c).                                                   *)
(***************************************************************************)
AtSyncPoint(tok, kind, braces, parens) ==
    \/ tok = "EOF"
    \/ kind = "STMT" /\ (tok = ";" \/ (tok = "}" /\ braces = 0))
    \/ kind = "BLOCK" /\ tok = "}" /\ braces = 0
    \/ kind = "DECL" /\ tok = ";" /\ braces = 0
    \/ kind = "EXPR" /\ parens = 0 /\ braces = 0 /\ tok \in {",", ";", ")", "}"}

RECURSIVE SyncFrom(_, _, _, _)

\* Mutant: the semicolon that ends what is skipped is left in the stream.
SyncFromUpTo(s, kind, braces, parens) ==
    IF AtSyncPoint(Cur(s), kind, braces, parens) THEN s
    ELSE SyncFrom(Advance(s), kind,
                 CASE Cur(s) = "{" -> braces + 1 [] Cur(s) = "}" /\ braces > 0 -> braces - 1
                   [] OTHER -> braces,
                 parens)

SyncFrom(s, kind, braces, parens) ==
    LET tok == Cur(s)
    IN  IF AtSyncPoint(tok, kind, braces, parens)
        THEN IF kind \in {"STMT", "DECL"} /\ tok = ";" THEN Advance(s) ELSE s
        ELSE SyncFrom(Advance(s), kind,
                     CASE tok = "{" -> braces + 1 [] tok = "}" /\ braces > 0 -> braces - 1
                       [] OTHER -> braces,
                     CASE tok = "(" -> parens + 1 [] tok = ")" /\ parens > 0 -> parens - 1
                       [] OTHER -> parens)

Sync(s, kind) == SyncFrom(s, kind, 0, 0)

RECURSIVE SkipTo(_, _), SkipBalancedBraces(_, _)

SkipTo(s, tok) == IF Cur(s) \in {tok, "EOF"} THEN s ELSE SkipTo(Advance(s), tok)

\* Called at an opening brace with depth 0.
SkipBalancedBraces(s, depth) ==
    LET d == CASE Cur(s) = "{" -> depth + 1 [] Cur(s) = "}" -> depth - 1 [] OTHER -> depth
        u == Advance(s)
    IN  IF d > 0 /\ Cur(u) # "EOF" THEN SkipBalancedBraces(u, d) ELSE u

\* Mutant: what stands in front of the closing token is skipped in silence.
ClosedAnyhow(s, tok) == Expect(SkipTo(s, tok), tok)

\* The closing token that has to come now: it is looked for if it does not.
Closed(s, tok) ==
    IF Cur(s) = tok THEN Advance(s) ELSE Expect(SkipTo(Report(s), tok), tok)

(***************************************************************************)
(* Lookahead over a type (lookahead-type.c). Each returns the distance of   *)
(* the token behind what was skipped and whether it was there: [ok, ix].    *)
(***************************************************************************)
MutSpecs == {"const", "wonly"}

SkipMut(s, ix) == IF Peek(s, ix) \in MutSpecs THEN ix + 1 ELSE ix

Openers == {"(", "{", "["}
Closers == {")", "}", "]"}

RECURSIVE LookaheadBalanced(_, _, _), LookaheadSuffixes(_, _)

\* depth counts what is open of each kind of bracket; a closer too many is
\* ignored.
LookaheadBalanced(s, ix, depth) ==
    LET tok == Peek(s, ix)
        d   == CASE tok \in Openers -> [depth EXCEPT ![tok] = @ + 1]
                 [] tok = ")" -> [depth EXCEPT !["("] = IF @ > 0 THEN @ - 1 ELSE 0]
                 [] tok = "}" -> [depth EXCEPT !["{"] = IF @ > 0 THEN @ - 1 ELSE 0]
                 [] tok = "]" -> [depth EXCEPT !["["] = IF @ > 0 THEN @ - 1 ELSE 0]
                 [] OTHER     -> depth
    IN  IF tok = "EOF" THEN [ok |-> FALSE, ix |-> ix + 1]
        ELSE IF \A o \in Openers : d[o] = 0 THEN [ok |-> TRUE, ix |-> ix + 1]
        ELSE LookaheadBalanced(s, ix + 1, d)

Balanced(s, ix) == LookaheadBalanced(s, ix, [o \in Openers |-> 0])

LookaheadBase(s, ix) ==
    LET base == SkipMut(s, ix)
        body == Balanced(s, base + 1)
    IN  CASE Peek(s, base) \in Idents -> [ok |-> TRUE, ix |-> SkipMut(s, base + 1)]
          [] Peek(s, base) = "struct" /\ Peek(s, base + 1) \in {"(", "{"} ->
                 IF body.ok THEN [ok |-> TRUE, ix |-> SkipMut(s, body.ix)] ELSE body
          [] OTHER -> [ok |-> FALSE,
                       ix |-> IF Peek(s, base) = "struct" THEN base + 1 ELSE base]

LookaheadSuffixes(s, ix) ==
    LET body == Balanced(s, ix)
    IN  CASE Peek(s, ix) \in {"&", "?"} -> LookaheadSuffixes(s, SkipMut(s, ix + 1))
          [] Peek(s, ix) = "[" ->
                 IF body.ok THEN LookaheadSuffixes(s, SkipMut(s, body.ix)) ELSE body
          [] OTHER -> [ok |-> TRUE, ix |-> ix]

LookaheadType(s, ix) ==
    LET base == LookaheadBase(s, ix)
    IN  IF base.ok THEN LookaheadSuffixes(s, base.ix) ELSE base

AfterStatic(s) == IF Cur(s) = "static" THEN 1 ELSE 0

IsTypeLiteral(s) ==
    LET l == LookaheadType(s, AfterStatic(s)) IN l.ok /\ Peek(s, l.ix) = "{"

(***************************************************************************)
(* Is what comes an expression for sure? The scan (parse-unr.c) looks for a *)
(* binary operator or a cast outside brackets, up to a semicolon or an      *)
(* unmatched closer: past commas, so into the arguments that follow.        *)
(***************************************************************************)
ScannedOps == {"as", "+", "-", "*", "/", "%", "&&", "||", "=>", "~>", "==", "!=",
               "<", ">", "<=", ">="}

IsBinaryOpOrCast(s, ix) ==
    \/ Peek(s, ix) \in ScannedOps
    \/ /\ Peek(s, ix) = "&"
       /\ Peek(s, ix + 1) \notin {"[", "&", "?", ";", ",", "]", "}", ")", "EOF"} \cup MutSpecs

RECURSIVE Scan(_, _, _)

Scan(s, ix, depth) ==
    LET tok == Peek(s, ix)
        own == CASE tok = ")" -> "(" [] tok = "]" -> "[" [] tok = "}" -> "{" [] OTHER -> ""
        top == \A o \in Openers : depth[o] = 0
    IN  CASE tok = "EOF" -> FALSE
          [] tok \in Openers -> Scan(s, ix + 1, [depth EXCEPT ![tok] = @ + 1])
          [] tok \in Closers -> depth[own] > 0 /\ Scan(s, ix + 1, [depth EXCEPT ![own] = @ - 1])
          [] tok = ";" -> ~top /\ Scan(s, ix + 1, depth)
          [] OTHER -> (top /\ IsBinaryOpOrCast(s, ix)) \/ Scan(s, ix + 1, depth)

IsComplexExpr(s) == Scan(s, 0, [o \in Openers |-> 0])

(***************************************************************************)
(* Expressions (parse-expr.c): the operators of each level, the weakest     *)
(* first. All of them are left associative.                                 *)
(***************************************************************************)
OptionalOps       == "??" :> "OPT_FB" @@ "?>" :> "OPT_MAP"
LogicalImpOps     == "=>" :> "IMP"
LogicalOrOps      == "||" :> "OR"
LogicalAndOps     == "&&" :> "AND"
BitwiseImpOps     == "~>" :> "BW_IMP"
BitwiseOrOps      == "|" :> "BW_OR"
BitwiseXorOps     == "<>" :> "BW_XOR"
BitwiseAndOps     == "&" :> "BW_AND"
EqualityOps       == "==" :> "EQ" @@ "!=" :> "NEQ"
RelationalOps     == "<" :> "LT" @@ "<=" :> "LTE" @@ ">" :> "GT" @@ ">=" :> "GTE"
ShiftOps          == "<<" :> "SHL" @@ ">>" :> "SHR"
AdditiveOps       == "+" :> "ADD" @@ "-" :> "SUB"
MultiplicativeOps == "*" :> "MUL" @@ "/" :> "DIV" @@ "%" :> "MOD"

Levels == <<OptionalOps, LogicalImpOps, LogicalOrOps, LogicalAndOps, BitwiseImpOps,
            BitwiseOrOps, BitwiseXorOps, BitwiseAndOps, EqualityOps, RelationalOps,
            ShiftOps, AdditiveOps, MultiplicativeOps>>

PrefixOps ==
    "+" :> "POS" @@ "-" :> "NEG" @@ "!" :> "NOT" @@ "~" :> "BW_NOT" @@ "++" :> "PRE_INC"
    @@ "--" :> "PRE_DEC" @@ "&" :> "ADDROF"

PostfixOps == "++" :> "POST_INC" @@ "--" :> "POST_DEC" @@ "^" :> "DEREF" @@ "!" :> "OPT_UNWRAP"

RECURSIVE Parse(_, _), ParseLevel(_, _), LevelRest(_, _, _), ParseCast(_), CastRest(_, _),
          ParseUnary(_), ContinuePostfixes(_, _), ParsePrimary(_), ParseArgs(_, _),
          TypeSuffixes(_, _), ListOf(_, _, _, _), Designators(_, _), ParseFields(_, _),
          BlockRest(_, _)

ParseExpr(s) == ParseLevel(1, s)

ParseLevel(lv, s) ==
    IF lv > Len(Levels) THEN ParseCast(s)
    ELSE OrNull(ParseLevel(lv + 1, s), LAMBDA x, u : LevelRest(lv, x, u))

\* The operators that follow the operand x. An error in a right operand ends
\* the chain, and what was read of it is the result.
LevelRest(lv, x, s) ==
    LET right == ParseLevel(lv + 1, Advance(s))
    IN  IF Cur(s) \notin DOMAIN Levels[lv] THEN Node(x, s)
        ELSE IF right.s.err THEN Node(x, Sync(right.s, "EXPR"))
        ELSE LevelRest(lv, Binary(Levels[lv][Cur(s)], x, right.n), right.s)

ParseCast(s) == OrNull(ParseUnary(s), LAMBDA x, u : CastRest(x, u))

CastRest(x, s) ==
    IF Cur(s) \notin {"as", "bitcast"} THEN Node(x, s)
    ELSE OrGone(Parse("type", Advance(s)), LAMBDA ty, u : CastRest(Cast(Cur(s), x, ty), u))

ParseUnary(s) ==
    IF Cur(s) \notin DOMAIN PrefixOps THEN Parse("postfix", s)
    ELSE OrNull(ParseUnary(Advance(s)), LAMBDA x, u : Node(Unary(PrefixOps[Cur(s)], x), u))

ParsePostfix(s) == OrNull(ParsePrimary(s), LAMBDA x, u : ContinuePostfixes(x, u))

ParseMember(x, opt, s) ==
    CASE Cur(s) \in Idents   -> Node(Member(x, Cur(s), opt), Advance(s))
      [] Cur(s) \in HugeInts -> Fail(Report(Advance(s)))
      [] Cur(s) \in Ints     -> Node(TMember(x, Cur(s), opt), Advance(s))
      [] OTHER               -> Fail(Report(s))

\* After an error the arguments go on at the comma, which is not consumed.
ParseArgs(s, args) ==
    LET arg == Parse("toi", s)
        u   == Sync(arg.s, "EXPR")
        all == Append(args, arg.n)
    IN  IF arg.s.err THEN IF Cur(u) = "," THEN ParseArgs(u, args) ELSE Node(args, u)
        ELSE IF Cur(arg.s) # "," THEN Node(all, arg.s)
        ELSE IF Peek(arg.s, 1) = ")" THEN Node(all, Advance(arg.s))
        ELSE ParseArgs(Advance(arg.s), all)

ParseCall(x, s) ==
    LET args == IF Cur(s) = ")" THEN Node(<<>>, s) ELSE ParseArgs(s, <<>>)
    IN  Node(Call(x, args.n), Closed(args.s, ")"))

ParseIndex(x, s) ==
    LET index == Parse("expr", s)
    IN  Node(Binary("INDEX", x, index.n),
             Closed(IF index.s.err THEN Sync(index.s, "EXPR") ELSE index.s, "]"))

ContinuePostfixes(x, s) ==
    LET tok  == Cur(s)
        u    == Advance(s)
        more == CASE tok \in DOMAIN PostfixOps -> Node(Unary(PostfixOps[tok], x), u)
                  [] tok = "("  -> ParseCall(x, u)
                  [] tok = "["  -> ParseIndex(x, u)
                  [] tok = "."  -> ParseMember(x, FALSE, u)
                  [] tok = "?." -> ParseMember(x, TRUE, u)
    IN  IF tok \in DOMAIN PostfixOps \cup {"(", "[", ".", "?."}
        THEN OrNull(more, LAMBDA y, v : ContinuePostfixes(y, v))
        ELSE Node(x, s)

RECURSIVE SkipStrings(_)

SkipStrings(s) == IF Cur(s) = "str" THEN SkipStrings(Advance(s)) ELSE s

ParsePrimary(s) ==
    LET static == Cur(s) = "static"
        ty     == Parse("type", IF static THEN Advance(s) ELSE s)
    IN  CASE IsTypeLiteral(s) ->
                 OrGone(Parse("init", ty.s), LAMBDA init, u :
                     Node(TypedInit(IF static THEN "static" ELSE "local", ty.n, init), u))
          [] Cur(s) \in Idents -> Node(Ident(Cur(s)), Advance(s))
          [] Cur(s) = "str" -> Node(Literal("str"), SkipStrings(s))
          [] Cur(s) \in Literals \ {"str"} -> Node(Literal(Cur(s)), Advance(s))
          [] Cur(s) = "(" ->
                 OrNull(Parse("expr", Advance(s)), LAMBDA x, u : Node(x, Closed(u, ")")))
          [] OTHER -> Fail(Advance(Report(s)))

(***************************************************************************)
(* Types (parse-type.c).                                                    *)
(***************************************************************************)
RECURSIVE MutSpec(_, _)

\* A second specifier is an error, and the first one stays.
MutSpec(mut, s) ==
    CASE Cur(s) \notin MutSpecs -> Node(mut, s)
      [] Cur(s) \in MutSpecs /\ mut = "" -> MutSpec(Cur(s), Advance(s))
      [] OTHER -> MutSpec(mut, Report(Advance(s)))

\* The items of a list in brackets, up to where no comma follows or the closer
\* stands behind one.
ListOf(rule, closer, s, items) ==
    LET item == Parse(rule, s)
        all  == Append(items, item.n)
    IN  IF item.n = Null THEN Node(items, item.s)
        ELSE IF Cur(item.s) # "," THEN Node(all, item.s)
        ELSE IF Peek(item.s, 1) = closer THEN Node(all, Advance(item.s))
        ELSE ListOf(rule, closer, Advance(item.s), all)

TypeMutAndSuffixes(ty, s) ==
    LET mut == MutSpec(ty.mut, s) IN TypeSuffixes([ty EXCEPT !.mut = mut.n], mut.s)

\* s stands at the parenthesis, at the brace.
ParseTupleType(mut, s) ==
    LET u     == Advance(s)
        elems == IF Cur(u) = ")" THEN Node(<<>>, u) ELSE ListOf("type", ")", u, <<>>)
    IN  TypeMutAndSuffixes(TypeTuple(mut, elems.n), Expect(elems.s, ")"))

ParseFields(s, fields) ==
    LET field == Parse("decl", s)
    IN  IF Cur(s) = "}" THEN Node(fields, s)
        ELSE IF field.n = Null THEN Node(fields, field.s)
        ELSE ParseFields(field.s, Append(fields, field.n))

ParseStructType(mut, s) ==
    LET fields == ParseFields(Advance(s), <<>>)
    IN  TypeMutAndSuffixes(TypeStruct(mut, fields.n), Expect(fields.s, "}"))

TypeSuffixes(ty, s) ==
    LET u        == Advance(s)
        raw      == Cur(u) = "&" /\ Peek(u, 1) = "]"
        suffix   == MutSpec("", u)
        slice    == MutSpec("", IF raw THEN Advance(Advance(u)) ELSE Advance(u))
        size     == Parse("expr", u)
        array    == MutSpec("", Expect(size.s, "]"))
    IN  CASE Cur(s) = "&" -> TypeSuffixes(TypeRef(suffix.n, ty), suffix.s)
          [] Cur(s) = "?" -> TypeSuffixes(TypeOpt(suffix.n, ty), suffix.s)
          [] Cur(s) = "[" /\ (raw \/ Cur(u) = "]") ->
                 TypeSuffixes(TypeSlice(slice.n, ty, raw), slice.s)
          [] Cur(s) = "[" /\ ~(raw \/ Cur(u) = "]") ->
                 TypeSuffixes(TypeArray(array.n, ty, size.n), array.s)
          [] OTHER -> Node(ty, s)

ParseType(s) ==
    LET mut == MutSpec("", s)
        u   == mut.s
    IN  CASE Cur(u) = "struct" /\ Peek(u, 1) = "(" -> ParseTupleType(mut.n, Advance(u))
          [] Cur(u) = "struct" /\ Peek(u, 1) = "{" -> ParseStructType(mut.n, Advance(u))
          [] Cur(u) = "struct" /\ Peek(u, 1) \notin {"(", "{"} -> Fail(Report(Advance(u)))
          [] Cur(u) \in Idents -> TypeMutAndSuffixes(TypeName(mut.n, Cur(u)), Advance(u))
          [] OTHER -> Fail(Report(u))

(***************************************************************************)
(* Initialisers (parse-init.c).                                             *)
(***************************************************************************)
DesignatorStart == {".", "["}

ParseDesignator(s) ==
    LET u     == Advance(s)
        index == Parse("expr", u)
    IN  IF Cur(s) = "[" THEN Node(DesigIndex(index.n), Expect(index.s, "]"))
        ELSE CASE Cur(u) \in Idents   -> Node(DesigMember(Cur(u)), Advance(u))
               [] Cur(u) \in HugeInts -> Fail(Report(Advance(u)))
               [] Cur(u) \in Ints \ HugeInts -> Node(DesigTMember(Cur(u)), Advance(u))
               [] OTHER               -> Fail(Advance(Report(u)))

Designators(s, desigs) ==
    LET d == ParseDesignator(s)
    IN  IF Cur(s) \notin DesignatorStart THEN Node(desigs, s)
        ELSE Designators(d.s, IF d.n = Null THEN desigs ELSE Append(desigs, d.n))

ParseDesigElem(s) ==
    LET desigs == Designators(s, <<>>)
        init   == Parse("init", Expect(desigs.s, "="))
    IN  Node(DesigElem(desigs.n, init.n), init.s)

ParseInit(s) ==
    LET u      == Advance(s)
        desigs == ListOf("desig", "}", u, <<>>)
        list   == ListOf("init", "}", u, <<>>)
    IN  CASE Cur(s) = "{" /\ Cur(u) = "}" -> Node(InitEmpty, Advance(u))
          [] Cur(s) = "{" /\ Cur(u) \in DesignatorStart ->
                 Node(DesigInit(desigs.n), Expect(desigs.s, "}"))
          [] Cur(s) = "{" /\ Cur(u) \notin DesignatorStart \cup {"}"} ->
                 Node(InitList(list.n), Expect(list.s, "}"))
          [] OTHER -> OrGone(Parse("expr", s), LAMBDA x, v : Node(InitExpr(x), v))

(***************************************************************************)
(* A type or an expression (parse-toe.c, parse-unr.c): after a name the     *)
(* suffixes decide, and if they do not the node stays unresolved.           *)
(***************************************************************************)
IsSliceBrackets(s) == Peek(s, 1) = "]" \/ (Peek(s, 1) = "&" /\ Peek(s, 2) = "]")

RECURSIVE AmbigSuffixes(_, _)

AmbigSuffixes(unr, s) ==
    LET index == Parse("expr", Advance(s))
        u     == Expect(index.s, "]")
        expr  == ContinuePostfixes(UnrAsExpr(unr), s)
    IN  CASE Cur(s) \in {"&", "?"} \cup MutSpecs \/ (Cur(s) = "[" /\ IsSliceBrackets(s)) ->
                 TypeMutAndSuffixes(UnrAsType(unr), s)
          [] Cur(s) = "[" /\ ~IsSliceBrackets(s) ->
                 AmbigSuffixes(IF u.err THEN unr ELSE UnrIndex(unr, index.n), u)
          [] Cur(s) \in {"++", "--", "(", "^", "."} ->
                 IF expr.n = Null THEN Node(unr, expr.s) ELSE expr
          [] OTHER -> Node(unr, s)

ParseAmbig(s) ==
    CASE IsTypeLiteral(s) -> Parse("postfix", s)
      [] ~IsTypeLiteral(s) /\ Cur(s) \in MutSpecs \cup {"struct"} -> Parse("type", s)
      [] ~IsTypeLiteral(s) /\ Cur(s) \in Idents -> AmbigSuffixes(UnrIdent(Cur(s)), Advance(s))
      [] OTHER -> Parse("expr", s)

\* Where _el_parse_ambig comes back with nothing, the node made of it reads
\* the span of a NULL expression.
ParseToe(s) ==
    LET ambig == ParseAmbig(s)
    IN  IF IsComplexExpr(s) THEN Parse("expr", s)
        ELSE IF IsTypeLiteral(s) THEN Parse("postfix", s)
        ELSE IF ambig.n = Null THEN Fail(Crash(ambig.s))
        ELSE ambig

ParseToi(s) ==
    IF Cur(s) = "{" THEN Parse("init", s)
    ELSE LET toe == Parse("toe", s) IN Node(ToiFromToe(toe.n), toe.s)

(***************************************************************************)
(* Statements (parse-stmt.c). s stands behind the keyword.                  *)
(***************************************************************************)
Terminated(n, s, tok) ==
    LET u == Expect(s, tok) IN IF u.err THEN Fail(u) ELSE Node(n, u)

ParseReturn(s) ==
    IF Cur(s) = ";" THEN Node(Return(Null), Advance(s))
    ELSE OrNull(Parse("init", s), LAMBDA value, u : Terminated(Return(value), u, ";"))

RECURSIVE HasSemicolons(_, _, _, _)

HasSemicolons(s, ix, n, depth) ==
    LET tok == Peek(s, ix)
    IN  CASE tok = "EOF" -> FALSE
          [] tok \in Openers -> HasSemicolons(s, ix + 1, n, depth + 1)
          [] tok \in Closers -> /\ ~(depth = 0 /\ tok = ")")
                                /\ HasSemicolons(s, ix + 1, n, IF depth > 0 THEN depth - 1 ELSE 0)
          [] tok = ";" /\ depth = 0 -> n = 1 \/ HasSemicolons(s, ix + 1, n - 1, depth)
          [] OTHER -> HasSemicolons(s, ix + 1, n, depth)

ParseInitStmt(s) ==
    IF ~HasSemicolons(s, 0, 1, 0) THEN Fail(s)
    ELSE IF Cur(s) = ";" THEN Fail(Advance(s))
    ELSE Parse("stmt", s)

\* ( [init-stmt] cond ), then F of both; an error before the closing
\* parenthesis skips the statement.
ParenInitCond(s, F(_, _, _)) ==
    LET open == Expect(s, "(")
        pre  == ParseInitStmt(open)
        cond == Parse("expr", pre.s)
    IN  IF open.err THEN Fail(Sync(open, "STMT"))
        ELSE IF pre.s.err THEN Fail(Sync(pre.s, "STMT"))
        ELSE IF cond.s.err THEN Fail(Sync(cond.s, "STMT"))
        ELSE F(pre.n, cond.n, Closed(cond.s, ")"))

ParseIf(s) ==
    ParenInitCond(s, LAMBDA pre, cond, u :
        OrNull(Parse("stmt", u), LAMBDA then, v :
            IF Cur(v) # "else" THEN Node(If(pre, cond, then, Null), v)
            ELSE OrNull(Parse("stmt", Advance(v)), LAMBDA else, w :
                     Node(If(pre, cond, then, else), w))))

ParseWhile(s) ==
    ParenInitCond(s, LAMBDA pre, cond, u :
        OrNull(Parse("stmt", u), LAMBDA body, v : Node(While(pre, cond, body, Null), v)))

CompoundOps ==
    "+=" :> "ADD" @@ "-=" :> "SUB" @@ "*=" :> "MUL" @@ "/=" :> "DIV" @@ "%=" :> "MOD"
    @@ "&=" :> "BW_AND" @@ "|=" :> "BW_OR" @@ "<>=" :> "BW_XOR" @@ "&&=" :> "AND"
    @@ "||=" :> "OR" @@ "=>=" :> "IMP" @@ "~>=" :> "BW_IMP" @@ "??=" :> "OPT_FB"
    @@ "<<=" :> "SHL" @@ ">>=" :> "SHR"

\* An expression or an assignment, up to terminator.
ParseStmtEx(s, terminator) ==
    OrGone(Parse("expr", s), LAMBDA x, u :
        CASE Cur(u) = "=" ->
                 OrGone(Parse("init", Advance(u)), LAMBDA value, v :
                     Terminated(Assign(x, value), v, terminator))
          [] Cur(u) \in DOMAIN CompoundOps ->
                 OrGone(Parse("init", Advance(u)), LAMBDA value, v :
                     Terminated(CAssign(CompoundOps[Cur(u)], x, value), v, terminator))
          [] OTHER -> Terminated(ExprStmt(x), u, terminator))

ParseFor(s) ==
    LET open == Expect(s, "(")
        pre  == IF HasSemicolons(open, 0, 2, 0) THEN ParseInitStmt(open) ELSE Fail(open)
        cond == Parse("expr", pre.s)
        semi == Expect(cond.s, ";")
    IN  IF open.err THEN Fail(open)
        ELSE IF pre.s.err THEN Fail(pre.s)
        ELSE IF cond.s.err THEN Fail(cond.s)
        ELSE IF semi.err THEN Fail(semi)
        ELSE IF Cur(semi) = ")" THEN Fail(Parse("stmt", Advance(Report(semi))).s)
        ELSE OrNull(ParseStmtEx(semi, ")"), LAMBDA post, u :
                 OrNull(Parse("stmt", u), LAMBDA body, v :
                     Node(While(pre.n, cond.n, body, post), v)))

\* An error skips to the end of the statement, and the block goes on.
BlockRest(s, stmts) ==
    LET stmt == Parse("stmt", s)
    IN  IF Cur(s) \in {"}", "EOF"} THEN Node(stmts, Expect(s, "}"))
        ELSE IF stmt.s.err THEN BlockRest(Sync(stmt.s, "STMT"), stmts)
        ELSE BlockRest(stmt.s, IF stmt.n = Null THEN stmts ELSE Append(stmts, stmt.n))

ParseBlock(s) == LET block == BlockRest(s, <<>>) IN Node(Block(block.n), block.s)

IsDecl(s) ==
    LET l == LookaheadType(s, 0)
    IN  Cur(s) \in {"extern", "static", "alias", "typedef"} \/ (l.ok /\ Peek(s, l.ix) \in Idents)

ParseStmt(s) ==
    LET u == Advance(s)
    IN  CASE Cur(s) = "return"   -> ParseReturn(u)
          [] Cur(s) = "if"       -> ParseIf(u)
          [] Cur(s) = "while"    -> ParseWhile(u)
          [] Cur(s) = "for"      -> ParseFor(u)
          [] Cur(s) = "{"        -> ParseBlock(u)
          [] Cur(s) = "break"    -> Node(Break, Expect(u, ";"))
          [] Cur(s) = "continue" -> Node(Continue, Expect(u, ";"))
          [] OTHER -> IF IsDecl(s) THEN OrGone(Parse("decl", s), LAMBDA d, v : Node(DeclStmt(d), v))
                      ELSE ParseStmtEx(s, ";")

(***************************************************************************)
(* Declarations (parse-decl.c).                                             *)
(***************************************************************************)
RECURSIVE ParseParams(_, _), ParseDeclarators(_, _, _), AliasRest(_, _), TypedefRest(_, _)

ParseParams(s, params) ==
    LET ty   == Parse("type", s)
        u    == Advance(ty.s)
        more == Append(params, Param(ty.n, Cur(ty.s)))
    IN  IF Cur(s) \in {")", "EOF"} THEN Node(params, s)
        ELSE IF ty.n = Null THEN Node(params, SkipTo(ty.s, ")"))
        ELSE IF Cur(ty.s) \notin Idents THEN Node(params, SkipTo(Report(ty.s), ")"))
        ELSE IF Cur(u) = "," THEN ParseParams(Advance(u), more)
        ELSE Node(more, IF Cur(u) = ")" THEN u ELSE Report(u))

ParseSig(s) ==
    OrGone(Parse("type", s), LAMBDA ret, u :
        LET open   == Expect(Advance(u), "(")
            params == ParseParams(open, <<>>)
        IN  IF Cur(u) \notin Idents THEN Fail(Report(u))
            ELSE IF open.err THEN Fail(open)
            ELSE IF params.s.err THEN Fail(params.s)
            ELSE Terminated(Sig(ret, Cur(u), params.n), params.s, ")"))

\* if (node == NULL) return el_parser_sync(parser, EL_PARSER_SYNC_DECL);
OrSync(r, F(_, _)) == IF r.n = Null THEN Fail(Sync(r.s, "DECL")) ELSE F(r.n, r.s)

ParseFuncDecl(s) ==
    OrSync(ParseSig(s), LAMBDA sig, u :
        IF Cur(u) = "{" THEN LET body == BlockRest(Advance(u), <<>>) IN Node(FuncDef(sig, body.n), body.s)
        ELSE Node(FuncDecl(sig), Expect(u, ";")))

\* [ok, n, s]; an initialiser that is not allowed is reported, read and left out.
ParseDeclarators(s, allowInit, ds) ==
    LET u       == Advance(s)
        hasInit == Cur(u) = "="
        init    == IF hasInit THEN Parse("init", Advance(IF allowInit THEN u ELSE Report(u)))
                   ELSE Fail(u)
        all     == Append(ds, Declarator(Cur(s), IF allowInit THEN init.n ELSE Null))
    IN  IF Cur(s) \notin Idents THEN [ok |-> FALSE, n |-> ds, s |-> Report(s)]
        ELSE IF hasInit /\ init.n = Null THEN [ok |-> FALSE, n |-> ds, s |-> init.s]
        ELSE IF Cur(init.s) = "," THEN ParseDeclarators(Advance(init.s), allowInit, all)
        ELSE [ok |-> TRUE, n |-> all, s |-> init.s]

ParseVarDecl(s) ==
    LET static == Cur(s) = "static"
    IN  OrSync(Parse("type", IF static THEN Advance(s) ELSE s), LAMBDA ty, u :
            LET ds == ParseDeclarators(u, TRUE, <<>>)
            IN  IF ~ds.ok THEN Fail(Sync(ds.s, "DECL"))
                ELSE Node(VarDef(ty, ds.n, static), Expect(ds.s, ";")))

ReportIncompleteDecl(s, ix) ==
    IF Peek(s, ix) \notin Idents THEN Fail(Sync(Parse("type", Report(s)).s, "DECL"))
    ELSE IF Cur(s) \in Idents THEN Fail(Sync(Advance(s), "DECL"))
    ELSE Fail(Sync(Report(s), "DECL"))

\* s stands behind extern.
ParseExternDecl(s) ==
    LET l == LookaheadType(s, 0)
    IN  IF ~l.ok \/ Peek(s, l.ix) \notin Idents THEN ReportIncompleteDecl(s, l.ix)
        ELSE IF Peek(s, l.ix + 1) = "("
        THEN OrSync(ParseSig(s), LAMBDA sig, u :
                 IF Cur(u) = "{" THEN Fail(SkipBalancedBraces(Report(u), 0))
                 ELSE Node(FuncDecl(sig), Expect(u, ";")))
        ELSE OrSync(Parse("type", s), LAMBDA ty, u :
                 LET ds == ParseDeclarators(u, FALSE, <<>>)
                 IN  IF ~ds.ok THEN Fail(Sync(ds.s, "DECL"))
                     ELSE Node(VarDecl(ty, ds.n), Expect(ds.s, ";")))

\* if (el_parser_has_errs(parser)) return el_parser_sync(parser, EL_PARSER_SYNC_DECL);
SyncOrElse(s, F(_)) == IF s.err THEN Fail(Sync(s, "DECL")) ELSE F(s)

ListEnd(n, s) == SyncOrElse(Expect(s, ";"), LAMBDA u : Node(n, u))

AliasRest(s, elems) ==
    SyncOrElse(ExpectIdent(s), LAMBDA u :
        SyncOrElse(Expect(u, "="), LAMBDA v :
            OrSync(Parse("toe", v), LAMBDA target, w :
                LET all == Append(elems, AliasElem(Cur(s), target))
                IN  IF Cur(w) = "," THEN AliasRest(Advance(w), all) ELSE ListEnd(Alias(all), w))))

TypedefRest(s, elems) ==
    SyncOrElse(ExpectIdent(s), LAMBDA u :
        LET target == Parse("type", Advance(u))
            v      == IF Cur(u) = "as" THEN target ELSE Fail(u)
            all    == Append(elems, TypedefElem(Cur(s), v.n))
        IN  IF Cur(u) = "as" /\ target.n = Null THEN Fail(Sync(target.s, "DECL"))
            ELSE IF Cur(v.s) = "," THEN TypedefRest(Advance(v.s), all)
            ELSE ListEnd(Typedef(all), v.s))

ParseInternalDecl(s) ==
    LET l == LookaheadType(s, AfterStatic(s))
    IN  CASE Cur(s) = "alias"   -> AliasRest(Advance(s), <<>>)
          [] Cur(s) = "typedef" -> TypedefRest(Advance(s), <<>>)
          [] OTHER -> IF ~l.ok \/ Peek(s, l.ix) \notin Idents THEN ReportIncompleteDecl(s, l.ix)
                      ELSE IF Peek(s, l.ix + 1) = "(" THEN ParseFuncDecl(s)
                      ELSE ParseVarDecl(s)

ParseDecl(s) ==
    IF Cur(s) = "extern" THEN ParseExternDecl(Advance(s)) ELSE ParseInternalDecl(s)

\* The rules that are used inside each other.
Parse(rule, s) ==
    CASE rule = "expr"    -> ParseExpr(s)
      [] rule = "postfix" -> ParsePostfix(s)
      [] rule = "type"    -> ParseType(s)
      [] rule = "init"    -> ParseInit(s)
      [] rule = "desig"   -> ParseDesigElem(s)
      [] rule = "toe"     -> ParseToe(s)
      [] rule = "toi"     -> ParseToi(s)
      [] rule = "stmt"    -> ParseStmt(s)
      [] rule = "decl"    -> ParseDecl(s)

============================================================================
