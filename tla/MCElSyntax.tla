----------------------------- MODULE MCElSyntax ----------------------------
EXTENDS ElSyntax

MCIdents   == {"x", "T"}
MCInts     == {"1", "huge"}
MCHugeInts == {"huge"}
MCLiterals == {"1", "huge", "str"}

(***************************************************************************)
(* Token sequences: up to four of the chunks between before and after.      *)
(***************************************************************************)
Filled(before, chunks, after) ==
    LET some == chunks \cup {<<>>}
    IN  {before \o a \o b \o c \o d \o after : a \in some, b \in some, c \in some, d \in some}
Single(toks) == {<<tok>> : tok \in toks}

InExpr == Filled(<<"x", "x", "=">>,
    Single({"x", "1", "+", "&", "!", "(", ")", "as", "[", "]", "{", "}"}), <<";">>)
InType == Filled(<<>>,
    Single({"x", "const", "&", "?", "[", "]", "struct", "(", ")", "{", "}", "1"}), <<"x", ";">>)
InBlock == Filled(<<"T", "x", "(", ")", "{">>,
    {<<"x", ";">>, <<"if", "(", "x", ")">>, <<"else">>, <<"{">>, <<"}">>, <<"T", "x">>, <<"=", "1", ";">>,
     <<"for", "(", "x", ";", "x", ";", "x", "=", "1", ")">>, <<"return">>,
     <<"while", "(", "T", "x", ";", "x", ")">>}, <<"}">>)
InModule == Filled(<<>>,
    {<<"T", "x">>, <<"(", "T", "x">>, <<")">>, <<"{", "}">>, <<";">>, <<",">>, <<"=", "1">>, <<"extern">>,
     <<"static">>, <<"alias">>, <<"typedef">>, <<"x">>, <<"as", "T">>}, <<>>)

MCSources == {InExpr, InType, InBlock, InModule}

(***************************************************************************)
(* Trees. An expression has every operator over every operator.             *)
(***************************************************************************)
BinOps   == {"OPT_FB", "IMP", "OR", "AND", "BW_IMP", "BW_OR", "BW_XOR", "BW_AND", "EQ", "LT", "SHL",
             "ADD", "SUB", "MUL", "INDEX"}
UnOps    == {"NEG", "ADDROF", "NOT", "POST_INC", "DEREF", "OPT_UNWRAP"}
T        == TypeName("", "T")

Leaf     == Ident("x")

\* Operators the scan over an argument looks for, & with an operand apart
ScannedBinOps == {op \in BinOps \ {"INDEX"} : BinOpToken[op] \in ScannedOps}

Over(xs) ==
         {Binary(op, x, Leaf) : op \in BinOps, x \in xs} \cup {Binary(op, Leaf, x) : op \in BinOps, x \in xs}
    \cup {Unary(op, x) : op \in UnOps, x \in xs}
    \cup {Cast("as", x, ty) : x \in xs, ty \in {T, TypeRef("", T)}}
    \cup {Call(x, <<>>) : x \in xs} \cup {Call(x, <<UnrIdent("x"), TypeRef("", T)>>) : x \in xs}
    \cup {Call(Leaf, <<InitExpr(Binary(op, x, Leaf)), TypeRef("", T)>>) : op \in ScannedBinOps, x \in xs}
    \cup {Member(x, "x", FALSE) : x \in xs} \cup {TMember(x, "1", FALSE) : x \in xs}
    \cup {TypedInit("static", T, InitList(<<InitExpr(x), InitEmpty>>)) : x \in xs}

RECURSIVE EndsInCast(_)
EndsInCast(x) ==
    \/ x.k = "cast"
    \/ x.k = "binary" /\ x.op # "INDEX" /\ EndsInCast(x.r)
    \/ x.k = "unary" /\ x.op \in DOMAIN PrefixToken /\ EndsInCast(x.x)

\* x as T & y is read as x as (T&) y: such trees are not reproduced.
Readable(x) == ~(x.k = "binary" /\ x.op = "BW_AND" /\ EndsInCast(x.l))

Exprs == {x \in Over({y \in Over({Leaf}) : Readable(y)}) : Readable(x)}

Suffixed(tys) ==
         {TypeRef(mut, ty) : mut \in {"", "wonly"}, ty \in tys}
    \cup {TypeOpt(mut, ty) : mut \in {"", "const"}, ty \in tys}
    \cup {TypeArray(mut, ty, Literal("1")) : mut \in {"", "const"}, ty \in tys}
    \cup {TypeSlice(mut, ty, raw) : mut \in {"", "wonly"}, ty \in tys, raw \in BOOLEAN}

Named    == {TypeName(mut, "T") : mut \in {"", "const"}}
Compound(tys) ==
         {TypeTuple(mut, <<ty, T>>) : mut \in {"", "wonly"}, ty \in tys}
    \cup {TypeStruct("const", <<VarDef(ty, <<Declarator("x", Null)>>, FALSE)>>) : ty \in tys}
Types    == LET some == Named \cup Compound(Named \cup Suffixed(Named))
            IN  some \cup Suffixed(some) \cup Suffixed(Suffixed(Named))

Simple == {ExprStmt(Call(Ident("x"), <<>>)), Return(Null), Return(InitExpr(Ident("x"))), Break,
           Assign(Ident("x"), InitEmpty), CAssign("IMP", Ident("x"), InitExpr(Literal("1"))), Block(<<>>)}
Prefix == {Null, ExprStmt(Call(Ident("x"), <<>>)),
           DeclStmt(VarDef(T, <<Declarator("x", InitExpr(Literal("1")))>>, TRUE))}
Nested(stmts) ==
         {Block(<<a, b>>) : a \in stmts, b \in Simple}
    \cup {If(pre, Ident("x"), a, Null) : pre \in Prefix, a \in stmts}
    \cup {If(Null, Ident("x"), Block(<<a>>), b) : a \in stmts, b \in Simple}
    \cup {While(pre, Ident("x"), a, Null) : pre \in Prefix, a \in stmts}
Stmts == Nested(Simple) \cup Nested({st \in Nested(Simple) : st.k # "block"})

MCTrees == {
    {<<VarDef(T, <<Declarator("x", InitExpr(x))>>, FALSE)>> : x \in Exprs},
    {<<FuncDecl(Sig(ty, "x", <<Param(ty, "x")>>))>> : ty \in Types},
    {<<FuncDef(Sig(T, "x", <<>>), <<st>>)>> : st \in Stmts},
    {<<Alias(<<AliasElem("x", a), AliasElem("T", UnrIdent("T"))>>)>> :
         a \in {TypeRef("", T), UnrIdent("x"), UnrIndex(UnrIdent("x"), Literal("1")), Literal("1"),
                Binary("ADD", Ident("x"), Literal("1"))}},
    {<<Typedef(<<TypedefElem("x", Null), TypedefElem("T", ty)>>), VarDecl(ty, <<Declarator("x", Null)>>)>> :
         ty \in Named \cup Suffixed(Named)}}

(***************************************************************************)
(* Sources with brackets that the unparser leaves out and the parser needs: *)
(* around an expression that is the only argument, or stands behind another *)
(* argument, and around a cast with an operator behind it.                  *)
(***************************************************************************)
Defining(toks) == <<"T", "x", "=">> \o toks \o <<";">>

Bracketed == {
    {Defining(<<"x", "(", "(", "x", op, "x", ")", ")">>) : op \in {"|", "<>", "<<", "??"}},
    {Defining(<<"x", "(">> \o first \o <<",", "(", "x", "+", "x", ")", ")">>) :
        first \in {<<"x">>, <<"T", "&">>}},
    {Defining(<<"(", "x", "as", "T", ")", "&", "(", "-", "x", ")">>)}}

NoTrees == {}
============================================================================
