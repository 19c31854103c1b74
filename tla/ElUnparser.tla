---------------------------- MODULE ElUnparser -----------------------------
(***************************************************************************)
(* The unparser (src/elash/unparser): the tokens a tree is written as. A    *)
(* token is the string that its lexeme is, as for the parser.               *)
(***************************************************************************)
EXTENDS ElAst

\* Where the code calls EL_UNREACHABLE: the program ends there.
Unreachable == <<"unreachable">>

CommaList(items) ==
    FlattenSeq([i \in DOMAIN items |-> IF i = 1 THEN items[i] ELSE <<",">> \o items[i]])

Each(nodes, F(_)) == [i \in DOMAIN nodes |-> F(nodes[i])]

(***************************************************************************)
(* Precedences (unparse-expr.c); the names are the code's without PREC_.    *)
(***************************************************************************)
BinOpPrec ==
    "OPT_FB" :> 1 @@ "OPT_MAP" :> 1 @@ "IMP" :> 2 @@ "OR" :> 3 @@ "AND" :> 4 @@ "BW_IMP" :> 5
    @@ "BW_OR" :> 6 @@ "BW_XOR" :> 7 @@ "BW_AND" :> 8 @@ "EQ" :> 9 @@ "NEQ" :> 9 @@ "LT" :> 10
    @@ "LTE" :> 10 @@ "GT" :> 10 @@ "GTE" :> 10 @@ "SHL" :> 11 @@ "SHR" :> 11 @@ "ADD" :> 12
    @@ "SUB" :> 12 @@ "MUL" :> 13 @@ "DIV" :> 13 @@ "MOD" :> 13 @@ "INDEX" :> 16

PrecCast    == 14
PrecUnary   == 15
PrecPostfix == 16
PrecPrimary == 17

BinOpToken ==
    "ADD" :> "+" @@ "SUB" :> "-" @@ "MUL" :> "*" @@ "DIV" :> "/" @@ "MOD" :> "%" @@ "EQ" :> "=="
    @@ "NEQ" :> "!=" @@ "LT" :> "<" @@ "LTE" :> "<=" @@ "GT" :> ">" @@ "GTE" :> ">="
    @@ "AND" :> "&&" @@ "OR" :> "||" @@ "IMP" :> "=>" @@ "OPT_FB" :> "??" @@ "OPT_MAP" :> "?>"
    @@ "BW_AND" :> "&" @@ "BW_OR" :> "|" @@ "BW_XOR" :> "<>" @@ "BW_IMP" :> "~>"
    @@ "SHL" :> "<<" @@ "SHR" :> ">>"

PostfixToken == "POST_INC" :> "++" @@ "POST_DEC" :> "--" @@ "DEREF" :> "^" @@ "OPT_UNWRAP" :> "!"

PrefixToken ==
    "POS" :> "+" @@ "NEG" :> "-" @@ "NOT" :> "!" @@ "BW_NOT" :> "~" @@ "ADDROF" :> "&"
    @@ "PRE_INC" :> "++" @@ "PRE_DEC" :> "--"

ExprPrec(x) ==
    CASE x.k = "binary" -> BinOpPrec[x.op]
      [] x.k = "unary"  -> IF x.op \in DOMAIN PostfixToken THEN PrecPostfix ELSE PrecUnary
      [] x.k = "cast"   -> PrecCast
      [] x.k \in {"call", "member", "tmember"} -> PrecPostfix
      [] x.k \in {"literal", "ident", "typedinit"} -> PrecPrimary

RECURSIVE UnparseExpr(_), UnparseType(_), UnparseInit(_), UnparseToi(_), UnparseStmt(_),
          UnparseDecl(_), UnparseUnr(_)


UnparseChild(x, prec, right) ==
    LET own == ExprPrec(x)
    IN  IF own < prec \/ (right /\ own = prec) THEN <<"(">> \o UnparseExpr(x) \o <<")">>
        ELSE UnparseExpr(x)

UnparseUnary(x) ==
    IF x.op \in DOMAIN PostfixToken
    THEN UnparseChild(x.x, ExprPrec(x), FALSE) \o <<PostfixToken[x.op]>>
    ELSE <<PrefixToken[x.op]>> \o UnparseChild(x.x, ExprPrec(x), TRUE)

UnparseBinary(x) ==
    LET prec == BinOpPrec[x.op]
    IN  IF x.op = "INDEX"
        THEN UnparseChild(x.l, prec, FALSE) \o <<"[">> \o UnparseExpr(x.r) \o <<"]">>
        ELSE UnparseChild(x.l, prec, FALSE) \o <<BinOpToken[x.op]>> \o UnparseChild(x.r, prec, TRUE)

UnparseCall(x) ==
    UnparseChild(x.x, PrecPostfix, FALSE) \o <<"(">> \o CommaList(Each(x.args, UnparseToi)) \o <<")">>

\* Every cast is written as, and every member access with a dot.
UnparseCast(x) == UnparseChild(x.x, PrecCast, FALSE) \o <<"as">> \o UnparseType(x.ty)

UnparseMember(x) == UnparseChild(x.x, PrecPostfix, FALSE) \o <<".", x.name>>

UnparseTMember(x) == UnparseChild(x.x, PrecPostfix, FALSE) \o <<".", x.ix>>

UnparseTypedInit(x) ==
    (IF x.scls = "static" THEN <<"static">> ELSE <<>>) \o UnparseType(x.ty) \o UnparseInit(x.init)

UnparseExpr(x) ==
    CASE x.k = "literal"   -> <<x.v>>
      [] x.k = "ident"     -> <<x.name>>
      [] x.k = "unary"     -> UnparseUnary(x)
      [] x.k = "binary"    -> UnparseBinary(x)
      [] x.k = "call"      -> UnparseCall(x)
      [] x.k = "cast"      -> UnparseCast(x)
      [] x.k = "member"    -> UnparseMember(x)
      [] x.k = "tmember"   -> UnparseTMember(x)
      [] x.k = "typedinit" -> UnparseTypedInit(x)

(***************************************************************************)
(* Types (unparse-type.c): the suffixes are peeled off the base and put     *)
(* behind it again, the specifier of the base in front.                     *)
(***************************************************************************)
UnparseMutSpec(mut) == IF mut = "" THEN <<>> ELSE <<mut>>

UnparseTypeBase(ty) ==
    UnparseMutSpec(ty.mut) \o
    CASE ty.k = "name"   -> <<ty.name>>
      [] ty.k = "struct" -> <<"struct", "{">> \o FlattenSeq(Each(ty.fields, UnparseDecl)) \o <<"}">>
      [] ty.k = "tuple"  -> <<"struct", "(">> \o CommaList(Each(ty.elems, UnparseType)) \o <<")">>

UnparseSuffix(ty) ==
    CASE ty.k = "ref"   -> <<"&">>
      [] ty.k = "opt"   -> <<"?">>
      [] ty.k = "slice" -> IF ty.raw THEN <<"[", "&", "]">> ELSE <<"[", "]">>
      [] ty.k = "array" -> <<"[">> \o UnparseExpr(ty.size) \o <<"]">>

UnparseType(ty) ==
    IF ty.k \in {"ref", "opt", "slice", "array"}
    THEN UnparseType(ty.base) \o UnparseSuffix(ty) \o UnparseMutSpec(ty.mut)
    ELSE UnparseTypeBase(ty)

UnparseUnr(unr) ==
    IF unr.k = "unr_ident" THEN <<unr.name>>
    ELSE UnparseUnr(unr.base) \o <<"[">> \o UnparseExpr(unr.index) \o <<"]">>

(***************************************************************************)
(* Initialisers, and what may be a type or something else (unparse-init.c,  *)
(* unparse-toe.c, unparse-toi.c).                                           *)
(***************************************************************************)
UnparseDesignator(d) ==
    CASE d.k = "d_member"  -> <<".", d.name>>
      [] d.k = "d_tmember" -> <<".", d.ix>>
      [] d.k = "d_index"   -> <<"[">> \o UnparseExpr(d.index) \o <<"]">>

UnparseDesigElem(e) ==
    FlattenSeq(Each(e.desigs, UnparseDesignator)) \o <<"=">> \o UnparseInit(e.init)

UnparseInit(init) ==
    CASE init.k = "init_expr"  -> UnparseExpr(init.x)
      [] init.k = "init_empty" -> <<"{", "}">>
      [] init.k = "init_list"  -> <<"{">> \o CommaList(Each(init.elems, UnparseInit)) \o <<"}">>
      [] init.k = "init_desig" -> <<"{">> \o CommaList(Each(init.elems, UnparseDesigElem)) \o <<"}">>

UnparseToe(toe) ==
    CASE toe.k \in TypeKinds -> UnparseType(toe)
      [] toe.k \in UnrKinds  -> UnparseUnr(toe)
      [] OTHER               -> UnparseExpr(toe)

UnparseToi(toi) ==
    CASE toi.k \in TypeKinds -> UnparseType(toi)
      [] toi.k \in UnrKinds  -> UnparseUnr(toi)
      [] OTHER               -> UnparseInit(toi)

(***************************************************************************)
(* Statements and declarations (unparse-stmt.c, unparse-decl.c).            *)
(***************************************************************************)
\* There is no case for ??=.
CAssignToken ==
    "ADD" :> "+=" @@ "SUB" :> "-=" @@ "MUL" :> "*=" @@ "DIV" :> "/=" @@ "MOD" :> "%="
    @@ "BW_AND" :> "&=" @@ "BW_OR" :> "|=" @@ "BW_XOR" :> "<>=" @@ "AND" :> "&&="
    @@ "OR" :> "||=" @@ "IMP" :> "=>=" @@ "BW_IMP" :> "~>=" @@ "SHL" :> "<<=" @@ "SHR" :> ">>="

Optionally(n, F(_)) == IF n = Null THEN <<>> ELSE F(n)

UnparseBlock(stmts) == <<"{">> \o FlattenSeq(Each(stmts, UnparseStmt)) \o <<"}">>

\* A for is written as the while it was parsed into, its last part left out.
UnparseStmt(stmt) ==
    CASE stmt.k = "expr_stmt" -> UnparseExpr(stmt.x) \o <<";">>
      [] stmt.k = "return"    -> <<"return">> \o Optionally(stmt.value, UnparseInit) \o <<";">>
      [] stmt.k = "decl_stmt" -> UnparseDecl(stmt.d)
      [] stmt.k = "assign"    -> UnparseExpr(stmt.target) \o <<"=">> \o UnparseInit(stmt.value) \o <<";">>
      [] stmt.k = "cassign"   ->
             IF stmt.op \notin DOMAIN CAssignToken THEN Unreachable
             ELSE UnparseExpr(stmt.target) \o <<CAssignToken[stmt.op]>> \o UnparseInit(stmt.value) \o <<";">>
      [] stmt.k = "block"     -> UnparseBlock(stmt.stmts)
      [] stmt.k = "if"        ->
             <<"if", "(">> \o Optionally(stmt.pre, UnparseStmt) \o UnparseExpr(stmt.cond) \o <<")">>
             \o UnparseStmt(stmt.then)
             \o Optionally(stmt.else, LAMBDA else : <<"else">> \o UnparseStmt(else))
      [] stmt.k = "while"     ->
             <<"while", "(">> \o Optionally(stmt.pre, UnparseStmt) \o UnparseExpr(stmt.cond) \o <<")">>
             \o UnparseStmt(stmt.do)
      [] stmt.k \in {"break", "continue"} -> <<stmt.k, ";">>

UnparseParam(param) == UnparseType(param.ty) \o <<param.name>>

UnparseFuncSig(sig) ==
    UnparseType(sig.ret) \o <<sig.name, "(">> \o CommaList(Each(sig.params, UnparseParam)) \o <<")">>

UnparseDeclarator(d) ==
    <<d.name>> \o Optionally(d.init, LAMBDA init : <<"=">> \o UnparseInit(init))

UnparseVarDef(d) ==
    (IF d.static THEN <<"static">> ELSE <<>>) \o UnparseType(d.ty)
    \o CommaList(Each(d.ds, UnparseDeclarator)) \o <<";">>

UnparseVarDecl(d) ==
    <<"extern">> \o UnparseType(d.ty) \o CommaList(Each(d.ds, LAMBDA e : <<e.name>>)) \o <<";">>

UnparseAliasElem(e) == <<e.name, "=">> \o UnparseToe(e.target)

UnparseTypedefElem(e) ==
    <<e.name>> \o Optionally(e.target, LAMBDA ty : <<"as">> \o UnparseType(ty))

UnparseDecl(d) ==
    CASE d.k = "var_def"   -> UnparseVarDef(d)
      [] d.k = "var_decl"  -> UnparseVarDecl(d)
      [] d.k = "func_def"  -> UnparseFuncSig(d.sig) \o UnparseBlock(d.stmts)
      [] d.k = "func_decl" -> UnparseFuncSig(d.sig) \o <<";">>
      [] d.k = "alias"     -> <<"alias">> \o CommaList(Each(d.elems, UnparseAliasElem)) \o <<";">>
      [] d.k = "typedef"   -> <<"typedef">> \o CommaList(Each(d.elems, UnparseTypedefElem)) \o <<";">>

UnparseModule(decls) == FlattenSeq(Each(decls, UnparseDecl))

============================================================================
