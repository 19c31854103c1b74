------------------------------- MODULE ElAst -------------------------------
(***************************************************************************)
(* The syntax tree (src/elash/ast): one constructor per kind of node, what  *)
(* the comparison of two trees looks at, and the order in which the parts   *)
(* of a node stand in the source.                                           *)
(*                                                                         *)
(* A node is a record whose field k is its kind. A list of nodes, chained   *)
(* by next pointers in C, is a sequence. Spans and arenas are left out. A   *)
(* tree that is a type, an expression or either (ElAstToE) is the node      *)
(* itself: its kind says which of the three it is; an ElAstToI likewise.    *)
(***************************************************************************)
EXTENDS Naturals, Sequences, SequencesExt, TLC

Null == [k |-> "null"]

\* Expressions.
Ident(name)             == [k |-> "ident", name |-> name]
Literal(v)              == [k |-> "literal", v |-> v]
Unary(op, x)            == [k |-> "unary", op |-> op, x |-> x]
Binary(op, l, r)        == [k |-> "binary", op |-> op, l |-> l, r |-> r]
Call(x, args)           == [k |-> "call", x |-> x, args |-> args]
Cast(kind, x, ty)       == [k |-> "cast", kind |-> kind, x |-> x, ty |-> ty]
Member(x, name, opt)    == [k |-> "member", x |-> x, name |-> name, opt |-> opt]
TMember(x, ix, opt)     == [k |-> "tmember", x |-> x, ix |-> ix, opt |-> opt]
TypedInit(scls, ty, init) == [k |-> "typedinit", scls |-> scls, ty |-> ty, init |-> init]

\* Types. mut is "", "const" or "wonly".
TypeName(mut, name)     == [k |-> "name", mut |-> mut, name |-> name]
TypeStruct(mut, fields) == [k |-> "struct", mut |-> mut, fields |-> fields]
TypeTuple(mut, elems)   == [k |-> "tuple", mut |-> mut, elems |-> elems]
TypeRef(mut, base)      == [k |-> "ref", mut |-> mut, base |-> base]
TypeOpt(mut, base)      == [k |-> "opt", mut |-> mut, base |-> base]
TypeArray(mut, base, size) == [k |-> "array", mut |-> mut, base |-> base, size |-> size]
TypeSlice(mut, base, raw)  == [k |-> "slice", mut |-> mut, base |-> base, raw |-> raw]

TypeKinds == {"name", "struct", "tuple", "ref", "opt", "array", "slice"}

\* What may still turn out to be a type or an expression: X, X[1].
UnrIdent(name)          == [k |-> "unr_ident", name |-> name]
UnrIndex(base, index)   == [k |-> "unr_index", base |-> base, index |-> index]

UnrKinds == {"unr_ident", "unr_index"}

RECURSIVE UnrAsType(_), UnrAsExpr(_)

UnrAsType(u) ==
    IF u.k = "unr_ident" THEN TypeName("", u.name)
    ELSE TypeArray("", UnrAsType(u.base), u.index)

UnrAsExpr(u) ==
    IF u.k = "unr_ident" THEN Ident(u.name)
    ELSE Binary("INDEX", UnrAsExpr(u.base), u.index)

\* Initialisers and designators.
InitExpr(x)             == [k |-> "init_expr", x |-> x]
InitEmpty               == [k |-> "init_empty"]
InitList(elems)         == [k |-> "init_list", elems |-> elems]
DesigInit(elems)        == [k |-> "init_desig", elems |-> elems]
DesigElem(desigs, init) == [k |-> "desig_elem", desigs |-> desigs, init |-> init]
DesigMember(name)       == [k |-> "d_member", name |-> name]
DesigTMember(ix)        == [k |-> "d_tmember", ix |-> ix]
DesigIndex(index)       == [k |-> "d_index", index |-> index]

\* Statements.
ExprStmt(x)             == [k |-> "expr_stmt", x |-> x]
DeclStmt(d)             == [k |-> "decl_stmt", d |-> d]
Return(value)           == [k |-> "return", value |-> value]
Assign(target, value)   == [k |-> "assign", target |-> target, value |-> value]
CAssign(op, target, value) == [k |-> "cassign", op |-> op, target |-> target, value |-> value]
Block(stmts)            == [k |-> "block", stmts |-> stmts]
If(pre, cond, then, else) == [k |-> "if", pre |-> pre, cond |-> cond, then |-> then, else |-> else]
While(pre, cond, do, post) == [k |-> "while", pre |-> pre, cond |-> cond, do |-> do, post |-> post]
Break                   == [k |-> "break"]
Continue                == [k |-> "continue"]

\* Declarations.
VarDef(ty, ds, static)  == [k |-> "var_def", ty |-> ty, ds |-> ds, static |-> static]
VarDecl(ty, ds)         == [k |-> "var_decl", ty |-> ty, ds |-> ds]
FuncDef(sig, stmts)     == [k |-> "func_def", sig |-> sig, stmts |-> stmts]
FuncDecl(sig)           == [k |-> "func_decl", sig |-> sig]
Alias(elems)            == [k |-> "alias", elems |-> elems]
Typedef(elems)          == [k |-> "typedef", elems |-> elems]
AliasElem(name, target) == [k |-> "alias_elem", name |-> name, target |-> target]
TypedefElem(name, target) == [k |-> "typedef_elem", name |-> name, target |-> target]
Declarator(name, init)  == [k |-> "declarator", name |-> name, init |-> init]
Param(ty, name)         == [k |-> "param", ty |-> ty, name |-> name]
Sig(ret, name, params)  == [k |-> "sig", ret |-> ret, name |-> name, params |-> params]

\* An expression or a type given as an argument: an expression becomes an
\* initialiser.
ToiFromToe(toe) ==
    IF toe = Null \/ toe.k \in TypeKinds \cup UnrKinds THEN toe ELSE InitExpr(toe)

(***************************************************************************)
(* Comparing trees (equal.c): for each kind of node, the fields that have   *)
(* to agree.                                                                *)
(***************************************************************************)
ComparedExpr ==
    "binary" :> {"l", "op", "r"} @@ "unary" :> {"op", "x"} @@ "literal" :> {"v"}
    @@ "typedinit" :> {"scls", "ty", "init"} @@ "ident" :> {"name"} @@ "call" :> {"x", "args"}
    @@ "cast" :> {"x", "ty"} @@ "member" :> {"x", "name"} @@ "tmember" :> {"x", "ix"}

ComparedType ==
    "struct" :> {"mut", "fields"} @@ "tuple" :> {"mut", "elems"} @@ "name" :> {"mut", "name"}
    @@ "ref" :> {"mut", "base"} @@ "opt" :> {"mut", "base"} @@ "array" :> {"mut", "base", "size"}
    @@ "slice" :> {"mut", "base", "raw"}

ComparedParts ==
    "param" :> {"ty", "name"} @@ "sig" :> {"ret", "name", "params"}
    @@ "declarator" :> {"name", "init"} @@ "typedef_elem" :> {"name", "target"}
    @@ "alias_elem" :> {"name", "target"}

ComparedDecl ==
    "alias" :> {"elems"} @@ "typedef" :> {"elems"} @@ "var_def" :> {"static", "ty", "ds"}
    @@ "var_decl" :> {"ty", "ds"} @@ "func_def" :> {"sig", "stmts"} @@ "func_decl" :> {"sig"}

ComparedStmt ==
    "expr_stmt" :> {"x"} @@ "return" :> {"value"} @@ "decl_stmt" :> {"d"}
    @@ "assign" :> {"target", "value"} @@ "block" :> {"stmts"}
    @@ "cassign" :> {"op", "target", "value"} @@ "if" :> {"cond", "then", "else"}
    @@ "while" :> {"cond", "do"} @@ "break" :> {} @@ "continue" :> {}

ComparedInit ==
    "init_expr" :> {"x"} @@ "init_list" :> {"elems"} @@ "init_desig" :> {"elems"}
    @@ "init_empty" :> {} @@ "desig_elem" :> {"desigs", "init"}
    @@ "d_member" :> {"name"} @@ "d_tmember" :> {"ix"} @@ "d_index" :> {"index"}

ComparedUnr == "unr_ident" :> {"name"} @@ "unr_index" :> {"base", "index"}

Compared ==
    ComparedExpr @@ ComparedType @@ ComparedParts @@ ComparedDecl @@ ComparedStmt
    @@ ComparedInit @@ ComparedUnr @@ "null" :> {}

\* Which fields hold a list of nodes, and which no node.
ListFields == {"args", "fields", "elems", "desigs", "stmts", "ds", "params"}
LeafFields == {"name", "v", "ix", "op", "kind", "opt", "scls", "mut", "raw", "static"}

RECURSIVE Equal(_, _)

Equal(a, b) ==
    /\ a.k = b.k
    /\ \A f \in Compared[a.k] :
          CASE f \in LeafFields -> a[f] = b[f]
            [] f \in ListFields -> /\ Len(a[f]) = Len(b[f])
                                   /\ \A i \in DOMAIN a[f] : Equal(a[f][i], b[f][i])
            [] OTHER            -> Equal(a[f], b[f])

EqualModule(a, b) == Len(a) = Len(b) /\ \A i \in DOMAIN a : Equal(a[i], b[i])

(***************************************************************************)
(* The parts of a node in the order the source has them; operators and      *)
(* keywords left out.                                                       *)
(***************************************************************************)
Layout ==
    "ident" :> <<"name">> @@ "literal" :> <<"v">> @@ "unary" :> <<"x">> @@ "binary" :> <<"l", "r">>
    @@ "call" :> <<"x", "args">> @@ "cast" :> <<"x", "ty">> @@ "member" :> <<"x", "name">>
    @@ "tmember" :> <<"x", "ix">> @@ "typedinit" :> <<"ty", "init">>
    @@ "name" :> <<"name">> @@ "struct" :> <<"fields">> @@ "tuple" :> <<"elems">>
    @@ "ref" :> <<"base">> @@ "opt" :> <<"base">> @@ "array" :> <<"base", "size">>
    @@ "slice" :> <<"base">> @@ "unr_ident" :> <<"name">> @@ "unr_index" :> <<"base", "index">>
    @@ "init_expr" :> <<"x">> @@ "init_empty" :> <<>> @@ "init_list" :> <<"elems">>
    @@ "init_desig" :> <<"elems">> @@ "desig_elem" :> <<"desigs", "init">>
    @@ "d_member" :> <<"name">> @@ "d_tmember" :> <<"ix">> @@ "d_index" :> <<"index">>
    @@ "expr_stmt" :> <<"x">> @@ "decl_stmt" :> <<"d">> @@ "return" :> <<"value">>
    @@ "assign" :> <<"target", "value">> @@ "cassign" :> <<"target", "value">>
    @@ "block" :> <<"stmts">> @@ "if" :> <<"pre", "cond", "then", "else">>
    @@ "while" :> <<"pre", "cond", "post", "do">> @@ "break" :> <<>> @@ "continue" :> <<>>
    @@ "var_def" :> <<"ty", "ds">> @@ "var_decl" :> <<"ty", "ds">>
    @@ "func_def" :> <<"sig", "stmts">> @@ "func_decl" :> <<"sig">> @@ "alias" :> <<"elems">>
    @@ "typedef" :> <<"elems">> @@ "alias_elem" :> <<"name", "target">>
    @@ "typedef_elem" :> <<"name", "target">> @@ "declarator" :> <<"name", "init">>
    @@ "param" :> <<"ty", "name">> @@ "sig" :> <<"ret", "name", "params">> @@ "null" :> <<>>

RECURSIVE Leaves(_)

\* The names and literals of a tree, in the order of the source.
Leaves(n) ==
    FlattenSeq([i \in DOMAIN Layout[n.k] |->
        LET f == Layout[n.k][i]
        IN  CASE f \in LeafFields -> <<n[f]>>
              [] f \in ListFields -> FlattenSeq([j \in DOMAIN n[f] |-> Leaves(n[f][j])])
              [] OTHER            -> Leaves(n[f])])

============================================================================
