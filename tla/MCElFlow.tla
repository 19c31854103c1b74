------------------------------ MODULE MCElFlow ------------------------------
(* The functions TLC compiles: bool functions of one parameter x that call    *)
(* f and g, and p, which is void.                                             *)
EXTENDS ElFlow

Sym(s)       == [kind |-> "sym", sym |-> s]
Lit(b)       == [kind |-> "const", val |-> b]
Not(e)       == [kind |-> "unary", operand |-> e]
Op(op, l, r) == [kind |-> "binary", op |-> op, left |-> l, right |-> r]
App(c, args) == [kind |-> "call", callee |-> c, args |-> args, void |-> c = "p"]

ExprStmt(e)       == [kind |-> "expr", expr |-> e]
Assign(s, e)      == [kind |-> "assign", target |-> s, value |-> e]
Cassign(op, s, e) == [kind |-> "cassign", op |-> op, target |-> s, value |-> e]
Decl(s, e)        == [kind |-> "decl", sym |-> s, init |-> e]
Return(e)         == [kind |-> "return", value |-> e]
Break             == [kind |-> "break"]
Continue          == [kind |-> "continue"]
Block(stmts)      == [kind |-> "block", stmts |-> stmts]
If(init, c, t, e) == [kind |-> "if", init |-> init, cond |-> c, then |-> t, else |-> e]
While(init, c, b) == [kind |-> "while", init |-> init, cond |-> c, body |-> b, post |-> None]
For(c, post, b)   == [kind |-> "while", init |-> None, cond |-> c, body |-> b, post |-> post]

x == Sym("x")
f == App("f", <<>>)
g == App("g", <<x>>)
P == ExprStmt(App("p", <<>>))

OnlyX == <<"x">>

Atoms    == {f, g, x, Lit(TRUE)}
Joined   == {Op(op, l, r) : op \in Logical \cup {"eq"}, l \in {f, x}, r \in {g, Not(x)}}
Nested   == {Op(op, l, g) : op \in Logical, l \in Joined} \cup {Op(op, f, r) : op \in Logical, r \in Joined}

Assigns  == {Cassign(op, "x", f) : op \in Logical \cup {"eq"}} \cup {Assign("x", f)}
Leaves   == {P, Return(x), Cassign("and", "x", g), Block(<<ExprStmt(Not(x)), P>>)}
Leaving  == Leaves \cup {Break, Continue}
Branches(leaves) == {If(None, x, t, e) : t \in leaves, e \in leaves \cup {None}}

\* Every expression, as a value that is returned, passed on and tested
OfExprs == {<<Return(e)>> : e \in Atoms \cup Joined \cup Nested}
           \cup {<<Return(App("f", <<e, Op("and", x, f)>>))>> : e \in Joined}
           \cup {<<If(None, e, P, None), Return(x)>> : e \in Joined}

\* Every assignment, in front of a branch
OfAssigns == {<<a, If(Decl("y", e), Sym("y"), Return(x), None), Return(Not(x))>> : a \in Assigns, e \in Joined}
             \cup {<<Decl("y", None), Assign("y", f), a, Return(Sym("y"))>> : a \in Assigns}

\* Branches, with something behind them, and one in the other
OfBranches == {<<b, P, c, Return(x)>> : b \in Branches(Leaves), c \in Assigns}
              \cup {<<If(None, f, b, c)>> : b \in Branches(Leaves), c \in Leaves}

\* A loop over two statements, with something behind it
OfLoops == {<<While(None, f, Block(<<b, c>>)), P, Return(x)>> : b \in Branches(Leaving) \cup Assigns, c \in Leaving}
           \cup {<<For(g, Assign("x", f), Block(<<b, P>>)), Return(x)>> : b \in Branches(Leaves \cup {Break})}
           \cup {<<While(None, c, Block(b)), Return(x)>> : c \in {x, f, Lit(TRUE)}, b \in {<<>>, <<Break>>}}

\* A loop that alone returns: the binder takes it for one that always runs.
OfReturningLoops == {<<While(None, c, Block(b))>> : c \in {x, f, Lit(TRUE)},
                        b \in {<<Return(x)>>, <<P, Return(x)>>, <<If(None, g, Break, P), Return(x)>>}}

\* A loop in a loop, left and continued at both levels
OfNestedLoops ==
    {<<While(Decl("y", f), f, Block(<<While(None, g, Block(<<b, P>>)), l>>)), Return(Sym("y"))>> :
        b \in Branches(Leaving), l \in Leaving}

\* Statements that are never reached, of every kind
Dead == Leaving \cup Assigns \cup {Decl("y", f), If(None, f, P, None), While(None, f, P)}
OfDead == {<<While(None, f, Block(<<l, d, P>>)), Return(x), d, P>> : l \in {Break, Continue, Return(f)}, d \in Dead}

\* Functions the binder rejects
OfErrors == {<<l, Return(x)>> : l \in {Break, Continue, Return(None)}} \cup {<<P>>, <<If(None, x, Return(x), None)>>}

OfBool == OfExprs \cup OfAssigns \cup OfBranches \cup OfLoops \cup OfReturningLoops \cup OfNestedLoops \cup OfDead \cup OfErrors

OfVoid == {<<While(None, f, Block(<<If(None, x, l, k), P>>)), P>> :
              l \in {Break, Continue, Return(None), Return(x)}, k \in {P, None, Return(None)}}

\* continue in a loop with a post statement
ForContinues ==
    [void : {FALSE}, stmts : {<<For(g, Assign("x", f), Block(<<b, P>>)), Return(x)>> : b \in Branches({P, Continue})}]

ReturningLoops == [void : {FALSE}, stmts : OfReturningLoops]

\* A statement without side effects where a branch, a body or a post is
\* expected
NoEffects ==
    [void : {FALSE}, stmts : {<<s, Return(x)>> :
        s \in {If(None, f, ExprStmt(x), e) : e \in {None, P}}
              \cup {While(None, f, ExprStmt(x)), For(f, ExprStmt(x), P)}}]

AllPrograms == [void : {FALSE}, stmts : OfBool] \cup [void : {TRUE}, stmts : OfVoid]

Compiled == {Binder(p.void)!BoundFunc(p.stmts) : p \in {p \in Programs : Binder(p.void)!Accepted(p.stmts)}}

(* The trees of these functions and their parts *)
RECURSIVE ExprParts(_), StmtParts(_)
ExprParts(e) ==
    {e} \cup CASE e.kind = "unary"  -> ExprParts(e.operand)
               [] e.kind = "binary" -> ExprParts(e.left) \cup ExprParts(e.right)
               [] e.kind = "call"   -> UNION {ExprParts(e.args[k]) : k \in DOMAIN e.args}
               [] OTHER             -> {}

StmtParts(s) ==
    {s} \cup CASE s.kind = "if"    -> StmtParts(s.then) \cup StmtParts(s.else)
               [] s.kind = "while" -> StmtParts(s.body) \cup StmtParts(s.post)
               [] s.kind = "block" -> UNION {StmtParts(s.stmts[k]) : k \in DOMAIN s.stmts}
               [] OTHER            -> {}

AllStmts == UNION {UNION {StmtParts(c.stmts[k]) : k \in DOMAIN c.stmts} : c \in Compiled}

\* The fields of a statement that hold an expression
ExprFields == {"expr", "value", "init", "cond"}

AllExprs == UNION {UNION {ExprParts(s[field]) : field \in ExprFields \cap DOMAIN s} : s \in AllStmts}
=============================================================================
