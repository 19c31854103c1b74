------------------------------ MODULE ElBinder ------------------------------
(***************************************************************************)
(* Binding statements (src/src/elash/binder): which statements of the       *)
(* parser reach the lowerer, in which form, and which functions are         *)
(* rejected.  Names and types are taken to be right: what is left are the   *)
(* checks that concern control flow.  A NULL of the binder is None.         *)
(***************************************************************************)
EXTENDS Naturals, Sequences, SequencesExt

CONSTANT ReturnsVoid    \* whether the function returns void

None == [kind |-> "none"]

\* _el_binder_redundancy_if_ignored(expr) = REDUNDANCY_FULL: ignoring the
\* value leaves nothing to be done
RECURSIVE Redundant(_)
Redundant(expr) ==
    \/ expr.kind \in {"const", "sym"}
    \/ expr.kind = "unary" /\ Redundant(expr.operand)
    \/ expr.kind = "binary" /\ Redundant(expr.left) /\ Redundant(expr.right)

(* A bound statement, and whether an error was reported while binding it. *)
Bound(stmt, err)  == [stmt |-> stmt, err |-> err]
Dropped(err)      == Bound(None, err)

\* bind_return reports a value that is missing or out of place and goes on.
BindReturn(s) == Bound(s, (s.value = None) # ReturnsVoid)

BindLeave(s, loop_depth) == IF loop_depth = 0 THEN Dropped(TRUE) ELSE Bound(s, FALSE)

\* bind_expr_stmt drops a statement without side effects, with a warning.
BindExprStmt(s) == IF Redundant(s.expr) THEN Dropped(FALSE) ELSE Bound(s, FALSE)

\* The parts of a statement are bound in order, up to one that comes to nothing.
Gone(part) == part.stmt = None

RECURSIVE BindStmt(_, _)

\* A part that is not there is not bound.
BindPart(s, loop_depth) == IF s = None THEN Bound(None, FALSE) ELSE BindStmt(s, loop_depth)

\* The statement behind its init, in a block of its own
WithInit(init, s) == IF init = None THEN s ELSE [kind |-> "block", stmts |-> <<init, s>>]

BindIf(s, loop_depth) ==
    LET init == BindPart(s.init, loop_depth)
        then == BindStmt(s.then, loop_depth)
        else == BindPart(s.else, loop_depth)
        err  == init.err \/ then.err
    IN  IF s.init # None /\ Gone(init) THEN Dropped(init.err)
        ELSE IF Gone(then) THEN Dropped(err)
        ELSE IF s.else # None /\ Gone(else) THEN Dropped(err \/ else.err)
        ELSE Bound(WithInit(init.stmt, [s EXCEPT !.init = None, !.then = then.stmt, !.else = else.stmt]),
                   err \/ else.err)

BindWhile(s, loop_depth) ==
    LET init == BindPart(s.init, loop_depth)
        post == BindPart(s.post, loop_depth)
        body == BindStmt(s.body, loop_depth + 1)
        err  == init.err \/ post.err
    IN  IF s.init # None /\ Gone(init) THEN Dropped(init.err)
        ELSE IF s.post # None /\ Gone(post) THEN Dropped(err)
        ELSE IF Gone(body) THEN Dropped(err \/ body.err)
        ELSE Bound(WithInit(init.stmt, [s EXCEPT !.init = None, !.post = post.stmt, !.body = body.stmt]),
                   err \/ body.err)

\* _el_bind_block leaves out what came to nothing.
BindBlock(stmts, loop_depth) ==
    LET parts == [k \in 1 .. Len(stmts) |-> BindStmt(stmts[k], loop_depth)]
        kept  == SelectSeq(parts, LAMBDA part : ~Gone(part))
    IN  [stmts |-> [k \in 1 .. Len(kept) |-> kept[k].stmt],
         err   |-> \E k \in DOMAIN parts : parts[k].err]

BindStmt(s, loop_depth) ==
    CASE s.kind = "block" ->
             LET bound == BindBlock(s.stmts, loop_depth)
             IN  Bound([s EXCEPT !.stmts = bound.stmts], bound.err)
      [] s.kind = "if"                    -> BindIf(s, loop_depth)
      [] s.kind = "while"                 -> BindWhile(s, loop_depth)
      [] s.kind = "return"                -> BindReturn(s)
      [] s.kind \in {"break", "continue"} -> BindLeave(s, loop_depth)
      [] s.kind = "expr"                  -> BindExprStmt(s)
      [] OTHER                            -> Bound(s, FALSE)

\* _el_binder_stmt_always_returns
RECURSIVE AlwaysReturns(_)
BlockAlwaysReturns(stmts) == \E k \in DOMAIN stmts : AlwaysReturns(stmts[k])

AlwaysReturns(s) ==
    \/ s.kind = "return"
    \/ s.kind = "block" /\ BlockAlwaysReturns(s.stmts)
    \/ s.kind = "if" /\ s.else # None /\ AlwaysReturns(s.then) /\ AlwaysReturns(s.else)
    \/ s.kind = "while" /\ AlwaysReturns(s.body)

\* bind_func_def: the bound function, and whether it is compiled
BoundFunc(stmts) == [void |-> ReturnsVoid, stmts |-> BindBlock(stmts, 0).stmts]

Accepted(stmts) ==
    LET bound == BindBlock(stmts, 0)
    IN  ~bound.err /\ (ReturnsVoid \/ BlockAlwaysReturns(bound.stmts))
=============================================================================
