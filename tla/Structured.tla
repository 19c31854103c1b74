----------------------------- MODULE Structured -----------------------------
(***************************************************************************)
(* What the statements of a function mean, as the language has them,        *)
(* whatever the compiler makes of them: Advance is one step of a machine    *)
(* that runs the parser's tree.                                             *)
(*                                                                         *)
(* todo is what is left to do, the next thing first; vals are the values of *)
(* the expressions evaluated so far, last first; mem the variables.         *)
(***************************************************************************)
EXTENDS Naturals, Sequences, SequencesExt

LOCAL None == [kind |-> "none"]

Run(s)  == [do |-> "run", stmt |-> s]
Eval(e) == [do |-> "eval", expr |-> e]

Started(func, args) ==
    [todo |-> [k \in 1 .. Len(func.stmts) |-> Run(func.stmts[k])], vals |-> <<>>, mem |-> args,
     void |-> func.void]

\* What the function does that can be seen from outside: it calls a function,
\* it returns, or its end is reached without a value.
Silent             == [ev |-> "silent"]
Calls(callee, args) == [ev |-> "call", callee |-> callee, args |-> args]
Returned(val)      == [ev |-> "return", val |-> val]
FallsOff           == [ev |-> "falls_off"]

LOCAL Next(m) == Head(m.todo)

Event(m) ==
    IF m.todo = <<>> THEN IF m.void THEN Returned(None) ELSE FallsOff
    ELSE CASE Next(m).do = "call"   -> Calls(Next(m).callee, Reverse(SubSeq(m.vals, 1, Next(m).args)))
           [] Next(m).do = "return" -> Returned(IF Next(m).bare THEN None ELSE Head(m.vals))
           [] OTHER                 -> Silent

\* The call returned with result.
Resumed(m, result) ==
    [m EXCEPT !.todo = Tail(@), !.vals = <<result>> \o SubSeq(@, Next(m).args + 1, Len(@))]

LOCAL Instead(m, items) == [m EXCEPT !.todo = items \o Tail(@)]

\* The value the last expression had is used up.
LOCAL Using(m, items) == [Instead(m, items) EXCEPT !.vals = Tail(@)]

LOCAL Optional(s) == IF s = None THEN <<>> ELSE <<Run(s)>>

\* From the innermost loop on: "again" stands for the end of its iteration.
LOCAL FromLoop(todo) ==
    LET k == CHOOSE k \in DOMAIN todo :
                 todo[k].do = "again" /\ \A l \in 1 .. k - 1 : todo[l].do # "again"
    IN  SubSeq(todo, k, Len(todo))

LOCAL RunStmt(m, s) ==
    CASE s.kind = "expr"     -> Instead(m, <<Eval(s.expr), [do |-> "ignore"]>>)
      [] s.kind = "assign"   -> Instead(m, <<Eval(s.value), [do |-> "set", sym |-> s.target]>>)
      [] s.kind = "cassign"  ->
             LET value == [kind |-> "binary", op |-> s.op, right |-> s.value,
                           left |-> [kind |-> "sym", sym |-> s.target]]
             IN  Instead(m, <<Eval(value), [do |-> "set", sym |-> s.target]>>)
      [] s.kind = "decl"     ->
             Instead(m, IF s.init = None THEN <<>>
                        ELSE <<Eval(s.init), [do |-> "set", sym |-> s.sym]>>)
      [] s.kind = "block"    -> Instead(m, [k \in 1 .. Len(s.stmts) |-> Run(s.stmts[k])])
      [] s.kind = "if"       ->
             Instead(m, Optional(s.init) \o <<Eval(s.cond), [do |-> "branch", stmt |-> s]>>)
      [] s.kind = "while"    -> Instead(m, Optional(s.init) \o <<[do |-> "loop", stmt |-> s]>>)
      [] s.kind = "break"    -> [m EXCEPT !.todo = Tail(FromLoop(@))]
      [] s.kind = "continue" -> [m EXCEPT !.todo = FromLoop(@)]
      [] s.kind = "return"   ->
             Instead(m, (IF s.value = None THEN <<>> ELSE <<Eval(s.value)>>)
                        \o <<[do |-> "return", bare |-> s.value = None]>>)

LOCAL EvalExpr(m, e) ==
    CASE e.kind = "const"  -> [Instead(m, <<>>) EXCEPT !.vals = <<e.val>> \o @]
      [] e.kind = "sym"    -> [Instead(m, <<>>) EXCEPT !.vals = <<m.mem[e.sym]>> \o @]
      [] e.kind = "unary"  -> Instead(m, <<Eval(e.operand), [do |-> "not"]>>)
      [] e.kind = "call"   ->
             Instead(m, [k \in 1 .. Len(e.args) |-> Eval(e.args[k])]
                        \o <<[do |-> "call", callee |-> e.callee, args |-> Len(e.args)]>>)
      [] e.kind = "binary" ->
             IF e.op = "eq" THEN Instead(m, <<Eval(e.left), Eval(e.right), [do |-> "eq"]>>)
             ELSE Instead(m, <<Eval(e.left), [do |-> "decide", op |-> e.op, right |-> e.right]>>)

\* The right side of a logical operator is evaluated when the left one leaves
\* the result open: && when it is true, || when it is false, => when it is
\* true; otherwise the result is false, true, true.
LOCAL Decide(m, op, right) ==
    IF Head(m.vals) = (op # "or") THEN Using(m, <<Eval(right)>>)
    ELSE [Instead(m, <<>>) EXCEPT !.vals = <<op # "and">> \o Tail(@)]

Advance(m) ==
    LET it == Next(m)
    IN  CASE it.do = "run"    -> RunStmt(m, it.stmt)
          [] it.do = "eval"   -> EvalExpr(m, it.expr)
          [] it.do = "decide" -> Decide(m, it.op, it.right)
          [] it.do = "not"    -> [Instead(m, <<>>) EXCEPT !.vals = <<~Head(@)>> \o Tail(@)]
          [] it.do = "eq"     -> [Instead(m, <<>>) EXCEPT !.vals = <<@[1] = @[2]>> \o Tail(Tail(@))]
          [] it.do = "ignore" -> Using(m, <<>>)
          [] it.do = "set"    ->
                 [Using(m, <<>>) EXCEPT !.mem = [s \in DOMAIN @ \cup {it.sym} |->
                                                     IF s = it.sym THEN Head(m.vals) ELSE @[s]]]
          [] it.do = "branch" ->
                 Using(m, IF Head(m.vals) THEN <<Run(it.stmt.then)>> ELSE Optional(it.stmt.else))
          [] it.do = "loop"   -> Instead(m, <<Eval(it.stmt.cond), [do |-> "enter", stmt |-> it.stmt]>>)
          [] it.do = "enter"  ->
                 Using(m, IF Head(m.vals) THEN <<Run(it.stmt.body), [do |-> "again", stmt |-> it.stmt]>>
                          ELSE <<>>)
          [] it.do = "again"  -> Instead(m, Optional(it.stmt.post) \o <<[do |-> "loop", stmt |-> it.stmt]>>)
=============================================================================
