------------------------------ MODULE ElLowerer ------------------------------
(***************************************************************************)
(* Lowering one function (src/src/elash/lowerer): from typed statements to  *)
(* blocks of MIR instructions.                                              *)
(*                                                                         *)
(* work is the C stack of the recursive lower_* functions, innermost call   *)
(* first: a statement or an expression still to be lowered, or the rest of  *)
(* a lower_* function that waits for one, with the locals it still needs.   *)
(* vals holds the values the finished el_lower_expr calls returned, last    *)
(* first.  Types, sizes and places in memory other than variables are left  *)
(* out: every value is a boolean or the address of a variable.              *)
(***************************************************************************)
EXTENDS Naturals, Sequences, Functions, SequencesExt

CONSTANTS
    Stmts, Exprs,   \* typed statements and expressions, and their parts
    Funcs,          \* the functions to lower
    Params          \* the parameters of a function, in order

\* A part that is not there (NULL)
None == [kind |-> "none"]

\* The parts of these statements and expressions are among them.
HoldParts(stmts, exprs) ==
    /\ \A s \in stmts :
          /\ s.kind = "block"                 => s.stmts \in Seq(stmts)
          /\ s.kind = "expr"                  => s.expr \in exprs
          /\ s.kind \in {"assign", "cassign"} => s.value \in exprs
          /\ s.kind = "decl"                  => s.init \in exprs \cup {None}
          /\ s.kind = "return"                => s.value \in exprs \cup {None}
          /\ s.kind \in {"if", "while"}       => s.cond \in exprs
          /\ s.kind = "if"                    => s.then \in stmts /\ s.else \in stmts \cup {None}
          /\ s.kind = "while"                 => s.body \in stmts /\ s.post \in stmts \cup {None}
    /\ \A e \in exprs :
          /\ e.kind = "unary"  => e.operand \in exprs
          /\ e.kind = "binary" => e.left \in exprs /\ e.right \in exprs
          /\ e.kind = "call"   => e.args \in Seq(exprs)

ASSUME TreeAssumption == HoldParts(Stmts, Exprs)

ASSUME FuncAssumption ==
    /\ Funcs \subseteq [void : BOOLEAN, stmts : Seq(Stmts)]
    /\ Params \in Seq(STRING)

VARIABLES
    work, vals,
    ibuf,                                   \* instructions of the current block
    current_block_id, break_target_id, continue_target_id,
    blocks, block_count, reg_count,         \* the ElMirFunc
    symbol_map

emitted == <<ibuf, blocks, current_block_id>>
targets == <<break_target_id, continue_target_id>>
lowererVars == <<work, vals, emitted, targets, block_count, reg_count, symbol_map>>

(* MIR values and instructions *)
Reg(n)   == [kind |-> "reg", id |-> n]
Const(b) == [kind |-> "const", val |-> b]
Arg(i)   == [kind |-> "arg", index |-> i]

Alloca(res)             == [op |-> "alloca", result |-> res]
Load(res, ptr)          == [op |-> "load", result |-> res, ptr |-> ptr]
StoreTo(ptr, val)       == [op |-> "store", ptr |-> ptr, value |-> val]
Bin(res, bin, l, r)     == [op |-> "bin", result |-> res, bin |-> bin, left |-> l, right |-> r]
Unary(res, operand)     == [op |-> "unary", result |-> res, operand |-> operand]
Call(res, callee, args) == [op |-> "call", result |-> res, callee |-> callee, args |-> args]
Ret(val)                == [op |-> "ret", value |-> val]
Jmp(id)                 == [op |-> "jmp", target_id |-> id]
JmpIf(cond, then, else) == [op |-> "jmpif", cond |-> cond, then_id |-> then, else_id |-> else]
Unreachable             == [op |-> "unreachable"]

IsTerminator(instr) == instr.op \in {"ret", "jmp", "jmpif", "unreachable"}

\* el_lowerer_has_terminator
HasTerminator == ibuf # <<>> /\ IsTerminator(Last(ibuf))

-----------------------------------------------------------------------------
(* What the handlers share *)

LowerStmt(s) == [do |-> "stmt", stmt |-> s]
LowerExpr(e) == [do |-> "expr", expr |-> e]

Item == Head(work)

Resuming(step) == work # <<>> /\ Item.do = step

\* A statement behind a terminator of its block is not lowered.
AtStmt(kind) == Resuming("stmt") /\ ~HasTerminator /\ Item.stmt.kind = kind

AtExpr(kind) == Resuming("expr") /\ Item.expr.kind = kind

\* The call at the top ends after the calls it still makes.
Then(items) == work' = items \o Tail(work)

Emit(instrs) == ibuf' = ibuf \o instrs /\ UNCHANGED <<blocks, current_block_id>>

\* el_lowerer_emit_block with the instructions of the current block; the next
\* ones go to the block next_id
EmitBlock(instrs, next_id) ==
    /\ blocks' = IF instrs = <<>> THEN blocks
                 ELSE Append(blocks, [id |-> current_block_id, instrs |-> instrs])
    /\ ibuf' = <<>>
    /\ current_block_id' = next_id

\* The current block, closed with a jump unless it has a terminator
JumpingTo(id) == IF HasTerminator THEN ibuf ELSE Append(ibuf, Jmp(id))

Returns(val) == vals' = <<val>> \o vals

Quiet == UNCHANGED <<targets, symbol_map>>

\* _el_lowerer_get_symbol_lvalue of a variable of the function
Place(sym) == symbol_map[sym]

-----------------------------------------------------------------------------
(* lower-decl.c: a function *)

LowererStart(func) ==
    /\ work = [k \in 1 .. Len(func.stmts) |-> LowerStmt(func.stmts[k])]
              \o <<[do |-> "end", void |-> func.void]>>
    /\ vals = <<>>
    /\ ibuf = [k \in 1 .. 2 * Len(Params) |->
                  LET i == (k - 1) \div 2
                  IN  IF k % 2 = 1 THEN Alloca(Reg(i)) ELSE StoreTo(Reg(i), Arg(i))]
    /\ current_block_id = 0
    /\ break_target_id = 0
    /\ continue_target_id = 0
    /\ blocks = <<>>
    /\ block_count = 1
    /\ reg_count = Len(Params)
    /\ symbol_map = [p \in Range(Params) |-> Reg((CHOOSE i \in DOMAIN Params : Params[i] = p) - 1)]

\* The end of lower_func_def
EndFunction ==
    /\ Resuming("end")
    /\ EmitBlock(IF HasTerminator THEN ibuf
                 ELSE Append(ibuf, IF Item.void THEN Ret(None) ELSE Unreachable),
                 current_block_id)
    /\ Then(<<>>)
    /\ UNCHANGED <<vals, block_count, reg_count>> /\ Quiet

\* A local variable: its place, then its value
LowerDecl ==
    LET decl == Item.stmt
        ptr  == Reg(reg_count)
    IN  /\ AtStmt("decl")
        /\ Emit(<<Alloca(ptr)>>)
        /\ reg_count' = reg_count + 1
        /\ symbol_map' = [s \in DOMAIN symbol_map \cup {decl.sym} |->
                              IF s = decl.sym THEN ptr ELSE symbol_map[s]]
        /\ Then(IF decl.init = None THEN <<>>
                ELSE <<LowerExpr(decl.init), [do |-> "store", ptr |-> ptr]>>)
        /\ UNCHANGED <<vals, block_count, targets>>

\* The store at the end of a declaration, and the one of an assignment, whose
\* place is looked up behind the value
StoreValue ==
    /\ Resuming("store") \/ Resuming("assign")
    /\ Emit(<<StoreTo(IF Item.do = "store" THEN Item.ptr ELSE Place(Item.target), Head(vals))>>)
    /\ vals' = Tail(vals)
    /\ Then(<<>>)
    /\ UNCHANGED <<block_count, reg_count>> /\ Quiet

-----------------------------------------------------------------------------
(* lower-stmt.c *)

\* Mutant: expressions behind a terminator are lowered into the same block.
DeadStmtLowered ==
    /\ Resuming("stmt") /\ HasTerminator
    /\ Then(IF Item.stmt.kind = "expr" THEN <<LowerExpr(Item.stmt.expr), [do |-> "ignore"]>> ELSE <<>>)
    /\ UNCHANGED <<vals, emitted, block_count, reg_count>> /\ Quiet

\* _lower_stmt_internal behind a terminator
DeadStmt ==
    /\ Resuming("stmt") /\ HasTerminator
    /\ Then(<<>>)
    /\ UNCHANGED <<vals, emitted, block_count, reg_count>> /\ Quiet

LowerBlock ==
    /\ AtStmt("block")
    /\ Then([k \in 1 .. Len(Item.stmt.stmts) |-> LowerStmt(Item.stmt.stmts[k])])
    /\ UNCHANGED <<vals, emitted, block_count, reg_count>> /\ Quiet

LowerExprStmt ==
    /\ AtStmt("expr")
    /\ Then(<<LowerExpr(Item.stmt.expr), [do |-> "ignore"]>>)
    /\ UNCHANGED <<vals, emitted, block_count, reg_count>> /\ Quiet

IgnoreValue ==
    /\ Resuming("ignore")
    /\ vals' = Tail(vals)
    /\ Then(<<>>)
    /\ UNCHANGED <<emitted, block_count, reg_count>> /\ Quiet

LowerAssign ==
    /\ AtStmt("assign")
    /\ Then(<<LowerExpr(Item.stmt.value), [do |-> "assign", target |-> Item.stmt.target]>>)
    /\ UNCHANGED <<vals, emitted, block_count, reg_count>> /\ Quiet

LowerIf ==
    /\ AtStmt("if")
    /\ Then(<<LowerExpr(Item.stmt.cond), [do |-> "if_cond", stmt |-> Item.stmt]>>)
    /\ UNCHANGED <<vals, emitted, block_count, reg_count>> /\ Quiet

\* Mutant: the other branch gets a block also when there is none.
IfCondWithElse ==
    LET id == block_count
    IN  /\ Resuming("if_cond")
        /\ EmitBlock(Append(ibuf, JmpIf(Head(vals), id, id + 2)), id)
        /\ vals' = Tail(vals)
        /\ block_count' = id + 3
        /\ Then(<<LowerStmt(Item.stmt.then),
                  [do |-> "if_then", stmt |-> Item.stmt, merge_id |-> id + 1,
                   else_id |-> IF Item.stmt.else # None THEN id + 2 ELSE id + 1]>>)
        /\ UNCHANGED reg_count /\ Quiet

\* lower_if behind its condition
IfCond ==
    LET then_id  == block_count
        merge_id == block_count + 1
        has_else == Item.stmt.else # None
        else_id  == IF has_else THEN block_count + 2 ELSE merge_id
    IN  /\ Resuming("if_cond")
        /\ EmitBlock(Append(ibuf, JmpIf(Head(vals), then_id, else_id)), then_id)
        /\ vals' = Tail(vals)
        /\ block_count' = IF has_else THEN block_count + 3 ELSE block_count + 2
        /\ Then(<<LowerStmt(Item.stmt.then),
                  [do |-> "if_then", stmt |-> Item.stmt, merge_id |-> merge_id, else_id |-> else_id]>>)
        /\ UNCHANGED reg_count /\ Quiet

\* lower_if behind its first branch
IfThen ==
    LET has_else == Item.stmt.else # None
    IN  /\ Resuming("if_then")
        /\ EmitBlock(JumpingTo(Item.merge_id), Item.else_id)
        /\ Then(IF has_else THEN <<LowerStmt(Item.stmt.else), [do |-> "if_else", merge_id |-> Item.merge_id]>>
                ELSE <<>>)
        /\ UNCHANGED <<vals, block_count, reg_count>> /\ Quiet

IfElse ==
    /\ Resuming("if_else")
    /\ EmitBlock(JumpingTo(Item.merge_id), Item.merge_id)
    /\ Then(<<>>)
    /\ UNCHANGED <<vals, block_count, reg_count>> /\ Quiet

LowerWhile ==
    LET cond_id == block_count
        exit_id == block_count + 2
    IN  /\ AtStmt("while")
        /\ EmitBlock(Append(ibuf, Jmp(cond_id)), cond_id)
        /\ break_target_id' = exit_id
        /\ continue_target_id' = cond_id
        /\ block_count' = block_count + 3
        /\ Then(<<LowerExpr(Item.stmt.cond),
                  [do |-> "while_cond", stmt |-> Item.stmt, cond_id |-> cond_id,
                   body_id |-> block_count + 1, exit_id |-> exit_id,
                   prev_break |-> break_target_id, prev_continue |-> continue_target_id]>>)
        /\ UNCHANGED <<vals, reg_count, symbol_map>>

\* lower_while behind its condition
WhileCond ==
    LET post == Item.stmt.post
    IN  /\ Resuming("while_cond")
        /\ EmitBlock(Append(ibuf, JmpIf(Head(vals), Item.body_id, Item.exit_id)), Item.body_id)
        /\ vals' = Tail(vals)
        /\ Then(<<LowerStmt(Item.stmt.body)>>
                \o (IF post # None THEN <<LowerStmt(post)>> ELSE <<>>)
                \o <<[do |-> "while_end", cond_id |-> Item.cond_id, exit_id |-> Item.exit_id,
                      prev_break |-> Item.prev_break, prev_continue |-> Item.prev_continue]>>)
        /\ UNCHANGED <<block_count, reg_count>> /\ Quiet

\* lower_while behind its body
WhileEnd ==
    /\ Resuming("while_end")
    /\ EmitBlock(JumpingTo(Item.cond_id), Item.exit_id)
    /\ break_target_id' = Item.prev_break
    /\ continue_target_id' = Item.prev_continue
    /\ Then(<<>>)
    /\ UNCHANGED <<vals, block_count, reg_count, symbol_map>>

\* Mutant: break leads where continue leads.
LowerBreakLikeContinue ==
    /\ AtStmt("break") \/ AtStmt("continue")
    /\ Emit(<<Jmp(continue_target_id)>>)
    /\ Then(<<>>)
    /\ UNCHANGED <<vals, block_count, reg_count>> /\ Quiet

LowerBreak ==
    /\ AtStmt("break") \/ AtStmt("continue")
    /\ Emit(<<Jmp(IF Item.stmt.kind = "break" THEN break_target_id ELSE continue_target_id)>>)
    /\ Then(<<>>)
    /\ UNCHANGED <<vals, block_count, reg_count>> /\ Quiet

LowerReturn ==
    /\ AtStmt("return")
    /\ Then((IF Item.stmt.value # None THEN <<LowerExpr(Item.stmt.value)>> ELSE <<>>)
            \o <<[do |-> "ret", bare |-> Item.stmt.value = None]>>)
    /\ UNCHANGED <<vals, emitted, block_count, reg_count>> /\ Quiet

EmitReturn ==
    /\ Resuming("ret")
    /\ Emit(<<Ret(IF Item.bare THEN None ELSE Head(vals))>>)
    /\ vals' = IF Item.bare THEN vals ELSE Tail(vals)
    /\ Then(<<>>)
    /\ UNCHANGED <<block_count, reg_count>> /\ Quiet

\* el_bin_op: the operators that do not always evaluate their right side
Logical == {"and", "or", "imp"}

\* target op= value with a logical operator reads the target first and skips
\* the value when the target decides.
CassignLogical ==
    LET ptr      == Place(Item.stmt.target)
        current  == Reg(reg_count)
        rhs_id   == block_count
        merge_id == block_count + 1
        false_id == block_count + 2     \* imp only
        first(then, else) == ibuf \o <<Load(current, ptr), JmpIf(current, then, else)>>
    IN  /\ AtStmt("cassign") /\ Item.stmt.op \in Logical
        /\ \/ /\ Item.stmt.op = "and"
              /\ EmitBlock(first(rhs_id, merge_id), rhs_id)
              /\ block_count' = block_count + 2
           \/ /\ Item.stmt.op = "or"
              /\ EmitBlock(first(merge_id, rhs_id), rhs_id)
              /\ block_count' = block_count + 2
           \/ /\ Item.stmt.op = "imp"
              /\ blocks' = blocks \o <<[id |-> current_block_id, instrs |-> first(rhs_id, false_id)],
                                       [id |-> false_id,
                                        instrs |-> <<StoreTo(ptr, Const(TRUE)), Jmp(merge_id)>>]>>
              /\ ibuf' = <<>> /\ current_block_id' = rhs_id
              /\ block_count' = block_count + 3
        /\ reg_count' = reg_count + 1
        /\ Then(<<LowerExpr(Item.stmt.value), [do |-> "cassign_rhs", ptr |-> ptr, merge_id |-> merge_id]>>)
        /\ UNCHANGED vals /\ Quiet

CassignRhs ==
    /\ Resuming("cassign_rhs")
    /\ EmitBlock(ibuf \o <<StoreTo(Item.ptr, Head(vals)), Jmp(Item.merge_id)>>, Item.merge_id)
    /\ vals' = Tail(vals)
    /\ Then(<<>>)
    /\ UNCHANGED <<block_count, reg_count>> /\ Quiet

CassignPlain ==
    LET ptr     == Place(Item.stmt.target)
        current == Reg(reg_count)
    IN  /\ AtStmt("cassign") /\ Item.stmt.op \notin Logical
        /\ Emit(<<Load(current, ptr)>>)
        /\ reg_count' = reg_count + 1
        /\ Then(<<LowerExpr(Item.stmt.value),
                  [do |-> "cassign_op", op |-> Item.stmt.op, ptr |-> ptr, current |-> current]>>)
        /\ UNCHANGED <<vals, block_count>> /\ Quiet

CassignOp ==
    LET result == Reg(reg_count)
    IN  /\ Resuming("cassign_op")
        /\ Emit(<<Bin(result, Item.op, Item.current, Head(vals)), StoreTo(Item.ptr, result)>>)
        /\ vals' = Tail(vals)
        /\ reg_count' = reg_count + 1
        /\ Then(<<>>)
        /\ UNCHANGED block_count /\ Quiet

-----------------------------------------------------------------------------
(* lower-expr.c *)

LowerConst ==
    /\ AtExpr("const")
    /\ Returns(Const(Item.expr.val))
    /\ Then(<<>>)
    /\ UNCHANGED <<emitted, block_count, reg_count>> /\ Quiet

LowerSymbol ==
    /\ AtExpr("sym")
    /\ Emit(<<Load(Reg(reg_count), Place(Item.expr.sym))>>)
    /\ Returns(Reg(reg_count))
    /\ reg_count' = reg_count + 1
    /\ Then(<<>>)
    /\ UNCHANGED block_count /\ Quiet

LowerUnary ==
    /\ AtExpr("unary")
    /\ Then(<<LowerExpr(Item.expr.operand), [do |-> "unary"]>>)
    /\ UNCHANGED <<vals, emitted, block_count, reg_count>> /\ Quiet

EmitUnary ==
    /\ Resuming("unary")
    /\ Emit(<<Unary(Reg(reg_count), Head(vals))>>)
    /\ vals' = <<Reg(reg_count)>> \o Tail(vals)
    /\ reg_count' = reg_count + 1
    /\ Then(<<>>)
    /\ UNCHANGED block_count /\ Quiet

LowerBin ==
    /\ AtExpr("binary") /\ Item.expr.op \notin Logical
    /\ Then(<<LowerExpr(Item.expr.left), LowerExpr(Item.expr.right), [do |-> "bin", op |-> Item.expr.op]>>)
    /\ UNCHANGED <<vals, emitted, block_count, reg_count>> /\ Quiet

EmitBin ==
    /\ Resuming("bin")
    /\ Emit(<<Bin(Reg(reg_count), Item.op, vals[2], vals[1])>>)
    /\ vals' = <<Reg(reg_count)>> \o Tail(Tail(vals))
    /\ reg_count' = reg_count + 1
    /\ Then(<<>>)
    /\ UNCHANGED block_count /\ Quiet

\* A logical operator keeps its result in a place of its own.
LowerLogical ==
    LET res == Reg(reg_count)
    IN  /\ AtExpr("binary") /\ Item.expr.op \in Logical
        /\ Emit(<<Alloca(res)>>)
        /\ reg_count' = reg_count + 1
        /\ Then(<<LowerExpr(Item.expr.left), [do |-> "logical_lhs", expr |-> Item.expr, res |-> res]>>)
        /\ UNCHANGED <<vals, block_count>> /\ Quiet

\* Mutant: => decides like ||.
DecidesImpLikeOr(op, lhs, rhs_id, merge_id) ==
    IF op = "and" THEN JmpIf(lhs, rhs_id, merge_id) ELSE JmpIf(lhs, merge_id, rhs_id)

\* Where the left side of a logical operator leads
Decides(op, lhs, rhs_id, merge_id) ==
    IF op \in {"and", "imp"} THEN JmpIf(lhs, rhs_id, merge_id) ELSE JmpIf(lhs, merge_id, rhs_id)

LogicalLhs ==
    LET op       == Item.expr.op
        rhs_id   == block_count
        merge_id == block_count + 1
        result   == IF op = "imp" THEN Const(TRUE) ELSE Head(vals)
    IN  /\ Resuming("logical_lhs")
        /\ EmitBlock(ibuf \o <<StoreTo(Item.res, result), Decides(op, Head(vals), rhs_id, merge_id)>>,
                     rhs_id)
        /\ vals' = Tail(vals)
        /\ block_count' = block_count + 2
        /\ Then(<<LowerExpr(Item.expr.right), [do |-> "logical_rhs", res |-> Item.res, merge_id |-> merge_id]>>)
        /\ UNCHANGED reg_count /\ Quiet

\* Mutant: the value of the right side is taken for the result.
LogicalRhsUnmerged ==
    /\ Resuming("logical_rhs")
    /\ EmitBlock(ibuf \o <<StoreTo(Item.res, Head(vals)), Jmp(Item.merge_id)>>, Item.merge_id)
    /\ Then(<<>>)
    /\ UNCHANGED <<vals, block_count, reg_count>> /\ Quiet

\* The block behind the operator starts with reading the result.
LogicalRhs ==
    LET loaded == Reg(reg_count)
    IN  /\ Resuming("logical_rhs")
        /\ blocks' = Append(blocks, [id     |-> current_block_id,
                                     instrs |-> ibuf \o <<StoreTo(Item.res, Head(vals)), Jmp(Item.merge_id)>>])
        /\ ibuf' = <<Load(loaded, Item.res)>>
        /\ current_block_id' = Item.merge_id
        /\ vals' = <<loaded>> \o Tail(vals)
        /\ reg_count' = reg_count + 1
        /\ Then(<<>>)
        /\ UNCHANGED block_count /\ Quiet

LowerCall ==
    LET args == Item.expr.args
    IN  /\ AtExpr("call")
        /\ Then([k \in 1 .. Len(args) |-> LowerExpr(args[k])] \o <<[do |-> "call", expr |-> Item.expr]>>)
        /\ UNCHANGED <<vals, emitted, block_count, reg_count>> /\ Quiet

\* A call of a void function has no result.
EmitCall ==
    LET call   == Item.expr
        n      == Len(call.args)
        result == IF call.void THEN None ELSE Reg(reg_count)
    IN  /\ Resuming("call")
        /\ Emit(<<Call(result, call.callee, Reverse(SubSeq(vals, 1, n)))>>)
        /\ vals' = <<result>> \o SubSeq(vals, n + 1, Len(vals))
        /\ reg_count' = IF call.void THEN reg_count ELSE reg_count + 1
        /\ Then(<<>>)
        /\ UNCHANGED block_count /\ Quiet

-----------------------------------------------------------------------------
Lower ==
    \/ EndFunction \/ LowerDecl \/ StoreValue
    \/ DeadStmt \/ LowerBlock \/ LowerExprStmt \/ IgnoreValue \/ LowerAssign
    \/ LowerIf \/ IfCond \/ IfThen \/ IfElse
    \/ LowerWhile \/ WhileCond \/ WhileEnd
    \/ LowerBreak \/ LowerReturn \/ EmitReturn
    \/ CassignLogical \/ CassignRhs \/ CassignPlain \/ CassignOp
    \/ LowerConst \/ LowerSymbol \/ LowerUnary \/ EmitUnary \/ LowerBin \/ EmitBin
    \/ LowerLogical \/ LogicalLhs \/ LogicalRhs \/ LowerCall \/ EmitCall

LowererInit == \E func \in Funcs : LowererStart(func)

LowererSpec == LowererInit /\ [][Lower]_lowererVars

Lowered == work = <<>>

-----------------------------------------------------------------------------
(* Properties *)

\* One terminator, at the end.
WellEnded(instrs) ==
    /\ instrs # <<>> /\ IsTerminator(instrs[Len(instrs)])
    /\ \A k \in 1 .. Len(instrs) - 1 : ~IsTerminator(instrs[k])

\* Every block handed to the function ends in exactly one terminator, and no
\* two blocks have the same id.
BlockShape ==
    /\ \A b \in DOMAIN blocks : WellEnded(blocks[b].instrs)
    /\ \A b, c \in DOMAIN blocks : blocks[b].id = blocks[c].id => b = c

JumpTargets(instr) ==
    CASE instr.op = "jmp"   -> {instr.target_id}
      [] instr.op = "jmpif" -> {instr.then_id, instr.else_id}
      [] OTHER              -> {}

\* When the function is lowered, every jump leads to a block it has: code
\* generation creates the blocks that were emitted, and no others.
JumpsLand ==
    Lowered => \A b \in DOMAIN blocks : \A k \in DOMAIN blocks[b].instrs :
                   JumpTargets(blocks[b].instrs[k]) \subseteq {blocks[c].id : c \in DOMAIN blocks}
=============================================================================
