----------------------------- MODULE MirMachine -----------------------------
(***************************************************************************)
(* What the blocks of a function do once src/src/elc/codegen has turned     *)
(* each instruction into the LLVM instruction of the same name: Execute is  *)
(* one instruction.                                                         *)
(*                                                                         *)
(* block and at say which instruction is next; regs holds the registers     *)
(* that were written, cells what the places of alloca hold.  A place is     *)
(* named by the register of its alloca; one that is executed again is a new *)
(* place, and nothing can still refer to the old one.                       *)
(***************************************************************************)
EXTENDS Naturals, Sequences, Functions

LOCAL None == [kind |-> "none"]

LOCAL Src == INSTANCE Structured

\* elc_llvm_compile_func: the entry is the first block of the function.
Entered(blocks, args) ==
    [block |-> blocks[1].id, at |-> 1, regs |-> <<>>, cells |-> <<>>, args |-> args]

LOCAL With(f, x, v) == [y \in DOMAIN f \cup {x} |-> IF y = x THEN v ELSE f[y]]

Instr(blocks, m) ==
    LET b == CHOOSE b \in DOMAIN blocks : blocks[b].id = m.block
    IN  blocks[b].instrs[m.at]

\* The operands of an instruction
Operands(instr) ==
    CASE instr.op \in {"ret", "store"} -> {instr.value}
      [] instr.op = "load"             -> {instr.ptr}
      [] instr.op = "bin"              -> {instr.left, instr.right}
      [] instr.op = "unary"            -> {instr.operand}
      [] instr.op = "call"             -> Range(instr.args)
      [] instr.op = "jmpif"            -> {instr.cond}
      [] OTHER                         -> {}

\* elc_llvm_map_value
ValueOf(m, v) ==
    CASE v.kind = "reg"   -> m.regs[v.id]
      [] v.kind = "const" -> v.val
      [] v.kind = "arg"   -> m.args[v.index + 1]
      [] v.kind = "none"  -> None

Event(blocks, m) ==
    LET i == Instr(blocks, m)
    IN  CASE i.op = "call" -> Src!Calls(i.callee, [k \in DOMAIN i.args |-> ValueOf(m, i.args[k])])
          [] i.op = "ret"  -> Src!Returned(ValueOf(m, i.value))
          [] i.op = "unreachable" -> Src!FallsOff
          [] OTHER -> Src!Silent

LOCAL Result(m, res, v) == [m EXCEPT !.at = @ + 1, !.regs = With(@, res.id, v)]

\* The call returned with result.
Resumed(blocks, m, result) ==
    LET i == Instr(blocks, m)
    IN  IF i.result = None THEN [m EXCEPT !.at = @ + 1] ELSE Result(m, i.result, result)

LOCAL Goto(m, id) == [m EXCEPT !.block = id, !.at = 1]

\* compile_instr_impl
Execute(blocks, m) ==
    LET i == Instr(blocks, m)
    IN  CASE i.op = "alloca" -> Result(m, i.result, i.result.id)
          [] i.op = "load"   -> Result(m, i.result, m.cells[ValueOf(m, i.ptr)])
          [] i.op = "store"  ->
                 [m EXCEPT !.at = @ + 1, !.cells = With(@, ValueOf(m, i.ptr), ValueOf(m, i.value))]
          [] i.op = "bin"    -> Result(m, i.result, ValueOf(m, i.left) = ValueOf(m, i.right))
          [] i.op = "unary"  -> Result(m, i.result, ~ValueOf(m, i.operand))
          [] i.op = "jmp"    -> Goto(m, i.target_id)
          [] i.op = "jmpif"  -> Goto(m, IF ValueOf(m, i.cond) THEN i.then_id ELSE i.else_id)
=============================================================================
