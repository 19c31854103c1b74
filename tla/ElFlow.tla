------------------------------- MODULE ElFlow -------------------------------
(***************************************************************************)
(* One function from its statements to its calls: it is bound (ElBinder),   *)
(* lowered (ElLowerer) and, side by side, run as the language says          *)
(* (Structured) and as the blocks say (MirMachine).                         *)
(*                                                                         *)
(* The two runs take their silent steps together; at a call, a return or    *)
(* the end of the function the first one there waits for the other, and     *)
(* what a call returns is the same for both.                                *)
(***************************************************************************)
EXTENDS ElLowerer

CONSTANTS
    Programs,       \* functions, as the parser builds them
    Steps           \* bound: the calls a run makes

ASSUME StepsAssumption == Steps \in Nat

VARIABLES
    ast,            \* the function that is compiled
    phase,          \* lowering, running, over, or rejected by the binder
    src, mir,       \* the two runs
    calls           \* how many calls were made

flowVars == <<lowererVars, ast, phase, src, mir, calls>>

Binder(void) == INSTANCE ElBinder WITH ReturnsVoid <- void
Source == INSTANCE Structured
Mir    == INSTANCE MirMachine

NotRunning == [idle |-> TRUE]

FlowInit ==
    /\ ast \in Programs
    /\ LowererStart(Binder(ast.void)!BoundFunc(ast.stmts))
    /\ phase = IF Binder(ast.void)!Accepted(ast.stmts) THEN "lowering" ELSE "rejected"
    /\ src = NotRunning /\ mir = NotRunning /\ calls = 0

Lowering ==
    /\ phase = "lowering"
    /\ Lower
    /\ UNCHANGED <<ast, phase, src, mir, calls>>

\* The function is called, with any arguments.
Enter ==
    /\ phase = "lowering" /\ Lowered
    /\ \E args \in [1 .. Len(Params) -> BOOLEAN] :
          /\ src' = Source!Started(ast, [p \in Range(Params) |->
                                            args[CHOOSE i \in DOMAIN Params : Params[i] = p]])
          /\ mir' = Mir!Entered(blocks, args)
    /\ phase' = "running"
    /\ UNCHANGED <<lowererVars, ast, calls>>

SourceEvent == Source!Event(src)
MirEvent    == Mir!Event(blocks, mir)

SourceWaits == phase = "running" /\ SourceEvent # Source!Silent
MirWaits    == phase = "running" /\ MirEvent # Source!Silent

Step ==
    /\ phase = "running" /\ ~(SourceWaits /\ MirWaits)
    /\ src' = IF SourceWaits THEN src ELSE Source!Advance(src)
    /\ mir' = IF MirWaits THEN mir ELSE Mir!Execute(blocks, mir)
    /\ UNCHANGED <<lowererVars, ast, phase, calls>>

CallReturns ==
    /\ SourceWaits /\ MirWaits
    /\ SourceEvent.ev = "call" /\ SourceEvent = MirEvent
    /\ calls < Steps
    /\ \E result \in BOOLEAN :
          /\ src' = Source!Resumed(src, result)
          /\ mir' = Mir!Resumed(blocks, mir, result)
    /\ calls' = calls + 1
    /\ UNCHANGED <<lowererVars, ast, phase>>

Leave ==
    /\ SourceWaits /\ MirWaits
    /\ SourceEvent.ev # "call" /\ SourceEvent = MirEvent
    /\ phase' = "over"
    /\ UNCHANGED <<lowererVars, ast, src, mir, calls>>

\* Rejected, returned, about to make a call beyond the bound, or at odds
Over ==
    /\ \/ phase \in {"rejected", "over"}
       \/ /\ SourceWaits /\ MirWaits
          /\ \/ SourceEvent # MirEvent
             \/ SourceEvent.ev = "call" /\ calls = Steps
    /\ UNCHANGED flowVars

FlowNext == Lowering \/ Enter \/ Step \/ CallReturns \/ Leave \/ Over

FlowSpec == FlowInit /\ [][FlowNext]_flowVars /\ WF_flowVars(FlowNext)

-----------------------------------------------------------------------------
(* Properties *)

\* Wherever both runs wait, they wait with the same call, with the same
\* arguments, or return the same value.
Agreement == SourceWaits /\ MirWaits => SourceEvent = MirEvent

\* No instruction that is reached reads a register that was not written.
UsesDefined ==
    phase = "running" =>
        \A v \in Mir!Operands(Mir!Instr(blocks, mir)) : v.kind = "reg" => v.id \in DOMAIN mir.regs

\* The blocks do not hang where the statements would do something, nor the
\* other way round.
Responsive == (SourceWaits ~> MirWaits) /\ (MirWaits ~> SourceWaits)

\* A function that is not void and that the binder accepted returns a value in
\* all control paths, which is what it checks for: the code behind the last
\* statement is not reached.  Violated by the code: a while loop counts as
\* returning when its body does, whatever becomes of its condition.
ReturnsValue == phase = "running" => SourceEvent # Source!FallsOff

\* The post statement of a for loop is what its name in the parser's message
\* says, a post-iteration statement: every iteration that does not leave the
\* loop, one that ends with continue too, is followed by it.  Structured has
\* it so; the calls of the blocks do not depart from that.
PostIteration == Agreement

\* A statement without side effects can be removed, as the binder advises and
\* does: the function then still makes the calls it made.
SafelyRemoved == Agreement
=============================================================================
