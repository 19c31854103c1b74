----------------------------- MODULE ElPreproc -----------------------------
(***************************************************************************)
(* The preprocessor of the Elash compiler (src/src/elash/pp): a token      *)
(* stream that, pulled by the parser, reads the tokens of a stack of       *)
(* frames (source files, function bodies, loop bodies, loop conditions),   *)
(* runs the directives it meets and hands out the other tokens.            *)
(*                                                                         *)
(* The unit of input is a LINE: a plain token or one directive with its    *)
(* operand.  The lines of a file are chosen as they are read; the bodies   *)
(* of functions and loops are the sequences of lines captured while they   *)
(* were skipped, and are replayed from there.  Values are not modelled: a  *)
(* condition is true or false, an operand is one of Exprs.                 *)
(*                                                                         *)
(* The C call stack appears as pc and line: pc = "eval" is a handler       *)
(* suspended in _el_pp_eval for the operand of line, pc = "value" the same  *)
(* handler with the value a call returned, and a call record keeps the     *)
(* line whose operand called the function.                                 *)
(***************************************************************************)
EXTENDS Naturals, Sequences, FiniteSets, TLC

CONSTANTS
    Lines,          \* the lines a file can hold, a subset of Line
    MaxLines,       \* bound: lines read from files in one behaviour
    MaxItems,       \* bound: elements of the iterable of a #for
    OpLimit,        \* operation_limit (EL_PP_DEFAULT_LIMIT)
    CallLimit,      \* CALL_DEPTH_LIMIT
    IncludeLimit    \* INCLUDE_DEPTH_LIMIT

DIR_OPS  == 4
EXPR_OPS == 1
ITER_OPS == 8

Dirs == {"tok", "if", "elif", "else", "end", "func", "return", "while", "for",
         "break", "continue", "include", "emit", "var", "set", "diag", "error",
         "unknown", "again"}   \* "again": the condition of a #while, re-evaluated

\* An operand: absent, a plain expression, one that calls the function "f",
\* one whose value the directive rejects, one that is missing or unparsable; of
\* an #include, a path, one that leads to no file, one to a file that cannot be
\* read.
Exprs == {"none", "lit", "call", "ill", "bad", "unread"}

Line == [dir : Dirs, expr : Exprs, public : BOOLEAN]

OperandDirs == {"if", "elif", "return", "while", "for", "set", "diag", "error", "again"}

ASSUME LimitAssumption ==
    /\ Lines \subseteq [dir : Dirs \ {"again"}, expr : Exprs, public : BOOLEAN]
    /\ \A l \in Lines : /\ l.dir \in OperandDirs => l.expr # "none"
                       /\ l.expr = "unread" => l.dir = "include"
    /\ MaxLines \in Nat /\ MaxItems \in Nat /\ OpLimit \in Nat
    /\ CallLimit \in Nat /\ IncludeLimit \in Nat

\* f is the function, x the variable of #var, p a parameter, i a #for variable.
Names == {"f", "x", "p", "i"}

\* floor is history: the innermost scope, when the symbol was defined, that
\* does not promote its symbols (2, the global scope, when there is none).
Symbols == [public : BOOLEAN, body : Seq(Line), floor : Nat]

\* No entry under a name; no definition has floor 0.
Absent == [public |-> FALSE, body |-> <<>>, floor |-> 0]

Scopes == [promote : BOOLEAN, syms : [Names -> Symbols]]

FrameTypes == {"FRAME_CALL", "FRAME_INCLUDE", "FRAME_LOOP_BODY"}

\* base is history: the number of open blocks when the frame was pushed.
Frames == [type : FrameTypes, file : BOOLEAN, rest : Seq(Line), base : Nat]

BlockKinds == {"if", "func", "while", "for"}
LoopKinds  == {"while", "for"}

Blocks == [kind : BlockKinds, taken : BOOLEAN, hasScope : BOOLEAN,
           hadElse : BOOLEAN, capturing : BOOLEAN, public : BOOLEAN,
           body : Seq(Line), cond : Exprs, left : Nat]

\* base: the blocks below it are saved_block_stack; caller: caller_frame, an
\* index into frames; gone: that frame was popped during the call, so the
\* pointer no longer equals any live frame; clean: no error since the call
\* began (total_errors = errors_before).
CallFrames == [line : Line, base : Nat, skip : Nat, caller : Nat,
               gone : BOOLEAN, returned : BOOLEAN, clean : BOOLEAN]

Running == {"run", "line", "eval", "value", "evalfail", "enter", "exhausted",
            "leave", "cleanup", "fail"}
Final   == {"eof", "failed", "assert", "crash"}

VARIABLES
    pc,           \* where the C code is
    line,         \* the directive being handled
    frames,       \* pp->frame and its parents, the active one last
    scopes,       \* pp->current_scope and its parents, the current one last
    blocks,       \* the saved block stacks and pp->block_stack, the top last
    calls,        \* pp->call_stack, the innermost call last
    skipDepth, skipCapture, captureBuf,
    pending,      \* pp->pending.len
    opCount, includeDepth,
    errored,      \* the diagnostic engine has counted an error
    input,        \* lines read from files so far
    ragged,       \* history: see FrameExhausted and ClosingRest
    unterm        \* history: pp.unterm-block was reported

vars == <<pc, line, frames, scopes, blocks, calls, skipDepth, skipCapture,
          captureBuf, pending, opCount, includeDepth, errored, input, ragged,
          unterm>>

NoLine == [dir |-> "tok", expr |-> "none", public |-> TRUE]

-----------------------------------------------------------------------------
(* Stacks. *)

Top(s)   == s[Len(s)]
Under(s) == SubSeq(s, 1, Len(s) - 1)

\* Mutant: execute_function leaves pp->block_stack as it is.
BlockBaseShared == 0

\* The block stack of the innermost call starts empty above the saved ones.
BlockBase    == IF calls = <<>> THEN 0 ELSE Top(calls).base
HasBlock     == Len(blocks) > BlockBase
TopKind      == IF HasBlock THEN Top(blocks).kind ELSE "none"

InsideLoop   == \E k \in BlockBase + 1 .. Len(blocks) : blocks[k].kind \in LoopKinds

NewBlock(kind) ==
    [kind |-> kind, taken |-> FALSE, hasScope |-> FALSE, hadElse |-> FALSE,
     capturing |-> FALSE, public |-> TRUE, body |-> <<>>, cond |-> "none",
     left |-> 0]

NoSyms == [n \in Names |-> Absent]

Defined(scope, name) == scope.syms[name] # Absent

\* _el_pp_push_scope
PushScope(promote, syms) == Append(scopes, [promote |-> promote, syms |-> syms])

\* Mutant: promote_public does not look for an existing symbol.
PromotedBlindly(top, parent) == {n \in Names : Defined(top, n) /\ top.syms[n].public}

\* promote_public: the public symbols of the top scope the parent lacks
Promoted(top, parent) ==
    {n \in Names : Defined(top, n) /\ top.syms[n].public /\ ~Defined(parent, n)}

\* promote_public reports a public symbol the parent already has
PromoteClash ==
    LET top == Top(scopes) IN
        /\ top.promote
        /\ \E n \in Names :
              /\ Defined(top, n) /\ top.syms[n].public
              /\ Defined(scopes[Len(scopes) - 1], n)

PromoteInto(below, top) ==
    LET parent == Top(below) IN
    [below EXCEPT ![Len(below)].syms =
        [n \in Names |-> IF n \in Promoted(top, parent)
                         THEN top.syms[n] ELSE parent.syms[n]]]

\* Mutant: promote_on_pop is ignored.
PopScopeLeaking == PromoteInto(Under(scopes), Top(scopes))

\* _el_pp_pop_scope
PopScope ==
    IF Top(scopes).promote THEN PromoteInto(Under(scopes), Top(scopes)) ELSE Under(scopes)

\* el_pp_scope_assign in the current scope
Floor == LET fixed == {k \in 3 .. Len(scopes) : ~scopes[k].promote}
         IN  IF fixed = {} THEN 2 ELSE CHOOSE k \in fixed : \A j \in fixed : j <= k

Assign(name, public, body) ==
    [scopes EXCEPT ![Len(scopes)].syms[name] =
        [public |-> public, body |-> body, floor |-> Floor]]

\* The scope of a function or loop body with its parameter or loop variable
Binding(name) ==
    [NoSyms EXCEPT ![name] = [public |-> FALSE, body |-> <<>>, floor |-> Len(scopes) + 1]]

\* el_pp_scope_lookup and el_pp_scope_lookup_local
Visible(name) == \E k \in 1 .. Len(scopes) : Defined(scopes[k], name)
Lookup(name)  ==
    LET k == CHOOSE k \in 1 .. Len(scopes) :
                /\ Defined(scopes[k], name)
                /\ \A j \in k + 1 .. Len(scopes) : ~Defined(scopes[j], name)
    IN  scopes[k].syms[name]
DefinedHere(name) == Defined(Top(scopes), name)

NewFrame(type, file, rest) ==
    [type |-> type, file |-> file, rest |-> rest, base |-> Len(blocks)]

-----------------------------------------------------------------------------
(* The pieces handlers are made of. *)

\* el_diag_report of an error: every call under way is no longer clean
Dirty(cs, reported) ==
    [c \in DOMAIN cs |-> [cs[c] EXCEPT !.clean = @ /\ ~reported]]
Orphan(cs, n) == [c \in DOMAIN cs |-> [cs[c] EXCEPT !.gone = @ \/ cs[c].caller > n]]

Report(reported) ==
    /\ errored' = (errored \/ reported)
    /\ calls' = Dirty(calls, reported)

Fail == pc' = "fail"

\* A handler that reports an error and returns false changes nothing else.
ReportAndFail ==
    /\ Report(TRUE)
    /\ Fail
    /\ UNCHANGED <<line, frames, scopes, blocks, skipDepth, skipCapture,
                   captureBuf, pending, includeDepth, input, ragged, unterm>>

\* _el_pp_pop_frame; the root frame leaves the global scope alone
PopFrame ==
    /\ frames' = Under(frames)
    /\ includeDepth' = IF Top(frames).type = "FRAME_INCLUDE"
                       THEN includeDepth - 1 ELSE includeDepth
    /\ IF Len(frames) > 1
       THEN /\ scopes' = PopScope
            /\ errored' = (errored \/ PromoteClash)
            /\ calls' = Orphan(Dirty(calls, PromoteClash), Len(frames) - 1)
       ELSE /\ UNCHANGED <<scopes, errored>>
            /\ calls' = Orphan(calls, Len(frames) - 1)

\* _el_pp_pop_if_block
PopIfBlock ==
    /\ blocks' = Under(blocks)
    /\ IF Top(blocks).hasScope
       THEN scopes' = PopScope /\ Report(PromoteClash)
       ELSE UNCHANGED <<scopes, errored, calls>>

PopBlock == blocks' = Under(blocks)

SetTop(b) == [blocks EXCEPT ![Len(blocks)] = b]

\* The state a directive handler leaves alone unless it says otherwise.
Rest == UNCHANGED <<includeDepth, input, ragged, unterm>>

\* What an #end leaves alone; ragged records that a file closed a block it did
\* not open.
ClosingRest ==
    /\ ragged' = (ragged \/ (Top(frames).file /\ Len(blocks) <= Top(frames).base))
    /\ UNCHANGED <<includeDepth, input, unterm>>

-----------------------------------------------------------------------------
(* fetch_next_token and _el_pp_next_internal *)

\* A token that is no directive: captured, skipped, handed out, or an error
\* when it turns up while a function runs (execute_function).
YieldToken ==
    /\ captureBuf' = IF skipDepth > 0 /\ skipCapture
                     THEN Append(captureBuf, NoLine) ELSE captureBuf
    /\ IF skipDepth = 0 /\ calls # <<>>
       THEN Report(TRUE) /\ pc' = "cleanup"
       ELSE pc' = "run" /\ UNCHANGED <<errored, calls>>

\* Mutant: the queue is peeked, not popped.
FetchPendingPeek ==
    /\ pc = "run" /\ pending > 0
    /\ YieldToken
    /\ UNCHANGED <<line, frames, scopes, blocks, skipDepth, skipCapture, pending,
                   opCount>>
    /\ Rest

FetchPending ==
    /\ pc = "run" /\ pending > 0
    /\ pending' = pending - 1
    /\ YieldToken
    /\ UNCHANGED <<line, frames, scopes, blocks, skipDepth, skipCapture, opCount>>
    /\ Rest

FetchLine ==
    /\ pc = "run" /\ pending = 0 /\ frames # <<>>
    /\ pc' = "line"
    /\ IF Top(frames).file
       THEN /\ input < MaxLines
            /\ line' \in Lines
            /\ input' = input + 1
            /\ UNCHANGED frames
       ELSE /\ Top(frames).rest # <<>>
            /\ line' = Head(Top(frames).rest)
            /\ frames' = [frames EXCEPT ![Len(frames)].rest = Tail(@)]
            /\ UNCHANGED input
    /\ UNCHANGED <<scopes, blocks, calls, skipDepth, skipCapture, captureBuf,
                   pending, opCount, includeDepth, errored, ragged, unterm>>

\* The active frame has no more tokens.  ragged records that it ended with
\* more or fewer blocks open than it began with, or that it was the body of a
\* running function.
FrameExhausted ==
    /\ pc = "run" /\ pending = 0 /\ frames # <<>>
    /\ Top(frames).file \/ Top(frames).rest = <<>>
    /\ PopFrame
    /\ pc' = IF Top(frames).type = "FRAME_LOOP_BODY" THEN "exhausted" ELSE "run"
    /\ ragged' = (\/ ragged
                  \/ Top(frames).base # Len(blocks)
                  \/ calls # <<>> /\ Len(frames) <= Top(calls).caller + 1)
    /\ UNCHANGED <<line, blocks, skipDepth, skipCapture, captureBuf, pending,
                   opCount, input, unterm>>

EndOfInput ==
    /\ pc = "run" /\ pending = 0 /\ frames = <<>> /\ ~HasBlock
    /\ pc' = IF calls = <<>> THEN "eof" ELSE "cleanup"
    /\ UNCHANGED <<line, frames, scopes, blocks, calls, skipDepth, skipCapture,
                   captureBuf, pending, opCount, errored>>
    /\ Rest

\* pp.unterm-block: the blocks are dropped, the scopes they opened are not
UnterminatedBlock ==
    /\ pc = "run" /\ pending = 0 /\ frames = <<>> /\ HasBlock
    /\ Report(TRUE)
    /\ blocks' = SubSeq(blocks, 1, BlockBase)
    /\ skipDepth' = 0
    /\ skipCapture' = FALSE
    /\ unterm' = TRUE
    /\ pc' = IF calls = <<>> THEN "failed" ELSE "cleanup"
    /\ UNCHANGED <<line, frames, scopes, captureBuf, pending, opCount,
                   includeDepth, input, ragged>>

PlainToken ==
    /\ pc = "line" /\ line.dir = "tok"
    /\ YieldToken
    /\ UNCHANGED <<line, frames, scopes, blocks, skipDepth, skipCapture, pending,
                   opCount>>
    /\ Rest

-----------------------------------------------------------------------------
(* _el_pp_preprocess_directive: directives read while nothing is skipped.   *)

Active(dirs) ==
    /\ pc = "line" /\ line.dir \in dirs /\ skipDepth = 0
    /\ opCount + DIR_OPS < OpLimit

Charge(ops) == opCount' = opCount + DIR_OPS + ops

\* A handler that evaluates its operand first and has touched nothing yet.
BeginEval ==
    /\ Charge(EXPR_OPS)
    /\ pc' = "eval"
    /\ UNCHANGED <<line, scopes, blocks, calls, skipDepth, skipCapture,
                   captureBuf, errored>>
    /\ Rest

OpLimitExceeded ==
    /\ pc = "line" /\ line.dir # "tok" /\ skipDepth = 0
    /\ opCount + DIR_OPS >= OpLimit
    /\ Charge(0)
    /\ ReportAndFail

\* #if, #return, #for, #note and #warn, #error evaluate at once; #return
\* outside a function is refused.
HandleOperand ==
    /\ Active({"if", "return", "for", "diag", "error"})
    /\ line.dir = "return" => calls # <<>>
    /\ BeginEval
    /\ UNCHANGED <<frames, pending>>

HandleStrayReturn ==
    /\ Active({"return"}) /\ calls = <<>>
    /\ Charge(0)
    /\ ReportAndFail

HandleUnknown ==
    /\ Active({"unknown"})
    /\ Charge(0)
    /\ ReportAndFail

\* _el_pp_handle_if, once the condition is known
IfBranch(cond) ==
    /\ pc' = "run"
    /\ blocks' = Append(blocks, [NewBlock("if") EXCEPT !.taken = cond, !.hasScope = cond])
    /\ scopes' = IF cond THEN PushScope(TRUE, NoSyms) ELSE scopes
    /\ skipDepth' = IF cond THEN skipDepth ELSE skipDepth + 1
    /\ UNCHANGED <<line, frames, calls, skipCapture, captureBuf, pending, opCount, errored>>
    /\ Rest

\* check_else
ElseRefused == IF TopKind = "if" THEN Top(blocks).hadElse ELSE TRUE

HandleElse ==
    /\ Active({"else"})
    /\ Charge(0)
    /\ \/ ElseRefused /\ ReportAndFail
       \/ /\ ~ElseRefused /\ ~Top(blocks).hasScope     \* conditional.c:61
          /\ pc' = "assert"
          /\ UNCHANGED <<line, frames, scopes, blocks, calls, skipDepth,
                         skipCapture, captureBuf, pending, errored>>
          /\ Rest
       \/ /\ ~ElseRefused /\ Top(blocks).hasScope
          /\ blocks' = SetTop([Top(blocks) EXCEPT !.hadElse = TRUE, !.hasScope = FALSE])
          /\ scopes' = PopScope
          /\ Report(PromoteClash)
          /\ skipDepth' = skipDepth + 1
          /\ pc' = "run"
          /\ UNCHANGED <<line, frames, skipCapture, captureBuf, pending>>
          /\ Rest

\* #elif after a taken branch: the branch scope stays open until #end
HandleElif ==
    /\ Active({"elif"})
    /\ Charge(0)
    /\ \/ ElseRefused /\ ReportAndFail
       \/ /\ ~ElseRefused
          /\ IF line.expr = "bad"
             THEN Fail /\ UNCHANGED skipDepth
             ELSE pc' = "run" /\ skipDepth' = skipDepth + 1
          /\ UNCHANGED <<line, frames, scopes, blocks, calls, skipCapture,
                         captureBuf, pending, errored>>
          /\ Rest

HandleEnd ==
    /\ Active({"end"})
    /\ Charge(0)
    /\ CASE TopKind = "none" -> ReportAndFail
         [] TopKind = "if"   -> /\ PopIfBlock
                                /\ pc' = "run"
                                /\ UNCHANGED <<line, frames, skipDepth, skipCapture,
                                               captureBuf, pending>>
                                /\ ClosingRest
         [] OTHER            -> /\ pc' = "assert"            \* end.c:19
                                /\ UNCHANGED <<line, frames, scopes, blocks, calls,
                                               skipDepth, skipCapture, captureBuf,
                                               pending, errored>>
                                /\ ClosingRest

\* _el_pp_push_func_block and the start of the capture of its body
HandleFunc ==
    /\ Active({"func"})
    /\ Charge(0)
    /\ \/ (line.expr = "bad" \/ DefinedHere("f")) /\ ReportAndFail
       \/ /\ line.expr # "bad" /\ ~DefinedHere("f")
          /\ blocks' = Append(blocks, [NewBlock("func") EXCEPT !.public = line.public])
          /\ captureBuf' = <<>>
          /\ skipCapture' = TRUE
          /\ skipDepth' = skipDepth + 1
          /\ pc' = "run"
          /\ UNCHANGED <<line, frames, scopes, calls, pending, errored>>
          /\ Rest

\* The condition tokens are read to the end of the line and evaluated in a
\* frame of their own (eval_while_cond).
PushCondFrame ==
    /\ frames' = Append(frames, NewFrame("FRAME_CALL", FALSE, <<>>))
    /\ scopes' = PushScope(FALSE, NoSyms)

HandleWhile ==
    /\ Active({"while"})
    /\ \/ line.expr = "bad" /\ Charge(0) /\ ReportAndFail
       \/ /\ line.expr # "bad"
          /\ PushCondFrame
          /\ Charge(EXPR_OPS)
          /\ pc' = "eval"
          /\ UNCHANGED <<line, blocks, calls, skipDepth, skipCapture, captureBuf,
                         pending, errored>>
          /\ Rest

\* Mutant: a body that never runs is captured too.
BeginLoopCapturing(loop) ==
    /\ blocks' = Append(blocks, loop)
    /\ skipDepth' = skipDepth + 1
    /\ captureBuf' = <<>>
    /\ skipCapture' = TRUE
    /\ pc' = "run"
    /\ UNCHANGED <<line, pending, opCount, input, ragged, unterm>>

\* _el_pp_push_while_block and _el_pp_push_for_block
BeginLoop(loop) ==
    /\ blocks' = Append(blocks, loop)
    /\ skipDepth' = skipDepth + 1
    /\ captureBuf' = IF loop.capturing THEN <<>> ELSE captureBuf
    /\ skipCapture' = IF loop.capturing THEN TRUE ELSE skipCapture
    /\ pc' = "run"
    /\ UNCHANGED <<line, pending, opCount, input, ragged, unterm>>

ForItems(count) ==
    /\ BeginLoop([NewBlock("for") EXCEPT !.capturing = count # 0, !.left = count])
    /\ UNCHANGED <<frames, scopes, calls, errored, includeDepth>>

WhileFirst(cond) ==
    /\ frames # <<>>
    /\ BeginLoop([NewBlock("while") EXCEPT !.capturing = cond, !.cond = line.expr])
    /\ PopFrame

\* #break and #continue: leave_loop_body follows
HandleLeave ==
    /\ Active({"break", "continue"})
    /\ Charge(0)
    /\ \/ ~InsideLoop /\ ReportAndFail
       \/ /\ InsideLoop
          /\ pc' = "leave"
          /\ UNCHANGED <<line, frames, scopes, blocks, calls, skipDepth,
                         skipCapture, captureBuf, pending, errored>>
          /\ Rest

\* An unresolved path is reported.  A missing one, and a file that is there and
\* cannot be read (or a frame without a document, which the driver never makes),
\* fail without a diagnostic.
HandleInclude ==
    /\ Active({"include"})
    /\ Charge(0)
    /\ \/ (includeDepth >= IncludeLimit \/ line.expr = "ill") /\ ReportAndFail
       \/ /\ includeDepth < IncludeLimit /\ line.expr \in {"bad", "unread"}
          /\ Fail
          /\ UNCHANGED <<line, frames, scopes, blocks, calls, skipDepth,
                         skipCapture, captureBuf, pending, errored>>
          /\ Rest
       \/ /\ includeDepth < IncludeLimit /\ line.expr \notin {"ill", "bad", "unread"}
          /\ includeDepth' = includeDepth + 1
          /\ frames' = Append(frames, NewFrame("FRAME_CALL", TRUE, <<>>))
          /\ scopes' = PushScope(TRUE, NoSyms)
          /\ pc' = "run"
          /\ UNCHANGED <<line, blocks, calls, skipDepth, skipCapture, captureBuf,
                         pending, errored, input, ragged, unterm>>

\* The tokens before a splice #{...} are queued before it is evaluated.
HandleEmit ==
    /\ Active({"emit"})
    /\ \E before \in {0, 1} : pending' = pending + before
    /\ UNCHANGED frames
    /\ \/ line.expr # "none" /\ BeginEval
       \/ /\ line.expr = "none"
          /\ Charge(0)
          /\ pc' = "run"
          /\ UNCHANGED <<line, scopes, blocks, calls, skipDepth, skipCapture,
                         captureBuf, errored>>
          /\ Rest

\* #var and #const; without "=" the value is null
HandleVar ==
    /\ Active({"var"})
    /\ \/ DefinedHere("x") /\ Charge(0) /\ ReportAndFail
       \/ /\ ~DefinedHere("x") /\ line.expr # "none"
          /\ BeginEval
          /\ UNCHANGED <<frames, pending>>
       \/ /\ ~DefinedHere("x") /\ line.expr = "none"
          /\ Charge(0)
          /\ scopes' = Assign("x", line.public, <<>>)
          /\ pc' = "run"
          /\ UNCHANGED <<line, frames, blocks, calls, skipDepth, skipCapture,
                         captureBuf, pending, errored>>
          /\ Rest

\* #set, #inc and #dec of a variable some scope defines
HandleSet ==
    /\ Active({"set"})
    /\ \/ ~Visible("x") /\ Charge(0) /\ ReportAndFail
       \/ Visible("x") /\ BeginEval /\ UNCHANGED <<frames, pending>>

-----------------------------------------------------------------------------
(* _el_pp_eval of the operand of line, and the handler that waits for it.   *)

ValueOf(dirs) ==
    /\ line.dir \in dirs
    /\ pc = "value" \/ (pc = "eval" /\ line.expr = "lit")

\* Mutant: the evaluator returns NULL without a diagnostic.
EvalRejectedQuietly ==
    /\ pc = "eval"
    /\ \/ line.expr \in {"ill", "bad"}
       \/ line.expr = "call" /\ (~Visible("f") \/ Len(calls) >= CallLimit)
    /\ pc' = "evalfail"
    /\ UNCHANGED <<line, frames, scopes, blocks, calls, skipDepth, skipCapture,
                   captureBuf, pending, opCount, errored>>
    /\ Rest

EvalRejected ==
    /\ pc = "eval"
    /\ \/ line.expr \in {"ill", "bad"}
       \/ line.expr = "call" /\ (~Visible("f") \/ Len(calls) >= CallLimit)
    /\ Report(TRUE)
    /\ pc' = "evalfail"
    /\ UNCHANGED <<line, frames, scopes, blocks, skipDepth, skipCapture,
                   captureBuf, pending, opCount>>
    /\ Rest

\* A loop condition pops its frame whether or not it has a value; the frame
\* pointer is NULL when the call took every frame with it (loops.c:56).
EvalFailed ==
    /\ pc = "evalfail"
    /\ IF line.dir \notin {"while", "again"}
       THEN Fail /\ UNCHANGED <<frames, scopes, calls, errored, includeDepth>>
       ELSE IF frames = <<>>
       THEN pc' = "crash" /\ UNCHANGED <<frames, scopes, calls, errored, includeDepth>>
       ELSE Fail /\ PopFrame
    /\ UNCHANGED <<line, blocks, skipDepth, skipCapture, captureBuf, pending,
                   opCount, input, ragged, unterm>>

CondFrameGone ==
    /\ ValueOf({"while", "again"}) /\ frames = <<>>
    /\ pc' = "crash"
    /\ UNCHANGED <<line, frames, scopes, blocks, calls, skipDepth, skipCapture,
                   captureBuf, pending, opCount, errored>>
    /\ Rest

\* _el_pp_call_func with one argument, make_call_frame and the start of
\* execute_function
EvalCall ==
    /\ pc = "eval" /\ line.expr = "call" /\ Visible("f") /\ Len(calls) < CallLimit
    /\ calls' = Append(calls,
         [line |-> line, base |-> Len(blocks), skip |-> skipDepth,
          caller |-> Len(frames), gone |-> FALSE, returned |-> FALSE,
          clean |-> TRUE])
    /\ skipDepth' = 0
    /\ frames' = Append(frames, NewFrame("FRAME_CALL", FALSE, Lookup("f").body))
    /\ scopes' = PushScope(FALSE, Binding("p"))
    /\ opCount' = opCount + EXPR_OPS
    /\ pc' = "run"
    /\ UNCHANGED <<line, blocks, skipCapture, captureBuf, pending, errored>>
    /\ Rest

\* #return has its value: the running function ends (_el_pp_handle_return)
ReturnValue ==
    /\ ValueOf({"return"})
    /\ calls' = [calls EXCEPT ![Len(calls)].returned = TRUE]
    /\ pc' = "cleanup"
    /\ UNCHANGED <<line, frames, scopes, blocks, skipDepth, skipCapture,
                   captureBuf, pending, opCount, errored>>
    /\ Rest

DirectiveCond ==
    \/ ValueOf({"if"}) /\ \E cond \in BOOLEAN : IfBranch(cond)
    \/ ValueOf({"while"}) /\ \E cond \in BOOLEAN : WhileFirst(cond)
    \/ ValueOf({"for"}) /\ \E count \in 0 .. MaxItems : ForItems(count)

\* #var assigns, #emit queues the spliced token, the others are done
DirectiveValue ==
    /\ ValueOf({"var", "emit", "set", "diag"})
    /\ scopes' = IF line.dir = "var" THEN Assign("x", line.public, <<>>) ELSE scopes
    /\ pending' = IF line.dir = "emit" THEN pending + 1 ELSE pending
    /\ pc' = "run"
    /\ UNCHANGED <<line, frames, blocks, calls, skipDepth, skipCapture,
                   captureBuf, opCount, errored>>
    /\ Rest

\* #error reports its message and stops the stream
ErrorDirective ==
    /\ ValueOf({"error"})
    /\ ReportAndFail
    /\ UNCHANGED opCount

\* Mutant: an #if of the call is popped without its branch scope.
CleanupBlockOnly ==
    /\ pc = "cleanup" /\ HasBlock
    /\ PopBlock
    /\ skipCapture' = FALSE
    /\ captureBuf' = <<>>
    /\ UNCHANGED <<pc, line, frames, scopes, calls, skipDepth, pending, opCount, errored>>
    /\ Rest

\* cleanup_call: first the blocks of the call, then the frames above the
\* caller's, or every frame when the caller's is no longer among them.
CleanupBlock ==
    /\ pc = "cleanup" /\ HasBlock
    /\ IF TopKind = "if"
       THEN PopIfBlock /\ UNCHANGED <<skipCapture, captureBuf>>
       ELSE /\ PopBlock
            /\ skipCapture' = FALSE
            /\ captureBuf' = <<>>
            /\ UNCHANGED <<scopes, calls, errored>>
    /\ UNCHANGED <<pc, line, frames, skipDepth, pending, opCount>>
    /\ Rest

\* Mutant: the caller's frame is not recognised.
AtCallerNever == frames = <<>>

AtCaller == frames = <<>> \/ (~Top(calls).gone /\ Len(frames) = Top(calls).caller)

CleanupFrame ==
    /\ pc = "cleanup" /\ ~HasBlock /\ ~AtCaller
    /\ PopFrame
    /\ UNCHANGED <<pc, line, blocks, skipDepth, skipCapture, captureBuf, pending,
                   opCount, input, ragged, unterm>>

\* Mutant: saved_skip_depth is not restored.
FinishCallUnskipped ==
    /\ pc = "cleanup" /\ ~HasBlock /\ AtCaller
    /\ LET call == Top(calls)
           silent == call.returned \/ ~call.clean
       IN /\ calls' = Dirty(Under(calls), ~silent)
          /\ errored' = (errored \/ ~silent)
          /\ line' = call.line
          /\ pc' = IF call.returned THEN "value" ELSE "evalfail"
    /\ UNCHANGED <<frames, scopes, blocks, skipDepth, skipCapture, captureBuf, pending,
                   opCount>>
    /\ Rest

\* The caller's handler resumes; without #return it fails, and
\* pp.func-no-return is reported unless the call reported something else.
FinishCall ==
    /\ pc = "cleanup" /\ ~HasBlock /\ AtCaller
    /\ LET call == Top(calls)
           silent == call.returned \/ ~call.clean
       IN /\ calls' = Dirty(Under(calls), ~silent)
          /\ errored' = (errored \/ ~silent)
          /\ skipDepth' = call.skip
          /\ line' = call.line
          /\ pc' = IF call.returned THEN "value" ELSE "evalfail"
    /\ UNCHANGED <<frames, scopes, blocks, skipCapture, captureBuf, pending, opCount>>
    /\ Rest

\* A handler returned false: the stream ends, or the running function does.
HandlerFailed ==
    /\ pc = "fail"
    /\ pc' = IF calls = <<>> THEN "failed" ELSE "cleanup"
    /\ UNCHANGED <<line, frames, scopes, blocks, calls, skipDepth, skipCapture,
                   captureBuf, pending, opCount, errored>>
    /\ Rest

-----------------------------------------------------------------------------
(* Loop bodies: enter_loop_body, _el_pp_loop_body_exhausted, leave_loop_body *)

AssertFails ==
    /\ pc' = "assert"
    /\ UNCHANGED <<line, frames, scopes, blocks, calls, skipDepth, skipCapture,
                   captureBuf, pending, opCount, errored>>
    /\ Rest

EnterLoopBody ==
    /\ pc = "enter"
    /\ opCount' = opCount + ITER_OPS
    /\ \/ opCount + ITER_OPS >= OpLimit /\ ReportAndFail
       \/ /\ opCount + ITER_OPS < OpLimit
          /\ frames' = Append(frames, NewFrame("FRAME_LOOP_BODY", FALSE, Top(blocks).body))
          /\ IF TopKind = "for"
             THEN /\ scopes' = PushScope(FALSE, Binding("i"))
                  /\ blocks' = SetTop([Top(blocks) EXCEPT !.left = @ - 1])
             ELSE scopes' = PushScope(FALSE, NoSyms) /\ UNCHANGED blocks
          /\ pc' = "run"
          /\ UNCHANGED <<line, calls, skipDepth, skipCapture, captureBuf, pending, errored>>
          /\ Rest

\* Mutant: index > count instead of index >= count.
ForDoneLate == Top(blocks).left < 0

ForDone == Top(blocks).left = 0

LoopBodyExhausted ==
    /\ pc = "exhausted"
    /\ CASE TopKind \notin LoopKinds -> AssertFails      \* loops.c:267-268
         [] TopKind = "for" ->
              /\ IF ForDone
                 THEN PopBlock /\ pc' = "run"
                 ELSE pc' = "enter" /\ UNCHANGED blocks
              /\ UNCHANGED <<line, frames, scopes, calls, skipDepth, skipCapture,
                             captureBuf, pending, opCount, errored>>
              /\ Rest
         [] TopKind = "while" ->
              /\ PushCondFrame
              /\ line' = [dir |-> "again", expr |-> Top(blocks).cond, public |-> TRUE]
              /\ opCount' = opCount + EXPR_OPS
              /\ pc' = "eval"
              /\ UNCHANGED <<blocks, calls, skipDepth, skipCapture, captureBuf,
                             pending, errored>>
              /\ Rest

WhileAgain ==
    /\ ValueOf({"again"}) /\ frames # <<>>
    /\ PopFrame
    /\ \/ pc' = "enter" /\ UNCHANGED blocks
       \/ pc' = "run" /\ PopBlock
    /\ UNCHANGED <<line, skipDepth, skipCapture, captureBuf, pending, opCount,
                   input, ragged, unterm>>

LeaveIfBlock ==
    /\ pc = "leave" /\ TopKind \notin LoopKinds
    /\ IF TopKind = "if"
       THEN /\ PopIfBlock
            /\ UNCHANGED <<pc, line, frames, skipDepth, skipCapture, captureBuf,
                           pending, opCount>>
            /\ Rest
       ELSE AssertFails                                  \* loops.c:208

\* The frames above the loop body, then the body itself (loops.c:213-222)
LeaveFrame ==
    /\ pc = "leave" /\ TopKind \in LoopKinds
    /\ IF frames = <<>>
       THEN /\ pc' = "crash"
            /\ UNCHANGED <<frames, scopes, blocks, calls, errored, includeDepth>>
       ELSE /\ PopFrame
            /\ \/ Top(frames).type # "FRAME_LOOP_BODY" /\ UNCHANGED <<pc, blocks>>
               \/ /\ Top(frames).type = "FRAME_LOOP_BODY"
                  /\ \/ line.dir = "continue" /\ pc' = "exhausted" /\ UNCHANGED blocks
                     \/ line.dir = "break" /\ pc' = "run" /\ PopBlock
    /\ UNCHANGED <<line, skipDepth, skipCapture, captureBuf, pending, opCount,
                   input, ragged, unterm>>

-----------------------------------------------------------------------------
(* _el_pp_skip_directive: directives read while skipping; a directive that  *)
(* is part of a captured body goes to capture_buf.                          *)

Skipping(dirs) == pc = "line" /\ line.dir \in dirs /\ skipDepth > 0

Capture == captureBuf' = IF skipCapture THEN Append(captureBuf, line) ELSE captureBuf

\* #emit and #include inside a function are reported and skipping goes on.
FuncTokenDir ==
    /\ line.dir \in {"include", "emit"}
    /\ calls # <<>> \/ (skipCapture /\ TopKind = "func")

\* The operand is skipped, not evaluated; one that is missing makes the
\* handler return false without a diagnostic of its own.
SkipFails ==
    /\ Skipping({"include", "emit", "var", "set", "diag", "error", "return",
                 "if", "while", "for", "func"})
    /\ line.expr = "bad"
    /\ Capture
    /\ Report(FuncTokenDir)
    /\ Fail
    /\ UNCHANGED <<line, frames, scopes, blocks, skipDepth, skipCapture, pending,
                   opCount>>
    /\ Rest

SkipLine ==
    /\ Skipping({"include", "emit", "var", "set", "diag", "error", "return",
                 "break", "continue"})
    /\ line.expr = "bad" => line.dir \in {"break", "continue"}
    /\ Capture
    /\ Report(FuncTokenDir)
    /\ pc' = "run"
    /\ UNCHANGED <<line, frames, scopes, blocks, skipDepth, skipCapture, pending,
                   opCount>>
    /\ Rest

\* Mutant: only #if nests.
SkipOpenIfOnly ==
    /\ Skipping({"if", "while", "for", "func"})
    /\ line.expr # "bad"
    /\ Capture
    /\ skipDepth' = IF line.dir = "if" THEN skipDepth + 1 ELSE skipDepth
    /\ pc' = "run"
    /\ UNCHANGED <<line, frames, scopes, blocks, calls, skipCapture, pending,
                   opCount, errored>>
    /\ Rest

SkipOpen ==
    /\ Skipping({"if", "while", "for", "func"})
    /\ line.expr # "bad"
    /\ Capture
    /\ skipDepth' = skipDepth + 1
    /\ pc' = "run"
    /\ UNCHANGED <<line, frames, scopes, blocks, calls, skipCapture, pending,
                   opCount, errored>>
    /\ Rest

SkipUnknown ==
    /\ Skipping({"unknown"})
    /\ Capture
    /\ Report(TRUE)
    /\ Fail
    /\ UNCHANGED <<line, frames, scopes, blocks, skipDepth, skipCapture, pending,
                   opCount>>
    /\ Rest

\* #else and #elif of a block opened while skipping
SkipInner ==
    /\ Skipping({"else", "elif"}) /\ skipDepth > 1
    /\ Capture
    /\ pc' = IF line.dir = "elif" /\ line.expr = "bad" THEN "fail" ELSE "run"
    /\ UNCHANGED <<line, frames, scopes, blocks, calls, skipDepth, skipCapture,
                   pending, opCount, errored>>
    /\ Rest

\* _el_pp_enter_if_branch, with the #if state the caller leaves
EnterIfBranch(state) ==
    /\ blocks' = SetTop([state EXCEPT !.taken = TRUE, !.hasScope = TRUE])
    /\ scopes' = PushScope(TRUE, NoSyms)
    /\ skipDepth' = 0

SkipElse ==
    /\ Skipping({"else"}) /\ skipDepth = 1
    /\ Capture
    /\ \/ /\ ElseRefused
          /\ Report(TRUE)
          /\ Fail
          /\ UNCHANGED <<scopes, blocks, skipDepth>>
       \/ /\ ~ElseRefused /\ Top(blocks).taken
          /\ blocks' = SetTop([Top(blocks) EXCEPT !.hadElse = TRUE])
          /\ pc' = "run"
          /\ UNCHANGED <<scopes, skipDepth, calls, errored>>
       \/ /\ ~ElseRefused /\ ~Top(blocks).taken
          /\ IF Top(blocks).hasScope                     \* preproc.c:290
             THEN pc' = "assert" /\ UNCHANGED <<scopes, blocks, skipDepth>>
             ELSE /\ EnterIfBranch([Top(blocks) EXCEPT !.hadElse = TRUE])
                  /\ pc' = "run"
          /\ UNCHANGED <<calls, errored>>
    /\ UNCHANGED <<line, frames, skipCapture, pending, opCount>>
    /\ Rest

SkipElif ==
    /\ Skipping({"elif"}) /\ skipDepth = 1
    /\ Capture
    /\ \/ /\ ElseRefused
          /\ Report(TRUE)
          /\ Fail
          /\ UNCHANGED opCount
       \/ /\ ~ElseRefused /\ Top(blocks).taken
          /\ pc' = IF line.expr = "bad" THEN "fail" ELSE "run"
          /\ UNCHANGED <<opCount, calls, errored>>
       \/ /\ ~ElseRefused /\ ~Top(blocks).taken
          /\ opCount' = opCount + EXPR_OPS
          /\ pc' = "eval"
          /\ UNCHANGED <<calls, errored>>
    /\ UNCHANGED <<line, frames, scopes, blocks, skipDepth, skipCapture, pending>>
    /\ Rest

ElifCond ==
    /\ ValueOf({"elif"})
    /\ \/ UNCHANGED <<scopes, blocks, skipDepth>> /\ pc' = "run"
       \/ IF Top(blocks).hasScope                        \* preproc.c:290
          THEN pc' = "assert" /\ UNCHANGED <<scopes, blocks, skipDepth>>
          ELSE EnterIfBranch(Top(blocks)) /\ pc' = "run"
    /\ UNCHANGED <<line, frames, calls, skipCapture, captureBuf, pending, opCount,
                   errored>>
    /\ Rest

\* _el_pp_skip_end of an inner block
SkipInnerEnd ==
    /\ Skipping({"end"}) /\ skipDepth > 1
    /\ Capture
    /\ skipDepth' = skipDepth - 1
    /\ pc' = "run"
    /\ UNCHANGED <<line, frames, scopes, blocks, calls, skipCapture, pending,
                   opCount, errored>>
    /\ Rest

\* _el_pp_finish_pending_func
FinishPendingFunc ==
    /\ scopes' = Assign("f", Top(blocks).public, captureBuf)
    /\ PopBlock
    /\ captureBuf' = <<>>
    /\ pc' = "run"
    /\ UNCHANGED <<calls, errored>>

\* _el_pp_finish_loop
FinishLoop ==
    /\ IF Top(blocks).capturing
       THEN /\ blocks' = SetTop([Top(blocks) EXCEPT
                            !.body = captureBuf, !.capturing = FALSE])
            /\ captureBuf' = <<>>
            /\ pc' = "enter"
       ELSE /\ PopBlock
            /\ pc' = "run"
            /\ UNCHANGED captureBuf
    /\ UNCHANGED <<scopes, calls, errored>>

\* _el_pp_skip_end of the open block: the #if is over, the function is
\* defined, the loop starts.  This #end is not part of a captured body
\* (directives.c:109 and 122).
SkipEnd ==
    /\ Skipping({"end"}) /\ skipDepth = 1
    /\ skipDepth' = 0
    /\ skipCapture' = FALSE
    /\ CASE TopKind = "if"        -> PopIfBlock /\ pc' = "run" /\ UNCHANGED captureBuf
         [] TopKind = "func"      -> FinishPendingFunc
         [] TopKind \in LoopKinds -> FinishLoop
         [] OTHER ->                                     \* end.c:31
              /\ pc' = "assert"
              /\ UNCHANGED <<scopes, blocks, calls, errored, captureBuf>>
    /\ UNCHANGED <<line, frames, pending, opCount>>
    /\ ClosingRest

-----------------------------------------------------------------------------
\* el_pp_init: the root file, the builtin scope and the global scope
Init ==
    /\ pc = "run"
    /\ line = NoLine
    /\ frames = <<[type |-> "FRAME_CALL", file |-> TRUE, rest |-> <<>>, base |-> 0]>>
    /\ scopes = <<[promote |-> TRUE, syms |-> NoSyms], [promote |-> TRUE, syms |-> NoSyms]>>
    /\ blocks = <<>>
    /\ calls = <<>>
    /\ skipDepth = 0
    /\ skipCapture = FALSE
    /\ captureBuf = <<>>
    /\ pending = 0
    /\ opCount = 0
    /\ includeDepth = 1
    /\ errored = FALSE
    /\ input = 0
    /\ ragged = FALSE
    /\ unterm = FALSE

Fetch == FetchPending \/ FetchLine \/ FrameExhausted \/ EndOfInput
            \/ UnterminatedBlock \/ PlainToken

Handle == OpLimitExceeded \/ HandleOperand \/ HandleStrayReturn \/ HandleUnknown
            \/ HandleElse \/ HandleElif \/ HandleEnd \/ HandleFunc \/ HandleWhile
            \/ HandleLeave \/ HandleInclude \/ HandleEmit \/ HandleVar \/ HandleSet

Evaluate == EvalRejected \/ EvalFailed \/ CondFrameGone \/ EvalCall \/ ReturnValue
            \/ DirectiveCond \/ DirectiveValue \/ ErrorDirective \/ ElifCond

Calls == CleanupBlock \/ CleanupFrame \/ FinishCall \/ HandlerFailed

Loops == EnterLoopBody \/ LoopBodyExhausted \/ WhileAgain \/ LeaveIfBlock \/ LeaveFrame

Skip == SkipFails \/ SkipLine \/ SkipOpen \/ SkipUnknown \/ SkipInner \/ SkipElse
            \/ SkipElif \/ SkipInnerEnd \/ SkipEnd

\* The stream has ended; the consumer stops at the first EOF token.
Ended == pc \in Final /\ UNCHANGED vars

Next == Fetch \/ Handle \/ Evaluate \/ Calls \/ Loops \/ Skip \/ Ended

Spec == Init /\ [][Next]_vars

-----------------------------------------------------------------------------
(* Properties *)

\* Every variable has its type.
TypeOK ==
    /\ pc \in Running \cup Final
    /\ line \in Line
    /\ frames \in Seq(Frames)
    /\ scopes \in Seq(Scopes)
    /\ blocks \in Seq(Blocks)
    /\ calls \in Seq(CallFrames)
    /\ skipDepth \in Nat
    /\ skipCapture \in BOOLEAN
    /\ captureBuf \in Seq(Line)
    /\ pending \in Nat
    /\ opCount \in Nat
    /\ includeDepth \in Nat
    /\ errored \in BOOLEAN
    /\ input \in Nat
    /\ ragged \in BOOLEAN
    /\ unterm \in BOOLEAN

Branches(bs) == {k \in DOMAIN bs : bs[k].hasScope}
NestedFrames == IF frames = <<>> THEN 0 ELSE Len(frames) - 1

\* Every scope belongs to the builtins, the root file, a nested frame or an
\* open #if branch, of this call or of a suspended caller: pushes and pops
\* spread over a dozen handlers, the early exits of #break, #continue, #return
\* and failed calls included, never lose or leak one (pp.unterm-block does).
ScopeBalance ==
    ~unterm => Len(scopes) = 2 + NestedFrames + Cardinality(Branches(blocks))

\* A definition made under a function or loop body scope never gets out of it
\* by promotion (scope.h:25-27), however frames and branches are popped.
LocalsStayLocal ==
    \A k \in DOMAIN scopes : \A n \in Names : scopes[k].syms[n].floor <= k

\* An #if without an open branch scope is the top of its block stack and is
\* being skipped: the assertions of _el_pp_enter_if_branch, of
\* _el_pp_leave_if_branch and of #else hold on every path, calls included.
BranchScopes ==
    \A k \in DOMAIN blocks : blocks[k].kind = "if" =>
        /\ blocks[k].hasScope => blocks[k].taken
        /\ ~blocks[k].hasScope =>
              IF k > BlockBase
              THEN k = Len(blocks) /\ skipDepth > 0
              ELSE \E c \in DOMAIN calls : calls[c].base = k /\ calls[c].skip > 0

\* No assertion fails and no NULL frame is popped unless a file left a block
\* open, closed one it did not open, or a function ran off its end.
CrashFree == pc \in {"assert", "crash"} => ragged

\* Tokens are captured exactly while the innermost block is a function or a
\* loop whose body is being collected, and then they are skipped too.
CaptureConsistent ==
    (~ragged /\ pc \in {"run", "line"}) =>
        /\ skipCapture <=> (HasBlock /\ (TopKind = "func" \/ Top(blocks).capturing))
        /\ skipCapture => skipDepth > 0
        /\ skipDepth > 0 => HasBlock

\* Blocks opened minus blocks closed by the first k lines of a body
Nesting(body) ==
    LET d[k \in 0 .. Len(body)] ==
          IF k = 0 THEN 0
          ELSE IF body[k].dir \in BlockKinds THEN d[k - 1] + 1
          ELSE IF body[k].dir = "end" THEN d[k - 1] - 1
          ELSE d[k - 1]
    IN  d

Balanced(body) ==
    /\ Nesting(body)[Len(body)] = 0
    /\ \A k \in DOMAIN body : body[k].dir = "end" => Nesting(body)[k - 1] > 0

\* What a #func or a loop captured closes every block it opens and no other,
\* so replaying it cannot touch the blocks of whoever replays it.
BodiesBalanced ==
    /\ \A k \in DOMAIN blocks : Balanced(blocks[k].body)
    /\ \A k \in DOMAIN scopes : \A n \in Names : Balanced(scopes[k].syms[n].body)

\* A definition is never overwritten by another: the redefinition check, made
\* when #func or #var is read, still holds when #end or the value arrives.
NoOverwrite ==
    [][~ragged' =>
         \A k \in DOMAIN scopes \cap DOMAIN scopes' : \A n \in Names :
           Defined(scopes[k], n) => scopes'[k].syms[n] = scopes[k].syms[n]]_vars

Kept(old, new, n) == Len(new) >= n /\ SubSeq(new, 1, n) = SubSeq(old, 1, n)

CallersUntouched ==
    \A c \in DOMAIN calls \cap DOMAIN calls' :
        Kept(frames, frames', calls[c].caller) /\ Kept(blocks, blocks', calls[c].base)

\* While a function runs, the frames and blocks of its callers do not change,
\* unless the body ended without #return.
HermeticCalls == [][~ragged' => CallersUntouched]_vars

\* Where the code returns false and reports nothing: an #include without a path
\* or of a file it cannot read, and a directive without its operand that is
\* skipped or is an #elif behind the branch that was taken.
GivesUpSilently ==
    \/ line.dir = "include" /\ line.expr \in {"bad", "unread"}
    \/ line.expr = "bad" /\ (skipDepth > 0 \/ line.dir = "elif")

\* A stream that stops before its end has said why, but for these directives
\* outside of a function: there the call that fails reports.
FailureReported == pc = "failed" => errored \/ GivesUpSilently

\* The stream of a finite input ends: the operation limit stops every loop
\* and the call limit every recursion.
StreamEnds == <>(pc \in Final)

\* Violated by the code: a function without #return fails with pp.func-no-return
\* (func-no-return/main.eu:2): a call returns only while its body is read, not
\* by a #return among the lines that follow it in the caller.
ReturnsFromBody ==
    [][\A c \in DOMAIN calls \cap DOMAIN calls' :
         calls'[c].returned /\ ~calls[c].returned => Len(frames) > calls[c].caller]_vars
=============================================================================
