------------------------------ MODULE ElPipeline -----------------------------
(***************************************************************************)
(* The pipeline of elc (elc/pipeline), the nine stages and the observers   *)
(* the driver registers (elc/driver/stages, elc/driver/observers).  The    *)
(* stages that read tokens run lazily: executing the lexer stage only sets *)
(* up a stream, the preprocessor pulls tokens from it while the parser     *)
(* pulls from the preprocessor, and a stream whose tokens are to be dumped *)
(* is read to its end at once and replayed from a buffer.                  *)
(*                                                                         *)
(* A source document is a sequence of tokens, some kept by the preproces-  *)
(* sor, some its own, with at most one flaw: the token at which the lexer, *)
(* the preprocessor or the parser reports an error, or whose declaration   *)
(* the binder rejects.                                                     *)
(***************************************************************************)
EXTENDS Naturals, Sequences, ElProf, ElCommandLine

CONSTANTS Sources,     \* the documents: [exists, kept, flaw, at]
          MaxFrames,   \* bound on the substages open at once
          MaxBegins    \* bound on the substages begun in a run

\* name, input_kind and output_kind of each stage, by its output.
StageTable ==
    [toks    |-> [name |-> "Lexer",            input |-> "source"],
     pptoks  |-> [name |-> "Preprocessor",     input |-> "toks"],
     ast     |-> [name |-> "Parser",           input |-> "pp-toks"],
     hir     |-> [name |-> "Binder",           input |-> "ast"],
     mir     |-> [name |-> "Lowerer",          input |-> "hir"],
     ulir    |-> [name |-> "Codegen",          input |-> "mir"],
     lir     |-> [name |-> "Optimizer",        input |-> "ulir"],
     obj     |-> [name |-> "Emit Object File", input |-> "lir"],
     asm     |-> [name |-> "Emit Assembly",    input |-> "lir"]]
MakesOutput == Artifacts \ {"source"}
StageOf(kind) == StageTable[IF kind = "pp-toks" THEN "pptoks" ELSE kind]

\* The profiler knows the stages of the table.
ASSUME StagesAssumption == \A kind \in MakesOutput : StageOf(kind).name \in Stages

\* A flaw is at a token or at the EOF; one the parser or the binder finds is at a token
\* the preprocessor leaves.
ASSUME SourcesAssumption ==
    \A document \in Sources :
       LET size == Len(document.kept)
       IN  /\ document.exists \in BOOLEAN
           /\ document.kept \in Seq(BOOLEAN)
           /\ document.flaw \in {"none", "lexer", "preprocessor", "parser", "binder"}
           /\ document.flaw # "none" => document.at \in 1 .. size + 1
           /\ document.flaw = "parser" => document.at = size + 1 \/ document.kept[document.at]
           /\ document.flaw = "binder" => document.at # size + 1 /\ document.kept[document.at]

VARIABLES
    source,      \* the document of this run
    args,        \* the ElcArgs the command line left
    registry,    \* kinds of the artifacts produced
    requests,    \* the pending calls of elc_pipeline_request, outermost first
    answer,      \* what the outermost request returned: "pending", "yes", "no"
    executing,   \* the kind whose stage is in execute, or None
    told,        \* last event each stage was announced with
    dumped,      \* kinds of the dumps written so far, in order
    errors,      \* errors counted by the diagnostic engine
    calls,       \* calls of token_stream_next in progress, outermost first
    streams,     \* positions of the two token streams
    prof,        \* the profiler, see ElProf
    begun,       \* substages begun so far (bounded by MaxBegins)
    clock        \* time of the next call

pipeVars == <<source, args, registry, requests, answer, executing, told, dumped,
              errors, calls, streams, prof, begun, clock>>

Timed == args.timed
Tick == clock' = IF Timed THEN clock + 1 ELSE clock

\* The profiler is NULL unless a report is asked for: every call is a no-op then.
ProfCall(new) == prof' = IF Timed THEN new ELSE prof

\* The variable src before it is initialised.
NoDocument == [exists |-> FALSE, kept |-> <<>>, flaw |-> "none", at |-> 0]

InitPipeline ==
    /\ registry = {} /\ requests = <<>> /\ answer = "pending"
    /\ executing = None /\ told = [k \in MakesOutput |-> "nothing"]
    /\ dumped = <<>> /\ errors = 0 /\ calls = <<>>
    /\ streams = [lexed |-> 0, taken |-> 0, hand |-> 0, over |-> FALSE,
                  buffer |-> <<>>, replayed |-> 0, read |-> <<>>, ended |-> FALSE]
    /\ prof = ProfInit /\ begun = 0 /\ clock = 0

Running == requests # <<>> /\ answer = "pending" /\ ~prof.failed
Wanted == requests[Len(requests)]
Captures(kind) == kind \in args.dumps

-----------------------------------------------------------------------------
(* Requests (elc_pipeline_request).                                        *)

\* The request of a kind starts with the request of its input.
RequestInput ==
    /\ Running /\ executing = None
    /\ Wanted \in MakesOutput \ registry
    /\ StageOf(Wanted).input \notin registry
    /\ requests' = Append(requests, StageOf(Wanted).input)
    /\ UNCHANGED <<source, args, registry, answer, executing, told, dumped,
                   errors, calls, streams, prof, begun, clock>>

\* A kind that is in the registry already.
RequestHit ==
    /\ Running /\ executing = None
    /\ Wanted \in registry
    /\ requests' = SubSeq(requests, 1, Len(requests) - 1)
    /\ answer' = IF Len(requests) = 1 THEN "yes" ELSE answer
    /\ UNCHANGED <<source, args, registry, executing, told, dumped, errors,
                   calls, streams, prof, begun, clock>>

\* No stage makes the kind: every pending request returns false.
RequestUnknown ==
    /\ Running /\ executing = None
    /\ Wanted \notin MakesOutput \cup registry
    /\ requests' = <<>> /\ answer' = "no"
    /\ UNCHANGED <<source, args, registry, executing, told, dumped, errors,
                   calls, streams, prof, begun, clock>>

\* The stage is announced, the timer begins it, and its execute is called.
StartStage ==
    /\ Running /\ executing = None
    /\ Wanted \in MakesOutput \ registry
    /\ StageOf(Wanted).input \in registry
    /\ told' = [told EXCEPT ![Wanted] = "start"]
    /\ ProfCall(ProfBegin(prof, clock, StageOf(Wanted).name))
    /\ executing' = Wanted
    /\ Tick
    /\ UNCHANGED <<source, args, registry, requests, answer, dumped, errors,
                   calls, streams, begun>>

-----------------------------------------------------------------------------
(* Token streams.  lexed and taken count the tokens the lexer has made and *)
(* the preprocessor has taken; number Size + 1 is the EOF.                 *)

Size == Len(source.kept)
Eof == Size + 1
Depth == Len(prof.frames)
InCall(stage) == calls # <<>> /\ calls[Len(calls)].stage = stage

EnterCall(stage) ==
    /\ calls' = Append(calls, [stage |-> stage, previous |-> prof.active, depth |-> Depth])
    /\ ProfCall(EnterStage(prof, clock, stage))
    /\ Tick

\* Leaving is the last thing a call does.
LeaveCall ==
    LET call == calls[Len(calls)]
    IN  /\ Depth = call.depth
        /\ calls' = SubSeq(calls, 1, Len(calls) - 1)
        /\ ProfCall(LeaveStage(prof, clock, call.previous))
        /\ Tick

\* The parser pulls a token from the live preprocessor, or the preprocessor
\* stage captures its own stream.
PullPreproc ==
    /\ Running /\ calls = <<>>
    /\ \/ executing = "ast" /\ ~Captures("pp-toks") /\ ~streams.ended
       \/ executing = "pp-toks" /\ Captures("pp-toks") /\ ~streams.over
    /\ EnterCall("Preprocessor")
    /\ UNCHANGED <<source, args, registry, requests, answer, executing, told, dumped,
                   errors, streams, begun>>

\* The preprocessor pulls from the live lexer, or the lexer stage captures.
PullLexer ==
    /\ Running
    /\ \/ InCall("Preprocessor") /\ streams.hand = 0 /\ ~Captures("toks")
       \/ calls = <<>> /\ executing = "toks" /\ Captures("toks") /\ streams.lexed < Eof
    /\ EnterCall("Lexer")
    /\ UNCHANGED <<source, args, registry, requests, answer, executing, told, dumped,
                   errors, streams, begun>>

FlawAt(layer, n) == IF source.flaw = layer /\ source.at = n THEN 1 ELSE 0

\* The preprocessor has taken token n.  One of its own makes it go on; an error
\* of its own ends the stream; a kept token and the EOF are what it returns.
Taking(st, n) ==
    [st EXCEPT !.taken = n,
               !.hand = IF FlawAt("preprocessor", n) = 1 THEN Eof
                        ELSE IF n = Eof \/ source.kept[n] THEN n ELSE 0]

\* token_stream_next of the lexer: an error is reported and a token made anyway.
LexToken ==
    /\ Running /\ InCall("Lexer")
    /\ LET n == streams.lexed + 1
           made == [streams EXCEPT !.lexed = n]
           pulled == Len(calls) > 1
       IN  /\ streams' = IF pulled THEN Taking(made, n) ELSE made
           /\ errors' = errors + FlawAt("lexer", n)
                        + (IF pulled THEN FlawAt("preprocessor", n) ELSE 0)
    /\ LeaveCall
    /\ UNCHANGED <<source, args, registry, requests, answer, executing, told, dumped, begun>>

\* The preprocessor takes the next token of the captured stream.
TakeReplayed ==
    /\ Running /\ InCall("Preprocessor") /\ streams.hand = 0 /\ Captures("toks")
    /\ LET n == streams.taken + 1
       IN  /\ streams' = Taking(streams, n)
           /\ errors' = errors + FlawAt("preprocessor", n)
    /\ Tick
    /\ UNCHANGED <<source, args, registry, requests, answer, executing, told, dumped,
                   calls, prof, begun>>

\* The parser reads token n: an error it reports stays with the token.
Reading(st, n) == IF n = Eof THEN [st EXCEPT !.ended = TRUE]
                  ELSE [st EXCEPT !.read = Append(@, n)]

\* _el_pp_token_stream_next returns its token to the parser or to the capture.
ReturnToken ==
    /\ Running /\ InCall("Preprocessor") /\ streams.hand # 0
    /\ LET n == streams.hand
           given == [streams EXCEPT !.hand = 0, !.over = (n = Eof)]
       IN  IF executing = "ast"
           THEN /\ streams' = Reading(given, n)
                /\ errors' = errors + FlawAt("parser", n)
           ELSE /\ streams' = IF n = Eof THEN given
                              ELSE [given EXCEPT !.buffer = Append(@, n)]
                /\ UNCHANGED errors
    /\ LeaveCall
    /\ UNCHANGED <<source, args, registry, requests, answer, executing, told, dumped, begun>>

\* The parser reads the captured stream of the preprocessor.
ReadReplayed ==
    /\ Running /\ calls = <<>> /\ executing = "ast" /\ Captures("pp-toks") /\ ~streams.ended
    /\ LET i == streams.replayed + 1
           n == IF i > Len(streams.buffer) THEN Eof ELSE streams.buffer[i]
       IN  /\ streams' = Reading([streams EXCEPT !.replayed = i], n)
           /\ errors' = errors + FlawAt("parser", n)
    /\ Tick
    /\ UNCHANGED <<source, args, registry, requests, answer, executing, told, dumped,
                   calls, prof, begun>>

-----------------------------------------------------------------------------
(* Substages, begun and finished around the routines of a stage.           *)

Owner == IF calls = <<>> THEN StageOf(executing).name ELSE calls[Len(calls)].stage
Base == IF calls = <<>> THEN 0 ELSE calls[Len(calls)].depth

BeginSubstage ==
    /\ Running /\ executing # None /\ Timed
    /\ Depth < MaxFrames /\ begun < MaxBegins
    /\ calls = <<>> => executing \notin {"toks", "pp-toks"}
    /\ \E b \in Substages :
          /\ b.pstage = Owner
          /\ ProfCall(BeginSub(prof, clock, b))
    /\ begun' = begun + 1
    /\ Tick
    /\ UNCHANGED <<source, args, registry, requests, answer, executing, told, dumped,
                   errors, calls, streams>>

FinishSubstage ==
    /\ Running /\ executing # None /\ Depth > Base
    /\ ProfCall(FinishSub(prof, clock, prof.frames[Depth].sub))
    /\ Tick
    /\ UNCHANGED <<source, args, registry, requests, answer, executing, told, dumped,
                   errors, calls, streams, begun>>

-----------------------------------------------------------------------------
(* The end of a stage.                                                     *)

\* The stage has read what its execute reads before it returns.
Exhausted ==
    CASE executing = "toks" -> Captures("toks") => streams.lexed = Eof
      [] executing = "pp-toks" -> Captures("pp-toks") => streams.over
      [] executing = "ast" -> streams.ended
      [] OTHER -> TRUE

\* The declaration the binder rejects is there if its token was read.
BinderErrors == IF executing = "hir" /\ \E i \in DOMAIN streams.read :
                       FlawAt("binder", streams.read[i]) = 1
                THEN 1 ELSE 0
ErrorsThen == errors + BinderErrors

\* Mutant: the binder stage leaves errors to whoever comes next.
ChecksParserOnly == {"ast"}

\* The stages whose execute returns false when there are errors.
Checks == {"ast", "hir"}

\* The timer looks at FINISH only, and only if the stage is the active one.
TimerFinish(kind) ==
    IF prof.active = StageOf(kind).name
    THEN FinishStage(prof, clock, StageOf(kind).name) ELSE prof

\* Mutant: both observers of --dump-lir write when either artifact is ready.
DumpsOfByName(kind) ==
    LET name == IF kind = "ulir" THEN "lir" ELSE kind
    IN  IF name \in args.dumps THEN <<name>> ELSE <<>>

\* The dump observers of a kind, at END: --dump-lir has one for each of the two,
\* and what is emitted or stopped at is dumped as well, tokens excepted.
DumpsOf(kind) ==
    LET name == IF kind = "ulir" THEN "lir" ELSE kind
        target == kind \in {args.emit, args.until}
    IN  IF \/ kind \in {"ast", "hir", "mir", "ulir", "lir"} /\ (name \in args.dumps \/ target)
           \/ kind \in {"toks", "pp-toks"} /\ kind \in args.dumps
        THEN <<kind>> ELSE <<>>

EndStage ==
    /\ Running /\ executing # None /\ calls = <<>> /\ Depth = 0 /\ Exhausted
    /\ errors' = ErrorsThen
    /\ executing' = None
    /\ Tick
    /\ LET kind == executing
       IN  \/ /\ ErrorsThen > 0 /\ kind \in Checks      \* execute returned false
              /\ told' = [told EXCEPT ![kind] = "finish"]
              /\ ProfCall(TimerFinish(kind))
              /\ requests' = <<>> /\ answer' = "no"
              /\ UNCHANGED <<registry, dumped>>
           \/ /\ ErrorsThen > 0 /\ kind \notin Checks   \* the check just in case
              /\ requests' = <<>> /\ answer' = "no"
              /\ UNCHANGED <<registry, dumped, told, prof>>
           \/ /\ ErrorsThen = 0
              /\ registry' = registry \cup {kind}
              /\ told' = [told EXCEPT ![kind] = "end"]
              /\ ProfCall(TimerFinish(kind))
              /\ dumped' = dumped \o DumpsOf(kind)
              /\ requests' = SubSeq(requests, 1, Len(requests) - 1)
              /\ answer' = IF Len(requests) = 1 THEN "yes" ELSE answer
    /\ UNCHANGED <<source, args, calls, streams, begun>>

PipelineNext ==
    \/ RequestInput \/ RequestHit \/ RequestUnknown \/ StartStage
    \/ PullPreproc \/ PullLexer \/ LexToken \/ TakeReplayed \/ ReturnToken \/ ReadReplayed
    \/ BeginSubstage \/ FinishSubstage \/ EndStage
=============================================================================
