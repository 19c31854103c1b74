------------------------------- MODULE ElDriver ------------------------------
(***************************************************************************)
(* One run of elc (elc/main.c, elc/driver/driver.c): the command line is   *)
(* read one argument at a time, the source document is opened, the target  *)
(* artifact is requested from the pipeline, an object or assembly target   *)
(* is written, the reports are printed, everything is released.            *)
(*                                                                         *)
(* The build is one with EL_DEBUG: an assertion that does not hold stops   *)
(* the program.                                                            *)
(***************************************************************************)
EXTENDS ElPipeline, SequencesExt

CONSTANTS Lines        \* the command lines, sequences of arguments

VARIABLES
    phase,       \* where main() is
    cli,         \* the parser of the command line
    written,     \* the kind written to the output file, or None
    reported,    \* the reports were printed
    freed,       \* what the cleanup released, in order
    exit         \* the exit status, -1 while running

driverVars == <<phase, cli, written, reported, freed, exit>>
vars == <<driverVars, pipeVars>>

Init == /\ \E line \in Lines : cli = ParseInit(line)
        /\ source = NoDocument
        /\ args = DefaultArgs
        /\ phase = "arguments" /\ written = None /\ reported = FALSE
        /\ freed = <<>> /\ exit = -1
        /\ InitPipeline

-----------------------------------------------------------------------------
(* main(): the command line.                                               *)

ReadArgument ==
    /\ phase = "arguments" /\ cli.argv # <<>> /\ cli.code = "ok"
    /\ cli' = ParseArg(cli)
    /\ UNCHANGED <<phase, written, reported, freed, exit, pipeVars>>

\* An error exits with 1, help and version with 0; neither runs the driver.
EndArguments ==
    /\ phase = "arguments"
    /\ cli.argv = <<>> \/ cli.code # "ok"
    /\ LET code == ParseEnd(cli)
           stops == code # "ok" \/ cli.out.help \/ cli.out.version
       IN  /\ args' = cli.out
           /\ cli' = [ParseInit(<<>>) EXCEPT !.code = code]
           /\ phase' = IF stops THEN "exited" ELSE "source"
           /\ exit' = IF ~stops THEN -1 ELSE IF code # "ok" THEN 1 ELSE 0
    /\ UNCHANGED <<written, reported, freed, source, registry, requests, answer, executing,
                   told, dumped, errors, calls, streams, prof, begun, clock>>

-----------------------------------------------------------------------------
(* elc_driver_run.                                                         *)

\* determine_target.
Target == IF args.emit # None THEN args.emit
          ELSE IF args.until # None THEN args.until ELSE "obj"

\* init_source_document: what stdin holds is read and not provided; a file that
\* cannot be read ends the run before anything is printed.
OpenSource ==
    /\ phase = "source"
    /\ source' \in Sources
    /\ IF args.input # "-" /\ ~source'.exists
       THEN /\ phase' = "cleanup"
            /\ exit' = 1
            /\ UNCHANGED <<registry, requests>>
       ELSE /\ registry' = IF args.input = "-" THEN registry ELSE registry \cup {"source"}
            /\ requests' = <<Target>>
            /\ phase' = "pipeline"
            /\ UNCHANGED exit
    /\ UNCHANGED <<cli, written, reported, freed, args, answer, executing,
                   told, dumped, errors, calls, streams, prof, begun, clock>>

RunPipeline ==
    /\ phase = "pipeline"
    /\ PipelineNext
    /\ UNCHANGED driverVars

\* Mutant: the target is written whether or not the pipeline succeeded.
ReachesOutputUnasked(kind) == kind \in {"obj", "asm"}

\* Only these two targets are written to the output by the driver itself.
ReachesOutput(kind) == answer = "yes" /\ kind \in {"obj", "asm"}

\* An output file that cannot be opened is written to all the same: fwrite to
\* NULL ends the program.  The standard output is always there.
WriteOutput ==
    /\ phase = "pipeline" /\ answer # "pending"
    /\ \/ /\ ReachesOutput(Target)
          /\ \/ written' = Target /\ phase' = "reports"
             \/ /\ args.output # "-" \/ Target = "obj"
                /\ phase' = "crashed" /\ UNCHANGED written
       \/ /\ ~ReachesOutput(Target)
          /\ phase' = "reports" /\ UNCHANGED written
    /\ UNCHANGED <<cli, reported, freed, exit, pipeVars>>

\* The timing report, if asked for, and the diagnostics.
PrintReports ==
    /\ phase = "reports"
    /\ reported' = TRUE
    /\ exit' = IF answer = "yes" THEN 0 ELSE 1
    /\ phase' = "cleanup"
    /\ UNCHANGED <<cli, written, freed, pipeVars>>

\* elc_artifact_free: the two buffers, and the handle of the unoptimized LIR; no
\* other artifact holds anything.
ReleasesOf(kind) == IF kind \notin registry THEN <<>>
                    ELSE IF kind = "ulir" THEN <<"handle">> ELSE <<kind>>

\* elc_driver_free, elc_pipeline_cleanup: the registry in the order of the kinds.
Cleanup ==
    /\ phase = "cleanup"
    /\ freed' = ReleasesOf("ulir") \o ReleasesOf("asm") \o ReleasesOf("obj")
    /\ registry' = {}
    /\ phase' = "exited"
    /\ UNCHANGED <<cli, written, reported, exit, source, args, requests, answer, executing,
                   told, dumped, errors, calls, streams, prof, begun, clock>>

\* abort() of an assertion of the profiler.
Abort ==
    /\ phase = "pipeline" /\ prof.failed
    /\ phase' = "crashed"
    /\ UNCHANGED <<cli, written, reported, freed, exit, pipeVars>>

Stopped == phase \in {"exited", "crashed"} /\ UNCHANGED vars

Next == \/ ReadArgument \/ EndArguments \/ OpenSource \/ RunPipeline
        \/ WriteOutput \/ PrintReports \/ Cleanup \/ Abort \/ Stopped

Spec == Init /\ [][Next]_vars

-----------------------------------------------------------------------------
(* Properties.                                                             *)

\* The target's own name in the chain of stages, from the source to the target.
Chain == <<"source", "toks", "pp-toks", "ast", "hir", "mir", "ulir", "lir">>
Rank(kind) == IF kind \in {"obj", "asm"} THEN 9 ELSE CHOOSE i \in 1..8 : Chain[i] = kind
Reaches(kind) == Rank(Target) >= Rank(kind)

\* The flaw comes to light in this run: somebody reads the tokens that far.
FlawSeen ==
    CASE source.flaw = "none" -> FALSE
      [] source.flaw = "lexer" ->
            Reaches("ast") \/ (Reaches("toks") /\ Captures("toks"))
                           \/ (Reaches("pp-toks") /\ Captures("pp-toks"))
      [] source.flaw = "preprocessor" ->
            Reaches("ast") \/ (Reaches("pp-toks") /\ Captures("pp-toks"))
      [] source.flaw = "parser" -> Reaches("ast")
      [] source.flaw = "binder" -> Reaches("hir")

Produced == {k \in MakesOutput : told[k] = "end"}
Ran == phase = "exited" /\ cli.code = "ok" /\ ~args.help /\ ~args.version

\* The cleanup releases each buffer, and the handle the two LIR artifacts share,
\* exactly once if it was produced.
ReleasedOnce ==
    \A r \in {"handle", "asm", "obj"} :
       Cardinality({i \in DOMAIN freed : freed[i] = r})
         = IF (IF r = "handle" THEN "ulir" ELSE r) \in Produced THEN 1 ELSE 0

\* The pipeline has a source: a file that can be read.  What stdin holds is read
\* into a document that nobody hands to the pipeline (init_source_document), see
\* StdinCompiled.
Provided == args.input # "-" /\ source.exists

\* elc exits with 0 exactly if the input is a file that can be read and none of
\* its errors is within reach of the target or of a token dump; it has then
\* produced the target, and written it if it is an object or an assembly file.
\* Trees and LIR are left to the dump observers, and a target that is the source
\* or a stream of tokens is written by nobody and read by nobody: for
\* `elc preprocess' elc exits with 0 over a source with errors and leaves nothing
\* behind.  With `-' it exits with 1, whatever stdin holds.  Errors are found
\* lazily, by other stages than the one whose input they are in, and it is the
\* check after execute that turns them into a failure.  Either way elc has
\* released what it produced.
ExitTellsTruth ==
    /\ Ran =>
          /\ (exit = 0) <=> (Provided /\ ~FlawSeen)
          /\ exit = 0 => /\ Target = "source" \/ told[Target] = "end"
                         /\ written = IF Target \in {"obj", "asm"} THEN Target ELSE None
                         /\ errors = 0
          /\ exit = 1 => written = None
    /\ phase = "exited" => ReleasedOnce

\* Violated by the code: a source without errors compiles from stdin as it does
\* from a file (args.h: "filename or - for stdin").  The document that stdin was
\* read into is not provided to the pipeline, so its first stage has no input and
\* elc exits with 1 and no word of why.
StdinCompiled ==
    Ran /\ args.input = "-" /\ source.exists /\ source.flaw = "none" => exit = 0

\* Every announcement is answered: when no stage executes, a stage announced with
\* START has got its FINISH, unless it captured a stream and returned true with
\* errors behind it, no stage runs after a failed one, and END came with the
\* artifact.
EventsPaired ==
    ~prof.failed /\ executing = None =>
       /\ Cardinality({k \in MakesOutput : told[k] \in {"start", "finish"}}) <= 1
       /\ \A k \in MakesOutput :
             /\ told[k] = "start" => /\ k \in {"toks", "pp-toks"} /\ Captures(k)
                                    /\ errors > 0 /\ answer = "no"
             /\ told[k] = "finish" => errors > 0 /\ answer = "no"
             /\ phase # "exited" => (told[k] = "end" <=> k \in registry)

\* The tokens the preprocessor of this document leaves, all of them and in order.
Preserved(tokens) ==
    /\ Range(tokens) = {n \in 1..Size : source.kept[n]}
    /\ \A i, j \in DOMAIN tokens : i < j => tokens[i] < tokens[j]

\* --dump-lir asks for the LIR before and after the optimizer.
DumpsAsked == args.dumps \cup (IF "lir" \in args.dumps THEN {"ulir"} ELSE {})

\* A dump is written once, after its stage and whole, and capturing a stream for
\* it does not change what the parser reads.  A run that succeeds has written all
\* that were asked for and are made on the way to its target, except that of asm,
\* which has no observer.
DumpsComplete ==
    /\ \A i, j \in DOMAIN dumped : i < j => dumped[i] # dumped[j]
    /\ \A i \in DOMAIN dumped : told[dumped[i]] = "end"
    /\ \A i \in DOMAIN dumped :
          /\ dumped[i] = "toks" => streams.lexed = Eof
          /\ dumped[i] = "pp-toks" => Preserved(streams.buffer)
    /\ told["ast"] = "end" => Preserved(streams.read)
    /\ Ran /\ exit = 0 =>
          \A k \in DumpsAsked \ {"asm"} :
             Reaches(k) => \E i \in DOMAIN dumped : dumped[i] = k

\* The report is consistent: when it is printed no frame is open, and no stage
\* spent less time than its substages together, so that the row (other) is never
\* negative, although the frames of stages nest in each other across pulls.
ReportConsistent ==
    phase = "reports" =>
       /\ prof.frames = <<>>
       /\ \A s \in Stages :
             /\ told # [k \in MakesOutput |-> "nothing"] => prof.stages[s].total <= clock
             /\ MapThenSumSet(LAMBDA b : IF b.pstage = s THEN prof.subs[b] ELSE 0, Substages)
                  <= prof.stages[s].total
       /\ \A k \in Produced : ~prof.stages[StageOf(k).name].running

\* Time is charged once: while a substage is open, one unit of time goes to the
\* innermost one whatever call was made last, and none goes anywhere otherwise.
ChargedOnce ==
    [][prof.failed' \/ Charged(prof, clock)' - Charged(prof, clock)
          = IF prof'.frames = <<>> THEN 0 ELSE clock' - clock]_vars

\* An assertion of the profiler can only fail after a stage that captured its
\* own stream: entering the stage from inside of it leaves it active for good.
AbortsOnlyCaptured ==
    prof.failed => \E k \in {"toks", "pp-toks"} :
                      Captures(k) /\ told[k] = "end" /\ prof.active = StageOf(k).name
=============================================================================
