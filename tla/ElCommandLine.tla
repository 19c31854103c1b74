----------------------------- MODULE ElCommandLine ---------------------------
(***************************************************************************)
(* The command line of elc (elc/cli/argparse.c): one step of the loop of   *)
(* elc_cli_parse_args as an operator on a parser record, the whole loop as *)
(* its repetition in ElDriver.                                             *)
(*                                                                         *)
(* An argument is a record: a word, "--", a long flag with or without      *)
(* `=value', or a group of short flags whose last letter may have its      *)
(* value attached.  A value is a word of a small set; a flag used as the   *)
(* value of another one is a word no table knows.                          *)
(***************************************************************************)
EXTENDS Naturals, Sequences

\* No artifact (ELC_ART_NONE), and the missing string EL_SV_NULL.
None == "none"
NoValue == ""

\* The kinds by the names elc_artifact_kind_from_string gives them.
Artifacts == {"source", "toks", "pp-toks", "ast", "hir", "mir", "ulir", "lir", "asm", "obj"}
ArtifactFromString(w) == IF w \in Artifacts THEN w ELSE None

OptLevels == {"0", "1", "2", "3", "g", "s", "z", "f", "debug", "fast", "size"}
Preferences == {"never", "auto", "always"}
Dumps == {"toks", "pp-toks", "ast", "hir", "mir", "lir", "asm"}
Mappings == {"lib=dir"}

\* The commands and what they set `until' and `emit' to.
Aliases == [build      |-> <<"obj", "obj">>,
            compile    |-> <<"obj", "obj">>,
            check      |-> <<"hir", None>>,
            preprocess |-> <<"pp-toks", "pp-toks">>,
            lower      |-> <<"mir", "mir">>,
            codegen    |-> <<"lir", "lir">>,
            inspect    |-> <<None, None>>]

Word(w) == [form |-> "word", text |-> w]
Long(f) == [form |-> "long", flag |-> f, value |-> NoValue]
LongWith(f, v) == [form |-> "long", flag |-> f, value |-> v]
Short(letters, v) == [form |-> "short", letters |-> letters, value |-> v]
Dashes == [form |-> "dashes"]

TextOf(arg) == IF arg.form = "word" THEN arg.text ELSE "-flag"

\* The fields of ElcArgs the rest of elc reads.  `switches' holds the plain ones.
DefaultArgs == [input |-> NoValue, output |-> "-", until |-> "obj", emit |-> "obj",
                opt |-> "unspec", dumps |-> {}, timed |-> FALSE, imap |-> {},
                switches |-> {}, color |-> "auto", handlers |-> "auto",
                help |-> FALSE, version |-> FALSE]

\* The parser before the first argument.
ParseInit(argv) == [argv |-> argv, stop |-> FALSE, cmdSet |-> FALSE,
                    out |-> DefaultArgs, code |-> "ok"]

Advance(p) == [p EXCEPT !.argv = Tail(@)]
Reject(p, code) == [p EXCEPT !.code = code]

\* get_value: the attached value, else the next argument whatever it is.
\* The parser stands before its flag.
ValueOf(p) == LET arg == Head(p.argv)
              IN  IF arg.value # NoValue THEN arg.value
                  ELSE IF Len(p.argv) > 1 THEN TextOf(p.argv[2]) ELSE NoValue
AfterValue(p) == IF Head(p.argv).value # NoValue \/ Len(p.argv) = 1 THEN Advance(p)
                 ELSE Advance(Advance(p))

\* A flag with a value that Known accepts and that Set stores.
Valued(p, Known(_), unknown, Set(_, _)) ==
    LET val == ValueOf(p)
        rest == AfterValue(p)
    IN  IF val = NoValue THEN Reject(rest, "expected-value")
        ELSE IF ~Known(val) THEN Reject(rest, unknown)
        ELSE [rest EXCEPT !.out = Set(@, val)]

\* handle_artifact_flag: a flag that is still NONE follows the other one.
WithArtifact(out, flag, kind) ==
    IF flag = "until"
    THEN [out EXCEPT !.until = kind, !.emit = IF @ = None THEN kind ELSE @]
    ELSE [out EXCEPT !.emit = kind, !.until = IF @ = None THEN kind ELSE @]

\* handle_dump_switch: a bare switch takes the next word as its file.
HandleDump(p, arg) ==
    LET marked == [p EXCEPT !.out.dumps = @ \cup {arg.flag}]
    IN  IF arg.value = NoValue /\ Len(p.argv) > 1 /\ p.argv[2].form = "word"
           /\ p.argv[2].text # "-"
        THEN Advance(Advance(marked))
        ELSE Advance(marked)

\* handle_output_flag.
HandleOutput(p) ==
    Valued(p, LAMBDA v : TRUE, "", LAMBDA out, v : [out EXCEPT !.output = v])

\* handle_include_flag: a mapping of a name to a path.
HandleInclude(p) ==
    Valued(p, LAMBDA v : v \in Mappings, "expected-value",
           LAMBDA out, v : [out EXCEPT !.imap = @ \cup {v}])

\* handle_time_report_flag: the file is never a word of its own.
HandleTimeReport(p) == Advance([p EXCEPT !.out.timed = TRUE])

\* handle_long_flag.
HandleLong(p, arg) ==
    CASE arg.flag \in {"help", "version"} ->
            Advance([p EXCEPT !.out[arg.flag] = TRUE])
      [] arg.flag \in {"debug", "jsonl", "no-stdlib", "no-corelib"} ->
            Advance([p EXCEPT !.out.switches = @ \cup {arg.flag}])
      [] arg.flag = "output" -> HandleOutput(p)
      [] arg.flag \in {"until", "emit"} ->
            Valued(p, LAMBDA v : v \in Artifacts, "unknown-artifact",
                   LAMBDA out, v : WithArtifact(out, arg.flag, ArtifactFromString(v)))
      [] arg.flag = "opt" ->
            Valued(p, LAMBDA v : v \in OptLevels, "unknown-opt-level",
                   LAMBDA out, v : [out EXCEPT !.opt = v])
      [] arg.flag \in {"color", "handlers"} ->
            Valued(p, LAMBDA v : v \in Preferences, "unknown-preference",
                   LAMBDA out, v : [out EXCEPT ![arg.flag] = v])
      [] arg.flag \in Dumps -> HandleDump(p, arg)
      [] arg.flag = "time-report" -> HandleTimeReport(p)
      [] OTHER -> Reject(Advance(p), "unknown-long-flag")

\* handle_short_flag.  Only the last letter of a group takes a value: what follows
\* it in the argument is that value (after a `=' for -I).  The letters before it
\* are the switches h, v and d.
HandleShort(p, arg) ==
    LET letters == {arg.letters[i] : i \in DOMAIN arg.letters}
        last == arg.letters[Len(arg.letters)]
        seen == [p EXCEPT !.out.help = @ \/ "h" \in letters,
                          !.out.version = @ \/ "v" \in letters,
                          !.out.switches = IF "d" \in letters THEN @ \cup {"debug"} ELSE @]
    IN  CASE last = "o" -> HandleOutput(seen)
          [] last = "O" -> Valued(seen, LAMBDA v : v \in OptLevels, "unknown-opt-level",
                                  LAMBDA out, v : [out EXCEPT !.opt = v])
          [] last = "I" -> HandleInclude(seen)
          [] last \in {"h", "v", "d"} -> Advance(seen)
          [] OTHER -> Reject(Advance(seen), "unknown-short-flag")

\* handle_pos_arg: the first word that is a command, and one input.
HandleWord(p, w) ==
    CASE ~p.cmdSet /\ w \in {"help", "version"} ->
            Advance([p EXCEPT !.out[w] = TRUE, !.cmdSet = TRUE])
      [] ~p.cmdSet /\ w \in DOMAIN Aliases ->
            Advance([p EXCEPT !.out.until = Aliases[w][1],
                              !.out.emit = Aliases[w][2], !.cmdSet = TRUE])
      [] OTHER ->
            IF p.out.input # NoValue THEN Reject(Advance(p), "multiple-inputs")
            ELSE Advance([p EXCEPT !.out.input = w])

\* One argument of the loop of elc_cli_parse_args.
ParseArg(p) ==
    LET arg == Head(p.argv)
    IN  CASE ~p.stop /\ arg.form = "dashes" -> Advance([p EXCEPT !.stop = TRUE])
          [] ~p.stop /\ arg.form = "long" -> HandleLong(p, arg)
          [] ~p.stop /\ arg.form = "short" -> HandleShort(p, arg)
          [] OTHER -> HandleWord(p, TextOf(arg))

\* What elc_cli_parse_args returns after the last argument.
ParseEnd(p) ==
    IF p.code = "ok" /\ ~p.out.help /\ ~p.out.version /\ p.out.input = NoValue
    THEN "missing-input" ELSE p.code
=============================================================================
