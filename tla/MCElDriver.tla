----------------------------- MODULE MCElDriver ------------------------------
(* A small instance of ElDriver: command lines of at most three arguments, *)
(* with or without an input after them, and documents of two tokens.       *)
EXTENDS ElDriver

MCStages == {"Lexer", "Preprocessor", "Parser", "Binder", "Lowerer", "Codegen",
             "Optimizer", "Emit Object File", "Emit Assembly"}

MCSubstages == {[name |-> "Processing directives", pstage |-> "Preprocessor"],
                [name |-> "Parsing expressions", pstage |-> "Parser"],
                [name |-> "Binding expressions", pstage |-> "Binder"]}

Doc(exists, kept, flaw, at) == [exists |-> exists, kept |-> kept, flaw |-> flaw, at |-> at]
MCSources ==
    {Doc(TRUE, <<TRUE, FALSE>>, "none", 0), Doc(FALSE, <<>>, "none", 0),
     Doc(TRUE, <<FALSE, TRUE>>, "lexer", 1), Doc(TRUE, <<FALSE, TRUE>>, "preprocessor", 1),
     Doc(TRUE, <<TRUE, TRUE>>, "parser", 2), Doc(TRUE, <<TRUE>>, "binder", 1)}

\* Every form of argument, every command that differs, a value that is not one.
MCArguments ==
    {Word("main.ela"), Word("hir"), Word("check"), Word("preprocess"), Word("inspect"), Word("help"), Word("-"),
     Long("emit"), Long("time-report"), Long("toks"), Long("pp-toks"), Long("hir"), Long("nonsense"),
     LongWith("emit", "asm"), LongWith("emit", "source"), LongWith("until", "lir"), LongWith("lir", "f"),
     LongWith("output", "out"), LongWith("color", "never"),
     Short(<<"d", "O">>, "2"), Short(<<"I">>, ""), Short(<<"v">>, ""), Dashes}

MCLines == LET short == UNION {[1..n -> MCArguments] : n \in 0..3}
           IN  short \cup {Append(line, Word("main.ela")) : line \in short}
=============================================================================
