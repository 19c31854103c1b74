------------------------------ MODULE ElSyntax -----------------------------
(***************************************************************************)
(* Source tokens to tree, tree to tokens, tokens to tree again: what        *)
(* tests/unparser/unparse.c does with a file, and tests/fuzz/fuzzer.c,      *)
(* starting from a tree, with elc's parser behind it.                       *)
(*                                                                         *)
(* A step of the parser is one pass of the loop of el_parse_module.         *)
(***************************************************************************)
EXTENDS ElParser, ElUnparser

CONSTANTS Sources,   \* sets of token sequences that are parsed
          Trees      \* sets of modules, sequences of declarations, that are unparsed

VARIABLES phase,     \* where the module is on its way
          s,         \* the parser
          module,    \* the declarations parsed so far
          orig,      \* the module that was unparsed
          passes     \* how often the loop over the tokens of s went round

syntaxVars == <<phase, s, module, orig, passes>>

SyntaxInit ==
  /\ passes = 0
  /\ orig = <<>>
  /\ \/ /\ phase = "parse"
        /\ \E some \in Sources : \E t \in some : s = Started(t)
        /\ module = <<>>
     \/ /\ phase = "unparse"
        /\ s = Started(<<>>)
        /\ \E some \in Trees : module \in some

NextDecl ==
    /\ phase \in {"parse", "reparse"}
    /\ Cur(s) # "EOF"
    /\ \E d \in {Parse("decl", s)} :
          /\ s' = d.s
          /\ module' = IF d.n = Null THEN module ELSE Append(module, d.n)
    /\ passes' = passes + 1
    /\ UNCHANGED <<phase, orig>>

EndOfModule ==
    /\ phase \in {"parse", "reparse"}
    /\ Cur(s) = "EOF"
    /\ phase' = CASE s.crash -> "crashed"
                  [] ~s.crash /\ phase = "reparse" -> "done"
                  [] ~s.crash /\ phase = "parse" /\ s.err -> "failed"
                  [] OTHER -> "unparse"
    /\ UNCHANGED <<s, module, orig, passes>>

Unparse ==
    /\ phase = "unparse"
    /\ \E out \in {UnparseModule(module)} :
          /\ phase' = IF "unreachable" \in ToSet(out) THEN "aborted" ELSE "reparse"
          /\ s' = Started(out)
    /\ orig' = module
    /\ module' = <<>>
    /\ passes' = 0

SyntaxNext == NextDecl \/ EndOfModule \/ Unparse

SyntaxSpec == SyntaxInit /\ [][SyntaxNext]_syntaxVars

-----------------------------------------------------------------------------
(***************************************************************************)
(* What was unparsed is parsed without an error, and into an equal tree     *)
(* that has the same text: the precedences of unparse-expr.c against the    *)
(* levels of parse-expr.c, the order of type suffixes, where the brackets   *)
(* of initialisers stand.  Equal is what el_ast_equal_module calls so, as   *)
(* in the two tests.  That passes over the statement in front of the        *)
(* condition of an if or a loop, which the comparison of the texts sees,    *)
(* and over the post statement of a for loop, which nothing does: it is     *)
(* not written, and what is read back is a while loop without it.           *)
(* It does not hold of trees with                                           *)
(*   - a cast on the left of an &;                                          *)
(*   - an argument with an operator outside brackets behind an argument     *)
(*     that is a name or a type, or one that begins with a name and has an  *)
(*     operator the scan of parse-unr.c does not look for (|, <>, <<, >>,   *)
(*     ??, ?>, !);                                                          *)
(*   - ??=, which unparse-stmt.c cannot write: it aborts.                   *)
(* The trees of a run that expects it leave these out; BracketsRestored is  *)
(* about the first two.                                                     *)
(***************************************************************************)
Reproduced ==
    /\ phase # "aborted"
    /\ phase = "crashed" => orig = <<>>
    /\ phase = "done" => ~s.err /\ EqualModule(orig, module) /\ UnparseModule(module) = s.t

\* A source with brackets around an argument or a cast comes back from its own
\* text.  Violated by the code: the unparser leaves the brackets out, and the
\* scan that tells types from expressions sees the operator from the arguments
\* in front of it, or does not know it; and the type of a cast takes the & of
\* the expression around it.
BracketsRestored == Reproduced

(***************************************************************************)
(* A module that was parsed without an error has every name and literal of  *)
(* the source, in the order of the source: no path of the parser, and no    *)
(* recovery, drops tokens without a report.                                 *)
(***************************************************************************)
NothingDropped ==
    phase = "unparse" /\ s.t # <<>> =>
        FlattenSeq(Each(module, Leaves)) = SelectSeq(s.t, LAMBDA tok : tok \in Idents \cup Literals)

(***************************************************************************)
(* Every pass of the loop of el_parse_module consumes a token, so that it   *)
(* comes to the end of every token sequence: no recovery stops in front of  *)
(* a token that the next declaration does not get past either.              *)
(***************************************************************************)
EveryPassConsumes == passes < s.p

============================================================================
