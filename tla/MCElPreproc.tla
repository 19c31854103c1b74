---------------------------- MODULE MCElPreproc ----------------------------
(* The lines of files, in alphabets that make different cases meet. *)
EXTENDS ElPreproc

L(dir, expr) == [dir |-> dir, expr |-> expr, public |-> TRUE]
Internal(l)  == [l EXCEPT !.public = FALSE]

\* Conditionals and loops in one file, some with a missing or wrong operand.
ControlLines ==
    {L("tok", "none"), L("if", "lit"), L("elif", "lit"), L("else", "none"),
     L("end", "none"), L("while", "lit"), L("for", "lit"), L("break", "none"),
     L("continue", "none"), L("elif", "bad"), L("while", "bad")}

\* Functions, calls from every kind of operand, recursion and includes.
CallLines ==
    {L("func", "none"), L("return", "lit"), L("return", "call"), L("end", "none"),
     L("if", "lit"), L("elif", "call"), L("while", "call"), L("var", "call"),
     L("emit", "call"), L("include", "none")}

\* Definitions, public or not, in every kind of scope, and directives that fail.
NameLines ==
    {L("var", "none"), Internal(L("var", "none")), L("func", "none"),
     L("if", "lit"), L("end", "none"), L("include", "none"), L("for", "lit"),
     L("set", "ill"), L("include", "bad"), L("include", "unread"), L("func", "bad"), L("error", "call"),
     L("diag", "call"), L("return", "lit"), L("unknown", "none"),
     L("emit", "none")}

\* A behaviour draws its lines from one of these alphabets, at most so many.
Alphabets ==
    {[lines |-> ControlLines, most |-> 6], [lines |-> CallLines, most |-> 6],
     [lines |-> NameLines, most |-> 5]}
AllLines == UNION {a.lines : a \in Alphabets}

VARIABLE alphabet
mcvars == <<vars, alphabet>>

MCInit == Init /\ alphabet \in Alphabets
MCNext ==
    /\ Next
    /\ input' # input => line' \in alphabet.lines /\ input' <= alphabet.most
    /\ UNCHANGED alphabet
MCSpec == MCInit /\ [][MCNext]_mcvars

\* The preprocessor is sequential code: it never stops between two steps.
MCFairSpec == MCSpec /\ WF_mcvars(MCNext)

\* A function without #return, a call and a #return behind it
NoReturnLines == {L("func", "none"), L("end", "none"), L("var", "call"), L("return", "lit")}
NoReturnInit == Init /\ alphabet = [lines |-> NoReturnLines, most |-> MaxLines]
NoReturnSpec == NoReturnInit /\ [][MCNext]_mcvars
=============================================================================
