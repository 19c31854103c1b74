---------------------------- MODULE MCElFrontend ----------------------------
(***************************************************************************)
(* From text to tree and to the names in it: the lexer, the queue that      *)
(* keeps tokens, parser and unparser, and the hash tables of the scopes.    *)
(* They share no state - tokens are all that passes from one to the next -  *)
(* so a behaviour is one of the four at work while the others rest.         *)
(***************************************************************************)
EXTENDS MCElLexer, MCElTokenQueue, MCElSyntax, MCElTables

VARIABLE part   \* which of the four is at work

frontendVars == <<vars, queueVars, syntaxVars, tableVars, part>>

\* The empty document is read; there is nothing to parse.
LexerRests ==
    /\ doc = <<>> /\ flags = {} /\ current_loc = LOC_ZERO /\ errors = 0
    /\ tokens = <<[type |-> "EOF", start |-> LOC_ZERO, end |-> LOC_ZERO, lexeme |-> <<>>]>>
QueueRests  == QueueInit
SyntaxRests == phase = "failed" /\ s = Started(<<>>) /\ module = <<>> /\ orig = <<>> /\ passes = 0
TableRests  == TableInit /\ kind = "pp"

FrontendInit ==
    \/ part = "lexer"  /\ Init       /\ QueueRests /\ SyntaxRests /\ TableRests
    \/ part = "queue"  /\ LexerRests /\ QueueInit  /\ SyntaxRests /\ TableRests
    \/ part = "syntax" /\ LexerRests /\ QueueRests /\ SyntaxInit  /\ TableRests
    \/ part = "table"  /\ LexerRests /\ QueueRests /\ SyntaxRests /\ TableInit

FrontendNext ==
    \/ part = "lexer"  /\ Next       /\ UNCHANGED <<part, queueVars, syntaxVars, tableVars>>
    \/ part = "queue"  /\ QueueNext  /\ UNCHANGED <<part, vars, syntaxVars, tableVars>>
    \/ part = "syntax" /\ SyntaxNext /\ UNCHANGED <<part, vars, queueVars, tableVars>>
    \/ part = "table"  /\ TableNext  /\ UNCHANGED <<part, vars, queueVars, syntaxVars>>

FrontendSpec == FrontendInit /\ [][FrontendNext]_frontendVars
=============================================================================
