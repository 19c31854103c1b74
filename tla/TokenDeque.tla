----------------------------- MODULE TokenDeque -----------------------------
(* What a token queue promises: under each handle a sequence of tokens, read *)
(* and written at both ends; out is the token the last read handed out.      *)
EXTENDS Naturals, Sequences

CONSTANTS Handles, Tokens, Nothing

VARIABLES contents, out

DequeInit == contents = [h \in Handles |-> <<>>] /\ out = Nothing

Hold(h, s) == contents' = [contents EXCEPT ![h] = s] /\ UNCHANGED out

PushBack(h)  == \E t \in Tokens : Hold(h, Append(contents[h], t))
PushFront(h) == \E t \in Tokens : Hold(h, <<t>> \o contents[h])
Empty(h)     == Hold(h, <<>>)

PopFront(h) ==
    /\ contents[h] # <<>>
    /\ out' = Head(contents[h])
    /\ contents' = [contents EXCEPT ![h] = Tail(@)]

ReadAt(h) ==
    /\ \E i \in 1 .. Len(contents[h]) : out' = contents[h][i]
    /\ UNCHANGED contents

Move(h, to) ==
    /\ contents' = [contents EXCEPT ![to] = contents[h], ![h] = <<>>]
    /\ UNCHANGED out

DequeNext ==
    \/ \E h \in Handles : PushBack(h) \/ PushFront(h) \/ Empty(h) \/ PopFront(h) \/ ReadAt(h)
    \/ \E h, to \in Handles : h # to /\ Move(h, to)

DequeSpec == DequeInit /\ [][DequeNext]_<<contents, out>>
=============================================================================
