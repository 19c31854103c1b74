----------------------------- MODULE SymbolMap -----------------------------
(***************************************************************************)
(* What the hash tables of the compiler promise: a partial function from    *)
(* keys to values that changes only as it is asked to.                      *)
(***************************************************************************)
EXTENDS Functions

CONSTANTS Keys, Values

VARIABLES map, request,
          keeping      \* a key that is there keeps its value

None == [op |-> "none"]
Requests == [op : {"put"}, key : Keys, value : Values] \cup [op : {"remove"}, key : Keys]

Init == map \in [{} -> Values] /\ request = None /\ keeping \in BOOLEAN

Ask == request = None /\ request' \in Requests /\ UNCHANGED <<map, keeping>>

Put ==
    /\ request.op = "put"
    /\ LET k == request.key
       IN  map' = IF keeping /\ k \in DOMAIN map THEN map
                  ELSE [x \in DOMAIN map \cup {k} |-> IF x = k THEN request.value ELSE map[x]]
    /\ request' = None
    /\ UNCHANGED keeping

Remove ==
    /\ request.op = "remove"
    /\ map' = Restrict(map, DOMAIN map \ {request.key})
    /\ request' = None
    /\ UNCHANGED keeping

Next == Ask \/ Put \/ Remove

Spec == Init /\ [][Next]_<<map, request, keeping>>

============================================================================
