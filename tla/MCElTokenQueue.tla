--------------------------- MODULE MCElTokenQueue ---------------------------
(* Two queues, so that one can be moved over the other. *)
EXTENDS ElTokenQueue, TLC

CONSTANTS a, b, t1, t2

TwoHandles == {a, b}
TwoTokens  == {t1, t2}

\* Bound: the slots the two queues have together.
FewSlots == queue[a].cap + queue[b].cap <= MaxCap

\* Which queue and which token is which makes no difference.
Names == Permutations(TwoHandles) \cup Permutations(TwoTokens)
=============================================================================
