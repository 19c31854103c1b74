------------------------------ MODULE ElTables -----------------------------
(***************************************************************************)
(* The hash tables: the scopes of the preprocessor (pp/scope.c), the        *)
(* generic map behind the type cache (util/ghm.c) and the scopes of the     *)
(* binder (hir/scope.c). All three probe linearly; they differ in when they *)
(* grow, whether they shrink, and what happens to a key that is there.      *)
(*                                                                         *)
(* kind says which of the three the table is. todo is the call that is      *)
(* under way. A resize is one step for every slot of the old array, as its  *)
(* loop is.                                                                 *)
(***************************************************************************)
EXTENDS Integers, FiniteSets

CONSTANTS Keys, Values,
          Hash,              \* what the keys are hashed to
          Capacities,        \* those between MinCapacity and MaxCapacity
          InitialCapacity,   \* 16 in the code, MinCapacity 8
          MinCapacity,
          MaxCapacity        \* bound: no table grows beyond it

ASSUME TablesAssumption ==
    /\ Hash \in [Keys -> Nat]
    /\ Capacities \subseteq {c \in Nat : MinCapacity <= c /\ c <= MaxCapacity}
    /\ MinCapacity \in Nat /\ MaxCapacity \in Nat /\ 4 <= MinCapacity
    /\ InitialCapacity \in Capacities
    /\ \A c \in Capacities :
          /\ c # MaxCapacity => 2 * c \in Capacities
          /\ c # MinCapacity => \E half \in Capacities : c = 2 * half

VARIABLES kind, table, old, at, todo, stuck

tableVars == <<kind, table, old, at, todo, stuck>>

Kinds == {"pp", "ghm", "hir"}

Empty     == [state |-> "empty"]
Tombstone == [state |-> "tombstone"]
Occupied(k, v) == [state |-> "occupied", key |-> k, value |-> v]
SlotSet == {Empty, Tombstone} \cup {Occupied(k, v) : k \in Keys, v \in Values}

Vacant(cap) == [slots |-> [i \in 0 .. cap - 1 |-> Empty], cap |-> cap, entries |-> 0, tombstones |-> 0]

NULL    == "null"      \* no value
Nobody  == [op |-> "none"]
Nowhere == -1

Calls == [op : {"put"}, key : Keys, value : Values] \cup [op : {"remove"}, key : Keys]

-----------------------------------------------------------------------------
Home(t, k) == Hash[k] % t.cap

\* How far slot i is from the slot where the search for k begins.
Distance(t, k, i) == IF i >= Home(t, k) THEN i - Home(t, k) ELSE i + t.cap - Home(t, k)

Cells(t) == 0 .. t.cap - 1
Holds(t, i, k) == t.slots[i].state = "occupied" /\ t.slots[i].key = k

\* The slot where the search for k ends: the first one that is empty or holds
\* k. Nowhere if there is none, and the search goes round for ever; the search
\* of ghm.c stops after one round.
Nearest(t, k, is) == CHOOSE i \in is : \A j \in is : Distance(t, k, i) <= Distance(t, k, j)

Found(t, k) ==
    LET ends == {i \in Cells(t) : t.slots[i] = Empty \/ Holds(t, i, k)}
    IN  IF ends = {} THEN Nowhere ELSE Nearest(t, k, ends)

\* The slot for k: where it is, or the first tombstone on the way, or the empty
\* slot.
SlotFor(t, k) ==
    LET end == Found(t, k)
        way == {i \in Cells(t) : /\ t.slots[i] = Tombstone
                                 /\ end = Nowhere \/ Distance(t, k, i) < Distance(t, k, end)}
    IN  IF (end # Nowhere /\ Holds(t, end, k)) \/ way = {} THEN end ELSE Nearest(t, k, way)

\* Mutant: a removed key ends the search for the keys behind it.
LookupShort(t, k) ==
    LET ends == {i \in Cells(t) : t.slots[i] \in {Empty, Tombstone} \/ Holds(t, i, k)}
    IN  IF ends # {} /\ Holds(t, Nearest(t, k, ends), k) THEN t.slots[Nearest(t, k, ends)].value
        ELSE NULL

Lookup(t, k) ==
    IF Found(t, k) # Nowhere /\ Holds(t, Found(t, k), k) THEN t.slots[Found(t, k)].value ELSE NULL

-----------------------------------------------------------------------------
\* Mutant: tombstones do not count.
TooFullOfEntries(t) ==
    CASE kind = "pp"  -> 10 * t.entries >= 7 * t.cap
      [] kind = "ghm" -> 4 * t.entries >= 3 * t.cap
      [] kind = "hir" -> 4 * t.entries >= 3 * t.cap

TooFull(t) ==
    CASE kind = "pp"  -> 10 * (t.entries + t.tombstones) >= 7 * t.cap
      [] kind = "ghm" -> 4 * (t.entries + t.tombstones) >= 3 * t.cap
      [] kind = "hir" -> 4 * t.entries >= 3 * t.cap

TooSparse(t) == kind = "pp" /\ t.cap > MinCapacity /\ 5 * t.entries <= t.cap

\* The slot i of k is written.
Stored(t, i, k, v) ==
    IF t.slots[i].state = "occupied"
    THEN IF kind = "hir" THEN t ELSE [t EXCEPT !.slots[i].value = v]
    ELSE [t EXCEPT !.slots[i] = Occupied(k, v), !.entries = @ + 1,
                   !.tombstones = IF t.slots[i] = Tombstone THEN @ - 1 ELSE @]

Removed(t, i) ==
    [t EXCEPT !.slots[i] = Tombstone, !.entries = @ - 1, !.tombstones = @ + 1]

\* Somebody calls; hir/scope.c cannot remove.
BeginCall(call) ==
    /\ old = <<>>
    /\ todo = Nobody
    /\ call.op = "put" => ~TooFull(table) \/ 2 * table.cap <= MaxCapacity
    /\ call.op = "remove" => kind # "hir"
    /\ todo' = call
    /\ UNCHANGED <<kind, table, old, at, stuck>>

\* Mutant: the loop begins with the second slot.
BeginResizeLate(t, cap) ==
    /\ table' = Vacant(cap)
    /\ old' = t.slots
    /\ at' = 1

\* resize: the array is exchanged for a zeroed one, and the loop begins.
BeginResize(t, cap) ==
    /\ table' = Vacant(cap)
    /\ old' = t.slots
    /\ at' = 0

Enter(k, v) ==
    IF SlotFor(table, k) = Nowhere THEN stuck' = TRUE /\ UNCHANGED table
    ELSE table' = Stored(table, SlotFor(table, k), k, v) /\ UNCHANGED stuck

\* el_pp_scope_assign, el_ghm_insert, el_hir_scope_insert_ex: when the array was
\* resized first, it has room now.
PutKey ==
    /\ old = <<>>
    /\ todo.op = "put"
    /\ ~stuck
    /\ IF TooFull(table) THEN BeginResize(table, 2 * table.cap) /\ UNCHANGED <<todo, stuck>>
       ELSE Enter(todo.key, todo.value) /\ todo' = Nobody /\ UNCHANGED <<old, at>>
    /\ UNCHANGED kind

\* One iteration of the loop of resize. The check for the capacity inside the
\* assignment is never true here: the new array is large enough.
MoveEntry ==
    /\ old # <<>>
    /\ at \in DOMAIN old
    /\ ~stuck
    /\ IF old[at].state = "occupied" THEN Enter(old[at].key, old[at].value)
       ELSE UNCHANGED <<table, stuck>>
    /\ at' = at + 1
    /\ UNCHANGED <<kind, old, todo>>

EndResize ==
    /\ old # <<>>
    /\ at \notin DOMAIN old
    /\ old' = <<>>
    /\ at' = 0
    /\ UNCHANGED <<kind, table, todo, stuck>>

\* el_pp_scope_deassign, el_ghm_remove
Deassign ==
    LET i == Found(table, todo.key)
        t == Removed(table, i)
    IN  /\ old = <<>>
        /\ todo.op = "remove"
        /\ ~stuck
        /\ stuck' = (kind = "pp" /\ i = Nowhere)
        /\ IF i = Nowhere \/ ~Holds(table, i, todo.key) THEN UNCHANGED <<table, old, at>>
           ELSE IF TooSparse(t) THEN BeginResize(t, t.cap \div 2)
           ELSE table' = t /\ UNCHANGED <<old, at>>
        /\ todo' = Nobody
        /\ UNCHANGED kind

TableInit ==
    /\ kind \in Kinds
    /\ table = Vacant(InitialCapacity)
    /\ old = <<>>
    /\ at = 0
    /\ todo = Nobody
    /\ stuck = FALSE

TableNext ==
    \/ \E call \in Calls : BeginCall(call)
    \/ PutKey
    \/ Deassign
    \/ MoveEntry
    \/ EndResize

TableSpec == TableInit /\ [][TableNext]_tableVars

-----------------------------------------------------------------------------
Occupation(t) == {i \in Cells(t) : t.slots[i].state = "occupied"}

(***************************************************************************)
(* A search always ends: the loop of find_slot has no bound but an empty    *)
(* slot, and however keys come and go one is left.                          *)
(***************************************************************************)
SearchesEnd == ~stuck /\ \E i \in Cells(table) : table.slots[i] = Empty

(***************************************************************************)
(* A key is in one slot, and the search finds it there, past the tombstones *)
(* of the keys that were removed.                                           *)
(***************************************************************************)
SearchesFind ==
    \A i \in Occupation(table) :
        /\ Lookup(table, table.slots[i].key) = table.slots[i].value
        /\ Found(table, table.slots[i].key) = i

\* The entries of the old array that the loop of resize has still to come to.
Waiting(o, p) == IF o = <<>> THEN {} ELSE {i \in DOMAIN o : i >= p /\ o[i].state = "occupied"}

Entered(t) == {t.slots[i] : i \in Occupation(t)}

\* What a table holds: while it is resized, what was moved and what waits.
Entries(t, o, p) == Entered(t) \cup {o[i] : i \in Waiting(o, p)}

MapOf(entries) ==
    [k \in {e.key : e \in entries} |-> (CHOOSE e \in entries : e.key = k).value]

Mappings == MapOf(Entries(table, old, at))

(***************************************************************************)
(* The tables are maps: an assignment changes one key, a removal takes one  *)
(* away, and a resize, growing or shrinking, changes nothing.               *)
(***************************************************************************)
Abstract == INSTANCE SymbolMap WITH map <- Mappings, request <- todo, keeping <- (kind = "hir")

IsMap == Abstract!Spec

============================================================================
