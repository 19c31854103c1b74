-------------------------- MODULE ElTables_proofs --------------------------
(***************************************************************************)
(* The hash tables find what they hold, always stop searching, and are      *)
(* maps, for all keys, values, hash functions and capacities.               *)
(***************************************************************************)
EXTENDS ElTables, FiniteSetTheorems, TLAPS

IsTable(t) ==
    \E c \in Capacities :
        t \in [slots : [0 .. c - 1 -> SlotSet], cap : {c}, entries : Nat, tombstones : Nat]

Graves(t) == {i \in Cells(t) : t.slots[i] = Tombstone}

\* The counters say what is in the array: growing and shrinking go by them.
CountersTrue(t) ==
    /\ t.entries = Cardinality(Occupation(t))
    /\ t.tombstones = Cardinality(Graves(t))

\* On the way to a key there is no empty slot, and a key is in one slot.
Probing(t) ==
    /\ \A i \in Occupation(t), j \in Cells(t) :
          Distance(t, t.slots[i].key, j) < Distance(t, t.slots[i].key, i) => t.slots[j] # Empty
    /\ \A i, j \in Occupation(t) : t.slots[i].key = t.slots[j].key => i = j

WellFormed(t) == IsTable(t) /\ CountersTrue(t) /\ Probing(t)

\* No resize is under way: a slot is empty.
Quiet ==
    /\ at = 0
    /\ table.entries + table.tombstones < table.cap
    /\ todo.op = "put" => ~TooFull(table) \/ 2 * table.cap <= MaxCapacity

\* A resize is under way: the keys that wait are not in the table, and there is
\* room for them; when the table grows, so much that it does not grow again.
Resizing ==
    /\ \E c \in Capacities : old \in [0 .. c - 1 -> SlotSet]
    /\ at \in 0 .. Cardinality(DOMAIN old)
    /\ table.tombstones = 0
    /\ table.entries + Cardinality(Waiting(old, at)) < table.cap
    /\ todo # Nobody => 2 * (table.entries + Cardinality(Waiting(old, at))) < table.cap
    /\ \A i, j \in Waiting(old, at) : old[i].key = old[j].key => i = j
    /\ \A i \in Waiting(old, at), j \in Occupation(table) : old[i].key # table.slots[j].key

TablesInv ==
    /\ kind \in Kinds /\ todo \in Calls \cup {Nobody} /\ stuck = FALSE
    /\ WellFormed(table)
    /\ kind = "hir" => table.tombstones = 0 /\ todo.op # "remove"
    /\ old # <<>> => todo.op # "remove"
    /\ IF old = <<>> THEN Quiet ELSE Resizing

-----------------------------------------------------------------------------
LEMMA Least ==
    ASSUME NEW S, S \subseteq Nat, S # {}
    PROVE  \E n \in S : \A m \in S : n <= m
<1>. DEFINE Less == {p \in Nat \X Nat : p[1] < p[2]}
<1>1. IsWellFoundedOn(Less, Nat)
  BY NatLessThanWellFounded DEF OpToRel
<1>. HIDE DEF Less
<1>2. PICK n \in S : \A m \in S : ~ (<<m, n>> \in Less)
  BY <1>1, WFMin, Zenon
<1>3. \A m \in S : ~ (m < n)
  BY <1>2 DEF Less
<1>. QED  BY <1>3

\* What a slot can be.
LEMMA SlotCases ==
    ASSUME NEW s \in SlotSet
    PROVE  /\ s = Empty \/ s = Tombstone \/ s.state = "occupied"
           /\ s.state = "occupied" => /\ s # Empty /\ s # Tombstone
                                      /\ s.key \in Keys /\ s.value \in Values
                                      /\ s = Occupied(s.key, s.value)
           /\ Empty # Tombstone
           /\ Empty.state # "occupied" /\ Tombstone.state # "occupied"
BY DEF SlotSet, Empty, Tombstone, Occupied

LEMMA TableFacts ==
    ASSUME NEW t, IsTable(t)
    PROVE  /\ t.cap \in Capacities /\ t.cap \in Nat /\ t.cap >= 4
           /\ t.slots \in [Cells(t) -> SlotSet]
           /\ t.entries \in Nat /\ t.tombstones \in Nat
           /\ t = [slots |-> t.slots, cap |-> t.cap, entries |-> t.entries,
                   tombstones |-> t.tombstones]
<1>1. PICK c \in Capacities :
          t \in [slots : [0 .. c - 1 -> SlotSet], cap : {c}, entries : Nat, tombstones : Nat]
  BY DEF IsTable
<1>2. t.cap = c
  BY <1>1
<1>3. c \in Nat /\ c >= 4
  BY <1>1, TablesAssumption
<1>. QED  BY <1>1, <1>2, <1>3 DEF Cells

LEMMA HomeInside ==
    ASSUME NEW t, IsTable(t), NEW k \in Keys
    PROVE  Home(t, k) \in Cells(t)
<1>1. Hash[k] \in Nat /\ t.cap \in Nat /\ t.cap > 0
  BY TableFacts, TablesAssumption
<1>2. \A n \in Nat : \A c \in Nat : c > 0 => n % c \in 0 .. c - 1
  OBVIOUS
<1>. QED  BY <1>1, <1>2 DEF Home, Cells

\* Two slots are at different distances.
LEMMA DistanceFacts ==
    ASSUME NEW t, IsTable(t), NEW k \in Keys, NEW i \in Cells(t)
    PROVE  /\ Distance(t, k, i) \in Nat
           /\ \A j \in Cells(t) : Distance(t, k, i) = Distance(t, k, j) => i = j
BY HomeInside, TableFacts, SMTT(40) DEF Distance, Cells

LEMMA NearestFacts ==
    ASSUME NEW t, IsTable(t), NEW k \in Keys, NEW is \in SUBSET Cells(t), is # {}
    PROVE  /\ Nearest(t, k, is) \in is
           /\ \A j \in is : Distance(t, k, Nearest(t, k, is)) <= Distance(t, k, j)
<1>. DEFINE ds == {Distance(t, k, i) : i \in is}
<1>1. ds \subseteq Nat /\ ds # {}
  BY DistanceFacts
<1>2. PICK n \in ds : \A m \in ds : n <= m
  BY <1>1, Least
<1>3. \E i \in is : \A j \in is : Distance(t, k, i) <= Distance(t, k, j)
  BY <1>2
<1>. QED  BY <1>3 DEF Nearest

\* If a slot is empty, a search ends, with the key or on an empty slot, and
\* passes neither on its way.
LEMMA FoundFacts ==
    ASSUME NEW t, IsTable(t), NEW k \in Keys, \E i \in Cells(t) : t.slots[i] = Empty
    PROVE  /\ Found(t, k) \in Cells(t) /\ Found(t, k) # Nowhere
           /\ t.slots[Found(t, k)] = Empty \/ Holds(t, Found(t, k), k)
           /\ \A j \in Cells(t) : Distance(t, k, j) < Distance(t, k, Found(t, k)) =>
                 t.slots[j] # Empty /\ ~Holds(t, j, k)
<1>. DEFINE ends == {i \in Cells(t) : t.slots[i] = Empty \/ Holds(t, i, k)}
<1>1. ends \in SUBSET Cells(t) /\ ends # {}
  OBVIOUS
<1>2. Found(t, k) = Nearest(t, k, ends)
  BY <1>1 DEF Found
<1>3. /\ Found(t, k) \in ends
      /\ \A j \in ends : Distance(t, k, Found(t, k)) <= Distance(t, k, j)
  BY <1>1, <1>2, NearestFacts
<1>4. Found(t, k) \in Cells(t) /\ Found(t, k) # Nowhere
  BY <1>3, TableFacts DEF Cells, Nowhere
<1>5. ASSUME NEW j \in Cells(t), Distance(t, k, j) < Distance(t, k, Found(t, k))
      PROVE  j \notin ends
  BY <1>3, <1>4, <1>5, DistanceFacts
<1>. QED  BY <1>3, <1>4, <1>5

-----------------------------------------------------------------------------
\* A search that ends on an empty slot: the key is nowhere.
LEMMA Absent ==
    ASSUME NEW t, IsTable(t), Probing(t), NEW k \in Keys,
           \E i \in Cells(t) : t.slots[i] = Empty, t.slots[Found(t, k)] = Empty,
           NEW j \in Cells(t)
    PROVE  ~Holds(t, j, k)
<1>. SUFFICES ASSUME Holds(t, j, k) PROVE FALSE
  OBVIOUS
<1>1. Found(t, k) \in Cells(t) /\ ~ (Distance(t, k, j) < Distance(t, k, Found(t, k)))
  BY FoundFacts
<1>2. j \in Occupation(t) /\ t.slots[j].key = k
  BY DEF Holds, Occupation
<1>3. Distance(t, k, Found(t, k)) # Distance(t, k, j)
  <2>1. j # Found(t, k)
    BY <1>2, SlotCases DEF Occupation, Empty
  <2>. QED  BY <1>1, <2>1, DistanceFacts
<1>4. Distance(t, k, Found(t, k)) < Distance(t, k, j)
  BY <1>1, <1>3, DistanceFacts
<1>. QED  BY <1>1, <1>2, <1>4 DEF Probing

\* The search for a key that is there ends where it is.
LEMMA Present ==
    ASSUME NEW t, IsTable(t), Probing(t), \E i \in Cells(t) : t.slots[i] = Empty,
           NEW i \in Occupation(t)
    PROVE  Found(t, t.slots[i].key) = i
<1>. DEFINE k == t.slots[i].key
<1>1. i \in Cells(t) /\ k \in Keys /\ Holds(t, i, k)
  BY TableFacts, SlotCases DEF Occupation, Holds
<1>. HIDE DEF k
<1>2. Found(t, k) \in Cells(t) /\ Holds(t, Found(t, k), k)
  BY <1>1, FoundFacts, Absent
<1>3. Found(t, k) \in Occupation(t) /\ t.slots[Found(t, k)].key = t.slots[i].key
  BY <1>1, <1>2 DEF Holds, Occupation
<1>4. Found(t, k) = i
  BY <1>3 DEF Probing
<1>. QED  BY <1>4 DEF k

\* A key is written where it is, or to a free slot that no empty one comes
\* before.
LEMMA SlotForFacts ==
    ASSUME NEW t, IsTable(t), Probing(t), NEW k \in Keys,
           \E i \in Cells(t) : t.slots[i] = Empty
    PROVE  /\ SlotFor(t, k) \in Cells(t) /\ SlotFor(t, k) # Nowhere
           /\ \/ Holds(t, SlotFor(t, k), k)
              \/ /\ t.slots[SlotFor(t, k)] \in {Empty, Tombstone}
                 /\ \A j \in Cells(t) : ~Holds(t, j, k)
                 /\ \A j \in Cells(t) :
                       Distance(t, k, j) < Distance(t, k, SlotFor(t, k)) => t.slots[j] # Empty
<1>. DEFINE end == Found(t, k)
            way == {i \in Cells(t) : /\ t.slots[i] = Tombstone
                                     /\ end = Nowhere \/ Distance(t, k, i) < Distance(t, k, end)}
<1>1. /\ end \in Cells(t) /\ end # Nowhere
      /\ t.slots[end] = Empty \/ Holds(t, end, k)
      /\ \A j \in Cells(t) : Distance(t, k, j) < Distance(t, k, end) => t.slots[j] # Empty
  BY FoundFacts
<1>2. ~Holds(t, end, k) => \A j \in Cells(t) : ~Holds(t, j, k)
  BY <1>1, Absent
<1>3. CASE Holds(t, end, k) \/ way = {}
  <2>1. SlotFor(t, k) = end
    BY <1>1, <1>3 DEF SlotFor
  <2>. HIDE DEF end
  <2>. QED  BY <1>1, <1>2, <2>1
<1>4. CASE ~Holds(t, end, k) /\ way # {}
  <2>1. SlotFor(t, k) = Nearest(t, k, way)
    BY <1>1, <1>4 DEF SlotFor
  <2>2. way \in SUBSET Cells(t)
    OBVIOUS
  <2>3. SlotFor(t, k) \in way
    BY <1>4, <2>1, <2>2, NearestFacts
  <2>4. /\ SlotFor(t, k) \in Cells(t) /\ t.slots[SlotFor(t, k)] = Tombstone
        /\ Distance(t, k, SlotFor(t, k)) < Distance(t, k, end)
    BY <1>1, <2>3
  <2>. HIDE DEF end, way
  <2>5. \A j \in Cells(t) : Distance(t, k, j) \in Nat
    BY DistanceFacts
  <2>6. SlotFor(t, k) # Nowhere
    BY <2>4, TableFacts DEF Cells, Nowhere
  <2>7. \A j \in Cells(t) :
          Distance(t, k, j) < Distance(t, k, SlotFor(t, k)) => t.slots[j] # Empty
    BY <1>1, <2>4, <2>5
  <2>. QED  BY <1>2, <1>4, <2>4, <2>6, <2>7
<1>. QED  BY <1>3, <1>4

-----------------------------------------------------------------------------
\* The slots that are in use can be counted, and one is left while they are
\* fewer than all.
LEMMA Counts ==
    ASSUME NEW t, IsTable(t)
    PROVE  /\ IsFiniteSet(Cells(t)) /\ Cardinality(Cells(t)) = t.cap
           /\ IsFiniteSet(Occupation(t)) /\ IsFiniteSet(Graves(t))
<1>1. IsFiniteSet(Cells(t)) /\ Cardinality(Cells(t)) = t.cap
  <2>1. t.cap \in Nat /\ t.cap >= 4
    BY TableFacts
  <2>2. 0 \in Int /\ t.cap - 1 \in Int /\ ~ (0 > t.cap - 1) /\ t.cap - 1 - 0 + 1 = t.cap
    BY <2>1
  <2>3. IsFiniteSet(0 .. t.cap - 1) /\ Cardinality(0 .. t.cap - 1) = t.cap
    BY <2>2, FS_Interval
  <2>. QED  BY <2>3 DEF Cells
<1>2. Occupation(t) \in SUBSET Cells(t) /\ Graves(t) \in SUBSET Cells(t)
  BY DEF Occupation, Graves
<1>. QED  BY <1>1, <1>2, FS_Subset

LEMMA OneIsEmpty ==
    ASSUME NEW t, IsTable(t), CountersTrue(t), t.entries + t.tombstones < t.cap
    PROVE  \E i \in Cells(t) : t.slots[i] = Empty
<1>. SUFFICES ASSUME \A i \in Cells(t) : t.slots[i] # Empty PROVE FALSE
  OBVIOUS
<1>1. Cells(t) = Occupation(t) \cup Graves(t)
  BY TableFacts, SlotCases DEF Occupation, Graves
<1>2. Occupation(t) \cap Graves(t) = {}
  BY SlotCases DEF Occupation, Graves, Tombstone
<1>3. Cardinality(Cells(t)) =
          Cardinality(Occupation(t)) + Cardinality(Graves(t)) - Cardinality({})
  BY <1>1, <1>2, Counts, FS_Union
<1>4. Cardinality({}) = 0
  BY FS_EmptySet
<1>. QED  BY <1>3, <1>4, Counts, TableFacts DEF CountersTrue

\* One slot of a table is written, and the counters.
Rewritten(t, i, s, n, m) ==
    [slots |-> [t.slots EXCEPT ![i] = s], cap |-> t.cap, entries |-> n, tombstones |-> m]

LEMMA Written ==
    ASSUME NEW t, IsTable(t), NEW i \in Cells(t), NEW s \in SlotSet, NEW n \in Nat, NEW m \in Nat
    PROVE  LET w == Rewritten(t, i, s, n, m)
           IN  /\ IsTable(w) /\ w.cap = t.cap /\ w.entries = n /\ w.tombstones = m
               /\ Cells(w) = Cells(t)
               /\ \A j \in Cells(t) : w.slots[j] = IF j = i THEN s ELSE t.slots[j]
               /\ \A k, j : Distance(w, k, j) = Distance(t, k, j)
<1>. DEFINE w == Rewritten(t, i, s, n, m)
<1>1. t.slots \in [0 .. t.cap - 1 -> SlotSet] /\ t.cap \in Capacities
  BY TableFacts DEF Cells
<1>2. w.slots = [t.slots EXCEPT ![i] = s] /\ w.cap = t.cap /\ w.entries = n /\ w.tombstones = m
  BY DEF Rewritten
<1>3. [t.slots EXCEPT ![i] = s] \in [0 .. t.cap - 1 -> SlotSet]
  BY <1>1
<1>4. IsTable(w)
  BY <1>1, <1>3 DEF IsTable, Rewritten
<1>. HIDE DEF w
<1>5. \A j \in Cells(t) : w.slots[j] = IF j = i THEN s ELSE t.slots[j]
  BY <1>1, <1>2 DEF Cells
<1>6. \A k, j : Distance(w, k, j) = Distance(t, k, j)
  BY <1>2 DEF Distance, Home
<1>7. Cells(w) = Cells(t)
  BY <1>2 DEF Cells
<1>. QED  BY <1>2, <1>4, <1>5, <1>6, <1>7 DEF w

\* A key is written to the slot its search ended on: the table stays well
\* formed, uses at most one slot more, and every other slot is as it was.
LEMMA StoredFacts ==
    ASSUME NEW t, WellFormed(t), \E i \in Cells(t) : t.slots[i] = Empty,
           NEW k \in Keys, NEW v \in Values, NEW i, i = SlotFor(t, k)
    PROVE  /\ WellFormed(Stored(t, i, k, v)) /\ Stored(t, i, k, v).cap = t.cap
           /\ Stored(t, i, k, v).entries = t.entries + (IF Holds(t, i, k) THEN 0 ELSE 1)
           /\ Stored(t, i, k, v).tombstones <= t.tombstones
           /\ i \in Cells(t) /\ Cells(Stored(t, i, k, v)) = Cells(t)
           /\ Holds(t, i, k) \/ \A j \in Cells(t) : ~Holds(t, j, k)
           /\ IF Holds(t, i, k) /\ kind = "hir" THEN Stored(t, i, k, v) = t
              ELSE \A j \in Cells(t) :
                      Stored(t, i, k, v).slots[j] = IF j = i THEN Occupied(k, v) ELSE t.slots[j]
<1>. DEFINE w == Stored(t, i, k, v)
<1>0. IsTable(t) /\ CountersTrue(t) /\ Probing(t)
  BY DEF WellFormed
<1>1. /\ i \in Cells(t)
      /\ \/ Holds(t, i, k)
         \/ /\ t.slots[i] \in {Empty, Tombstone}
            /\ \A j \in Cells(t) : ~Holds(t, j, k)
            /\ \A j \in Cells(t) : Distance(t, k, j) < Distance(t, k, i) => t.slots[j] # Empty
  BY <1>0, SlotForFacts
<1>2. Occupied(k, v) \in SlotSet /\ Occupied(k, v).state = "occupied" /\ Occupied(k, v).key = k
  BY DEF SlotSet, Occupied
<1>3. /\ t = [slots |-> t.slots, cap |-> t.cap, entries |-> t.entries,
              tombstones |-> t.tombstones]
      /\ t.entries \in Nat /\ t.tombstones \in Nat /\ t.slots \in [Cells(t) -> SlotSet]
  BY <1>0, TableFacts
<1>4. CASE Holds(t, i, k) /\ kind = "hir"
  <2>1. w = t
    BY <1>4 DEF Stored, Holds
  <2>. QED  BY <1>0, <1>1, <1>3, <1>4, <2>1 DEF WellFormed
<1>5. CASE Holds(t, i, k) /\ kind # "hir"
  <2>1. t.slots[i] \in SlotSet /\ t.slots[i].state = "occupied" /\ t.slots[i].key = k
    BY <1>1, <1>3, <1>5 DEF Holds
  <2>2. [t.slots[i] EXCEPT !.value = v] = Occupied(k, v)
    <3>1. t.slots[i] = Occupied(k, t.slots[i].value)
      BY <2>1, SlotCases
    <3>2. \A old_value : [Occupied(k, old_value) EXCEPT !.value = v] = Occupied(k, v)
      BY DEF Occupied
    <3>. QED  BY <3>1, <3>2
  <2>3. w = [t EXCEPT !.slots[i].value = v]
    BY <1>5, <2>1 DEF Stored
  <2>4. w = Rewritten(t, i, Occupied(k, v), t.entries, t.tombstones)
    <3>1. w = [t EXCEPT !.slots = [t.slots EXCEPT ![i] = [t.slots[i] EXCEPT !.value = v]]]
      BY <2>3
    <3>. QED  BY <1>3, <2>2, <3>1 DEF Rewritten
  <2>. HIDE DEF w
  <2>5. /\ IsTable(w) /\ w.cap = t.cap /\ w.entries = t.entries /\ w.tombstones = t.tombstones
        /\ Cells(w) = Cells(t)
        /\ \A j \in Cells(t) : w.slots[j] = IF j = i THEN Occupied(k, v) ELSE t.slots[j]
        /\ \A l, j : Distance(w, l, j) = Distance(t, l, j)
    <3>. DEFINE r == Rewritten(t, i, Occupied(k, v), t.entries, t.tombstones)
    <3>1. IsTable(t) /\ i \in Cells(t) /\ Occupied(k, v) \in SlotSet
      BY <1>0, <1>1, <1>2
    <3>2. t.entries \in Nat /\ t.tombstones \in Nat
      BY <1>3
    <3>3. /\ IsTable(r) /\ r.cap = t.cap /\ r.entries = t.entries /\ r.tombstones = t.tombstones
          /\ Cells(r) = Cells(t)
          /\ \A j \in Cells(t) : r.slots[j] = IF j = i THEN Occupied(k, v) ELSE t.slots[j]
          /\ \A l, j : Distance(r, l, j) = Distance(t, l, j)
      BY <3>1, <3>2, Written, SMTT(40)
    <3>4. w = r
      BY <2>4
    <3>. HIDE DEF r
    <3>. QED  BY <3>3, <3>4
  <2>6. /\ \A j \in Cells(t) : w.slots[j].state = "occupied" <=> t.slots[j].state = "occupied"
        /\ \A j \in Cells(t) : w.slots[j].state = "occupied" => w.slots[j].key = t.slots[j].key
        /\ \A j \in Cells(t) : w.slots[j] = Tombstone <=> t.slots[j] = Tombstone
        /\ \A j \in Cells(t) : w.slots[j] = Empty <=> t.slots[j] = Empty
    BY <1>2, <2>1, <2>5, SlotCases
  <2>7. Occupation(w) = Occupation(t) /\ Graves(w) = Graves(t)
    BY <2>5, <2>6 DEF Occupation, Graves
  <2>8. CountersTrue(w)
    BY <1>0, <2>5, <2>7 DEF CountersTrue
  <2>9. Probing(w)
    <3>1. \A j \in Occupation(t) : j \in Cells(t) /\ w.slots[j].key = t.slots[j].key
      BY <2>6 DEF Occupation
    <3>2. /\ \A j \in Occupation(t), l \in Cells(t) :
                Distance(t, t.slots[j].key, l) < Distance(t, t.slots[j].key, j)
                   => t.slots[l] # Empty
          /\ \A j, l \in Occupation(t) : t.slots[j].key = t.slots[l].key => j = l
      BY <1>0 DEF Probing
    <3>3. \A j \in Occupation(w), l \in Cells(w) :
             Distance(w, w.slots[j].key, l) < Distance(w, w.slots[j].key, j)
                => w.slots[l] # Empty
      BY <2>5, <2>6, <2>7, <3>1, <3>2
    <3>4. \A j, l \in Occupation(w) : w.slots[j].key = w.slots[l].key => j = l
      BY <2>7, <3>1, <3>2
    <3>. QED  BY <3>3, <3>4 DEF Probing
  <2>10. WellFormed(w) /\ w.entries = t.entries + 0 /\ w.tombstones <= t.tombstones
    BY <1>3, <2>5, <2>8, <2>9 DEF WellFormed
  <2>. QED  BY <1>1, <1>5, <2>5, <2>10 DEF w
<1>6. CASE ~Holds(t, i, k)
  <2>. DEFINE m == IF t.slots[i] = Tombstone THEN t.tombstones - 1 ELSE t.tombstones
  <2>1. /\ t.slots[i] \in {Empty, Tombstone} /\ t.slots[i].state # "occupied"
        /\ \A j \in Cells(t) : ~Holds(t, j, k)
        /\ \A j \in Cells(t) : Distance(t, k, j) < Distance(t, k, i) => t.slots[j] # Empty
    BY <1>1, <1>6 DEF Empty, Tombstone
  <2>2. w = Rewritten(t, i, Occupied(k, v), t.entries + 1, m)
    <3>1. w = [t EXCEPT !.slots[i] = Occupied(k, v), !.entries = @ + 1,
                        !.tombstones = IF t.slots[i] = Tombstone THEN @ - 1 ELSE @]
      BY <2>1 DEF Stored
    <3>. QED  BY <1>3, <3>1 DEF Rewritten
  <2>3. IsFiniteSet(Graves(t)) /\ IsFiniteSet(Occupation(t))
    BY <1>0, Counts
  <2>4. /\ Cardinality(Graves(t) \ {i}) = m /\ m \in Nat /\ m <= t.tombstones
    <3>1. IsFiniteSet(Graves(t) \ {i})
      BY <2>3, FS_RemoveElement
    <3>2. Cardinality(Graves(t) \ {i}) =
             IF i \in Graves(t) THEN Cardinality(Graves(t)) - 1 ELSE Cardinality(Graves(t))
      BY <2>3, FS_RemoveElement
    <3>3. i \in Graves(t) <=> t.slots[i] = Tombstone
      BY <1>1 DEF Graves
    <3>4. Cardinality(Graves(t) \ {i}) \in Nat
      BY <3>1, FS_CardinalityType
    <3>. QED  BY <1>0, <1>3, <3>2, <3>3, <3>4 DEF CountersTrue
  <2>. HIDE DEF m, w
  <2>5. /\ IsTable(w) /\ w.cap = t.cap /\ w.entries = t.entries + 1 /\ w.tombstones = m
        /\ Cells(w) = Cells(t)
        /\ \A j \in Cells(t) : w.slots[j] = IF j = i THEN Occupied(k, v) ELSE t.slots[j]
        /\ \A l, j : Distance(w, l, j) = Distance(t, l, j)
    <3>. DEFINE n == t.entries + 1
                r == Rewritten(t, i, Occupied(k, v), n, m)
    <3>1. IsTable(t) /\ i \in Cells(t) /\ Occupied(k, v) \in SlotSet
      BY <1>0, <1>1, <1>2
    <3>2. n \in Nat /\ m \in Nat
      BY <1>3, <2>4
    <3>3. w = r
      BY <2>2
    <3>4. w.entries = n => w.entries = t.entries + 1
      OBVIOUS
    <3>. HIDE DEF n
    <3>5. /\ IsTable(r) /\ r.cap = t.cap /\ r.entries = n /\ r.tombstones = m
          /\ Cells(r) = Cells(t)
          /\ \A j \in Cells(t) : r.slots[j] = IF j = i THEN Occupied(k, v) ELSE t.slots[j]
          /\ \A l, j : Distance(r, l, j) = Distance(t, l, j)
      BY <3>1, <3>2, Written
    <3>. HIDE DEF r
    <3>. QED  BY <3>3, <3>4, <3>5
  <2>6. w.slots[i] # Tombstone /\ w.slots[i] # Empty
    BY <1>1, <1>2, <2>5, SlotCases
  <2>7. Occupation(w) = Occupation(t) \cup {i} /\ i \notin Occupation(t)
    BY <1>1, <1>2, <2>1, <2>5 DEF Occupation
  <2>8. Graves(w) = Graves(t) \ {i}
    BY <2>5, <2>6 DEF Graves
  <2>9. CountersTrue(w)
    <3>1. Cardinality(Occupation(t) \cup {i}) = Cardinality(Occupation(t)) + 1
      BY <2>3, <2>7, FS_AddElement
    <3>. QED  BY <1>0, <2>4, <2>5, <2>7, <2>8, <3>1 DEF CountersTrue
  <2>10. Probing(w)
    <3>1. /\ \A j \in Occupation(t), l \in Cells(t) :
                Distance(t, t.slots[j].key, l) < Distance(t, t.slots[j].key, j)
                   => t.slots[l] # Empty
          /\ \A j, l \in Occupation(t) : t.slots[j].key = t.slots[l].key => j = l
      BY <1>0 DEF Probing
    <3>2. /\ w.slots[i].key = k
          /\ \A j \in Occupation(t) : /\ j \in Cells(t) /\ j # i
                                      /\ w.slots[j] = t.slots[j] /\ w.slots[j].key # k
      BY <1>1, <1>2, <2>1, <2>5, <2>7 DEF Occupation, Holds
    <3>3. \A l \in Cells(t) : t.slots[l] # Empty => w.slots[l] # Empty
      BY <2>5, <2>6
    <3>4. \A j \in Occupation(w), l \in Cells(w) :
             Distance(w, w.slots[j].key, l) < Distance(w, w.slots[j].key, j)
                => w.slots[l] # Empty
      BY <2>1, <2>5, <2>7, <3>1, <3>2, <3>3
    <3>5. \A j, l \in Occupation(w) : w.slots[j].key = w.slots[l].key => j = l
      BY <2>7, <3>1, <3>2
    <3>. QED  BY <3>4, <3>5 DEF Probing
  <2>11. WellFormed(w) /\ w.tombstones <= t.tombstones
    BY <2>4, <2>5, <2>9, <2>10 DEF WellFormed
  <2>. QED  BY <1>1, <1>6, <2>5, <2>11 DEF w
<1>. QED  BY <1>4, <1>5, <1>6

\* A key is taken away: its slot stays in the way of the searches.
LEMMA RemovedFacts ==
    ASSUME NEW t, WellFormed(t), NEW i \in Occupation(t)
    PROVE  /\ WellFormed(Removed(t, i)) /\ Removed(t, i).cap = t.cap
           /\ Removed(t, i).entries = t.entries - 1
           /\ Removed(t, i).tombstones = t.tombstones + 1
           /\ Occupation(Removed(t, i)) = Occupation(t) \ {i}
           /\ \A j \in Occupation(t) \ {i} : Removed(t, i).slots[j] = t.slots[j]
<1>. DEFINE w == Removed(t, i)
            n == t.entries - 1
            m == t.tombstones + 1
            r == Rewritten(t, i, Tombstone, n, m)
<1>0. IsTable(t) /\ CountersTrue(t) /\ Probing(t)
  BY DEF WellFormed
<1>1. /\ t = [slots |-> t.slots, cap |-> t.cap, entries |-> t.entries,
              tombstones |-> t.tombstones]
      /\ t.entries \in Nat /\ t.tombstones \in Nat /\ t.slots \in [Cells(t) -> SlotSet]
  BY <1>0, TableFacts
<1>2. i \in Cells(t) /\ t.slots[i].state = "occupied" /\ t.slots[i] \in SlotSet
  BY <1>1 DEF Occupation
<1>3. w = r
  <2>1. w = [t EXCEPT !.slots = [t.slots EXCEPT ![i] = Tombstone], !.entries = n,
                      !.tombstones = m]
    BY DEF Removed
  <2>. HIDE DEF w, n, m
  <2>2. w = [slots |-> [t.slots EXCEPT ![i] = Tombstone], cap |-> t.cap,
             entries |-> n, tombstones |-> m]
    BY <1>1, <2>1
  <2>. QED  BY <2>2 DEF Rewritten
<1>4. IsFiniteSet(Graves(t)) /\ IsFiniteSet(Occupation(t))
  BY <1>0, Counts
<1>5. Cardinality(Occupation(t) \ {i}) = n /\ n \in Nat /\ m \in Nat
  <2>1. IsFiniteSet(Occupation(t) \ {i}) /\ Cardinality(Occupation(t) \ {i}) = n
    BY <1>0, <1>4, FS_RemoveElement DEF CountersTrue
  <2>2. Cardinality(Occupation(t) \ {i}) \in Nat
    BY <2>1, FS_CardinalityType
  <2>. QED  BY <1>1, <2>1, <2>2
<1>. HIDE DEF n, m
<1>6. Tombstone \in SlotSet /\ Tombstone # Empty /\ Tombstone.state # "occupied"
  BY DEF SlotSet, Tombstone, Empty
<1>7. /\ IsTable(r) /\ r.cap = t.cap /\ r.entries = n /\ r.tombstones = m
      /\ Cells(r) = Cells(t)
      /\ \A j \in Cells(t) : r.slots[j] = IF j = i THEN Tombstone ELSE t.slots[j]
      /\ \A l, j : Distance(r, l, j) = Distance(t, l, j)
  BY <1>0, <1>2, <1>5, <1>6, Written
<1>. HIDE DEF r
<1>8. Occupation(r) = Occupation(t) \ {i}
  BY <1>6, <1>7 DEF Occupation
<1>9. Graves(r) = Graves(t) \cup {i} /\ i \notin Graves(t)
  BY <1>2, <1>6, <1>7 DEF Graves
<1>10. Cardinality(Graves(t) \cup {i}) = m
  <2>1. Cardinality(Graves(t) \cup {i}) = Cardinality(Graves(t)) + 1
    BY <1>4, <1>9, FS_AddElement
  <2>. QED  BY <1>0, <2>1 DEF CountersTrue, m
<1>11. CountersTrue(r)
  BY <1>5, <1>7, <1>8, <1>9, <1>10 DEF CountersTrue
<1>12. \A j \in Occupation(t) \ {i} : j \in Cells(t) /\ r.slots[j] = t.slots[j]
  BY <1>7 DEF Occupation
<1>13. Probing(r)
  <2>1. /\ \A j \in Occupation(t), l \in Cells(t) :
              Distance(t, t.slots[j].key, l) < Distance(t, t.slots[j].key, j)
                 => t.slots[l] # Empty
        /\ \A j, l \in Occupation(t) : t.slots[j].key = t.slots[l].key => j = l
    BY <1>0 DEF Probing
  <2>2. \A l \in Cells(t) : t.slots[l] # Empty => r.slots[l] # Empty
    BY <1>6, <1>7
  <2>3. \A j \in Occupation(r), l \in Cells(r) :
           Distance(r, r.slots[j].key, l) < Distance(r, r.slots[j].key, j)
              => r.slots[l] # Empty
    BY <1>7, <1>8, <1>12, <2>1, <2>2
  <2>4. \A j, l \in Occupation(r) : r.slots[j].key = r.slots[l].key => j = l
    BY <1>8, <1>12, <2>1
  <2>. QED  BY <2>3, <2>4 DEF Probing
<1>14. WellFormed(r)
  BY <1>7, <1>11, <1>13 DEF WellFormed
<1>15. WellFormed(w) /\ w.cap = t.cap /\ w.entries = n /\ w.tombstones = m
       /\ Occupation(w) = Occupation(t) \ {i}
       /\ \A j \in Occupation(t) \ {i} : w.slots[j] = t.slots[j]
  BY <1>3, <1>7, <1>8, <1>12, <1>14
<1>. QED  BY <1>15 DEF n, m

\* The array of a resize: nothing is in it.
LEMMA ZeroedFacts ==
    ASSUME NEW c \in Capacities
    PROVE  /\ WellFormed(Vacant(c)) /\ Vacant(c).cap = c
           /\ Vacant(c).entries = 0 /\ Vacant(c).tombstones = 0
           /\ Occupation(Vacant(c)) = {}
<1>. DEFINE z == Vacant(c)
<1>1. z.cap = c /\ z.entries = 0 /\ z.tombstones = 0 /\ z.slots = [i \in 0 .. c - 1 |-> Empty]
  BY DEF Vacant
<1>2. IsTable(z)
  BY DEF IsTable, Vacant, SlotSet
<1>. HIDE DEF z
<1>3. \A i \in Cells(z) : z.slots[i] = Empty
  BY <1>1 DEF Cells
<1>4. Occupation(z) = {} /\ Graves(z) = {}
  BY <1>3 DEF Occupation, Graves, Empty, Tombstone
<1>5. CountersTrue(z)
  BY <1>1, <1>4, FS_EmptySet DEF CountersTrue
<1>6. Probing(z)
  BY <1>4 DEF Probing
<1>7. WellFormed(z)
  BY <1>2, <1>5, <1>6 DEF WellFormed
<1>. QED  BY <1>1, <1>4, <1>7 DEF z

\* A resize begins: everything waits.
LEMMA ResizeFacts ==
    ASSUME NEW t, WellFormed(t)
    PROVE  /\ t.slots # <<>> /\ Waiting(t.slots, 0) = Occupation(t)
           /\ t.slots \in [0 .. t.cap - 1 -> SlotSet] /\ t.cap \in Capacities
<1>1. IsTable(t)
  BY DEF WellFormed
<1>2. t.slots \in [0 .. t.cap - 1 -> SlotSet] /\ t.cap \in Capacities /\ t.cap >= 4 /\ t.cap \in Nat
  BY <1>1, TableFacts DEF Cells
<1>3. DOMAIN t.slots = 0 .. t.cap - 1 /\ 0 \in DOMAIN t.slots
  BY <1>2
<1>4. t.slots # <<>>
  <2>1. DOMAIN <<>> = {}
    OBVIOUS
  <2>. QED  BY <1>3, <2>1
<1>5. Waiting(t.slots, 0) = {i \in DOMAIN t.slots : i >= 0 /\ t.slots[i].state = "occupied"}
  BY <1>4 DEF Waiting
<1>6. Waiting(t.slots, 0) = Occupation(t)
  BY <1>2, <1>3, <1>5 DEF Occupation, Cells
<1>. QED  BY <1>2, <1>4, <1>6

LEMMA ResizeBegun ==
    ASSUME NEW t, WellFormed(t), NEW c \in Capacities, BeginResize(t, c), t.entries < c,
           todo' # Nobody => 2 * t.entries < c
    PROVE  WellFormed(table') /\ table'.tombstones = 0 /\ old' # <<>> /\ Resizing'
<1>1. table' = Vacant(c) /\ old' = t.slots /\ at' = 0
  BY DEF BeginResize
<1>2. /\ WellFormed(table') /\ table'.cap = c /\ table'.entries = 0 /\ table'.tombstones = 0
      /\ Occupation(table') = {}
  BY <1>1, ZeroedFacts
<1>3. /\ old' # <<>> /\ Waiting(old', at') = Occupation(t)
      /\ \E d \in Capacities : old' \in [0 .. d - 1 -> SlotSet]
      /\ \A i \in Occupation(t) : old'[i] = t.slots[i]
  BY <1>1, ResizeFacts
<1>4. IsTable(t) /\ CountersTrue(t) /\ Probing(t) /\ t.entries \in Nat
  BY TableFacts DEF WellFormed
<1>5. Cardinality(Waiting(old', at')) = t.entries
  BY <1>3, <1>4 DEF CountersTrue
<1>6. \A i, j \in Waiting(old', at') : old'[i].key = old'[j].key => i = j
  BY <1>3, <1>4 DEF Probing
<1>7. at' \in 0 .. Cardinality(DOMAIN old')
  <2>1. t.slots \in [0 .. t.cap - 1 -> SlotSet] /\ t.cap \in Nat
    BY <1>4, TableFacts DEF Cells
  <2>2. DOMAIN old' = Cells(t)
    BY <1>1, <2>1 DEF Cells
  <2>3. Cardinality(DOMAIN old') = t.cap
    BY <1>4, <2>2, Counts
  <2>. QED  BY <1>1, <2>1, <2>3
<1>8. table'.entries + Cardinality(Waiting(old', at')) = t.entries
  BY <1>2, <1>4, <1>5
<1>. QED  BY <1>2, <1>3, <1>6, <1>7, <1>8 DEF Resizing

-----------------------------------------------------------------------------
\* The entries after a key was written, after one was taken away, and after the
\* array was exchanged.
LEMMA StoredEntries ==
    ASSUME NEW t, WellFormed(t), \E i \in Cells(t) : t.slots[i] = Empty,
           NEW k \in Keys, NEW v \in Values, NEW i, i = SlotFor(t, k)
    PROVE  Entered(Stored(t, i, k, v)) =
              IF Holds(t, i, k) /\ kind = "hir" THEN Entered(t)
              ELSE {e \in Entered(t) : e.key # k} \cup {Occupied(k, v)}
<1>. DEFINE w == Stored(t, i, k, v)
<1>1. /\ i \in Cells(t) /\ Cells(w) = Cells(t)
      /\ Holds(t, i, k) \/ \A j \in Cells(t) : ~Holds(t, j, k)
      /\ IF Holds(t, i, k) /\ kind = "hir" THEN w = t
         ELSE \A j \in Cells(t) : w.slots[j] = IF j = i THEN Occupied(k, v) ELSE t.slots[j]
  BY StoredFacts
<1>. HIDE DEF w
<1>2. CASE Holds(t, i, k) /\ kind = "hir"
  <2>1. w = t
    BY <1>1, <1>2
  <2>. QED  BY <1>2, <2>1 DEF w
<1>3. CASE ~ (Holds(t, i, k) /\ kind = "hir")
  <2>1. Probing(t)
    BY DEF WellFormed
  <2>2. \A j \in Cells(t) : w.slots[j] = IF j = i THEN Occupied(k, v) ELSE t.slots[j]
    BY <1>1, <1>3
  <2>3. Occupied(k, v).state = "occupied"
    BY DEF Occupied
  <2>4. \A j \in Cells(t) : j # i => ~Holds(t, j, k)
    <3>1. SUFFICES ASSUME NEW j \in Cells(t), j # i, Holds(t, j, k) PROVE FALSE
      OBVIOUS
    <3>2. Holds(t, i, k)
      BY <1>1, <3>1
    <3>3. i \in Occupation(t) /\ j \in Occupation(t) /\ t.slots[i].key = t.slots[j].key
      BY <1>1, <3>1, <3>2 DEF Occupation, Holds
    <3>. QED  BY <2>1, <3>1, <3>3 DEF Probing
  <2>5. Occupation(w) = Occupation(t) \cup {i}
    BY <1>1, <2>2, <2>3 DEF Occupation
  <2>6. ASSUME NEW j \in Occupation(t), t.slots[j].key # k
        PROVE  j # i /\ w.slots[j] = t.slots[j]
    <3>1. j \in Cells(t) /\ t.slots[j].state = "occupied"
      BY DEF Occupation
    <3>2. j # i
      <4>1. SUFFICES ASSUME j = i PROVE FALSE
        OBVIOUS
      <4>2. ~Holds(t, i, k)
        BY <2>6, <4>1 DEF Holds
      <4>3. t.slots[i] \in {Empty, Tombstone}
        BY <4>2, SlotForFacts DEF WellFormed
      <4>. QED  BY <3>1, <4>1, <4>3 DEF Empty, Tombstone
    <3>. QED  BY <2>2, <3>1, <3>2
  <2>7. ASSUME NEW j \in Occupation(t), j # i
        PROVE  w.slots[j] = t.slots[j] /\ t.slots[j].key # k
    <3>1. j \in Cells(t) /\ t.slots[j].state = "occupied"
      BY DEF Occupation
    <3>2. ~Holds(t, j, k)
      BY <2>4, <2>7, <3>1
    <3>. QED  BY <2>2, <2>7, <3>1, <3>2 DEF Holds
  <2>8. w.slots[i] = Occupied(k, v)
    BY <1>1, <2>2
  <2>9. ASSUME NEW e \in Entered(w)
        PROVE  e \in {f \in Entered(t) : f.key # k} \cup {Occupied(k, v)}
    <3>1. PICK j \in Occupation(w) : e = w.slots[j]
      BY DEF Entered
    <3>. QED  BY <2>5, <2>7, <2>8, <3>1 DEF Entered
  <2>10. ASSUME NEW e \in {f \in Entered(t) : f.key # k} \cup {Occupied(k, v)}
         PROVE  e \in Entered(w)
    <3>1. CASE e = Occupied(k, v)
      BY <2>5, <2>8, <3>1 DEF Entered
    <3>2. CASE e \in Entered(t) /\ e.key # k
      <4>1. PICK j \in Occupation(t) : e = t.slots[j]
        BY <3>2 DEF Entered
      <4>. QED  BY <2>5, <2>6, <3>2, <4>1 DEF Entered
    <3>. QED  BY <3>1, <3>2
  <2>11. Entered(w) = {e \in Entered(t) : e.key # k} \cup {Occupied(k, v)}
    BY <2>9, <2>10
  <2>. QED  BY <1>3, <2>11 DEF w
<1>. QED  BY <1>2, <1>3

LEMMA RemovedEntries ==
    ASSUME NEW t, WellFormed(t), NEW i \in Occupation(t)
    PROVE  Entered(Removed(t, i)) = {e \in Entered(t) : e.key # t.slots[i].key}
<1>. DEFINE w == Removed(t, i)
<1>1. /\ Occupation(w) = Occupation(t) \ {i}
      /\ \A j \in Occupation(t) \ {i} : w.slots[j] = t.slots[j]
  BY RemovedFacts
<1>. HIDE DEF w
<1>2. \A j \in Occupation(t) : t.slots[j].key = t.slots[i].key <=> j = i
  BY DEF WellFormed, Probing
<1>3. Entered(w) = {e \in Entered(t) : e.key # t.slots[i].key}
  BY <1>1, <1>2 DEF Entered
<1>. QED  BY <1>3 DEF w

LEMMA ExchangedEntries ==
    ASSUME NEW t, WellFormed(t), NEW c \in Capacities
    PROVE  Entries(Vacant(c), t.slots, 0) = Entered(t)
<1>1. Occupation(Vacant(c)) = {} /\ Waiting(t.slots, 0) = Occupation(t)
  BY ZeroedFacts, ResizeFacts
<1>. QED  BY <1>1 DEF Entries, Entered

-----------------------------------------------------------------------------
\* What the loop of resize and the assignment have in common.
LEMMA StoreKept ==
    ASSUME WellFormed(table), table.entries + table.tombstones < table.cap,
           NEW k \in Keys, NEW v \in Values, Enter(k, v)
    PROVE  /\ stuck' = stuck /\ WellFormed(table') /\ table'.cap = table.cap
           /\ table'.tombstones <= table.tombstones
           /\ table'.entries <= table.entries + 1
           /\ Entered(table') = IF kind = "hir" /\ \E e \in Entered(table) : e.key = k
                                THEN Entered(table)
                                ELSE {e \in Entered(table) : e.key # k} \cup {Occupied(k, v)}
<1>. DEFINE i == SlotFor(table, k)
<1>1. IsTable(table) /\ CountersTrue(table) /\ Probing(table)
  BY DEF WellFormed
<1>2. \E j \in Cells(table) : table.slots[j] = Empty
  BY <1>1, OneIsEmpty
<1>3. i \in Cells(table) /\ i # Nowhere
  BY <1>1, <1>2, SlotForFacts
<1>4. table' = Stored(table, i, k, v) /\ stuck' = stuck
  BY <1>3 DEF Enter
<1>. HIDE DEF i
<1>5. i = SlotFor(table, k)
  BY DEF i
<1>6. /\ WellFormed(table') /\ table'.cap = table.cap
      /\ table'.tombstones <= table.tombstones
      /\ table'.entries = table.entries + (IF Holds(table, i, k) THEN 0 ELSE 1)
      /\ Holds(table, i, k) \/ \A j \in Cells(table) : ~Holds(table, j, k)
  BY <1>2, <1>4, <1>5, StoredFacts
<1>7. Entered(table') = IF Holds(table, i, k) /\ kind = "hir" THEN Entered(table)
                        ELSE {e \in Entered(table) : e.key # k} \cup {Occupied(k, v)}
  BY <1>2, <1>4, <1>5, StoredEntries
<1>8. Holds(table, i, k) <=> \E e \in Entered(table) : e.key = k
  <2>1. ASSUME Holds(table, i, k) PROVE \E e \in Entered(table) : e.key = k
    BY <1>3, <2>1 DEF Holds, Entered, Occupation, i
  <2>2. ASSUME NEW e \in Entered(table), e.key = k PROVE Holds(table, i, k)
    <3>1. PICK j \in Occupation(table) : e = table.slots[j]
      BY DEF Entered
    <3>2. j \in Cells(table) /\ Holds(table, j, k)
      BY <2>2, <3>1 DEF Occupation, Holds
    <3>. QED  BY <1>6, <3>2
  <2>. QED  BY <2>1, <2>2
<1>9. table.entries \in Nat
  BY <1>1, TableFacts
<1>10. table'.entries <= table.entries + 1
  BY <1>6, <1>9
<1>. QED  BY <1>4, <1>6, <1>7, <1>8, <1>10

\* What the invariant says of the table itself.
LEMMA InvFacts ==
    ASSUME TablesInv
    PROVE  /\ IsTable(table) /\ CountersTrue(table) /\ Probing(table) /\ WellFormed(table)
           /\ table.entries \in Nat /\ table.tombstones \in Nat
           /\ table.cap \in Nat /\ table.cap \in Capacities /\ table.cap >= 4
           /\ IsFiniteSet(Waiting(old, at)) /\ Cardinality(Waiting(old, at)) \in Nat
           /\ table.entries + table.tombstones < table.cap
           /\ \E i \in Cells(table) : table.slots[i] = Empty
<1>1. /\ IsTable(table) /\ CountersTrue(table) /\ Probing(table) /\ WellFormed(table)
  BY DEF TablesInv, WellFormed
<1>2. /\ table.entries \in Nat /\ table.tombstones \in Nat
      /\ table.cap \in Nat /\ table.cap \in Capacities /\ table.cap >= 4
  BY <1>1, TableFacts
<1>3. IsFiniteSet(Waiting(old, at)) /\ Cardinality(Waiting(old, at)) \in Nat
  <2>1. CASE old = <<>>
    BY <2>1, FS_EmptySet DEF Waiting
  <2>2. CASE old # <<>>
    <3>1. PICK c \in Capacities : old \in [0 .. c - 1 -> SlotSet]
      BY <2>2 DEF TablesInv, Resizing
    <3>2. 0 \in Int /\ c - 1 \in Int
      BY TablesAssumption
    <3>3. IsFiniteSet(0 .. c - 1)
      BY <3>2, FS_Interval
    <3>4. Waiting(old, at) \in SUBSET (0 .. c - 1)
      BY <3>1, <2>2 DEF Waiting
    <3>. QED  BY <3>3, <3>4, FS_Subset, FS_CardinalityType
  <2>. QED  BY <2>1, <2>2
<1>4. table.entries + table.tombstones < table.cap
  BY <1>2, <1>3 DEF TablesInv, Quiet, Resizing
<1>5. \E i \in Cells(table) : table.slots[i] = Empty
  BY <1>1, <1>4, OneIsEmpty
<1>. QED  BY <1>1, <1>2, <1>3, <1>4, <1>5

LEMMA CallFacts ==
    /\ Nobody \notin Calls /\ Nobody.op = "none"
    /\ \A call \in Calls : /\ call.op \in {"put", "remove"} /\ call.key \in Keys
                           /\ call.op = "put" => call.value \in Values
BY DEF Calls, Nobody

\* Where the table is not too full, it has room for one key more.
LEMMA RoomForOne ==
    ASSUME TablesInv, old = <<>>, ~TooFull(table)
    PROVE  table.entries + table.tombstones + 1 < table.cap
<1>1. /\ table.entries \in Nat /\ table.tombstones \in Nat /\ table.cap \in Nat /\ table.cap >= 4
  BY InvFacts
<1>2. kind \in Kinds /\ (kind = "hir" => table.tombstones = 0)
  BY DEF TablesInv
<1>3. CASE kind = "pp"
  BY <1>1, <1>3 DEF TooFull
<1>4. CASE kind = "ghm"
  BY <1>1, <1>4 DEF TooFull
<1>5. CASE kind = "hir"
  BY <1>1, <1>2, <1>5 DEF TooFull
<1>. QED  BY <1>2, <1>3, <1>4, <1>5 DEF Kinds

LEMMA CallKept ==
    ASSUME TablesInv, NEW call \in Calls, BeginCall(call)
    PROVE  TablesInv'
<1>1. /\ old = <<>> /\ todo' = call
      /\ call.op = "put" => ~TooFull(table) \/ 2 * table.cap <= MaxCapacity
      /\ call.op = "remove" => kind # "hir"
      /\ kind' = kind /\ table' = table /\ old' = old /\ at' = at /\ stuck' = stuck
  BY DEF BeginCall
<1>2. Quiet'
  BY <1>1 DEF TablesInv, Quiet, TooFull
<1>3. WellFormed(table')
  BY <1>1 DEF TablesInv
<1>. QED  BY <1>1, <1>2, <1>3 DEF TablesInv

LEMMA AssignKept ==
    ASSUME TablesInv, PutKey
    PROVE  TablesInv'
<1>1. old = <<>> /\ todo.op = "put" /\ kind' = kind
  BY DEF PutKey
<1>2. todo \in Calls /\ todo.key \in Keys /\ todo.value \in Values
  BY <1>1, CallFacts DEF TablesInv
<1>3. /\ Quiet /\ WellFormed(table) /\ kind \in Kinds /\ stuck = FALSE
      /\ kind = "hir" => table.tombstones = 0
  BY <1>1 DEF TablesInv
<1>4. CASE TooFull(table)
  <2>1. BeginResize(table, 2 * table.cap) /\ todo' = todo /\ stuck' = stuck
    BY <1>4 DEF PutKey
  <2>2. table.entries \in Nat /\ table.cap \in Nat /\ table.cap >= 4 /\ table.cap \in Capacities
        /\ table.entries + table.tombstones < table.cap /\ table.tombstones \in Nat
    BY InvFacts
  <2>3. 2 * table.cap <= MaxCapacity
    BY <1>1, <1>3, <1>4 DEF Quiet
  <2>4. 2 * table.cap \in Capacities
    BY <2>2, <2>3, TablesAssumption
  <2>5. table.entries < 2 * table.cap /\ 2 * table.entries < 2 * table.cap
    BY <2>2
  <2>6. WellFormed(table') /\ table'.tombstones = 0 /\ old' # <<>> /\ Resizing'
    BY <1>3, <2>1, <2>4, <2>5, ResizeBegun
  <2>. QED  BY <1>1, <1>2, <1>3, <2>1, <2>6 DEF TablesInv
<1>5. CASE ~TooFull(table)
  <2>1. Enter(todo.key, todo.value) /\ todo' = Nobody /\ old' = old /\ at' = at
    BY <1>5 DEF PutKey
  <2>2. table.entries + table.tombstones < table.cap
    BY InvFacts
  <2>3. /\ stuck' = stuck /\ WellFormed(table') /\ table'.cap = table.cap
        /\ table'.tombstones <= table.tombstones
        /\ table'.entries <= table.entries + 1
    BY <1>2, <1>3, <2>1, <2>2, StoreKept
  <2>4. table'.entries \in Nat /\ table'.tombstones \in Nat
    BY <2>3, TableFacts DEF WellFormed
  <2>5. table.entries \in Nat /\ table.cap \in Nat /\ table.tombstones \in Nat
    BY InvFacts
  <2>6. table'.entries + table'.tombstones < table'.cap
    BY <1>1, <1>5, <2>3, <2>4, <2>5, RoomForOne
  <2>7. kind = "hir" => table'.tombstones = 0
    BY <1>3, <2>3, <2>4
  <2>8. Quiet'
    BY <1>3, <2>1, <2>6, CallFacts DEF Quiet
  <2>. QED  BY <1>1, <1>3, <2>1, <2>3, <2>7, <2>8, CallFacts DEF TablesInv
<1>. QED  BY <1>4, <1>5

LEMMA DeassignKept ==
    ASSUME TablesInv, Deassign
    PROVE  TablesInv'
<1>. DEFINE i == Found(table, todo.key)
            t == Removed(table, i)
<1>1. old = <<>> /\ todo.op = "remove" /\ kind' = kind /\ todo' = Nobody
  BY DEF Deassign
<1>2. todo \in Calls /\ todo.key \in Keys
  BY <1>1, CallFacts DEF TablesInv
<1>3. Quiet /\ WellFormed(table) /\ kind \in Kinds /\ stuck = FALSE /\ kind # "hir"
  BY <1>1 DEF TablesInv
<1>4. i \in Cells(table) /\ i # Nowhere
  BY <1>2, InvFacts, FoundFacts
<1>5. stuck' = FALSE
  BY <1>4 DEF Deassign
<1>6. CASE ~Holds(table, i, todo.key)
  <2>1. table' = table /\ old' = old /\ at' = at
    BY <1>6 DEF Deassign
  <2>2. Quiet'
    BY <1>1, <1>3, <2>1, CallFacts DEF Quiet
  <2>3. WellFormed(table')
    BY <1>3, <2>1
  <2>. QED  BY <1>1, <1>3, <1>5, <2>1, <2>2, <2>3, CallFacts DEF TablesInv
<1>7. CASE Holds(table, i, todo.key)
  <2>1. i \in Occupation(table)
    BY <1>4, <1>7 DEF Holds, Occupation
  <2>2. /\ WellFormed(t) /\ t.cap = table.cap /\ t.entries = table.entries - 1
        /\ t.tombstones = table.tombstones + 1
    BY <1>3, <2>1, RemovedFacts
  <2>3. IF TooSparse(t) THEN BeginResize(t, t.cap \div 2)
        ELSE table' = t /\ old' = old /\ at' = at
    BY <1>4, <1>7 DEF Deassign
  <2>. HIDE DEF t
  <2>4. /\ t.entries \in Nat /\ t.cap \in Nat /\ t.cap >= 4 /\ t.cap \in Capacities
        /\ t.tombstones \in Nat
    BY <2>2, TableFacts DEF WellFormed
  <2>5. CASE TooSparse(t)
    <3>1. t.cap # MinCapacity /\ 5 * t.entries <= t.cap
      BY <2>4, <2>5, TablesAssumption DEF TooSparse
    <3>2. PICK half \in Capacities : t.cap = 2 * half
      BY <2>4, <3>1, TablesAssumption
    <3>3. half \in Nat /\ half >= 4 /\ t.cap \div 2 = half
      <4>1. half \in Nat /\ half >= 4
        BY TablesAssumption
      <4>. QED  BY <3>2, <4>1
    <3>4. t.entries < half
      BY <2>4, <3>1, <3>2, <3>3
    <3>5. BeginResize(t, half) /\ ~ (todo' # Nobody)
      BY <1>1, <2>3, <2>5, <3>3
    <3>6. WellFormed(table') /\ table'.tombstones = 0 /\ old' # <<>> /\ Resizing'
      BY <2>2, <3>4, <3>5, ResizeBegun
    <3>. QED  BY <1>1, <1>3, <1>5, <3>6, CallFacts DEF TablesInv
  <2>6. CASE ~TooSparse(t)
    <3>1. table' = t /\ old' = old /\ at' = at
      BY <2>3, <2>6
    <3>2. table'.entries + table'.tombstones < table'.cap
      <4>1. table.entries \in Nat /\ table.tombstones \in Nat
            /\ table.entries + table.tombstones < table.cap
        BY InvFacts
      <4>. QED  BY <2>2, <3>1, <4>1
    <3>3. Quiet'
      BY <1>1, <1>3, <3>1, <3>2, CallFacts DEF Quiet
    <3>4. WellFormed(table')
      BY <2>2, <3>1
    <3>. QED  BY <1>1, <1>3, <1>5, <3>1, <3>3, <3>4, CallFacts DEF TablesInv
  <2>. QED  BY <2>5, <2>6
<1>. QED  BY <1>6, <1>7

\* One entry fewer waits.
LEMMA NextWaiting ==
    ASSUME TablesInv, old # <<>>, at \in DOMAIN old
    PROVE  /\ at \in Nat /\ at + 1 \in 0 .. Cardinality(DOMAIN old)
           /\ IF old[at].state = "occupied"
              THEN at \in Waiting(old, at) /\ Waiting(old, at + 1) = Waiting(old, at) \ {at}
              ELSE Waiting(old, at + 1) = Waiting(old, at)
<1>1. PICK c \in Capacities : old \in [0 .. c - 1 -> SlotSet]
  BY DEF TablesInv, Resizing
<1>2. c \in Nat /\ c >= 4 /\ DOMAIN old = 0 .. c - 1 /\ at \in 0 .. c - 1
  BY <1>1, TablesAssumption
<1>3. Cardinality(DOMAIN old) = c
  <2>1. 0 \in Int /\ c - 1 \in Int /\ ~ (0 > c - 1) /\ c - 1 - 0 + 1 = c
    BY <1>2
  <2>. QED  BY <1>2, <2>1, FS_Interval
<1>4. at \in Nat /\ at + 1 \in 0 .. c
  BY <1>2
<1>5. \A p \in Nat : Waiting(old, p) = {i \in 0 .. c - 1 : i >= p /\ old[i].state = "occupied"}
  BY <1>2 DEF Waiting
<1>6. \A i \in 0 .. c - 1 : i >= at + 1 <=> i >= at /\ i # at
  BY <1>2
<1>7. /\ Waiting(old, at) = {i \in 0 .. c - 1 : i >= at /\ old[i].state = "occupied"}
      /\ Waiting(old, at + 1) = {i \in 0 .. c - 1 : i >= at + 1 /\ old[i].state = "occupied"}
  BY <1>4, <1>5
<1>8. Waiting(old, at + 1) = {i \in 0 .. c - 1 : i >= at /\ i # at /\ old[i].state = "occupied"}
  BY <1>6, <1>7
<1>9. at >= at
  BY <1>4
<1>10. CASE old[at].state = "occupied"
  BY <1>2, <1>3, <1>4, <1>7, <1>8, <1>9, <1>10
<1>11. CASE old[at].state # "occupied"
  BY <1>2, <1>3, <1>4, <1>7, <1>8, <1>11
<1>. QED  BY <1>10, <1>11

\* The key that is moved is not in the table yet.
LEMMA MovedKey ==
    ASSUME TablesInv, old # <<>>, at \in DOMAIN old, old[at].state = "occupied"
    PROVE  /\ old[at].key \in Keys /\ old[at].value \in Values
           /\ old[at] = Occupied(old[at].key, old[at].value)
           /\ \A e \in Entered(table) : e.key # old[at].key
           /\ \A i \in Waiting(old, at) : i # at => old[i].key # old[at].key
<1>1. old[at] \in SlotSet
  BY DEF TablesInv, Resizing
<1>2. /\ old[at].key \in Keys /\ old[at].value \in Values
      /\ old[at] = Occupied(old[at].key, old[at].value)
  BY <1>1, SlotCases
<1>3. at \in Waiting(old, at)
  BY NextWaiting
<1>4. \A e \in Entered(table) : e.key # old[at].key
  BY <1>3 DEF TablesInv, Resizing, Entered
<1>5. \A i \in Waiting(old, at) : i # at => old[i].key # old[at].key
  BY <1>3 DEF TablesInv, Resizing
<1>. QED  BY <1>2, <1>4, <1>5

LEMMA MoveKept ==
    ASSUME TablesInv, MoveEntry
    PROVE  TablesInv'
<1>1. /\ old # <<>> /\ at \in DOMAIN old /\ at' = at + 1
      /\ kind' = kind /\ old' = old /\ todo' = todo
  BY DEF MoveEntry
<1>2. /\ Resizing /\ WellFormed(table) /\ kind \in Kinds /\ stuck = FALSE
      /\ todo \in Calls \cup {Nobody} /\ todo.op # "remove"
  BY <1>1 DEF TablesInv
<1>3. /\ at + 1 \in 0 .. Cardinality(DOMAIN old)
      /\ IF old[at].state = "occupied"
         THEN at \in Waiting(old, at) /\ Waiting(old, at + 1) = Waiting(old, at) \ {at}
         ELSE Waiting(old, at + 1) = Waiting(old, at)
  BY <1>1, NextWaiting
<1>4. \E c \in Capacities : old \in [0 .. c - 1 -> SlotSet]
  BY <1>2 DEF Resizing
<1>5. CASE old[at].state # "occupied"
  <2>1. table' = table /\ stuck' = stuck
    BY <1>5 DEF MoveEntry
  <2>2. Waiting(old', at') = Waiting(old, at)
    BY <1>1, <1>3, <1>5
  <2>3. Resizing'
    BY <1>1, <1>2, <1>3, <2>1, <2>2 DEF Resizing
  <2>. QED  BY <1>1, <1>2, <2>1, <2>3 DEF TablesInv
<1>6. CASE old[at].state = "occupied"
  <2>. DEFINE k == old[at].key
              v == old[at].value
              n == Cardinality(Waiting(old, at))
  <2>1. /\ k \in Keys /\ v \in Values
        /\ \A e \in Entered(table) : e.key # k
        /\ \A i \in Waiting(old, at) : i # at => old[i].key # k
    BY <1>1, <1>6, MovedKey
  <2>2. Enter(k, v)
    BY <1>6 DEF MoveEntry
  <2>. HIDE DEF k, v
  <2>3. /\ table.entries \in Nat /\ table.tombstones \in Nat /\ table.cap \in Nat
        /\ table.entries + table.tombstones < table.cap
        /\ IsFiniteSet(Waiting(old, at)) /\ n \in Nat
    BY InvFacts
  <2>4. /\ stuck' = stuck /\ WellFormed(table') /\ table'.cap = table.cap
        /\ table'.tombstones <= table.tombstones
        /\ table'.entries <= table.entries + 1
        /\ Entered(table') = IF kind = "hir" /\ \E e \in Entered(table) : e.key = k
                             THEN Entered(table)
                             ELSE {e \in Entered(table) : e.key # k} \cup {Occupied(k, v)}
    BY <1>2, <2>1, <2>2, <2>3, StoreKept
  <2>5. Entered(table') = {e \in Entered(table) : e.key # k} \cup {Occupied(k, v)}
    BY <2>1, <2>4
  <2>6. Waiting(old', at') = Waiting(old, at) \ {at}
    BY <1>1, <1>3, <1>6
  <2>7. Cardinality(Waiting(old', at')) = n - 1
    BY <1>3, <1>6, <2>3, <2>6, FS_RemoveElement
  <2>8. table'.entries \in Nat /\ table'.tombstones \in Nat
    BY <2>4, TableFacts DEF WellFormed
  <2>9. /\ table.tombstones = 0 /\ table.entries + n < table.cap
        /\ todo # Nobody => 2 * (table.entries + n) < table.cap
    BY <1>2 DEF Resizing
  <2>10. table'.tombstones = 0
    BY <2>4, <2>8, <2>9
  <2>11. /\ table'.entries + Cardinality(Waiting(old', at')) < table'.cap
         /\ todo # Nobody => 2 * (table'.entries + Cardinality(Waiting(old', at'))) < table'.cap
    <3>. DEFINE m == Cardinality(Waiting(old', at'))
    <3>1. m = n - 1
      BY <2>7
    <3>. HIDE DEF m, n
    <3>2. table'.entries + m <= table.entries + n
      BY <2>3, <2>4, <2>8, <3>1
    <3>3. m \in Int
      BY <2>3, <3>1
    <3>4. table'.entries + m < table'.cap
      BY <2>3, <2>4, <2>8, <2>9, <3>2, <3>3
    <3>5. todo # Nobody => 2 * (table'.entries + m) < table'.cap
      BY <2>3, <2>4, <2>8, <2>9, <3>2, <3>3
    <3>. QED  BY <3>4, <3>5 DEF m
  <2>12. \A i, j \in Waiting(old', at') : old'[i].key = old'[j].key => i = j
    BY <1>1, <1>2, <2>6 DEF Resizing
  <2>13. ASSUME NEW i \in Waiting(old', at'), NEW j \in Occupation(table')
         PROVE  old'[i].key # table'.slots[j].key
    <3>1. old' = old /\ i \in Waiting(old, at) /\ i # at
      BY <1>1, <2>6
    <3>2. table'.slots[j] \in {e \in Entered(table) : e.key # k} \cup {Occupied(k, v)}
      BY <2>5 DEF Entered
    <3>3. CASE table'.slots[j] = Occupied(k, v)
      BY <2>1, <3>1, <3>3 DEF Occupied
    <3>4. CASE table'.slots[j] \in Entered(table)
      BY <1>2, <3>1, <3>4 DEF Resizing, Entered
    <3>. QED  BY <3>2, <3>3, <3>4
  <2>14. Resizing'
    BY <1>1, <1>3, <1>4, <2>10, <2>11, <2>12, <2>13 DEF Resizing
  <2>. QED  BY <1>1, <1>2, <2>4, <2>10, <2>14 DEF TablesInv
<1>. QED  BY <1>5, <1>6

LEMMA EndKept ==
    ASSUME TablesInv, EndResize
    PROVE  TablesInv'
<1>1. /\ old # <<>> /\ at \notin DOMAIN old /\ old' = <<>> /\ at' = 0
      /\ kind' = kind /\ table' = table /\ todo' = todo /\ stuck' = stuck
  BY DEF EndResize
<1>2. /\ Resizing /\ WellFormed(table) /\ kind \in Kinds
      /\ todo \in Calls \cup {Nobody} /\ todo.op # "remove"
  BY <1>1 DEF TablesInv
<1>3. /\ table.entries \in Nat /\ table.cap \in Nat /\ Cardinality(Waiting(old, at)) \in Nat
      /\ table.entries + table.tombstones < table.cap
  BY InvFacts
<1>4. table.tombstones = 0 /\ (todo # Nobody => 2 * table.entries < table.cap)
  <2>1. todo # Nobody => 2 * (table.entries + Cardinality(Waiting(old, at))) < table.cap
    BY <1>2 DEF Resizing
  <2>. QED  BY <1>2, <1>3, <2>1 DEF Resizing
<1>5. todo # Nobody => ~TooFull(table)
  <2>1. ASSUME todo # Nobody PROVE /\ 10 * (table.entries + table.tombstones) < 7 * table.cap
                                   /\ 4 * (table.entries + table.tombstones) < 3 * table.cap
                                   /\ 4 * table.entries < 3 * table.cap
    BY <1>3, <1>4, <2>1
  <2>2. table.entries + table.tombstones \in Nat
    BY <1>3, <1>4
  <2>3. ASSUME todo # Nobody PROVE ~TooFull(table)
    <3>1. CASE kind = "pp"
      BY <1>3, <2>1, <2>2, <2>3, <3>1 DEF TooFull
    <3>2. CASE kind = "ghm"
      BY <1>3, <2>1, <2>2, <2>3, <3>2 DEF TooFull
    <3>3. CASE kind = "hir"
      BY <1>3, <2>1, <2>3, <3>3 DEF TooFull
    <3>. QED  BY <1>2, <3>1, <3>2, <3>3 DEF Kinds
  <2>. QED  BY <2>3
<1>6. Quiet'
  BY <1>1, <1>3, <1>5, CallFacts DEF Quiet, TooFull
<1>. QED  BY <1>1, <1>2, <1>4, <1>6 DEF TablesInv

LEMMA InitKept == TableInit => TablesInv
<1>. SUFFICES ASSUME TableInit PROVE TablesInv
  OBVIOUS
<1>1. InitialCapacity \in Capacities /\ table = Vacant(InitialCapacity)
  BY TablesAssumption DEF TableInit
<1>2. /\ WellFormed(table) /\ table.cap = InitialCapacity
      /\ table.entries = 0 /\ table.tombstones = 0
  BY <1>1, ZeroedFacts
<1>3. InitialCapacity \in Nat /\ InitialCapacity >= 4
  BY <1>1, TablesAssumption
<1>4. Quiet
  BY <1>2, <1>3, CallFacts DEF Quiet, TableInit
<1>. QED  BY <1>2, <1>4, CallFacts DEF TablesInv, TableInit

LEMMA StepKept == TablesInv /\ [TableNext]_tableVars => TablesInv'
<1>. SUFFICES ASSUME TablesInv, [TableNext]_tableVars PROVE TablesInv'
  OBVIOUS
<1>1. ASSUME NEW call \in Calls, BeginCall(call) PROVE TablesInv'
  BY <1>1, CallKept
<1>2. CASE PutKey
  BY <1>2, AssignKept
<1>3. CASE Deassign
  BY <1>3, DeassignKept
<1>4. CASE MoveEntry
  BY <1>4, MoveKept
<1>5. CASE EndResize
  BY <1>5, EndKept
<1>6. CASE UNCHANGED tableVars
  <2>1. /\ kind' = kind /\ table' = table /\ old' = old /\ at' = at /\ todo' = todo
        /\ stuck' = stuck
    BY <1>6 DEF tableVars
  <2>2. Quiet' = Quiet /\ Resizing' = Resizing
    BY <2>1 DEF Quiet, Resizing, TooFull
  <2>. QED  BY <2>1, <2>2 DEF TablesInv
<1>. QED  BY <1>1, <1>2, <1>3, <1>4, <1>5, <1>6 DEF TableNext

LEMMA TablesInvariant == TableSpec => []TablesInv
<1>. QED  BY InitKept, StepKept, PTL DEF TableSpec

-----------------------------------------------------------------------------
\* For every hash function, every order of insertions and removals and every
\* capacity: a search comes to an empty slot, at the latest.
THEOREM SearchesAlwaysEnd == TableSpec => []SearchesEnd
<1>1. TablesInv => SearchesEnd
  BY InvFacts DEF TablesInv, SearchesEnd
<1>. QED  BY <1>1, TablesInvariant, PTL

\* No key is in the table twice, and no search stops in front of the one it is
\* for: also while the table is resized.
THEOREM SearchesAlwaysFind == TableSpec => []SearchesFind
<1>1. TablesInv => SearchesFind
  <2>. SUFFICES ASSUME TablesInv, NEW i \in Occupation(table)
                PROVE  /\ Lookup(table, table.slots[i].key) = table.slots[i].value
                       /\ Found(table, table.slots[i].key) = i
    BY DEF SearchesFind
  <2>1. Found(table, table.slots[i].key) = i
    BY InvFacts, Present
  <2>2. Holds(table, i, table.slots[i].key) /\ i # Nowhere
    BY InvFacts DEF Occupation, Holds, Cells, Nowhere
  <2>. QED  BY <2>1, <2>2 DEF Lookup
<1>. QED  BY <1>1, TablesInvariant, PTL

-----------------------------------------------------------------------------
\* The entries, as a map.
AllEntries == {Occupied(k, v) : k \in Keys, v \in Values}

OneEach(es) == \A e, f \in es : e.key = f.key => e = f

LEMMA EntriesFacts ==
    ASSUME TablesInv
    PROVE  Entries(table, old, at) \subseteq AllEntries /\ OneEach(Entries(table, old, at))
<1>. DEFINE waits == {old[i] : i \in Waiting(old, at)}
<1>1. Entries(table, old, at) = Entered(table) \cup waits
  BY DEF Entries
<1>2. Entered(table) \subseteq AllEntries
  <2>1. \A i \in Occupation(table) : /\ table.slots[i] \in SlotSet
                                     /\ table.slots[i].state = "occupied"
    BY InvFacts, TableFacts DEF Occupation
  <2>. QED  BY <2>1, SlotCases DEF Entered, AllEntries
<1>3. waits \subseteq AllEntries
  <2>1. \A i \in Waiting(old, at) : old[i] \in SlotSet /\ old[i].state = "occupied"
    BY DEF Waiting, TablesInv, Resizing
  <2>. QED  BY <2>1, SlotCases DEF AllEntries
<1>4. \A e, f \in Entered(table) : e.key = f.key => e = f
  BY InvFacts DEF Entered, Probing
<1>5. /\ \A e, f \in waits : e.key = f.key => e = f
      /\ \A e \in waits, f \in Entered(table) : e.key # f.key
  <2>1. CASE old = <<>>
    BY <2>1 DEF Waiting
  <2>2. CASE old # <<>>
    BY <2>2 DEF TablesInv, Resizing, Entered
  <2>. QED  BY <2>1, <2>2
<1>. HIDE DEF waits
<1>6. OneEach(Entered(table) \cup waits)
  BY <1>4, <1>5 DEF OneEach
<1>. QED  BY <1>1, <1>2, <1>3, <1>6

LEMMA MapOfFacts ==
    ASSUME NEW es, OneEach(es)
    PROVE  /\ DOMAIN MapOf(es) = {e.key : e \in es}
           /\ \A e \in es : MapOf(es)[e.key] = e.value
<1>1. DOMAIN MapOf(es) = {e.key : e \in es}
  BY DEF MapOf
<1>2. ASSUME NEW e \in es PROVE MapOf(es)[e.key] = e.value
  <2>1. e = CHOOSE f \in es : f.key = e.key
    BY DEF OneEach
  <2>. QED  BY <2>1 DEF MapOf
<1>. QED  BY <1>1, <1>2

LEMMA MapOfPut ==
    ASSUME NEW es, es \subseteq AllEntries, OneEach(es), NEW k \in Keys, NEW v \in Values
    PROVE  MapOf({e \in es : e.key # k} \cup {Occupied(k, v)}) =
              [x \in DOMAIN MapOf(es) \cup {k} |-> IF x = k THEN v ELSE MapOf(es)[x]]
<1>. DEFINE fs == {e \in es : e.key # k} \cup {Occupied(k, v)}
            new == [x \in DOMAIN MapOf(es) \cup {k} |-> IF x = k THEN v ELSE MapOf(es)[x]]
<1>1. Occupied(k, v).key = k /\ Occupied(k, v).value = v
  BY DEF Occupied
<1>2. OneEach(fs)
  BY <1>1 DEF OneEach
<1>3. /\ DOMAIN MapOf(es) = {e.key : e \in es}
      /\ \A e \in es : MapOf(es)[e.key] = e.value
  BY MapOfFacts
<1>4. \A e \in fs : e = Occupied(k, v) \/ (e \in es /\ e.key # k)
  OBVIOUS
<1>5. /\ Occupied(k, v) \in fs
      /\ \A e \in es : e.key # k => e \in fs
  OBVIOUS
<1>. HIDE DEF fs
<1>6. /\ DOMAIN MapOf(fs) = {e.key : e \in fs}
      /\ \A e \in fs : MapOf(fs)[e.key] = e.value
  BY <1>2, MapOfFacts
<1>7. DOMAIN MapOf(fs) = DOMAIN new
  BY <1>1, <1>3, <1>4, <1>5, <1>6
<1>8. \A x \in DOMAIN MapOf(fs) : MapOf(fs)[x] = new[x]
  <2>. SUFFICES ASSUME NEW e \in fs PROVE MapOf(fs)[e.key] = new[e.key]
    BY <1>6
  <2>1. MapOf(fs)[e.key] = e.value
    BY <1>6
  <2>2. CASE e = Occupied(k, v)
    BY <1>1, <2>1, <2>2
  <2>3. CASE e \in es /\ e.key # k
    BY <1>3, <2>1, <2>3
  <2>. QED  BY <1>4, <2>2, <2>3
<1>9. MapOf(fs) = [x \in DOMAIN MapOf(fs) |-> MapOf(fs)[x]] /\ new = [x \in DOMAIN new |-> new[x]]
  BY DEF MapOf
<1>10. MapOf(fs) = new
  BY <1>7, <1>8, <1>9
<1>. QED  BY <1>10 DEF fs

LEMMA MapOfRemove ==
    ASSUME NEW es, OneEach(es), NEW k
    PROVE  MapOf({e \in es : e.key # k}) = Abstract!Restrict(MapOf(es), DOMAIN MapOf(es) \ {k})
<1>. DEFINE fs == {e \in es : e.key # k}
            new == [x \in DOMAIN MapOf(es) \ {k} |-> MapOf(es)[x]]
<1>1. OneEach(fs)
  BY DEF OneEach
<1>2. /\ DOMAIN MapOf(es) = {e.key : e \in es}
      /\ \A e \in es : MapOf(es)[e.key] = e.value
  BY MapOfFacts
<1>3. \A e : e \in fs <=> e \in es /\ e.key # k
  OBVIOUS
<1>. HIDE DEF fs
<1>4. /\ DOMAIN MapOf(fs) = {e.key : e \in fs}
      /\ \A e \in fs : MapOf(fs)[e.key] = e.value
  BY <1>1, MapOfFacts
<1>5. DOMAIN MapOf(fs) = DOMAIN new
  BY <1>2, <1>3, <1>4
<1>6. \A x \in DOMAIN MapOf(fs) : MapOf(fs)[x] = new[x]
  <2>. SUFFICES ASSUME NEW e \in fs PROVE MapOf(fs)[e.key] = new[e.key]
    BY <1>4
  <2>. QED  BY <1>2, <1>3, <1>4
<1>7. MapOf(fs) = [x \in DOMAIN MapOf(fs) |-> MapOf(fs)[x]] /\ new = [x \in DOMAIN new |-> new[x]]
  BY DEF MapOf
<1>8. MapOf(fs) = new
  BY <1>5, <1>6, <1>7
<1>. QED  BY <1>8 DEF fs, Abstract!Restrict

-----------------------------------------------------------------------------
\* What the steps do to the map.
LEMMA AssignMapped ==
    ASSUME TablesInv, PutKey
    PROVE  Abstract!Put \/ UNCHANGED <<Mappings, todo, kind = "hir">>
<1>. DEFINE es == Entries(table, old, at)
<1>1. old = <<>> /\ todo.op = "put" /\ kind' = kind
  BY DEF PutKey
<1>2. todo \in Calls /\ todo.key \in Keys /\ todo.value \in Values
  BY <1>1, CallFacts DEF TablesInv
<1>3. es = Entered(table)
  BY <1>1 DEF Entries, Waiting
<1>4. es \subseteq AllEntries /\ OneEach(es)
  BY EntriesFacts
<1>5. Mappings = MapOf(es)
  BY DEF Mappings
<1>6. CASE TooFull(table)
  <2>1. /\ table' = Vacant(2 * table.cap) /\ old' = table.slots /\ at' = 0
        /\ todo' = todo
    BY <1>6 DEF PutKey, BeginResize
  <2>2. table.cap \in Capacities /\ 2 * table.cap <= MaxCapacity
        /\ table.cap \in Nat /\ table.cap >= 4
    BY <1>1, <1>6, InvFacts DEF TablesInv, Quiet
  <2>3. 2 * table.cap \in Capacities
    BY <2>2, TablesAssumption
  <2>4. Entries(table', old', at') = Entered(table)
    BY <2>1, <2>3, InvFacts, ExchangedEntries
  <2>5. Mappings' = Mappings
    BY <1>3, <2>4 DEF Mappings
  <2>. QED  BY <1>1, <2>1, <2>5
<1>7. CASE ~TooFull(table)
  <2>1. Enter(todo.key, todo.value) /\ todo' = Nobody /\ old' = old /\ at' = at
    BY <1>7 DEF PutKey
  <2>2. Entered(table') =
           IF kind = "hir" /\ \E e \in Entered(table) : e.key = todo.key
           THEN Entered(table)
           ELSE {e \in Entered(table) : e.key # todo.key} \cup {Occupied(todo.key, todo.value)}
    BY <1>2, <2>1, InvFacts, StoreKept
  <2>3. Entries(table', old', at') = Entered(table')
    BY <1>1, <2>1 DEF Entries, Waiting
  <2>4. Mappings' = MapOf(Entered(table'))
    BY <2>3 DEF Mappings
  <2>. HIDE DEF es
  <2>5. DOMAIN MapOf(es) = {e.key : e \in es}
    BY <1>4, MapOfFacts
  <2>6. todo.key \in DOMAIN MapOf(es) <=> \E e \in es : e.key = todo.key
    BY <2>5
  <2>7. Mappings' = IF kind = "hir" /\ todo.key \in DOMAIN MapOf(es) THEN MapOf(es)
                    ELSE [x \in DOMAIN MapOf(es) \cup {todo.key} |->
                             IF x = todo.key THEN todo.value ELSE MapOf(es)[x]]
    <3>1. CASE kind = "hir" /\ todo.key \in DOMAIN MapOf(es)
      BY <1>3, <2>2, <2>4, <2>6, <3>1
    <3>2. CASE ~ (kind = "hir" /\ todo.key \in DOMAIN MapOf(es))
      <4>1. Mappings' = MapOf({e \in es : e.key # todo.key} \cup {Occupied(todo.key, todo.value)})
        BY <1>3, <2>2, <2>4, <2>6, <3>2
      <4>. QED  BY <1>2, <1>4, <3>2, <4>1, MapOfPut
    <3>. QED  BY <3>1, <3>2
  <2>8. todo' = Abstract!None
    BY <2>1 DEF Nobody, Abstract!None
  <2>. QED  BY <1>1, <1>5, <2>7, <2>8 DEF Abstract!Put
<1>. QED  BY <1>6, <1>7

LEMMA DeassignMapped ==
    ASSUME TablesInv, Deassign
    PROVE  Abstract!Remove
<1>. DEFINE es == Entries(table, old, at)
            i == Found(table, todo.key)
            t == Removed(table, i)
<1>1. old = <<>> /\ todo.op = "remove" /\ kind' = kind /\ todo' = Nobody
  BY DEF Deassign
<1>2. todo \in Calls /\ todo.key \in Keys
  BY <1>1, CallFacts DEF TablesInv
<1>3. es = Entered(table)
  BY <1>1 DEF Entries, Waiting
<1>4. OneEach(es) /\ Mappings = MapOf(es)
  BY EntriesFacts DEF Mappings
<1>5. i \in Cells(table) /\ i # Nowhere
      /\ (table.slots[i] = Empty \/ Holds(table, i, todo.key))
  BY <1>2, InvFacts, FoundFacts
<1>6. Entries(table', old', at') = {e \in Entered(table) : e.key # todo.key}
  <2>1. CASE ~Holds(table, i, todo.key)
    <3>1. table' = table /\ old' = old /\ at' = at
      BY <2>1 DEF Deassign
    <3>2. \A j \in Cells(table) : ~Holds(table, j, todo.key)
      BY <1>2, <1>5, <2>1, InvFacts, Absent
    <3>3. \A e \in Entered(table) : e.key # todo.key
      BY <3>2 DEF Entered, Occupation, Holds
    <3>. QED  BY <1>1, <3>1, <3>3 DEF Entries, Waiting
  <2>2. CASE Holds(table, i, todo.key)
    <3>1. i \in Occupation(table) /\ table.slots[i].key = todo.key
      BY <1>5, <2>2 DEF Holds, Occupation
    <3>2. WellFormed(t) /\ Entered(t) = {e \in Entered(table) : e.key # todo.key}
          /\ t.cap = table.cap
      BY <3>1, InvFacts, RemovedFacts, RemovedEntries
    <3>3. IF TooSparse(t) THEN BeginResize(t, t.cap \div 2)
          ELSE table' = t /\ old' = old /\ at' = at
      BY <1>5, <2>2 DEF Deassign
    <3>. HIDE DEF t
    <3>4. CASE TooSparse(t)
      <4>1. t.cap # MinCapacity /\ t.cap \in Capacities
        <5>1. t.cap \in Nat /\ t.cap \in Capacities
          BY <3>2, TableFacts DEF WellFormed
        <5>. QED  BY <3>4, <5>1, TablesAssumption DEF TooSparse
      <4>2. PICK half \in Capacities : t.cap = 2 * half
        BY <4>1, TablesAssumption
      <4>3. half \in Nat
        BY TablesAssumption
      <4>4. t.cap \div 2 = half
        BY <4>2, <4>3
      <4>5. table' = Vacant(half) /\ old' = t.slots /\ at' = 0
        BY <3>3, <3>4, <4>4 DEF BeginResize
      <4>6. Entries(table', old', at') = Entered(t)
        BY <3>2, <4>5, ExchangedEntries
      <4>. QED  BY <3>2, <4>6
    <3>5. CASE ~TooSparse(t)
      <4>1. table' = t /\ old' = old /\ at' = at
        BY <3>3, <3>5
      <4>. QED  BY <1>1, <3>2, <4>1 DEF Entries, Waiting
    <3>. QED  BY <3>4, <3>5
  <2>. QED  BY <2>1, <2>2
<1>7. Mappings' = MapOf({e \in es : e.key # todo.key})
  BY <1>3, <1>6 DEF Mappings
<1>. HIDE DEF es
<1>8. Mappings' = Abstract!Restrict(Mappings, DOMAIN Mappings \ {todo.key})
  BY <1>4, <1>7, MapOfRemove
<1>. QED  BY <1>1, <1>8 DEF Abstract!Remove, Nobody, Abstract!None

LEMMA MoveMapped ==
    ASSUME TablesInv, MoveEntry
    PROVE  Mappings' = Mappings
<1>. DEFINE k == old[at].key
            v == old[at].value
<1>1. old # <<>> /\ at \in DOMAIN old /\ at' = at + 1 /\ old' = old
  BY DEF MoveEntry
<1>2. IF old[at].state = "occupied"
      THEN at \in Waiting(old, at) /\ Waiting(old, at + 1) = Waiting(old, at) \ {at}
      ELSE Waiting(old, at + 1) = Waiting(old, at)
  BY <1>1, NextWaiting
<1>3. CASE old[at].state # "occupied"
  BY <1>1, <1>2, <1>3 DEF MoveEntry, Mappings, Entries
<1>4. CASE old[at].state = "occupied"
  <2>1. /\ k \in Keys /\ v \in Values /\ old[at] = Occupied(k, v)
        /\ \A e \in Entered(table) : e.key # k
        /\ \A i \in Waiting(old, at) : i # at => old[i].key # k
    BY <1>1, <1>4, MovedKey
  <2>2. Enter(k, v)
    BY <1>4 DEF MoveEntry
  <2>. HIDE DEF k, v
  <2>3. Entered(table') = IF kind = "hir" /\ \E e \in Entered(table) : e.key = k
                          THEN Entered(table)
                          ELSE {e \in Entered(table) : e.key # k} \cup {Occupied(k, v)}
    BY <2>1, <2>2, InvFacts, StoreKept
  <2>4. Entered(table') = Entered(table) \cup {Occupied(k, v)}
    BY <2>1, <2>3
  <2>5. {old[i] : i \in Waiting(old, at)}
           = {old[i] : i \in Waiting(old, at) \ {at}} \cup {Occupied(k, v)}
    BY <1>2, <1>4, <2>1
  <2>6. Entries(table', old', at') = Entries(table, old, at)
    BY <1>1, <1>2, <1>4, <2>4, <2>5 DEF Entries
  <2>. QED  BY <2>6 DEF Mappings
<1>. QED  BY <1>3, <1>4

LEMMA EndMapped ==
    ASSUME TablesInv, EndResize
    PROVE  Mappings' = Mappings
<1>1. /\ old # <<>> /\ at \notin DOMAIN old /\ old' = <<>> /\ at' = 0 /\ table' = table
  BY DEF EndResize
<1>2. PICK c \in Capacities : old \in [0 .. c - 1 -> SlotSet]
  BY <1>1 DEF TablesInv, Resizing
<1>3. at \in Nat /\ c \in Nat /\ at >= c
  BY <1>1, <1>2, TablesAssumption DEF TablesInv, Resizing
<1>4. Waiting(old, at) = {}
  BY <1>1, <1>2, <1>3 DEF Waiting
<1>5. Waiting(old', at') = {}
  BY <1>1 DEF Waiting
<1>6. Entries(table', old', at') = Entries(table, old, at)
  BY <1>1, <1>4, <1>5 DEF Entries
<1>. QED  BY <1>6 DEF Mappings

LEMMA InitMapped == TableInit => Abstract!Init
<1>. SUFFICES ASSUME TableInit PROVE Abstract!Init
  OBVIOUS
<1>1. Entries(table, old, at) = {}
  BY ZeroedFacts, TablesAssumption DEF TableInit, Entries, Entered, Waiting
<1>2. Mappings \in [{} -> Values]
  BY <1>1 DEF Mappings, MapOf
<1>. QED  BY <1>2 DEF TableInit, Abstract!Init, Nobody, Abstract!None

LEMMA StepMapped ==
    TablesInv /\ [TableNext]_tableVars => [Abstract!Next]_<<Mappings, todo, kind = "hir">>
<1>. SUFFICES ASSUME TablesInv, [TableNext]_tableVars
              PROVE  Abstract!Next \/ UNCHANGED <<Mappings, todo, kind = "hir">>
  OBVIOUS
<1>1. ASSUME NEW call \in Calls, BeginCall(call) PROVE Abstract!Ask
  <2>1. /\ todo = Nobody /\ todo' = call /\ kind' = kind /\ table' = table
        /\ old' = old /\ at' = at
    BY <1>1 DEF BeginCall
  <2>2. Mappings' = Mappings
    BY <2>1 DEF Mappings
  <2>. QED  BY <2>1, <2>2 DEF Abstract!Ask, Abstract!Requests, Calls, Nobody, Abstract!None
<1>2. CASE PutKey
  BY <1>2, AssignMapped DEF Abstract!Next
<1>3. CASE Deassign
  BY <1>3, DeassignMapped DEF Abstract!Next
<1>4. CASE MoveEntry
  BY <1>4, MoveMapped DEF MoveEntry
<1>5. CASE EndResize
  BY <1>5, EndMapped DEF EndResize
<1>6. CASE UNCHANGED tableVars
  <2>1. kind' = kind /\ table' = table /\ old' = old /\ at' = at /\ todo' = todo
    BY <1>6 DEF tableVars
  <2>. QED  BY <2>1 DEF Mappings
<1>. QED  BY <1>1, <1>2, <1>3, <1>4, <1>5, <1>6 DEF TableNext, Abstract!Next

\* Growing, shrinking and the tombstones never change what a table holds: it is
\* the map of SymbolMap.
THEOREM MapImplemented == TableSpec => IsMap
<1>. QED  BY InitMapped, StepMapped, TablesInvariant, PTL DEF TableSpec, IsMap, Abstract!Spec
=============================================================================
