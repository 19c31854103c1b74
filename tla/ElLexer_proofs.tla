--------------------------- MODULE ElLexer_proofs ---------------------------
(***************************************************************************)
(* The lexer reads on with every call, keeps lines and columns right, and  *)
(* never splits an operator, whatever the document and the flags.          *)
(***************************************************************************)
EXTENDS ElLexer, Integers, SequenceTheorems, FiniteSetTheorems, WellFoundedInduction, TLAPS

-----------------------------------------------------------------------------
(* Loops.  The lexer's are recursive functions that call themselves last:  *)
(* in the states of Stop the loop ends with result[s], in the others it    *)
(* goes on in after[s].  A measure that decreases makes it end.       *)

LEMMA SmallestOf ==
    ASSUME NEW T \in SUBSET Nat, T # {}
    PROVE  \E m \in T : \A n \in T : m <= n
<1>1. PICK m \in T : \A y \in T : ~ (<<y, m>> \in OpToRel(<, Nat))
  BY Zenon, NatLessThanWellFounded, WFMin
<1>2. \A y \in T : ~(y < m)
  BY <1>1 DEF OpToRel
<1>. QED  BY <1>2

Decreases(S, Stop, after, measure, bound) ==
    /\ measure \in [S -> 0 .. bound]
    /\ \A s \in S \ Stop : after[s] \in S /\ measure[after[s]] < measure[s]

\* The loop defines a function of the state in which it starts.
LEMMA LoopExists ==
    ASSUME NEW S, NEW Stop, NEW after, NEW result, NEW measure, NEW bound \in Nat,
           Decreases(S, Stop, after, measure, bound)
    PROVE  \E f : f = [s \in S |-> IF s \in Stop THEN result[s] ELSE f[after[s]]]
<1>. DEFINE Below(n) == {s \in S : measure[s] < n}
            Solves(f, n) ==
                f = [s \in Below(n) |-> IF s \in Stop THEN result[s] ELSE f[after[s]]]
            T == {n \in Nat : ~ \E f : Solves(f, n)}
<1>0. \A n \in Nat : n \notin T => \E f : Solves(f, n)
  <2>. HIDE DEF Solves
  <2>. QED  OBVIOUS
<1>1. ASSUME T # {}
      PROVE  FALSE
  <2>1. PICK m \in T : \A n \in T : m <= n
    <3>1. T \in SUBSET Nat
      OBVIOUS
    <3>. QED  BY <1>1, <3>1, SmallestOf
  <2>2. m # 0
    <3>1. SUFFICES ASSUME m = 0
                   PROVE  FALSE
      OBVIOUS
    <3>2. Below(0) = {}
      BY DEF Decreases
    <3>. DEFINE e == [s \in {} |-> s]
    <3>3. e = [s \in Below(0) |-> IF s \in Stop THEN result[s] ELSE e[after[s]]]
      BY <3>2
    <3>4. Solves(e, 0)
      BY <3>3
    <3>5. \E f : Solves(f, 0)
      BY <3>4
    <3>. QED  BY <2>1, <3>1, <3>5
  <2>3. m \in Nat /\ m - 1 \in Nat /\ m - 1 \notin T
    <3>1. m \in Nat
      OBVIOUS
    <3>. HIDE DEF T
    <3>. QED  BY <2>1, <2>2, <3>1
  <2>4. PICK f : Solves(f, m - 1)
    <3>. HIDE DEF Solves, T
    <3>. QED  BY <1>0, <2>3
  <2>. DEFINE g == [s \in Below(m) |-> IF s \in Stop THEN result[s] ELSE f[after[s]]]
  <2>5. \A s \in Below(m - 1) : s \in Below(m) /\ f[s] = g[s]
    <3>1. TAKE s \in Below(m - 1)
    <3>2. s \in Below(m)
      BY <2>3 DEF Decreases
    <3>3. f[s] = IF s \in Stop THEN result[s] ELSE f[after[s]]
      BY <2>4
    <3>. QED  BY <3>2, <3>3
  <2>6. \A s \in Below(m) : s \notin Stop => after[s] \in Below(m - 1)
    BY <2>3 DEF Decreases
  <2>7. \A s \in Below(m) : s \notin Stop => f[after[s]] = g[after[s]]
    BY <2>5, <2>6
  <2>8. g = [s \in Below(m) |-> IF s \in Stop THEN result[s] ELSE g[after[s]]]
    <3>. HIDE DEF Below
    <3>1. \A s \in Below(m) : g[s] = IF s \in Stop THEN result[s] ELSE f[after[s]]
      OBVIOUS
    <3>2. \A s \in Below(m) : g[s] = IF s \in Stop THEN result[s] ELSE g[after[s]]
      BY <2>7, <3>1
    <3>3. DOMAIN g = Below(m)
      OBVIOUS
    <3>4. \E D : g = [s \in D |-> g[s]]
      <4>1. g = [s \in Below(m) |-> IF s \in Stop THEN result[s] ELSE f[after[s]]]
        OBVIOUS
      <4>. HIDE DEF g
      <4>2. g = [s \in Below(m) |-> g[s]]
        BY <4>1
      <4>. QED  BY <4>2
    <3>. HIDE DEF g
    <3>5. g = [s \in Below(m) |-> g[s]]
      BY <3>3, <3>4
    <3>. QED  BY <3>2, <3>5
  <2>9. Solves(g, m)
    BY <2>8
  <2>. QED  BY <2>1, <2>9
<1>2. bound + 1 \notin T
  BY <1>1
<1>3. PICK f : Solves(f, bound + 1)
  <2>. HIDE DEF Solves, T
  <2>1. bound + 1 \in Nat
    OBVIOUS
  <2>. QED  BY <1>0, <1>2, <2>1
<1>4. Below(bound + 1) = S
  BY DEF Decreases
<1>5. f = [s \in S |-> IF s \in Stop THEN result[s] ELSE f[after[s]]]
  BY <1>3, <1>4
<1>. QED  BY <1>5

\* What holds of every result that can be reached is true of the function.
LEMMA LoopResult ==
    ASSUME NEW S, NEW Stop, NEW after, NEW result, NEW measure, NEW bound \in Nat,
           Decreases(S, Stop, after, measure, bound),
           NEW f, f = [s \in S |-> IF s \in Stop THEN result[s] ELSE f[after[s]]],
           NEW J \in SUBSET S, NEW R,
           \A s \in J \cap Stop : result[s] \in R,
           \A s \in J \ Stop : after[s] \in J
    PROVE  \A s \in J : f[s] \in R
<1>. DEFINE T == {measure[s] : s \in {t \in J : f[t] \notin R}}
<1>1. SUFFICES ASSUME T # {}
               PROVE  FALSE
  OBVIOUS
<1>2. T \in SUBSET Nat
  BY DEF Decreases
<1>3. PICK m \in T : \A n \in T : m <= n
  BY <1>1, <1>2, SmallestOf
<1>4. PICK s \in J : f[s] \notin R /\ m = measure[s]
  BY <1>3
<1>5. f[s] = IF s \in Stop THEN result[s] ELSE f[after[s]]
  BY <1>4
<1>6. s \notin Stop
  BY <1>4, <1>5
<1>7. after[s] \in J /\ f[after[s]] \notin R /\ measure[after[s]] < measure[s]
  BY <1>4, <1>5, <1>6 DEF Decreases
<1>8. measure[after[s]] \in T
  BY <1>7
<1>9. measure[s] \in Nat /\ measure[after[s]] \in Nat
  BY <1>2, <1>4, <1>8
<1>10. m <= measure[after[s]]
  <2>. HIDE DEF T
  <2>. QED  BY <1>3, <1>8
<1>. QED  BY <1>4, <1>7, <1>9, <1>10

-----------------------------------------------------------------------------
(* Locations.                                                              *)

\* The characters that end a line, among the first n of a document.
Ends(d, n) ==
    {i \in 1 .. n : \/ d[i] = "LF"
                    \/ d[i] = "CR" /\ ~(i < Len(d) /\ d[i + 1] = "LF")}

\* A location of the document, and one whose line and column are right.
Within(d, loc) == loc \in Location /\ loc.offset <= Len(d)
TrueIn(d, loc) ==
    /\ Within(d, loc)
    /\ loc.line = Cardinality(Ends(d, loc.offset))
    /\ loc.column = loc.offset - Max(Ends(d, loc.offset) \cup {0})

LEMMA MinOf ==
    ASSUME NEW S \in SUBSET Nat, S # {}
    PROVE  Min(S) \in S
<1>1. \E m \in S : \A n \in S : m =< n
  BY SmallestOf
<1>. QED  BY <1>1 DEF Min

LEMMA MaxOf ==
    ASSUME NEW S \in SUBSET Nat, NEW m \in S, \A n \in S : n <= m
    PROVE  Max(S) = m
<1>1. \A n \in S : m >= n
  OBVIOUS
<1>2. PICK x : x = Max(S)
  OBVIOUS
<1>3. x \in S /\ x >= m
  BY <1>1, <1>2 DEF Max
<1>4. x = m
  BY <1>3
<1>. QED  BY <1>2, <1>4

LEMMA MaxIn ==
    ASSUME NEW n \in Nat, NEW S \in SUBSET (0 .. n), S # {}
    PROVE  Max(S) \in S
<1>. DEFINE T == {n - i : i \in S}
<1>1. T \in SUBSET Nat /\ T # {}
  OBVIOUS
<1>2. PICK k \in T : \A j \in T : k <= j
  BY <1>1, SmallestOf
<1>3. PICK m \in S : k = n - m
  BY <1>2
<1>4. ASSUME NEW j \in S
      PROVE  j <= m
  <2>1. n - j \in T
    OBVIOUS
  <2>2. k <= n - j
    <3>. HIDE DEF T
    <3>. QED  BY <1>2, <2>1
  <2>. QED  BY <1>3, <2>2
<1>5. Max(S) = m
  <2>1. S \in SUBSET Nat
    OBVIOUS
  <2>. QED  BY <1>4, <2>1, MaxOf
<1>. QED  BY <1>5

LEMMA EndsFinite ==
    ASSUME NEW d, NEW n \in Nat
    PROVE  /\ Ends(d, n) \in SUBSET (1 .. n)
           /\ IsFiniteSet(Ends(d, n))
           /\ Cardinality(Ends(d, n)) \in Nat
<1>1. Ends(d, n) \in SUBSET (1 .. n)
  BY DEF Ends
<1>2. IsFiniteSet(1 .. n)
  BY FS_Interval
<1>. QED  BY <1>1, <1>2, FS_Subset, FS_CardinalityType

\* A character that ends no line moves the column on.
LEMMA SameLine ==
    ASSUME NEW d \in Seq(STRING), NEW loc, TrueIn(d, loc), NEW n \in Nat,
           loc.offset < n, n <= Len(d), Ends(d, n) = Ends(d, loc.offset)
    PROVE  TrueIn(d, [offset |-> n, line |-> loc.line,
                      column |-> loc.column + (n - loc.offset)])
<1>. DEFINE E == Ends(d, loc.offset)
<1>1. loc \in Location /\ loc.offset \in Nat /\ loc.line \in Nat /\ loc.column \in Nat
  BY DEF TrueIn, Within, Location
<1>2. loc.line = Cardinality(E) /\ loc.column = loc.offset - Max(E \cup {0})
  BY DEF TrueIn
<1>3. Max(E \cup {0}) \in Nat
  <2>1. E \in SUBSET (1 .. loc.offset)
    BY <1>1, EndsFinite
  <2>2. E \cup {0} \in SUBSET (0 .. loc.offset) /\ E \cup {0} # {}
    BY <1>1, <2>1
  <2>3. Max(E \cup {0}) \in E \cup {0}
    <3>. HIDE DEF E
    <3>. QED  BY <1>1, <2>2, MaxIn
  <2>. QED  BY <1>1, <2>2, <2>3
<1>. DEFINE new == [offset |-> n, line |-> loc.line, column |-> loc.column + (n - loc.offset)]
<1>4. new \in Location
  BY <1>1 DEF Location
<1>5. new.offset = n /\ new.line = loc.line /\ new.column = loc.column + (n - loc.offset)
  OBVIOUS
<1>6. new.column = n - Max(E \cup {0})
  BY <1>1, <1>2, <1>3, <1>5
<1>. QED  BY <1>2, <1>4, <1>5, <1>6 DEF TrueIn, Within

\* One that ends a line starts the next.
LEMMA NextLine ==
    ASSUME NEW d \in Seq(STRING), NEW loc, TrueIn(d, loc), NEW n \in Nat,
           loc.offset < n, n <= Len(d), Ends(d, n) = Ends(d, loc.offset) \cup {n}
    PROVE  TrueIn(d, [offset |-> n, line |-> loc.line + 1, column |-> 0])
<1>. DEFINE E == Ends(d, loc.offset)
<1>1. loc \in Location /\ loc.offset \in Nat /\ loc.line \in Nat
  BY DEF TrueIn, Within, Location
<1>2. loc.line = Cardinality(E)
  BY DEF TrueIn
<1>3. E \in SUBSET (1 .. loc.offset) /\ IsFiniteSet(E)
  BY <1>1, EndsFinite
<1>4. n \notin E
  BY <1>1, <1>3
<1>5. Cardinality(Ends(d, n)) = loc.line + 1
  <2>1. Cardinality(E \cup {n}) = Cardinality(E) + 1
    <3>. HIDE DEF E
    <3>. QED  BY <1>3, <1>4, FS_AddElement
  <2>. QED  BY <1>2, <2>1
<1>6. Max(Ends(d, n) \cup {0}) = n
  <2>1. Ends(d, n) \cup {0} \in SUBSET Nat
    BY EndsFinite
  <2>2. n \in Ends(d, n) \cup {0} /\ \A m \in Ends(d, n) \cup {0} : m <= n
    BY EndsFinite
  <2>. QED  BY <2>1, <2>2, MaxOf
<1>. DEFINE new == [offset |-> n, line |-> loc.line + 1, column |-> 0]
<1>7. new \in Location /\ new.offset = n /\ new.line = loc.line + 1 /\ new.column = 0
  BY <1>1 DEF Location
<1>8. Within(d, new)
  BY <1>7 DEF Within
<1>9. 0 = n - n
  OBVIOUS
<1>. HIDE DEF new
<1>10. TrueIn(d, new)
  BY <1>5, <1>6, <1>7, <1>8, <1>9 DEF TrueIn
<1>. QED  BY <1>10 DEF new

LEMMA NextWithin ==
    ASSUME NEW d \in Seq(STRING), NEW loc \in Location
    PROVE  /\ next(d, loc) \in Location
           /\ loc.offset < Len(d) => next(d, loc).offset > loc.offset
           /\ Within(d, loc) => Within(d, next(d, loc))
<1>1. Len(d) \in Nat
  BY LenProperties
<1>2. loc.offset \in Nat /\ loc.line \in Nat /\ loc.column \in Nat
  BY DEF Location
<1>3. CASE loc.offset >= Len(d)
  BY <1>1, <1>2, <1>3 DEF next
<1>4. CASE loc.offset < Len(d)
  <2>. DEFINE pair == peek(d, loc.offset) = "CR" /\ peek(d, loc.offset + 1) = "LF"
              n == next(d, loc)
  <2>1. pair => loc.offset + 2 <= Len(d)
    BY <1>1, <1>2 DEF peek
  <2>. DEFINE ends == peek(d, loc.offset) \in LineEnd
  <2>3. n = [offset |-> loc.offset + (IF pair THEN 2 ELSE 1),
             line   |-> IF ends THEN loc.line + 1 ELSE loc.line,
             column |-> IF ends THEN 0 ELSE loc.column + 1]
    BY <1>1, <1>2, <1>4 DEF next
  <2>. HIDE DEF pair, n, ends
  <2>4. PICK k \in {1, 2} : k = IF pair THEN 2 ELSE 1
    OBVIOUS
  <2>5. loc.offset + k <= Len(d)
    BY <1>1, <1>2, <1>4, <2>1, <2>4
  <2>6. n = [offset |-> loc.offset + k,
             line   |-> IF ends THEN loc.line + 1 ELSE loc.line,
             column |-> IF ends THEN 0 ELSE loc.column + 1]
    BY <2>3, <2>4
  <2>7. n \in Location
    BY <1>2, <2>6 DEF Location
  <2>8. n.offset = loc.offset + k
    BY <2>6
  <2>9. n.offset > loc.offset /\ n.offset <= Len(d)
    BY <1>1, <1>2, <2>5, <2>8
  <2>. QED  BY <2>7, <2>9 DEF Within, n
<1>. QED  BY <1>1, <1>2, <1>3, <1>4

LEMMA NextTrue ==
    ASSUME NEW d \in Seq(STRING), NEW loc, TrueIn(d, loc)
    PROVE  TrueIn(d, next(d, loc))
<1>1. Len(d) \in Nat
  BY LenProperties
<1>2. loc \in Location /\ loc.offset \in Nat /\ loc.line \in Nat /\ loc.column \in Nat
  BY DEF Location, TrueIn, Within
<1>3. CASE loc.offset >= Len(d)
  BY <1>1, <1>2, <1>3 DEF next
<1>4. CASE loc.offset < Len(d) /\ peek(d, loc.offset) = "CR" /\ peek(d, loc.offset + 1) = "LF"
  <2>1. loc.offset + 2 <= Len(d) /\ d[loc.offset + 1] = "CR" /\ d[loc.offset + 2] = "LF"
    BY <1>1, <1>2, <1>4 DEF peek
  <2>2. PICK n \in Nat : n = loc.offset + 2
    BY <1>2
  <2>3. Ends(d, n) = Ends(d, loc.offset) \cup {n}
    <3>1. ASSUME NEW i
          PROVE  i \in Ends(d, n) <=> i \in Ends(d, loc.offset) \cup {n}
      <4>1. CASE i \in 1 .. loc.offset
        BY <1>2, <2>2, <4>1 DEF Ends
      <4>2. CASE i = loc.offset + 1
        BY <1>1, <1>2, <2>1, <2>2, <4>2 DEF Ends
      <4>3. CASE i = n
        BY <1>2, <2>1, <2>2, <4>3 DEF Ends
      <4>4. CASE i \notin 1 .. n
        BY <1>2, <2>2, <4>4 DEF Ends
      <4>. QED  BY <1>2, <2>2, <4>1, <4>2, <4>3, <4>4
    <3>. QED  BY <3>1
  <2>4. next(d, loc) = [offset |-> n, line |-> loc.line + 1, column |-> 0]
    BY <1>1, <1>2, <1>4, <2>2 DEF next, LineEnd
  <2>. QED  BY <1>1, <1>2, <2>1, <2>2, <2>3, <2>4, NextLine, SMTT(40)
<1>5. CASE /\ loc.offset < Len(d) /\ peek(d, loc.offset) \in LineEnd
           /\ ~(peek(d, loc.offset) = "CR" /\ peek(d, loc.offset + 1) = "LF")
  <2>1. d[loc.offset + 1] \in LineEnd
    BY <1>1, <1>2, <1>5 DEF peek
  <2>2. PICK n \in Nat : n = loc.offset + 1
    BY <1>2
  <2>3. d[n] = "LF" \/ (d[n] = "CR" /\ ~(n < Len(d) /\ d[n + 1] = "LF"))
    BY <1>1, <1>2, <1>5, <2>1, <2>2 DEF peek, LineEnd
  <2>4. Ends(d, n) = Ends(d, loc.offset) \cup {n}
    <3>1. ASSUME NEW i
          PROVE  i \in Ends(d, n) <=> i \in Ends(d, loc.offset) \cup {n}
      <4>1. CASE i \in 1 .. loc.offset
        BY <1>2, <2>2, <4>1 DEF Ends
      <4>2. CASE i = n
        BY <1>2, <2>2, <2>3, <4>2 DEF Ends
      <4>3. CASE i \notin 1 .. n
        BY <1>2, <2>2, <4>3 DEF Ends
      <4>. QED  BY <1>2, <2>2, <4>1, <4>2, <4>3
    <3>. QED  BY <3>1
  <2>5. next(d, loc) = [offset |-> n, line |-> loc.line + 1, column |-> 0]
    BY <1>1, <1>2, <1>5, <2>2 DEF next
  <2>. QED  BY <1>1, <1>2, <1>5, <2>2, <2>4, <2>5, NextLine
<1>6. CASE loc.offset < Len(d) /\ peek(d, loc.offset) \notin LineEnd
  <2>1. d[loc.offset + 1] \notin LineEnd
    BY <1>1, <1>2, <1>6 DEF peek
  <2>2. PICK n \in Nat : n = loc.offset + 1
    BY <1>2
  <2>3. Ends(d, n) = Ends(d, loc.offset)
    <3>1. ASSUME NEW i
          PROVE  i \in Ends(d, n) <=> i \in Ends(d, loc.offset)
      <4>1. CASE i \in 1 .. loc.offset
        BY <1>2, <2>2, <4>1 DEF Ends
      <4>2. CASE i = n
        BY <1>2, <2>1, <2>2, <4>2 DEF Ends, LineEnd
      <4>3. CASE i \notin 1 .. n
        BY <1>2, <2>2, <4>3 DEF Ends
      <4>. QED  BY <1>2, <2>2, <4>1, <4>2, <4>3
    <3>. QED  BY <3>1
  <2>4. next(d, loc) = [offset |-> n, line |-> loc.line, column |-> loc.column + 1]
    <3>1. peek(d, loc.offset) # "CR"
      BY <1>6 DEF LineEnd
    <3>. QED  BY <1>1, <1>2, <1>6, <2>2, <3>1 DEF next
  <2>5. loc.column + (n - loc.offset) = loc.column + 1
    BY <1>2, <2>2
  <2>. QED  BY <1>1, <1>2, <1>6, <2>2, <2>3, <2>4, <2>5, SameLine, SMTT(40)
<1>. QED  BY <1>1, <1>2, <1>3, <1>4, <1>5, <1>6

\* AdvanceTo stops at the offset or, at a line end of two characters, behind it.
LEMMA Advanced ==
    ASSUME NEW d \in Seq(STRING), NEW loc, Within(d, loc), NEW p \in 0 .. Len(d)
    PROVE  LET to == AdvanceTo(d, loc, p)
           IN  /\ Within(d, to)
               /\ to.offset >= p /\ to.offset >= loc.offset
               /\ TrueIn(d, loc) => TrueIn(d, to)
<1>. DEFINE Stop == {l \in Location : l.offset >= p}
            after == [l \in Location |-> next(d, l)]
            result == [l \in Location |-> l]
            measure == [l \in Location |-> IF l.offset >= p THEN 0 ELSE p - l.offset]
            Loop(f) == f = [l \in Location |-> IF l.offset >= p THEN l ELSE f[next(d, l)]]
            General(f) == f = [l \in Location |-> IF l \in Stop THEN result[l] ELSE f[after[l]]]
<1>1. Len(d) \in Nat /\ p \in Nat /\ p <= Len(d)
  BY LenProperties
<1>2. \A l \in Location : l.offset \in Nat
  BY DEF Location
<1>3. Decreases(Location, Stop, after, measure, p)
  <2>1. measure \in [Location -> 0 .. p]
    BY <1>1, <1>2
  <2>2. ASSUME NEW l \in Location \ Stop
        PROVE  after[l] \in Location /\ measure[after[l]] < measure[l]
    <3>1. l.offset < p /\ l.offset < Len(d)
      BY <1>1, <1>2
    <3>2. after[l] = next(d, l) /\ next(d, l) \in Location /\ next(d, l).offset > l.offset
      BY <3>1, NextWithin
    <3>3. measure[l] = p - l.offset
      BY <1>1, <1>2, <3>1
    <3>4. measure[after[l]] = IF next(d, l).offset >= p THEN 0 ELSE p - next(d, l).offset
      BY <3>2
    <3>. QED  BY <1>1, <1>2, <3>1, <3>2, <3>3, <3>4
  <2>. QED  BY <2>1, <2>2 DEF Decreases
<1>4. \A f : General(f) <=> Loop(f)
  <2>1. ASSUME NEW f
        PROVE  [l \in Location |-> IF l \in Stop THEN result[l] ELSE f[after[l]]]
                 = [l \in Location |-> IF l.offset >= p THEN l ELSE f[next(d, l)]]
    OBVIOUS
  <2>. QED  BY <2>1
<1>5. \E f : Loop(f)
  <2>1. \E f : General(f)
    <3>. HIDE DEF Stop, after, result, measure
    <3>. QED  BY <1>1, <1>3, LoopExists
  <2>. QED  BY <1>4, <2>1
<1>. DEFINE go == CHOOSE f : Loop(f)
<1>6. Loop(go)
  <2>. HIDE DEF Loop
  <2>. QED  BY <1>5
<1>7. General(go)
  <2>. HIDE DEF go
  <2>. QED  BY <1>4, <1>6
<1>8. AdvanceTo(d, loc, p) = go[loc]
  BY DEF AdvanceTo
<1>. HIDE DEF go
<1>9. loc \in Location /\ loc.offset <= Len(d)
  BY DEF Within
<1>10. go[loc] \in {l \in Location : Within(d, l) /\ l.offset >= p /\ l.offset >= loc.offset}
  <2>. DEFINE J == {l \in Location : Within(d, l) /\ l.offset >= loc.offset}
              R == {l \in Location : Within(d, l) /\ l.offset >= p /\ l.offset >= loc.offset}
  <2>1. J \in SUBSET Location /\ loc \in J
    BY <1>2, <1>9
  <2>2. \A l \in J \cap Stop : result[l] \in R
    OBVIOUS
  <2>3. \A l \in J \ Stop : after[l] \in J
    <3>1. TAKE l \in J \ Stop
    <3>2. l.offset < Len(d)
      BY <1>1, <1>2
    <3>3. next(d, l) \in Location /\ next(d, l).offset > l.offset /\ Within(d, next(d, l))
      BY <3>2, NextWithin
    <3>4. next(d, l).offset >= loc.offset
      BY <1>2, <1>9, <3>3
    <3>. QED  BY <3>3, <3>4
  <2>. HIDE DEF J, R, Stop, after, result, measure
  <2>4. \A l \in J : go[l] \in R
    BY <1>1, <1>3, <1>7, <2>1, <2>2, <2>3, LoopResult
  <2>. QED  BY <2>1, <2>4 DEF R
<1>11. TrueIn(d, loc) => TrueIn(d, go[loc])
  <2>. DEFINE J == {l \in Location : TrueIn(d, l)}
  <2>1. J \in SUBSET Location
    OBVIOUS
  <2>2. \A l \in J \cap Stop : result[l] \in J
    OBVIOUS
  <2>3. \A l \in J \ Stop : after[l] \in J
    BY NextTrue DEF TrueIn, Within
  <2>4. TrueIn(d, loc) => loc \in J
    BY <1>9
  <2>. HIDE DEF J, Stop, after, result, measure
  <2>5. \A l \in J : go[l] \in J
    BY <1>1, <1>3, <1>7, <2>1, <2>2, <2>3, LoopResult
  <2>. QED  BY <2>4, <2>5 DEF J
<1>. QED  BY <1>8, <1>10, <1>11

-----------------------------------------------------------------------------
(* Where the parts of a token end.                                         *)

LEMMA PeekEnd == \A d \in Seq(STRING) : peek(d, Len(d)) = "NUL"
BY LenProperties DEF peek

\* A character other than NUL is one of the document.
LEMMA PeekIn ==
    ASSUME NEW d \in Seq(STRING), NEW p \in Nat, peek(d, p) # "NUL"
    PROVE  p < Len(d)
BY LenProperties DEF peek

LEMMA SkipEnds ==
    ASSUME NEW d \in Seq(STRING), NEW p \in 0 .. Len(d), NEW set, "NUL" \notin set
    PROVE  SkipFrom(d, p, set) \in p .. Len(d)
<1>. DEFINE S == {q \in p .. Len(d) : peek(d, q) \notin set}
<1>1. Len(d) \in Nat
  BY LenProperties
<1>2. Len(d) \in S
  BY <1>1, PeekEnd
<1>3. S \in SUBSET Nat /\ S # {}
  BY <1>1, <1>2
<1>4. Min(S) \in S
  <2>. HIDE DEF S
  <2>. QED  BY <1>3, MinOf
<1>. QED  BY <1>4 DEF SkipFrom

LEMMA FindEnds ==
    ASSUME NEW d \in Seq(STRING), NEW p \in 0 .. Len(d), NEW set
    PROVE  FindFrom(d, p, set) \in p .. Len(d)
<1>. DEFINE S == {q \in p .. Len(d) : peek(d, q) \in set \cup {"NUL"}}
<1>1. Len(d) \in Nat
  BY LenProperties
<1>2. Len(d) \in S
  BY <1>1, PeekEnd
<1>3. S \in SUBSET Nat /\ S # {}
  BY <1>1, <1>2
<1>4. Min(S) \in S
  <2>. HIDE DEF S
  <2>. QED  BY <1>3, MinOf
<1>. QED  BY <1>4 DEF FindFrom

LEMMA CommentEnds ==
    ASSUME NEW d \in Seq(STRING), NEW p \in 0 .. Len(d)
    PROVE  CommentEnd(d, p).to \in p .. Len(d)
<1>. DEFINE S == [offset : Nat, depth : Nat \ {0}]
            At(q, n) == [offset |-> q, depth |-> n]
            opens(s) == peek(d, s.offset) = "/" /\ peek(d, s.offset + 1) = "["
            closes(s) == peek(d, s.offset) = "]" /\ peek(d, s.offset + 1) = "/"
            Stop == {s \in S : \/ peek(d, s.offset) = "NUL"
                               \/ ~opens(s) /\ closes(s) /\ s.depth = 1}
            result == [s \in S |->
                IF peek(d, s.offset) = "NUL"
                THEN [terminated |-> FALSE, close |-> s.offset, to |-> s.offset]
                ELSE [terminated |-> TRUE, close |-> s.offset, to |-> s.offset + 2]]
            after == [s \in S |->
                IF opens(s) THEN At(s.offset + 2, s.depth + 1)
                ELSE IF closes(s)
                THEN IF s.depth = 1 THEN s ELSE At(s.offset + 2, s.depth - 1)
                ELSE At(s.offset + 1, s.depth)]
            measure == [s \in S |-> IF s.offset >= Len(d) THEN 0 ELSE Len(d) - s.offset]
            Step(f) == [s \in S |->
                LET q == s.offset
                IN  IF peek(d, q) = "NUL" THEN [terminated |-> FALSE, close |-> q, to |-> q]
                    ELSE IF peek(d, q) = "/" /\ peek(d, q + 1) = "[" THEN f[At(q + 2, s.depth + 1)]
                    ELSE IF peek(d, q) = "]" /\ peek(d, q + 1) = "/"
                    THEN IF s.depth = 1 THEN [terminated |-> TRUE, close |-> q, to |-> q + 2]
                         ELSE f[At(q + 2, s.depth - 1)]
                    ELSE f[At(q + 1, s.depth)]]
            General(f) == [s \in S |-> IF s \in Stop THEN result[s] ELSE f[after[s]]]
<1>1. Len(d) \in Nat /\ p \in Nat /\ p <= Len(d)
  BY LenProperties
<1>2. \A s \in S : s.offset \in Nat /\ s.depth \in Nat \ {0}
  OBVIOUS
<1>3. \A q \in Nat, n \in Nat \ {0} : At(q, n) \in S /\ At(q, n).offset = q
  OBVIOUS
<1>4. ASSUME NEW s \in S \ Stop
      PROVE  /\ after[s] \in S
             /\ after[s].offset > s.offset /\ after[s].offset <= Len(d)
             /\ s.offset < Len(d)
  <2>1. s.offset \in Nat /\ s.depth \in Nat \ {0} /\ peek(d, s.offset) # "NUL"
    BY <1>2
  <2>2. s.offset < Len(d)
    BY <2>1, PeekIn
  <2>3. CASE opens(s)
    <3>1. s.offset + 1 < Len(d)
      BY <2>1, <2>3, PeekIn
    <3>2. after[s] = At(s.offset + 2, s.depth + 1)
      BY <2>3
    <3>. HIDE DEF S, Stop, after, At
    <3>. QED  BY <1>1, <1>3, <2>1, <2>2, <3>1, <3>2
  <2>4. CASE ~opens(s) /\ closes(s)
    <3>1. s.offset + 1 < Len(d)
      BY <2>1, <2>4, PeekIn
    <3>2. s.depth # 1
      BY <2>1, <2>4
    <3>3. after[s] = At(s.offset + 2, s.depth - 1)
      BY <2>4, <3>2
    <3>. HIDE DEF S, Stop, after, At
    <3>. QED  BY <1>1, <1>3, <2>1, <2>2, <3>1, <3>2, <3>3
  <2>5. CASE ~opens(s) /\ ~closes(s)
    <3>1. after[s] = At(s.offset + 1, s.depth)
      BY <2>5
    <3>. HIDE DEF S, Stop, after, At
    <3>. QED  BY <1>1, <1>3, <2>1, <2>2, <3>1
  <2>. QED  BY <2>3, <2>4, <2>5
<1>5. Decreases(S, Stop, after, measure, Len(d))
  <2>1. measure \in [S -> 0 .. Len(d)]
    BY <1>1, <1>2
  <2>2. ASSUME NEW s \in S \ Stop
        PROVE  after[s] \in S /\ measure[after[s]] < measure[s]
    <3>1. PICK t \in S : t = after[s]
      BY <1>4
    <3>2. s.offset \in Nat /\ t.offset \in Nat /\ t.offset > s.offset /\ s.offset < Len(d)
      BY <1>2, <1>4, <3>1
    <3>3. measure[s] = Len(d) - s.offset
      BY <1>1, <3>2
    <3>4. measure[t] = IF t.offset >= Len(d) THEN 0 ELSE Len(d) - t.offset
      OBVIOUS
    <3>5. measure[t] < measure[s]
      BY <1>1, <3>2, <3>3, <3>4
    <3>. QED  BY <3>1, <3>5
  <2>. HIDE DEF S, Stop, after, measure
  <2>. QED  BY <2>1, <2>2 DEF Decreases
<1>6. \A f : General(f) = Step(f)
  <2>1. ASSUME NEW f, NEW s \in S
        PROVE  General(f)[s] = Step(f)[s]
    <3>1. CASE peek(d, s.offset) = "NUL"
      BY <3>1
    <3>2. CASE peek(d, s.offset) # "NUL" /\ opens(s)
      BY <3>2
    <3>3. CASE peek(d, s.offset) # "NUL" /\ ~opens(s) /\ closes(s)
      BY <3>3
    <3>4. CASE peek(d, s.offset) # "NUL" /\ ~opens(s) /\ ~closes(s)
      BY <3>4
    <3>. QED  BY <3>1, <3>2, <3>3, <3>4
  <2>2. ASSUME NEW f
        PROVE  General(f) = Step(f)
    <3>1. \A s \in S : General(f)[s] = Step(f)[s]
      BY <2>1
    <3>2. General(f) = [s \in S |-> General(f)[s]] /\ Step(f) = [s \in S |-> Step(f)[s]]
      BY Zenon
    <3>. HIDE DEF S, General, Step
    <3>. QED  BY <3>1, <3>2
  <2>. QED  BY <2>2
<1>7. \E f : f = Step(f)
  <2>1. \E f : f = General(f)
    <3>. HIDE DEF S, Stop, after, result, measure
    <3>. QED  BY <1>1, <1>5, LoopExists
  <2>. HIDE DEF S, General, Step
  <2>. QED  BY <1>6, <2>1
<1>. DEFINE scan == CHOOSE f : f = Step(f)
<1>8. scan = Step(scan)
  <2>. HIDE DEF Step
  <2>. QED  BY <1>7
<1>9. scan = General(scan)
  <2>. HIDE DEF scan, Step, General
  <2>. QED  BY <1>6, <1>8
<1>10. CommentEnd(d, p) = scan[At(p, 1)]
  BY Zenon DEF CommentEnd
<1>. DEFINE J == {s \in S : s.offset \in p .. Len(d)}
            R == [terminated : BOOLEAN, close : p .. Len(d), to : p .. Len(d)]
<1>11. J \in SUBSET S /\ At(p, 1) \in J
  BY <1>1
<1>12. \A s \in J \cap Stop : result[s] \in R
  <2>1. TAKE s \in J \cap Stop
  <2>2. s \in S /\ s.offset \in p .. Len(d) /\ s.offset \in Nat
    BY <1>1
  <2>3. CASE peek(d, s.offset) = "NUL"
    BY <2>2, <2>3
  <2>4. CASE peek(d, s.offset) # "NUL"
    <3>1. peek(d, s.offset + 1) = "/"
      BY <2>4
    <3>2. s.offset + 1 < Len(d)
      BY <2>2, <3>1, PeekIn
    <3>3. result[s] = [terminated |-> TRUE, close |-> s.offset, to |-> s.offset + 2]
      BY <2>2, <2>4
    <3>. QED  BY <1>1, <2>2, <3>2, <3>3
  <2>. QED  BY <2>3, <2>4
<1>13. \A s \in J \ Stop : after[s] \in J
  <2>1. TAKE s \in J \ Stop
  <2>2. after[s] \in S /\ after[s].offset > s.offset /\ after[s].offset <= Len(d)
    BY <1>4
  <2>3. s.offset \in p .. Len(d) /\ after[s].offset \in Nat
    BY <1>2, <2>2
  <2>4. after[s].offset \in p .. Len(d)
    BY <1>1, <2>2, <2>3
  <2>. QED  BY <2>2, <2>4
<1>14. \A s \in J : scan[s] \in R
  <2>. HIDE DEF J, R, S, Stop, after, result, measure, scan
  <2>. QED  BY <1>1, <1>5, <1>9, <1>11, <1>12, <1>13, LoopResult
<1>15. scan[At(p, 1)] \in R
  <2>. HIDE DEF J, R, scan
  <2>. QED  BY <1>11, <1>14
<1>16. CommentEnd(d, p) \in R
  BY <1>10, <1>15
<1>. QED  BY <1>16

LEMMA QuoteEnds ==
    ASSUME NEW d \in Seq(STRING), NEW p \in 0 .. Len(d), NEW delimiter
    PROVE  QuoteEnd(d, p, delimiter).to \in p .. Len(d)
<1>. DEFINE Escaped(q) == next(d, [LOC_ZERO EXCEPT !.offset = q + 1]).offset
            ends(q) == peek(d, q) \in LineEnd \cup {"NUL"}
            escapes(q) == peek(d, q) = "\\"
            last(q) == peek(d, q + 1) = "NUL"
            Stop == {q \in Nat : \/ ends(q)
                                 \/ escapes(q) /\ last(q)
                                 \/ ~escapes(q) /\ peek(d, q) = delimiter}
            result == [q \in Nat |->
                IF ends(q) THEN [kind |-> "open", to |-> q]
                ELSE IF escapes(q) THEN [kind |-> "escape", to |-> q + 1]
                ELSE [kind |-> "closed", to |-> q + 1]]
            after == [q \in Nat |-> IF escapes(q) THEN Escaped(q) ELSE q + 1]
            measure == [q \in Nat |-> IF q >= Len(d) THEN 0 ELSE Len(d) - q]
            Step(f) == [q \in Nat |->
                IF peek(d, q) \in LineEnd \cup {"NUL"} THEN [kind |-> "open", to |-> q]
                ELSE IF peek(d, q) = "\\"
                THEN IF peek(d, q + 1) = "NUL" THEN [kind |-> "escape", to |-> q + 1]
                     ELSE f[next(d, [LOC_ZERO EXCEPT !.offset = q + 1]).offset]
                ELSE IF peek(d, q) = delimiter THEN [kind |-> "closed", to |-> q + 1]
                ELSE f[q + 1]]
            General(f) == [q \in Nat |-> IF q \in Stop THEN result[q] ELSE f[after[q]]]
<1>1. Len(d) \in Nat /\ p \in Nat /\ p <= Len(d)
  BY LenProperties
<1>2. ASSUME NEW q \in Nat, ~last(q)
      PROVE  Escaped(q) \in Nat /\ Escaped(q) > q + 1 /\ Escaped(q) <= Len(d)
  <2>. DEFINE loc == [LOC_ZERO EXCEPT !.offset = q + 1]
  <2>1. loc \in Location /\ loc.offset = q + 1
    BY DEF LOC_ZERO, Location
  <2>2. q + 1 < Len(d)
    BY <1>2, PeekIn
  <2>. HIDE DEF loc
  <2>3. Within(d, loc) /\ loc.offset < Len(d)
    BY <1>1, <2>1, <2>2 DEF Within
  <2>4. next(d, loc) \in Location /\ next(d, loc).offset > loc.offset /\ Within(d, next(d, loc))
    BY <2>1, <2>3, NextWithin
  <2>5. next(d, loc).offset \in Nat /\ next(d, loc).offset > q + 1 /\ next(d, loc).offset <= Len(d)
    BY <2>1, <2>4 DEF Location, Within
  <2>. QED  BY <2>5 DEF loc
<1>3. ASSUME NEW q \in Nat \ Stop
      PROVE  after[q] \in Nat /\ after[q] > q /\ after[q] <= Len(d) /\ q < Len(d)
  <2>1. peek(d, q) # "NUL"
    OBVIOUS
  <2>2. q < Len(d)
    BY <2>1, PeekIn
  <2>3. CASE escapes(q)
    <3>1. ~last(q) /\ after[q] = Escaped(q)
      BY <2>3
    <3>. HIDE DEF Stop, after, Escaped, last
    <3>. QED  BY <1>1, <1>2, <2>2, <3>1
  <2>4. CASE ~escapes(q)
    BY <1>1, <2>2, <2>4
  <2>. QED  BY <2>3, <2>4
<1>4. Decreases(Nat, Stop, after, measure, Len(d))
  <2>1. measure \in [Nat -> 0 .. Len(d)]
    BY <1>1
  <2>2. ASSUME NEW q \in Nat \ Stop
        PROVE  after[q] \in Nat /\ measure[after[q]] < measure[q]
    <3>1. PICK t \in Nat : t = after[q]
      BY <1>3
    <3>2. t > q /\ q < Len(d)
      BY <1>3, <3>1
    <3>3. measure[t] < measure[q]
      BY <1>1, <3>2
    <3>. QED  BY <3>1, <3>3
  <2>. HIDE DEF Stop, after, measure
  <2>. QED  BY <2>1, <2>2 DEF Decreases
<1>5. \A f : General(f) = Step(f)
  <2>1. ASSUME NEW f, NEW q \in Nat
        PROVE  General(f)[q] = Step(f)[q]
    <3>1. CASE ends(q)
      BY <3>1
    <3>2. CASE ~ends(q) /\ escapes(q)
      BY <3>2
    <3>3. CASE ~ends(q) /\ ~escapes(q)
      BY <3>3
    <3>. QED  BY <3>1, <3>2, <3>3
  <2>2. ASSUME NEW f
        PROVE  General(f) = Step(f)
    <3>1. \A q \in Nat : General(f)[q] = Step(f)[q]
      BY <2>1
    <3>2. General(f) = [q \in Nat |-> General(f)[q]] /\ Step(f) = [q \in Nat |-> Step(f)[q]]
      BY Zenon
    <3>. HIDE DEF General, Step
    <3>. QED  BY <3>1, <3>2
  <2>. QED  BY <2>2
<1>6. \E f : f = Step(f)
  <2>1. \E f : f = General(f)
    <3>. HIDE DEF Stop, after, result, measure
    <3>. QED  BY <1>1, <1>4, LoopExists
  <2>. HIDE DEF General, Step
  <2>. QED  BY <1>5, <2>1
<1>. DEFINE scan == CHOOSE f : f = Step(f)
<1>7. scan = Step(scan)
  <2>. HIDE DEF Step
  <2>. QED  BY <1>6
<1>8. scan = General(scan)
  <2>. HIDE DEF scan, Step, General
  <2>. QED  BY <1>5, <1>7
<1>9. QuoteEnd(d, p, delimiter) = scan[p]
  BY Zenon DEF QuoteEnd
<1>. DEFINE J == p .. Len(d)
            R == [kind : {"open", "escape", "closed"}, to : p .. Len(d)]
<1>10. J \in SUBSET Nat /\ p \in J
  BY <1>1
<1>11. \A q \in J \cap Stop : result[q] \in R
  <2>1. TAKE q \in J \cap Stop
  <2>2. q \in p .. Len(d) /\ q \in Nat
    BY <1>1
  <2>3. CASE ends(q)
    BY <2>2, <2>3
  <2>4. CASE ~ends(q)
    <3>1. q < Len(d)
      BY <2>2, <2>4, PeekIn
    <3>2. \E k \in {"escape", "closed"} : result[q] = [kind |-> k, to |-> q + 1]
      BY <2>2, <2>4
    <3>3. q + 1 \in p .. Len(d)
      BY <1>1, <2>2, <3>1
    <3>. QED  BY <3>2, <3>3
  <2>. QED  BY <2>3, <2>4
<1>12. \A q \in J \ Stop : after[q] \in J
  <2>1. TAKE q \in J \ Stop
  <2>2. q \in Nat \ Stop
    BY <1>1
  <2>3. after[q] \in Nat /\ after[q] > q /\ after[q] <= Len(d)
    BY <1>3, <2>2
  <2>. HIDE DEF after
  <2>. QED  BY <1>1, <2>3
<1>13. \A q \in J : scan[q] \in R
  <2>. DEFINE S == Nat
  <2>1. /\ Decreases(S, Stop, after, measure, Len(d)) /\ J \in SUBSET S
        /\ scan = [q \in S |-> IF q \in Stop THEN result[q] ELSE scan[after[q]]]
    <3>. HIDE DEF J, R, Stop, after, result, measure, scan
    <3>. QED  BY <1>4, <1>8, <1>10
  <2>. HIDE DEF J, R, S, Stop, after, result, measure, scan
  <2>. QED  BY <1>1, <1>11, <1>12, <2>1, LoopResult
<1>14. scan[p] \in R
  <2>. HIDE DEF J, R, scan
  <2>. QED  BY <1>10, <1>13
<1>15. QuoteEnd(d, p, delimiter) \in R
  BY <1>9, <1>14
<1>. QED  BY <1>15

-----------------------------------------------------------------------------
(* Operators.                                                              *)


-----------------------------------------------------------------------------
(* Operators.                                                              *)

\* What lex_operator reads behind a prefix of an operator covers every operator
\* with that prefix, but for the three points, which it reads together.
Points == <<".", ".", ".">>
Covered(op) ==
    /\ Len(op) >= 2 /\ op # Points => op[2] \in ReadsAfter(<<op[1]>>)
    /\ Len(op) = 3 /\ op # Points => op[3] \in ReadsAfter(<<op[1], op[2]>>)

LEMMA OperatorsCovered ==
    \A o \in Operators : Len(o[2]) \in 1 .. 3 /\ Covered(o[2])
<1>1. \A o \in Operators : Covered(o[2])
  BY DEF Covered, Points, ReadsAfter, Operators
<1>2. \A o \in Operators : Len(o[2]) \in 1 .. 3
  BY DEF Operators
<1>. QED  BY <1>1, <1>2

\* The other types of tokens are not those of operators.
LEMMA OtherTypes ==
    OperatorType \cap
        {"UNKNOWN", "EOF", "NEWLINE", "WHITESPACE", "LINE_COMMENT", "BLOCK_COMMENT",
         "CHAR_LITERAL", "STRING_LITERAL", "KEYWORD", "IDENT", "FLOAT_LITERAL",
         "INT_LITERAL"} = {}
BY DEF Operators, OperatorType

LEMMA NulNotRead1 == \A c : "NUL" \notin ReadsAfter(<<c>>)
BY DEF ReadsAfter

LEMMA NulNotRead2 == \A b, c : "NUL" \notin ReadsAfter(<<b, c>>)
BY DEF ReadsAfter

LEMMA MinOfTwo ==
    ASSUME NEW a \in Nat, NEW b \in Nat
    PROVE  Min({a, b}) = IF a <= b THEN a ELSE b
<1>1. PICK m : m = Min({a, b})
  OBVIOUS
<1>2. \E x \in {a, b} : \A y \in {a, b} : x =< y
  OBVIOUS
<1>3. m \in {a, b} /\ \A y \in {a, b} : m =< y
  BY <1>1, <1>2 DEF Min
<1>. QED  BY <1>1, <1>3

LEMMA AheadIs ==
    ASSUME NEW d \in Seq(STRING), NEW p \in Nat, p < Len(d), NEW n \in 1 .. 3
    PROVE  LET k == IF p + n <= Len(d) THEN n ELSE Len(d) - p
           IN  /\ k \in 1 .. 3
               /\ Ahead(d, p, n) = [i \in 1 .. k |-> d[p + i]]
               /\ Len(Ahead(d, p, n)) = k
<1>1. Len(d) \in Nat
  BY LenProperties
<1>. DEFINE k == IF p + n <= Len(d) THEN n ELSE Len(d) - p
<1>2. Min({p + n, Len(d)}) = p + k
  BY <1>1, MinOfTwo
<1>3. Ahead(d, p, n) = SubSeq(d, p + 1, p + k)
  BY <1>2 DEF Ahead
<1>4. k \in 1 .. 3 /\ p + k <= Len(d)
  BY <1>1
<1>. HIDE DEF k
<1>5. /\ Len(SubSeq(d, p + 1, p + k)) = k
      /\ SubSeq(d, p + 1, p + k) = [i \in 1 .. k |-> d[p + i]]
  <2>1. p + 1 \in 1 .. Len(d) + 1 /\ p + k \in 0 .. Len(d) /\ p + 1 <= p + k + 1
    BY <1>1, <1>4
  <2>2. /\ Len(SubSeq(d, p + 1, p + k)) = (p + k) - (p + 1) + 1
        /\ SubSeq(d, p + 1, p + k) \in Seq(STRING)
        /\ \A i \in 1 .. (p + k) - (p + 1) + 1 : SubSeq(d, p + 1, p + k)[i] = d[p + 1 + i - 1]
    BY <2>1, SubSeqProperties
  <2>3. (p + k) - (p + 1) + 1 = k /\ \A i \in 1 .. k : p + 1 + i - 1 = p + i
    BY <1>4
  <2>4. /\ Len(SubSeq(d, p + 1, p + k)) = k
        /\ \A i \in 1 .. k : SubSeq(d, p + 1, p + k)[i] = d[p + i]
    BY <2>2, <2>3
  <2>5. SubSeq(d, p + 1, p + k) = [i \in 1 .. k |-> SubSeq(d, p + 1, p + k)[i]]
    BY <2>2, <2>4, LenProperties
  <2>. QED  BY <2>4, <2>5
<1>6. k \in 1 .. 3 /\ Ahead(d, p, n) = [i \in 1 .. k |-> d[p + i]] /\ Len(Ahead(d, p, n)) = k
  BY <1>3, <1>4, <1>5
<1>. QED  BY <1>6 DEF k

\* The operator read at an offset is no prefix of another one there.
LongestAt(d, p, n) ==
    \A o \in Operators : Len(o[2]) > n => Ahead(d, p, Len(o[2])) # o[2]

\* What an operator of the language looks like where it stands.
LEMMA StandsAt ==
    ASSUME NEW d \in Seq(STRING), NEW p \in Nat, p < Len(d),
           NEW o \in Operators, NEW op, op = o[2], Ahead(d, p, Len(op)) = op
    PROVE  \E n \in 1 .. 3 : /\ n = Len(op) /\ p + n <= Len(d)
                             /\ \A i \in 1 .. n : op[i] = d[p + i]
<1>1. PICK n \in 1 .. 3 : n = Len(op)
  BY OperatorsCovered
<1>2. Ahead(d, p, n) = op
  BY <1>1
<1>3. Len(d) \in Nat
  BY LenProperties
<1>4. PICK k \in 1 .. 3 :
          /\ k = IF p + n <= Len(d) THEN n ELSE Len(d) - p
          /\ Ahead(d, p, n) = [i \in 1 .. k |-> d[p + i]]
          /\ Len(Ahead(d, p, n)) = k
  BY AheadIs
<1>5. k = n
  BY <1>1, <1>2, <1>4
<1>6. p + n <= Len(d) /\ \A i \in 1 .. n : op[i] = d[p + i]
  BY <1>2, <1>3, <1>4, <1>5
<1>. QED  BY <1>1, <1>6

LEMMA NoneLonger ==
    ASSUME NEW d, NEW p
    PROVE  LongestAt(d, p, 3)
<1>1. ASSUME NEW o \in Operators, Len(o[2]) > 3
      PROVE  FALSE
  <2>1. PICK n \in 1 .. 3 : n = Len(o[2])
    BY OperatorsCovered
  <2>2. n > 3
    BY <1>1, <2>1, Zenon
  <2>. QED  BY <2>2
<1>. QED  BY <1>1 DEF LongestAt

LEMMA ReadsLongest ==
    ASSUME NEW d \in Seq(STRING), NEW p \in Nat, p < Len(d)
    PROVE  \E n \in 1 .. 3 : /\ n = Len(OperatorAt(d, p)) /\ p + n <= Len(d)
                             /\ LongestAt(d, p, n)
<1>1. Len(d) \in Nat
  BY LenProperties
<1>. DEFINE one == Ahead(d, p, 1)
            two == Ahead(d, p, 2)
            three == Ahead(d, p, 3)
            op == OperatorAt(d, p)
<1>2. one = <<d[p + 1]>> /\ Len(one) = 1
  <2>1. one = [i \in 1 .. 1 |-> d[p + i]] /\ Len(one) = 1
    BY <1>1, AheadIs
  <2>. QED  BY <2>1
<1>3. p + 2 <= Len(d) => two = <<d[p + 1], d[p + 2]>> /\ Len(two) = 2
  <2>1. p + 2 <= Len(d) => two = [i \in 1 .. 2 |-> d[p + i]] /\ Len(two) = 2
    BY <1>1, AheadIs
  <2>. QED  BY <2>1
<1>4. /\ p + 3 <= Len(d) => Len(three) = 3
      /\ p + 3 > Len(d) => Len(three) < 3
  BY <1>1, AheadIs
<1>5. /\ p + 1 < Len(d) => peek(d, p + 1) = d[p + 2]
      /\ p + 2 < Len(d) => peek(d, p + 2) = d[p + 3]
      /\ p + 1 >= Len(d) => peek(d, p + 1) = "NUL"
      /\ p + 2 >= Len(d) => peek(d, p + 2) = "NUL"
  BY <1>1 DEF peek
<1>6. op = IF three = Points THEN three
           ELSE IF peek(d, p + 1) \notin ReadsAfter(one) THEN one
           ELSE IF peek(d, p + 2) \notin ReadsAfter(two) THEN two
           ELSE three
  BY DEF OperatorAt, Points
<1>7. Len(Points) = 3
  BY DEF Points
<1>. HIDE DEF one, two, three, op
<1>8. CASE three = Points
  <2>1. op = three /\ Len(three) = 3
    BY <1>6, <1>7, <1>8
  <2>2. p + 3 <= Len(d)
    BY <1>1, <1>4, <2>1
  <2>. QED  BY <2>1, <2>2, NoneLonger DEF op
<1>9. CASE three # Points /\ peek(d, p + 1) \notin ReadsAfter(one)
  <2>1. op = one /\ Len(op) = 1
    BY <1>2, <1>6, <1>9
  <2>2. ASSUME NEW o \in Operators, Len(o[2]) > 1, Ahead(d, p, Len(o[2])) = o[2]
        PROVE  FALSE
    <3>1. PICK w : w = o[2]
      OBVIOUS
    <3>2. PICK n \in 1 .. 3 : n = Len(w) /\ p + n <= Len(d) /\ \A i \in 1 .. n : w[i] = d[p + i]
      BY <2>2, <3>1, StandsAt
    <3>3. Covered(w)
      BY <3>1, OperatorsCovered
    <3>4. n >= 2
      BY <2>2, <3>1, <3>2
    <3>5. w # Points
      BY <1>7, <1>9, <2>2, <3>1 DEF three
    <3>6. w[2] \in ReadsAfter(<<w[1]>>)
      BY <3>2, <3>3, <3>4, <3>5 DEF Covered
    <3>7. w[1] = d[p + 1] /\ w[2] = d[p + 2] /\ p + 1 < Len(d)
      BY <1>1, <3>2, <3>4
    <3>. QED  BY <1>2, <1>5, <1>9, <3>6, <3>7
  <2>3. LongestAt(d, p, 1)
    BY <2>2 DEF LongestAt
  <2>. QED  BY <1>1, <2>1, <2>3 DEF op
<1>10. CASE three # Points /\ peek(d, p + 1) \in ReadsAfter(one)
  <2>1. p + 2 <= Len(d)
    BY <1>1, <1>2, <1>5, <1>10, NulNotRead1
  <2>2. CASE peek(d, p + 2) \notin ReadsAfter(two)
    <3>1. op = two /\ Len(op) = 2
      BY <1>3, <1>6, <1>10, <2>1, <2>2
    <3>2. ASSUME NEW o \in Operators, Len(o[2]) > 2, Ahead(d, p, Len(o[2])) = o[2]
          PROVE  FALSE
      <4>1. PICK w : w = o[2]
        OBVIOUS
      <4>2. PICK n \in 1 .. 3 : n = Len(w) /\ p + n <= Len(d) /\ \A i \in 1 .. n : w[i] = d[p + i]
        BY <3>2, <4>1, StandsAt
      <4>3. Covered(w)
        BY <4>1, OperatorsCovered
      <4>4. n = 3
        BY <3>2, <4>1, <4>2
      <4>5. w # Points
        BY <1>7, <1>10, <3>2, <4>1 DEF three
      <4>6. w[3] \in ReadsAfter(<<w[1], w[2]>>)
        BY <4>2, <4>3, <4>4, <4>5 DEF Covered
      <4>7. w[1] = d[p + 1] /\ w[2] = d[p + 2] /\ w[3] = d[p + 3] /\ p + 2 < Len(d)
        BY <1>1, <4>2, <4>4
      <4>. QED  BY <1>3, <1>5, <2>1, <2>2, <4>6, <4>7
    <3>3. LongestAt(d, p, 2)
      BY <3>2 DEF LongestAt
    <3>. QED  BY <2>1, <3>1, <3>3 DEF op
  <2>3. CASE peek(d, p + 2) \in ReadsAfter(two)
    <3>1. p + 3 <= Len(d)
      BY <1>1, <1>3, <1>5, <2>1, <2>3, NulNotRead2
    <3>2. op = three /\ Len(op) = 3
      BY <1>4, <1>6, <1>10, <2>3, <3>1
    <3>. QED  BY <3>1, <3>2, NoneLonger DEF op
  <2>. QED  BY <2>2, <2>3
<1>. QED  BY <1>8, <1>9, <1>10

-----------------------------------------------------------------------------
(* What one pass of the loop reads.                                        *)

\* The lexer has moved on, and is where it says.
Moved(d, start, loc) ==
    /\ Within(d, loc)
    /\ loc.offset > start.offset
    /\ TrueIn(d, start) => TrueIn(d, loc)

\* The result r of a pass is sound.
Sound(d, start, r) ==
    /\ Within(d, r.loc)
    /\ TrueIn(d, start) => TrueIn(d, r.loc)
    /\ r.type # "EOF" => r.loc.offset > start.offset
    /\ r.status = "SKIPPED" => r.loc.offset > start.offset
    /\ r.type \in OperatorType =>
          /\ r.from = start.offset /\ r.to = r.loc.offset
          /\ LongestAt(d, r.from, r.to - r.from)

LEMMA SoundResults ==
    ASSUME NEW d, NEW start, NEW loc, Moved(d, start, loc), NEW from, NEW to
    PROVE  /\ \A type : type \notin OperatorType => Sound(d, start, Token(type, from, to, loc))
           /\ \A code : Sound(d, start, Error(code, from, loc))
           /\ Sound(d, start, Skipped(loc))
<1>1. "UNKNOWN" \notin OperatorType
  BY OtherTypes
<1>2. \A type : type \notin OperatorType => Sound(d, start, Token(type, from, to, loc))
  BY DEF Moved, Sound, Token
<1>3. \A code : Sound(d, start, Error(code, from, loc))
  BY <1>1 DEF Moved, Sound, Error
<1>4. Sound(d, start, Skipped(loc))
  BY <1>1 DEF Moved, Sound, Skipped
<1>. QED  BY <1>2, <1>3, <1>4

LEMMA MovedNext ==
    ASSUME NEW d \in Seq(STRING), NEW start, Within(d, start), start.offset < Len(d)
    PROVE  Moved(d, start, next(d, start))
BY NextWithin, NextTrue DEF Moved, Within

LEMMA MovedTo ==
    ASSUME NEW d \in Seq(STRING), NEW start, Within(d, start), NEW p \in 0 .. Len(d),
           p > start.offset
    PROVE  Moved(d, start, AdvanceTo(d, start, p))
<1>. DEFINE to == AdvanceTo(d, start, p)
<1>1. Within(d, to) /\ to.offset >= p /\ (TrueIn(d, start) => TrueIn(d, to))
  BY Advanced
<1>2. start.offset \in Nat /\ to.offset \in Nat /\ p \in Nat
  BY <1>1 DEF Within, Location
<1>3. to.offset > start.offset
  BY <1>1, <1>2
<1>. QED  BY <1>1, <1>3 DEF Moved

LEMMA NulSound ==
    ASSUME NEW d \in Seq(STRING), NEW start, Within(d, start)
    PROVE  Sound(d, start, LexNul(d, start))
<1>1. CASE start.offset < Len(d)
  <2>1. LexNul(d, start) = Error("UNEXPECTED_CHAR", start.offset, next(d, start))
    BY <1>1 DEF LexNul
  <2>. QED  BY <1>1, <2>1, MovedNext, SoundResults
<1>2. CASE ~(start.offset < Len(d))
  <2>1. LexNul(d, start) = Token("EOF", start.offset, start.offset, start)
    BY <1>2 DEF LexNul
  <2>2. "EOF" \notin OperatorType
    BY OtherTypes
  <2>. QED  BY <2>1, <2>2 DEF Sound, Token
<1>. QED  BY <1>1, <1>2

LEMMA SpaceSound ==
    ASSUME NEW d \in Seq(STRING), NEW start, Within(d, start), NEW fl,
           peek(d, start.offset) \in Blank \cup LineEnd
    PROVE  Sound(d, start, LexSpace(d, fl, start))
<1>1. start.offset \in Nat /\ Len(d) \in Nat
  BY LenProperties DEF Within, Location
<1>2. start.offset < Len(d)
  BY <1>1, PeekIn DEF Blank, LineEnd
<1>. DEFINE newline == peek(d, start.offset) \in LineEnd
            blank == AdvanceTo(d, start, SkipFrom(d, start.offset, Blank))
            loc == IF newline THEN next(d, start) ELSE blank
<1>3. Moved(d, start, next(d, start))
  BY <1>2, MovedNext
<1>4. ~newline => Moved(d, start, blank)
  <2>1. SUFFICES ASSUME ~newline
                 PROVE  Moved(d, start, blank)
    OBVIOUS
  <2>2. PICK p \in start.offset .. Len(d) : p = SkipFrom(d, start.offset, Blank)
    <3>1. start.offset \in 0 .. Len(d)
      BY <1>1, <1>2
    <3>2. "NUL" \notin Blank
      BY DEF Blank
    <3>3. SkipFrom(d, start.offset, Blank) \in start.offset .. Len(d)
      BY <3>1, <3>2, SkipEnds
    <3>. QED  BY <3>3
  <2>3. p # start.offset
    <3>. DEFINE S == {q \in start.offset .. Len(d) : peek(d, q) \notin Blank}
    <3>1. S \in SUBSET Nat /\ Len(d) \in S
      <4>1. peek(d, Len(d)) \notin Blank
        BY PeekEnd DEF Blank
      <4>2. Len(d) \in start.offset .. Len(d) /\ start.offset .. Len(d) \subseteq Nat
        BY <1>1, <1>2
      <4>. QED  BY <4>1, <4>2
    <3>2. Min(S) \in S
      <4>. HIDE DEF S
      <4>. QED  BY <3>1, MinOf
    <3>3. p \in S
      BY <2>2, <3>2 DEF SkipFrom
    <3>4. peek(d, start.offset) \in Blank
      BY <2>1
    <3>. QED  BY <3>3, <3>4
  <2>4. p \in 0 .. Len(d) /\ p > start.offset
    BY <1>1, <2>2, <2>3
  <2>. QED  BY <2>2, <2>4, MovedTo
<1>5. Moved(d, start, loc)
  BY <1>3, <1>4
<1>6. LexSpace(d, fl, start) =
        IF "SKIP_WHITESPACE" \in fl THEN Skipped(loc)
        ELSE Token(IF newline THEN "NEWLINE" ELSE "WHITESPACE", start.offset, loc.offset, loc)
  BY DEF LexSpace, Whole
<1>7. {"NEWLINE", "WHITESPACE"} \cap OperatorType = {}
  BY OtherTypes
<1>. HIDE DEF loc, newline
<1>. QED  BY <1>5, <1>6, <1>7, SoundResults

LEMMA LineCommentSound ==
    ASSUME NEW d \in Seq(STRING), NEW start, Within(d, start), NEW fl,
           start.offset + 2 <= Len(d)
    PROVE  Sound(d, start, LexLineComment(d, fl, start))
<1>1. start.offset \in Nat /\ Len(d) \in Nat
  BY LenProperties DEF Within, Location
<1>. DEFINE from == start.offset + 2
            p == FindFrom(d, from, LineEnd)
            loc == AdvanceTo(d, start, p)
<1>2. p \in from .. Len(d)
  <2>1. from \in 0 .. Len(d)
    BY <1>1
  <2>. HIDE DEF from
  <2>. QED  BY <2>1, FindEnds
<1>3. Moved(d, start, loc)
  <2>1. p \in 0 .. Len(d) /\ p > start.offset
    BY <1>1, <1>2
  <2>. HIDE DEF p
  <2>. QED  BY <2>1, MovedTo
<1>4. LexLineComment(d, fl, start) =
        IF "SKIP_COMMENTS" \in fl THEN Skipped(loc) ELSE Token("LINE_COMMENT", from, loc.offset, loc)
  BY DEF LexLineComment
<1>5. "LINE_COMMENT" \notin OperatorType
  BY OtherTypes
<1>. HIDE DEF loc, from
<1>. QED  BY <1>3, <1>4, <1>5, SoundResults

LEMMA BlockCommentSound ==
    ASSUME NEW d \in Seq(STRING), NEW start, Within(d, start), NEW fl,
           start.offset + 2 <= Len(d)
    PROVE  Sound(d, start, LexBlockComment(d, fl, start))
<1>1. start.offset \in Nat /\ Len(d) \in Nat
  BY LenProperties DEF Within, Location
<1>. DEFINE from == start.offset + 2
            end == CommentEnd(d, from)
            loc == AdvanceTo(d, start, end.to)
<1>2. end.to \in from .. Len(d)
  <2>1. from \in 0 .. Len(d)
    BY <1>1
  <2>. HIDE DEF from
  <2>. QED  BY <2>1, CommentEnds
<1>3. Moved(d, start, loc)
  <2>1. end.to \in 0 .. Len(d) /\ end.to > start.offset
    BY <1>1, <1>2
  <2>. HIDE DEF end
  <2>. QED  BY <2>1, MovedTo
<1>4. LexBlockComment(d, fl, start) =
        IF ~end.terminated /\ "ALLOW_UNTERM" \notin fl
        THEN Error("UNTERM_COMMENT", start.offset, loc)
        ELSE IF "SKIP_COMMENTS" \in fl THEN Skipped(loc)
        ELSE Token("BLOCK_COMMENT", from, end.close, loc)
  BY DEF LexBlockComment
<1>5. "BLOCK_COMMENT" \notin OperatorType
  BY OtherTypes
<1>. HIDE DEF loc, from, end
<1>. QED  BY <1>3, <1>4, <1>5, SoundResults

LEMMA QuotedSound ==
    ASSUME NEW d \in Seq(STRING), NEW start, Within(d, start), NEW fl, NEW delimiter,
           start.offset < Len(d)
    PROVE  Sound(d, start, LexQuoted(d, fl, start, delimiter))
<1>1. start.offset \in Nat /\ Len(d) \in Nat
  BY LenProperties DEF Within, Location
<1>. DEFINE end == QuoteEnd(d, start.offset + 1, delimiter)
            loc == AdvanceTo(d, start, end.to)
            type == IF delimiter = "'" THEN "CHAR_LITERAL" ELSE "STRING_LITERAL"
<1>2. end.to \in start.offset + 1 .. Len(d)
  BY <1>1, QuoteEnds
<1>3. Moved(d, start, loc)
  <2>1. end.to \in 0 .. Len(d) /\ end.to > start.offset
    BY <1>1, <1>2
  <2>. HIDE DEF end
  <2>. QED  BY <2>1, MovedTo
<1>4. LexQuoted(d, fl, start, delimiter) =
        IF end.kind = "escape" THEN Error("INVALID_ESCAPE", loc.offset, loc)
        ELSE IF end.kind = "open" /\ "ALLOW_UNTERM" \notin fl
        THEN Error(IF delimiter = "'" THEN "UNTERM_CHAR" ELSE "UNTERM_STRING", start.offset, loc)
        ELSE Token(type, start.offset + 1, loc.offset - 1, loc)
  BY DEF LexQuoted
<1>5. type \notin OperatorType
  BY OtherTypes
<1>. HIDE DEF loc, end, type
<1>. QED  BY <1>3, <1>4, <1>5, SoundResults

LEMMA IdentSound ==
    ASSUME NEW d \in Seq(STRING), NEW start, Within(d, start), NEW fl,
           start.offset < Len(d)
    PROVE  Sound(d, start, LexIdent(d, fl, start))
<1>1. start.offset \in Nat /\ Len(d) \in Nat
  BY LenProperties DEF Within, Location
<1>. DEFINE ascii == SkipFrom(d, start.offset + 1, Alnum \cup {"_"})
            to == IF "ALLOW_UTF8_IDENTS" \in fl THEN SkipFrom(d, ascii, High) ELSE ascii
            loc == AdvanceTo(d, start, to)
            type == IF SubSeq(d, start.offset + 1, to) \in Keywords THEN "KEYWORD" ELSE "IDENT"
<1>2. ascii \in start.offset + 1 .. Len(d)
  <2>1. start.offset + 1 \in 0 .. Len(d) /\ "NUL" \notin Alnum \cup {"_"}
    BY <1>1 DEF Alnum, Letter, Digit
  <2>. QED  BY <2>1, SkipEnds
<1>3. to \in ascii .. Len(d)
  <2>1. ascii \in 0 .. Len(d)
    <3>. HIDE DEF ascii
    <3>. QED  BY <1>1, <1>2
  <2>2. SkipFrom(d, ascii, High) \in ascii .. Len(d)
    <3>1. "NUL" \notin High
      BY DEF High
    <3>. HIDE DEF ascii
    <3>. QED  BY <2>1, <3>1, SkipEnds
  <2>3. ascii \in ascii .. Len(d)
    <3>. HIDE DEF ascii
    <3>. QED  BY <1>1, <2>1
  <2>. HIDE DEF ascii
  <2>. QED  BY <2>2, <2>3
<1>4. Moved(d, start, loc)
  <2>1. to \in 0 .. Len(d) /\ to > start.offset
    <3>. HIDE DEF ascii, to
    <3>. QED  BY <1>1, <1>2, <1>3
  <2>. HIDE DEF to
  <2>. QED  BY <2>1, MovedTo
<1>5. LexIdent(d, fl, start) = Token(type, start.offset, loc.offset, loc)
  BY DEF LexIdent, Whole
<1>6. type \notin OperatorType
  BY OtherTypes
<1>. HIDE DEF loc, type
<1>. QED  BY <1>4, <1>5, <1>6, SoundResults

LEMMA NumberSound ==
    ASSUME NEW d \in Seq(STRING), NEW start, Within(d, start),
           start.offset < Len(d)
    PROVE  Sound(d, start, LexNumber(d, start))
<1>1. start.offset \in Nat /\ Len(d) \in Nat
  BY LenProperties DEF Within, Location
<1>. DEFINE number == Alnum \cup {"'"}
            whole == SkipFrom(d, start.offset + 1, number)
            float == peek(d, whole) = "." /\ peek(d, whole + 1) \in Digit
            to == IF float THEN SkipFrom(d, whole + 1, number) ELSE whole
            loc == AdvanceTo(d, start, to)
            type == IF float THEN "FLOAT_LITERAL" ELSE "INT_LITERAL"
<1>2. "NUL" \notin number
  BY DEF Alnum, Letter, Digit
<1>3. whole \in start.offset + 1 .. Len(d)
  <2>1. start.offset + 1 \in 0 .. Len(d)
    BY <1>1
  <2>. HIDE DEF number
  <2>. QED  BY <1>2, <2>1, SkipEnds
<1>. HIDE DEF number, whole
<1>4. float => whole + 1 \in 0 .. Len(d)
  <2>1. whole \in Nat /\ whole <= Len(d)
    BY <1>1, <1>3
  <2>2. float => whole < Len(d)
    BY <2>1, PeekIn
  <2>. QED  BY <1>1, <2>1, <2>2
<1>5. to \in whole .. Len(d)
  <2>1. CASE float
    <3>1. SkipFrom(d, whole + 1, number) \in whole + 1 .. Len(d)
      BY <1>2, <1>4, <2>1, SkipEnds
    <3>. QED  BY <1>1, <1>3, <2>1, <3>1
  <2>2. CASE ~float
    BY <1>1, <1>3, <2>2
  <2>. QED  BY <2>1, <2>2
<1>6. Moved(d, start, loc)
  <2>1. to \in 0 .. Len(d) /\ to > start.offset
    <3>. HIDE DEF to
    <3>. QED  BY <1>1, <1>3, <1>5
  <2>. HIDE DEF to
  <2>. QED  BY <2>1, MovedTo
<1>7. LexNumber(d, start) = Token(type, start.offset, loc.offset, loc)
  BY DEF LexNumber, Whole, whole, number
<1>8. type \notin OperatorType
  BY OtherTypes
<1>. HIDE DEF loc, type
<1>. QED  BY <1>6, <1>7, <1>8, SoundResults

LEMMA OperatorSound ==
    ASSUME NEW d \in Seq(STRING), NEW start, Within(d, start), NEW fl,
           start.offset < Len(d)
    PROVE  Sound(d, start, LexOperator(d, fl, start))
<1>1. start.offset \in Nat /\ Len(d) \in Nat
  BY LenProperties DEF Within, Location
<1>. DEFINE op == OperatorAt(d, start.offset)
            loc == AdvanceTo(d, start, start.offset + Len(op))
<1>2. PICK n \in 1 .. 3 : n = Len(op) /\ start.offset + n <= Len(d)
                          /\ LongestAt(d, start.offset, n)
  BY <1>1, ReadsLongest
<1>. HIDE DEF op
<1>3. Moved(d, start, loc) /\ loc.offset >= start.offset + n
  <2>1. start.offset + n \in 0 .. Len(d) /\ start.offset + n > start.offset
    <3>1. start.offset + n <= Len(d)
      BY <1>2
    <3>. QED  BY <1>1, <3>1
  <2>2. PICK p \in 0 .. Len(d) : p = start.offset + n /\ p > start.offset
    BY <2>1
  <2>3. loc = AdvanceTo(d, start, p)
    BY <1>2, <2>2
  <2>4. Moved(d, start, AdvanceTo(d, start, p)) /\ AdvanceTo(d, start, p).offset >= p
    BY <2>2, MovedTo, Advanced
  <2>. QED  BY <2>2, <2>3, <2>4
<1>4. loc.offset \in Nat
  BY <1>3 DEF Moved, Within, Location
<1>. HIDE DEF loc
<1>5. LongestAt(d, start.offset, loc.offset - start.offset)
  <2>1. PICK m \in Nat : m = loc.offset - start.offset /\ m >= n
    BY <1>1, <1>3, <1>4
  <2>2. ASSUME NEW o \in Operators, Len(o[2]) > m
        PROVE  Ahead(d, start.offset, Len(o[2])) # o[2]
    <3>1. PICK k \in 1 .. 3 : k = Len(o[2])
      BY OperatorsCovered
    <3>2. k > m
      BY <2>2, <3>1, Zenon
    <3>3. k > n
      BY <2>1, <3>2
    <3>4. Len(o[2]) > n
      BY <3>1, <3>3
    <3>. QED  BY <1>2, <3>4 DEF LongestAt
  <2>3. LongestAt(d, start.offset, m)
    BY <2>2 DEF LongestAt
  <2>. QED  BY <2>1, <2>3
<1>6. LexOperator(d, fl, start) =
        IF Spelled(op) THEN Token(TypeOf(op), start.offset, loc.offset, loc)
        ELSE IF "SKIP_UNKNOWN" \in fl THEN Skipped(loc)
        ELSE Error("UNEXPECTED_CHAR", start.offset, loc)
  BY DEF LexOperator, Whole, op, loc
<1>7. \A type : Sound(d, start, Token(type, start.offset, loc.offset, loc))
  BY <1>3, <1>5 DEF Sound, Token, Moved
<1>. QED  BY <1>3, <1>6, <1>7, SoundResults

LEMMA LexSound ==
    ASSUME NEW d \in Seq(STRING), NEW start, Within(d, start), NEW fl
    PROVE  Sound(d, start, Lex(d, fl, start))
<1>. DEFINE c == peek(d, start.offset)
            n == peek(d, start.offset + 1)
<1>1. start.offset \in Nat /\ Len(d) \in Nat
  BY LenProperties DEF Within, Location
<1>2. c # "NUL" => start.offset < Len(d)
  BY <1>1, PeekIn
<1>3. n # "NUL" => start.offset + 2 <= Len(d)
  <2>1. n # "NUL" => start.offset + 1 < Len(d)
    BY <1>1, PeekIn
  <2>. QED  BY <1>1, <2>1
<1>. DEFINE lexed == Lex(d, fl, start)
<1>4. lexed = CASE c = "NUL" -> LexNul(d, start)
                [] c \in Blank \cup LineEnd -> LexSpace(d, fl, start)
                [] c = "/" /\ n = "/" -> LexLineComment(d, fl, start)
                [] c = "/" /\ n = "[" -> LexBlockComment(d, fl, start)
                [] c \in {"\"", "'"} -> LexQuoted(d, fl, start, c)
                [] c \in Letter \cup {"_"} -> LexIdent(d, fl, start)
                [] c \in Digit -> LexNumber(d, start)
                [] OTHER -> LexOperator(d, fl, start)
  BY DEF Lex
<1>. HIDE DEF n, c, lexed
<1>5. CASE c = "NUL"
  <2>1. lexed = LexNul(d, start)
    BY <1>4, <1>5 DEF Blank, LineEnd, Letter, Digit
  <2>. QED  BY <2>1, NulSound DEF lexed
<1>6. CASE c \in Blank \cup LineEnd
  <2>1. lexed = LexSpace(d, fl, start)
    BY <1>4, <1>6 DEF Blank, LineEnd, Letter, Digit
  <2>. QED  BY <1>6, <2>1, SpaceSound DEF lexed, c
<1>7. CASE c = "/" /\ n = "/"
  <2>1. lexed = LexLineComment(d, fl, start)
    BY <1>4, <1>7 DEF Blank, LineEnd, Letter, Digit
  <2>. QED  BY <1>3, <1>7, <2>1, LineCommentSound DEF lexed
<1>8. CASE c = "/" /\ n = "["
  <2>1. lexed = LexBlockComment(d, fl, start)
    BY <1>4, <1>8 DEF Blank, LineEnd, Letter, Digit
  <2>. QED  BY <1>3, <1>8, <2>1, BlockCommentSound DEF lexed
<1>9. CASE c \in {"\"", "'"}
  <2>1. lexed = LexQuoted(d, fl, start, c)
    BY <1>4, <1>9 DEF Blank, LineEnd, Letter, Digit
  <2>. QED  BY <1>2, <1>9, <2>1, QuotedSound DEF lexed
<1>10. CASE c \in Letter \cup {"_"}
  <2>1. lexed = LexIdent(d, fl, start)
    BY <1>4, <1>10 DEF Blank, LineEnd, Letter, Digit
  <2>. QED  BY <1>2, <1>10, <2>1, IdentSound DEF lexed, Letter
<1>11. CASE c \in Digit
  <2>1. lexed = LexNumber(d, start)
    BY <1>4, <1>11 DEF Blank, LineEnd, Letter, Digit
  <2>. QED  BY <1>2, <1>11, <2>1, NumberSound DEF lexed, Digit
<1>12. CASE /\ c # "NUL" /\ c \notin Blank \cup LineEnd /\ ~(c = "/" /\ n \in {"/", "["})
            /\ c \notin {"\"", "'"} /\ c \notin Letter \cup {"_"} /\ c \notin Digit
  <2>1. lexed = LexOperator(d, fl, start)
    BY <1>4, <1>12
  <2>. QED  BY <1>2, <1>12, <2>1, OperatorSound DEF lexed
<1>. QED  BY <1>5, <1>6, <1>7, <1>8, <1>9, <1>10, <1>11, <1>12 DEF lexed

\* At the end of the document, and at no other place where a call can start, a
\* pass returns the end.
LEMMA EndReturned ==
    ASSUME NEW d \in Seq(STRING), NEW l \in Location, l.offset >= Len(d), NEW fl
    PROVE  Lex(d, fl, l).status = "SUCCESS"
<1>1. l.offset \in Nat /\ Len(d) \in Nat
  BY LenProperties DEF Location
<1>2. peek(d, l.offset) = "NUL"
  BY <1>1 DEF peek
<1>3. ~(l.offset < Len(d))
  BY <1>1
<1>4. Lex(d, fl, l) = LexNul(d, l)
  BY <1>2 DEF Lex, Blank, LineEnd, Letter, Digit
<1>5. LexNul(d, l) = Token("EOF", l.offset, l.offset, l)
  BY <1>3 DEF LexNul
<1>. QED  BY <1>4, <1>5 DEF Token

\* What a call returns was read in one pass, from a place not before the call's.
LEMMA NextTokenIs ==
    ASSUME NEW d \in Seq(STRING), NEW loc, Within(d, loc), NEW fl
    PROVE  \E l \in Location :
              /\ Within(d, l) /\ l.offset >= loc.offset
              /\ TrueIn(d, loc) => TrueIn(d, l)
              /\ NextToken(d, fl, loc) = [start |-> l, token |-> Lex(d, fl, l)]
<1>. DEFINE Stop == {l \in Location : Lex(d, fl, l).status # "SKIPPED"}
            after == [l \in Location |-> Lex(d, fl, l).loc]
            result == [l \in Location |-> [start |-> l, token |-> Lex(d, fl, l)]]
            measure == [l \in Location |-> IF l.offset >= Len(d) THEN 0 ELSE Len(d) - l.offset]
            Loop(f) == f = [l \in Location |->
                               IF Lex(d, fl, l).status = "SKIPPED" THEN f[Lex(d, fl, l).loc]
                               ELSE [start |-> l, token |-> Lex(d, fl, l)]]
            General(f) == f = [l \in Location |-> IF l \in Stop THEN result[l] ELSE f[after[l]]]
<1>1. Len(d) \in Nat
  BY LenProperties
<1>2. \A l \in Location : l.offset \in Nat
  BY DEF Location
<1>3. ASSUME NEW l \in Location \ Stop
      PROVE  /\ l.offset < Len(d) /\ after[l] = Lex(d, fl, l).loc
             /\ Within(d, after[l]) /\ after[l].offset > l.offset
             /\ TrueIn(d, l) => TrueIn(d, after[l])
  <2>1. Lex(d, fl, l).status = "SKIPPED"
    OBVIOUS
  <2>2. l.offset < Len(d)
    BY <1>1, <1>2, <2>1, EndReturned
  <2>3. Within(d, l)
    BY <1>1, <1>2, <2>2 DEF Within
  <2>4. Sound(d, l, Lex(d, fl, l))
    BY <2>3, LexSound
  <2>5. after[l] = Lex(d, fl, l).loc
    OBVIOUS
  <2>. HIDE DEF after
  <2>. QED  BY <2>1, <2>2, <2>4, <2>5 DEF Sound
<1>4. Decreases(Location, Stop, after, measure, Len(d))
  <2>1. measure \in [Location -> 0 .. Len(d)]
    BY <1>1, <1>2
  <2>2. ASSUME NEW l \in Location \ Stop
        PROVE  after[l] \in Location /\ measure[after[l]] < measure[l]
    <3>1. PICK m \in Location : m = after[l] /\ l.offset < Len(d) /\ m.offset > l.offset
      <4>. HIDE DEF after, Stop
      <4>. QED  BY <1>3 DEF Within
    <3>2. measure[l] = Len(d) - l.offset
      BY <1>1, <1>2, <3>1
    <3>3. measure[m] = IF m.offset >= Len(d) THEN 0 ELSE Len(d) - m.offset
      OBVIOUS
    <3>. HIDE DEF after, measure
    <3>. QED  BY <1>1, <1>2, <3>1, <3>2, <3>3
  <2>. HIDE DEF Stop, after, measure
  <2>. QED  BY <2>1, <2>2 DEF Decreases
<1>5. \A f : General(f) <=> Loop(f)
  <2>1. ASSUME NEW f
        PROVE  [l \in Location |-> IF l \in Stop THEN result[l] ELSE f[after[l]]]
                 = [l \in Location |->
                      IF Lex(d, fl, l).status = "SKIPPED" THEN f[Lex(d, fl, l).loc]
                      ELSE [start |-> l, token |-> Lex(d, fl, l)]]
    OBVIOUS
  <2>. QED  BY <2>1
<1>6. \E f : Loop(f)
  <2>1. \E f : General(f)
    <3>. HIDE DEF Stop, after, result, measure
    <3>. QED  BY <1>1, <1>4, LoopExists
  <2>. QED  BY <1>5, <2>1
<1>. DEFINE call == CHOOSE f : Loop(f)
<1>7. Loop(call)
  <2>. HIDE DEF Loop
  <2>. QED  BY <1>6
<1>8. General(call)
  <2>. HIDE DEF call
  <2>. QED  BY <1>5, <1>7
<1>9. NextToken(d, fl, loc) = call[loc]
  BY DEF NextToken
<1>. HIDE DEF call
<1>. DEFINE J == {l \in Location : /\ Within(d, l) /\ l.offset >= loc.offset
                                   /\ TrueIn(d, loc) => TrueIn(d, l)}
            R == {result[l] : l \in J}
<1>10. loc \in J /\ J \in SUBSET Location
  BY <1>2 DEF Within
<1>11. \A l \in J \cap Stop : result[l] \in R
  OBVIOUS
<1>12. \A l \in J \ Stop : after[l] \in J
  <2>1. TAKE l \in J \ Stop
  <2>2. l \in Location \ Stop /\ l.offset >= loc.offset /\ (TrueIn(d, loc) => TrueIn(d, l))
    OBVIOUS
  <2>. HIDE DEF Stop, after
  <2>3. PICK m \in Location : /\ m = after[l] /\ Within(d, m) /\ m.offset > l.offset
                              /\ TrueIn(d, l) => TrueIn(d, m)
    BY <1>3, <2>2 DEF Within
  <2>4. m.offset >= loc.offset
    BY <1>2, <1>10, <2>2, <2>3
  <2>. QED  BY <2>2, <2>3, <2>4
<1>13. call[loc] \in R
  <2>. HIDE DEF J, R, Stop, after, result, measure
  <2>. QED  BY <1>1, <1>4, <1>8, <1>10, <1>11, <1>12, LoopResult
<1>14. PICK l \in J : call[loc] = result[l]
  BY <1>13
<1>15. result[l] = [start |-> l, token |-> Lex(d, fl, l)]
  OBVIOUS
<1>. QED  BY <1>9, <1>14, <1>15

-----------------------------------------------------------------------------
(* The stream.                                                             *)

LexInv ==
    /\ doc \in Documents
    /\ tokens \in Seq(Range(tokens))
    /\ TrueIn(doc, current_loc)
    /\ LongestOperator

LEMMA InitLexInv == Init => LexInv
<1>. SUFFICES ASSUME Init
              PROVE  LexInv
  OBVIOUS
<1>. USE DEF Init
<1>1. doc \in Seq(STRING)
  BY DocumentsAssumption
<1>2. TrueIn(doc, LOC_ZERO)
  <2>1. LOC_ZERO \in Location /\ LOC_ZERO.offset = 0 /\ LOC_ZERO.line = 0 /\ LOC_ZERO.column = 0
    BY DEF LOC_ZERO, Location
  <2>2. Ends(doc, 0) = {}
    BY DEF Ends
  <2>3. Max({0}) = 0
    BY MaxOf
  <2>4. Cardinality({}) = 0
    BY FS_EmptySet
  <2>5. {} \cup {0} = {0} /\ 0 <= Len(doc) /\ 0 - 0 = 0
    BY <1>1, LenProperties
  <2>. QED  BY <2>1, <2>2, <2>3, <2>4, <2>5 DEF TrueIn, Within
<1>3. tokens \in Seq(Range(tokens))
  OBVIOUS
<1>. QED  BY <1>2, <1>3 DEF LexInv, LongestOperator

\* What a call of the stream does, in a state that LexInv describes: it reads the
\* token r at l.
Call(l, r) ==
    /\ Within(doc, l) /\ l.offset >= current_loc.offset /\ TrueIn(doc, l)
    /\ Sound(doc, l, r)
    /\ current_loc' = r.loc
    /\ tokens' = Append(tokens, [type |-> r.type, start |-> l, end |-> r.loc,
                                 lexeme |-> SubSeq(doc, r.from + 1, r.to)])
    /\ doc' = doc

LEMMA CallReturns ==
    ASSUME LexInv, token_stream_next
    PROVE  \E l, r : Call(l, r)
<1>1. doc \in Seq(STRING) /\ TrueIn(doc, current_loc) /\ Within(doc, current_loc)
  BY DocumentsAssumption DEF LexInv, TrueIn
<1>2. PICK l \in Location :
         /\ Within(doc, l) /\ l.offset >= current_loc.offset
         /\ TrueIn(doc, current_loc) => TrueIn(doc, l)
         /\ NextToken(doc, flags, current_loc) = [start |-> l, token |-> Lex(doc, flags, l)]
  BY <1>1, NextTokenIs
<1>3. PICK r : r = Lex(doc, flags, l)
  OBVIOUS
<1>4. Sound(doc, l, r)
  BY <1>1, <1>2, <1>3, LexSound
<1>5. PICK q : q = NextToken(doc, flags, current_loc)
  OBVIOUS
<1>6. q.start = l /\ q.token = r
  BY <1>2, <1>3, <1>5
<1>7. /\ current_loc' = q.token.loc
      /\ tokens' = Append(tokens, [type |-> q.token.type, start |-> q.start, end |-> q.token.loc,
                                   lexeme |-> SubSeq(doc, q.token.from + 1, q.token.to)])
      /\ doc' = doc
  BY <1>5 DEF token_stream_next
<1>8. Call(l, r)
  BY <1>1, <1>2, <1>4, <1>6, <1>7 DEF Call
<1>. QED  BY <1>8

LEMMA AppendedLast ==
    ASSUME NEW s, s \in Seq(Range(s)), NEW e
    PROVE  LET t == Append(s, e) IN t \in Seq(Range(t)) /\ t # <<>> /\ Last(t) = e
<1>. DEFINE t == Append(s, e)
            S == Range(s) \cup {e}
<1>1. s \in Seq(S)
  BY SeqMonotonic
<1>. HIDE DEF S
<1>2. e \in S
  BY DEF S
<1>3. t \in Seq(S) /\ Len(t) = Len(s) + 1 /\ t[Len(s) + 1] = e /\ Len(s) \in Nat
  BY <1>1, <1>2, AppendProperties, LenProperties
<1>. HIDE DEF t
<1>4. t \in Seq(Range(t))
  BY <1>3, SeqOfRange
<1>5. t # <<>>
  BY <1>3
<1>6. Last(t) = e
  BY <1>3 DEF Last
<1>. QED  BY <1>4, <1>5, <1>6 DEF t

LEMMA StepLexInv ==
    ASSUME LexInv, [Next]_vars
    PROVE  LexInv'
<1>1. CASE token_stream_next
  <2>1. PICK l, r : Call(l, r)
    BY <1>1, CallReturns
  <2>. USE DEF Call
  <2>. DEFINE read == [type |-> r.type, start |-> l, end |-> r.loc,
                       lexeme |-> SubSeq(doc, r.from + 1, r.to)]
  <2>2. doc \in Seq(STRING) /\ doc \in Documents
    BY DocumentsAssumption DEF LexInv
  <2>3. /\ tokens' \in Seq(Range(tokens'))
        /\ tokens' # <<>> /\ Last(tokens') = read
    <3>. HIDE DEF read
    <3>1. tokens' = Append(tokens, read)
      BY <2>1 DEF read
    <3>. QED  BY <3>1, AppendedLast DEF LexInv
  <2>4. TrueIn(doc, r.loc)
    BY <2>1 DEF Sound
  <2>5. LongestOperator'
    <3>1. ASSUME read.type \in OperatorType, NEW o \in Operators,
                 Len(o[2]) > Len(read.lexeme)
          PROVE  Ahead(doc, read.start.offset, Len(o[2])) # o[2]
      <4>1. r.from = l.offset /\ r.to = r.loc.offset /\ LongestAt(doc, r.from, r.to - r.from)
        BY <2>1, <3>1 DEF Sound
      <4>2. r.loc \in Location /\ r.loc.offset <= Len(doc)
        BY <2>4 DEF TrueIn, Within
      <4>3. r.from \in Nat /\ r.to \in Nat /\ Len(doc) \in Nat /\ r.to <= Len(doc)
        <5>1. r.loc.offset \in Nat
          BY <4>2 DEF Location
        <5>2. l.offset \in Nat
          BY <2>1 DEF Within, Location
        <5>3. Len(doc) \in Nat
          BY <2>2, LenProperties
        <5>. QED  BY <4>1, <4>2, <5>1, <5>2, <5>3
      <4>4. PICK n \in Nat : n = Len(SubSeq(doc, r.from + 1, r.to)) /\ n >= r.to - r.from
        <5>1. CASE r.from + 1 <= r.to
          BY <2>2, <4>3, <5>1, SubSeqProperties
        <5>2. CASE ~(r.from + 1 <= r.to)
          <6>1. SubSeq(doc, r.from + 1, r.to) \in Seq(STRING)
            BY <2>2, <4>3, SubSeqProperties
          <6>2. Len(SubSeq(doc, r.from + 1, r.to)) \in Nat
            BY <6>1, LenProperties
          <6>. QED  BY <4>3, <5>2, <6>2
        <5>. QED  BY <5>1, <5>2
      <4>5. PICK k \in 1 .. 3 : k = Len(o[2])
        BY OperatorsCovered
      <4>6. k > n
        <5>1. read.lexeme = SubSeq(doc, r.from + 1, r.to)
          OBVIOUS
        <5>2. n = Len(read.lexeme)
          BY <4>4, <5>1, Zenon
        <5>. HIDE DEF read
        <5>. QED  BY <3>1, <4>5, <5>2, Zenon
      <4>7. k > r.to - r.from
        BY <4>3, <4>4, <4>6
      <4>8. Ahead(doc, r.from, Len(o[2])) # o[2]
        BY <4>1, <4>5, <4>7 DEF LongestAt
      <4>. QED  BY <4>1, <4>8
    <3>. HIDE DEF read
    <3>. QED  BY <2>1, <2>3, <3>1 DEF LongestOperator
  <2>. QED  BY <2>1, <2>2, <2>3, <2>4, <2>5 DEF LexInv
<1>2. CASE UNCHANGED vars
  BY <1>2 DEF LexInv, LongestOperator, vars
<1>. QED  BY <1>1, <1>2 DEF Next

THEOREM LexInvariant == Spec => []LexInv
<1>1. Init => LexInv
  BY InitLexInv
<1>2. LexInv /\ [Next]_vars => LexInv'
  BY StepLexInv
<1>. QED  BY <1>1, <1>2, PTL DEF Spec

THEOREM LocationsAreTrue == Spec => []LocationsTrue
<1>1. LexInv => LocationsTrue
  BY DEF LexInv, TrueIn, Ends, LocationsTrue
<1>. QED  BY <1>1, LexInvariant, PTL

THEOREM OperatorsAreLongest == Spec => []LongestOperator
<1>1. LexInv => LongestOperator
  BY DEF LexInv
<1>. QED  BY <1>1, LexInvariant, PTL

THEOREM CallsAdvance == Spec => EveryCallAdvances
<1>1. ASSUME LexInv, token_stream_next
      PROVE  current_loc'.offset > current_loc.offset \/ Last(tokens').type = "EOF"
  <2>1. PICK l, r : Call(l, r)
    BY <1>1, CallReturns
  <2>. USE DEF Call
  <2>2. CASE r.type = "EOF"
    <3>. DEFINE read == [type |-> r.type, start |-> l, end |-> r.loc,
                         lexeme |-> SubSeq(doc, r.from + 1, r.to)]
    <3>1. read.type = "EOF"
      BY <2>2
    <3>. HIDE DEF read
    <3>2. Last(tokens') = read
      <4>1. tokens' = Append(tokens, read)
        BY <2>1 DEF read
      <4>. QED  BY <1>1, <4>1, AppendedLast DEF LexInv
    <3>. QED  BY <3>1, <3>2
  <2>3. CASE r.type # "EOF"
    <3>1. r.loc.offset > l.offset /\ r.loc \in Location
      BY <2>1, <2>3 DEF Sound, Within
    <3>2. current_loc.offset \in Nat /\ l.offset \in Nat /\ r.loc.offset \in Nat
      BY <1>1, <2>1, <3>1 DEF LexInv, TrueIn, Within, Location
    <3>. QED  BY <2>1, <3>1, <3>2
  <2>. QED  BY <2>2, <2>3
<1>2. LexInv /\ [Next]_vars =>
        [current_loc'.offset > current_loc.offset \/ Last(tokens').type = "EOF"]_vars
  BY <1>1 DEF Next
<1>. QED  BY <1>2, LexInvariant, PTL DEF Spec, EveryCallAdvances
=============================================================================
