-------------------------- MODULE ElLowerer_proofs --------------------------
(* Every function is lowered to blocks that end in one terminator and jump   *)
(* to blocks of the function, for all functions, statements and expressions. *)
EXTENDS ElLowerer, Integers, SequenceTheorems, TLAPS

(* Sequences, whatever their elements *)
IsSequence(s) == s \in Seq(Range(s))

LEMMA OfSeq ==
    ASSUME NEW S, NEW s \in Seq(S)
    PROVE  IsSequence(s)
<1>1. Len(s) \in Nat /\ s \in [1 .. Len(s) -> S]
  BY LenProperties
<1>2. s \in [1 .. Len(s) -> Range(s)]
  BY <1>1 DEF Range
<1>. QED  BY <1>1, <1>2, SeqDef DEF IsSequence

LEMMA SequenceFacts ==
    ASSUME NEW s, IsSequence(s)
    PROVE  /\ Len(s) \in Nat /\ DOMAIN s = 1 .. Len(s)
           /\ s # <<>> => Len(s) # 0
           /\ s = <<>> => Len(s) = 0
<1>1. s \in Seq(Range(s))
  BY DEF IsSequence
<1>. QED  BY <1>1, LenProperties, EmptySeq

LEMMA ConcatFacts ==
    ASSUME NEW s, NEW t, IsSequence(s), IsSequence(t)
    PROVE  /\ IsSequence(s \o t)
           /\ Len(s \o t) = Len(s) + Len(t)
           /\ \A k \in 1 .. Len(s) : (s \o t)[k] = s[k]
           /\ \A k \in 1 .. Len(t) : (s \o t)[Len(s) + k] = t[k]
<1>. DEFINE S == Range(s) \cup Range(t)
<1>1. s \in Seq(S) /\ t \in Seq(S)
  BY SeqMonotonic DEF IsSequence
<1>2. Len(s) \in Nat /\ Len(t) \in Nat
  BY <1>1, LenProperties
<1>. HIDE DEF S
<1>3. /\ s \o t \in Seq(S)
      /\ Len(s \o t) = Len(s) + Len(t)
      /\ \A i \in 1 .. Len(s) + Len(t) : (s \o t)[i] = IF i <= Len(s) THEN s[i] ELSE t[i - Len(s)]
  BY <1>1, ConcatProperties
<1>4. IsSequence(s \o t)
  BY <1>3, OfSeq
<1>. QED  BY ONLY <1>2, <1>3, <1>4

LEMMA PairIsConcat ==
    ASSUME NEW a, NEW b
    PROVE  <<a>> \o <<b>> = <<a, b>>
<1>. DEFINE s == <<a>>  t == <<b>>  p == <<a, b>>
<1>1. /\ s \in Seq({a, b}) /\ Len(s) = 1 /\ s[1] = a
      /\ t \in Seq({a, b}) /\ Len(t) = 1 /\ t[1] = b
      /\ p \in Seq({a, b}) /\ Len(p) = 2 /\ p[1] = a /\ p[2] = b
  OBVIOUS
<1>. HIDE DEF s, t, p
<1>2. /\ s \o t \in Seq({a, b}) /\ Len(s \o t) = Len(s) + Len(t)
      /\ \A i \in 1 .. Len(s) + Len(t) : (s \o t)[i] = IF i <= Len(s) THEN s[i] ELSE t[i - Len(s)]
  BY ONLY <1>1, ConcatProperties
<1>3. \A i \in 1 .. Len(s \o t) : (s \o t)[i] = p[i]
  BY ONLY <1>1, <1>2
<1>4. Len(s \o t) = Len(p)
  BY ONLY <1>1, <1>2
<1>5. s \o t = p
  BY ONLY <1>1, <1>2, <1>3, <1>4, SeqEqual
<1>. QED  BY <1>5 DEF s, t, p

LEMMA Singleton ==
    ASSUME NEW a
    PROVE  <<a>> \o <<>> = <<a>>
<1>1. <<a>> \in Seq({a})
  OBVIOUS
<1>. QED  BY <1>1, ConcatEmptySeq

LEMMA TripleIsConcat ==
    ASSUME NEW a, NEW b, NEW c
    PROVE  <<a>> \o <<b>> \o <<c>> = <<a, b, c>>
<1>. DEFINE s == <<a, b>>  t == <<c>>  p == <<a, b, c>>
<1>1. /\ s \in Seq({a, b, c}) /\ Len(s) = 2 /\ s[1] = a /\ s[2] = b
      /\ t \in Seq({a, b, c}) /\ Len(t) = 1 /\ t[1] = c
      /\ p \in Seq({a, b, c}) /\ Len(p) = 3 /\ p[1] = a /\ p[2] = b /\ p[3] = c
  OBVIOUS
<1>2. <<a>> \o <<b>> = s
  BY PairIsConcat
<1>. HIDE DEF s, t, p
<1>3. /\ s \o t \in Seq({a, b, c}) /\ Len(s \o t) = Len(s) + Len(t)
      /\ \A i \in 1 .. Len(s) + Len(t) : (s \o t)[i] = IF i <= Len(s) THEN s[i] ELSE t[i - Len(s)]
  BY ONLY <1>1, ConcatProperties
<1>4. \A i \in 1 .. Len(s \o t) : (s \o t)[i] = p[i]
  BY ONLY <1>1, <1>3
<1>5. Len(s \o t) = Len(p)
  BY ONLY <1>1, <1>3
<1>6. s \o t = p
  BY ONLY <1>1, <1>3, <1>4, <1>5, SeqEqual
<1>. QED  BY <1>2, <1>6 DEF t, p

LEMMA TailFacts ==
    ASSUME NEW s, IsSequence(s), s # <<>>
    PROVE  /\ IsSequence(Tail(s)) /\ Len(s) \in Nat \ {0}
           /\ Len(Tail(s)) = Len(s) - 1
           /\ \A k \in 1 .. Len(s) - 1 : Tail(s)[k] = s[k + 1]
           /\ Head(s) = s[1]
<1>1. s \in Seq(Range(s))
  BY DEF IsSequence
<1>2. /\ Tail(s) \in Seq(Range(s))
      /\ Len(Tail(s)) = Len(s)-1
      /\ \A i \in 1 .. Len(Tail(s)) : Tail(s)[i] = s[i+1]
  BY <1>1, HeadTailProperties
<1>3. Len(s) \in Nat \ {0}
  BY <1>1, EmptySeq, LenProperties
<1>4. IsSequence(Tail(s))
  BY <1>2, OfSeq
<1>5. Head(s) = s[1]
  BY <1>1
<1>. QED  BY <1>2, <1>3, <1>4, <1>5

\* A sequence pushed in place of the first element
LEMMA PushFacts ==
    ASSUME NEW w, NEW items, IsSequence(w), w # <<>>, IsSequence(items)
    PROVE  /\ IsSequence(items \o Tail(w))
           /\ Len(w) \in Nat \ {0} /\ Len(items) \in Nat
           /\ Len(items \o Tail(w)) = Len(items) + Len(w) - 1
           /\ \A k \in 1 .. Len(items) : (items \o Tail(w))[k] = items[k]
           /\ \A k \in 2 .. Len(w) : (items \o Tail(w))[Len(items) + k - 1] = w[k]
<1>. DEFINE t == Tail(w)  r == items \o t
<1>1. /\ IsSequence(t) /\ Len(w) \in Nat \ {0} /\ Len(t) = Len(w) - 1
      /\ \A k \in 1 .. Len(w) - 1 : t[k] = w[k + 1]
  BY TailFacts
<1>2. Len(items) \in Nat
  BY SequenceFacts
<1>. HIDE DEF t
<1>3. /\ IsSequence(r)
      /\ Len(r) = Len(items) + Len(t)
      /\ \A k \in 1 .. Len(items) : r[k] = items[k]
      /\ \A k \in 1 .. Len(t) : r[Len(items) + k] = t[k]
  <2>1. IsSequence(items) /\ IsSequence(t)
    BY <1>1
  <2>. QED  BY ONLY <2>1, ConcatFacts DEF r
<1>. HIDE DEF r
<1>4. ASSUME NEW k \in 2 .. Len(w)
      PROVE  r[Len(items) + k - 1] = w[k]
  <2>1. k - 1 \in 1 .. Len(t) /\ Len(items) + k - 1 = Len(items) + (k - 1) /\ (k - 1) + 1 = k
    BY <1>1, <1>2
  <2>. QED  BY <2>1, <1>1, <1>3
<1>5. Len(r) = Len(items) + Len(w) - 1
  BY <1>1, <1>2, <1>3
<1>. QED  BY <1>1, <1>2, <1>3, <1>4, <1>5 DEF r, t

-----------------------------------------------------------------------------
(* The work stack, n block ids being taken *)

\* What may come behind a terminator of the current block
Lenient(it) == it.do \in {"stmt", "if_then", "if_else", "while_end", "end"}

Ids(n) == 0 .. n - 1

ItemOK(it, n) ==
    /\ it.do = "stmt" => it.stmt \in Stmts
    /\ it.do = "expr" => it.expr \in Exprs
    /\ it.do = "if_cond" => it.stmt \in Stmts /\ it.stmt.kind = "if"
    /\ it.do = "if_then" =>
          /\ it.stmt \in Stmts /\ it.stmt.kind = "if"
          /\ it.merge_id \in Ids(n) /\ it.else_id \in Ids(n)
          /\ it.stmt.else # None <=> it.else_id # it.merge_id
    /\ it.do \in {"if_else", "cassign_rhs", "logical_rhs"} => it.merge_id \in Ids(n)
    /\ it.do = "while_cond" =>
          /\ it.stmt \in Stmts /\ it.stmt.kind = "while"
          /\ it.body_id \in Ids(n) /\ it.body_id # it.exit_id
    /\ it.do \in {"while_cond", "while_end"} =>
          /\ it.cond_id \in Ids(n) /\ it.exit_id \in Ids(n)
          /\ it.prev_break \in Ids(n) /\ it.prev_continue \in Ids(n)
    /\ it.do = "logical_lhs" => it.expr \in Exprs /\ it.expr.kind = "binary"
    /\ it.do = "call" => it.expr \in Exprs /\ it.expr.kind = "call"

\* Ids that were taken for blocks which the rest of a handler begins
Pending(it) ==
    CASE it.do = "if_then"    -> {it.merge_id, it.else_id}
      [] it.do = "while_cond" -> {it.body_id, it.exit_id}
      [] it.do = "while_end"  -> {it.exit_id}
      [] it.do \in {"if_else", "cassign_rhs", "logical_rhs"} -> {it.merge_id}
      [] OTHER -> {}

Stack(w, n) ==
    /\ IsSequence(w)
    /\ \A k \in 1 .. Len(w) : ItemOK(w[k], n)
    /\ \A k \in 1 .. Len(w) : w[k].do = "end" <=> k = Len(w)
    /\ \A k \in 1 .. Len(w) - 1 : w[k].do \in {"stmt", "ret"} => Lenient(w[k + 1])

\* What a handler pushes
Pushed(items, n) ==
    /\ IsSequence(items)
    /\ \A k \in 1 .. Len(items) : ItemOK(items[k], n) /\ items[k].do # "end"
    /\ \A k \in 1 .. Len(items) - 1 :
          /\ Pending(items[k]) = {}
          /\ items[k].do \in {"stmt", "ret"} => Lenient(items[k + 1])

LEMMA IdsGrow ==
    ASSUME NEW n \in Nat, NEW m \in Nat, n <= m
    PROVE  Ids(m) = Ids(n) \cup (n .. m - 1) /\ Ids(n) \cap (n .. m - 1) = {}
BY DEF Ids

LEMMA ItemGrows ==
    ASSUME NEW it, NEW n \in Nat, NEW m \in Nat, n <= m, ItemOK(it, n)
    PROVE  ItemOK(it, m)
<1>1. Ids(n) \subseteq Ids(m)
  BY DEF Ids
<1>. QED  BY <1>1 DEF ItemOK

\* The stack stays a stack, and behind a statement or a return that is done
\* there is something that may come behind a terminator.
LEMMA StackStep ==
    ASSUME NEW w, NEW items, NEW n \in Nat, NEW m \in Nat, n <= m,
           Stack(w, n), w # <<>>, w[1].do # "end", Pushed(items, m),
           \/ items = <<>>
           \/ items[Len(items)].do \notin {"stmt", "ret"}
           \/ w[1].do \in {"stmt", "ret"}
    PROVE  /\ Stack(items \o Tail(w), m)
           /\ items \o Tail(w) # <<>>
           /\ items = <<>> /\ w[1].do \in {"stmt", "ret"} => Lenient((items \o Tail(w))[1])
<1>. DEFINE r == items \o Tail(w)  p == Len(items)  l == Len(w)
<1>1. IsSequence(w) /\ IsSequence(items)
  BY DEF Stack, Pushed
<1>2. /\ IsSequence(r)
      /\ l \in Nat \ {0} /\ p \in Nat
      /\ Len(r) = p + l - 1
      /\ \A k \in 1 .. p : r[k] = items[k]
      /\ \A k \in 2 .. l : r[p + k - 1] = w[k]
  BY ONLY <1>1, w # <<>>, PushFacts, Zenon
<1>3. items = <<>> <=> p = 0
  BY <1>1, SequenceFacts
<1>4. /\ \A k \in 1 .. l : ItemOK(w[k], m)
      /\ \A k \in 1 .. l : w[k].do = "end" <=> k = l
      /\ \A k \in 1 .. l - 1 : w[k].do \in {"stmt", "ret"} => Lenient(w[k + 1])
  BY ItemGrows DEF Stack
<1>5. /\ \A k \in 1 .. p : ItemOK(items[k], m) /\ items[k].do # "end"
      /\ \A k \in 1 .. p - 1 : items[k].do \in {"stmt", "ret"} => Lenient(items[k + 1])
  BY DEF Pushed
<1>. HIDE DEF r, p, l
<1>6. l # 1
  BY <1>2, <1>4
<1>7. ASSUME NEW k \in 1 .. Len(r), k > p
      PROVE  k - p + 1 \in 2 .. l /\ r[k] = w[k - p + 1]
  <2>1. k - p + 1 \in 2 .. l /\ p + (k - p + 1) - 1 = k
    BY <1>2, <1>7
  <2>. QED  BY <2>1, <1>2
<1>8. ASSUME NEW k \in 1 .. Len(r)
      PROVE  ItemOK(r[k], m) /\ (r[k].do = "end" <=> k = Len(r))
  <2>1. CASE k <= p
    BY <2>1, <1>2, <1>5, <1>6
  <2>2. CASE k > p
    <3>1. k - p + 1 \in 2 .. l /\ r[k] = w[k - p + 1]
      BY <2>2, <1>7
    <3>2. k - p + 1 = l <=> k = Len(r)
      BY <1>2
    <3>. QED  BY <3>1, <3>2, <1>2, <1>4
  <2>. QED  BY <2>1, <2>2, <1>2
<1>9. ASSUME NEW k \in 1 .. Len(r) - 1, r[k].do \in {"stmt", "ret"}
      PROVE  Lenient(r[k + 1])
  <2>1. CASE k < p
    BY <2>1, <1>2, <1>5, <1>9
  <2>2. CASE k = p
    <3>1. r[k] = items[p] /\ items # <<>>
      BY <2>2, <1>2, <1>3
    <3>2. w[1].do \in {"stmt", "ret"}
      BY <3>1, <1>9 DEF p
    <3>3. r[k + 1] = w[2]
      <4>1. k + 1 \in 1 .. Len(r) /\ k + 1 > p /\ (k + 1) - p + 1 = 2
        BY <2>2, <1>2
      <4>. QED  BY <4>1, <1>7
    <3>4. 1 \in 1 .. l - 1 /\ 1 + 1 = 2
      BY <1>2, <1>6
    <3>. QED  BY <3>2, <3>3, <3>4, <1>4
  <2>3. CASE k > p
    <3>1. k \in 1 .. Len(r) /\ k + 1 \in 1 .. Len(r) /\ k + 1 > p
      BY <2>3, <1>2
    <3>2. r[k] = w[k - p + 1] /\ r[k + 1] = w[(k + 1) - p + 1]
      BY <3>1, <2>3, <1>7
    <3>3. k - p + 1 \in 1 .. l - 1 /\ (k + 1) - p + 1 = (k - p + 1) + 1
      BY <2>3, <1>2
    <3>. QED  BY <3>2, <3>3, <1>4, <1>9
  <2>. QED  BY <2>1, <2>2, <2>3, <1>2
<1>10. r # <<>>
  BY <1>2, <1>6, SequenceFacts
<1>11. ASSUME items = <<>>, w[1].do \in {"stmt", "ret"}
       PROVE  Lenient(r[1])
  <2>1. 1 \in 1 .. Len(r) /\ 1 > p /\ 1 - p + 1 = 2
    BY <1>2, <1>3, <1>6, <1>11
  <2>2. r[1] = w[2]
    BY <2>1, <1>7
  <2>3. 1 \in 1 .. l - 1 /\ 1 + 1 = 2
    BY <1>2, <1>6
  <2>. QED  BY <2>2, <2>3, <1>4, <1>11
<1>. QED  BY <1>2, <1>8, <1>9, <1>10, <1>11 DEF Stack, r

\* Concrete pushes
PushedIds(items) == IF items = <<>> THEN {} ELSE Pending(items[Len(items)])

LEMMA Push0 ==
    ASSUME NEW n
    PROVE  Pushed(<<>>, n) /\ PushedIds(<<>>) = {}
<1>1. <<>> \in Seq({}) /\ Len(<<>>) = 0
  BY EmptySeq
<1>2. IsSequence(<<>>)
  BY <1>1, OfSeq
<1>. QED  BY <1>1, <1>2 DEF Pushed, PushedIds

LEMMA Push1 ==
    ASSUME NEW n, NEW a, ItemOK(a, n), a.do # "end"
    PROVE  /\ Pushed(<<a>>, n) /\ PushedIds(<<a>>) = Pending(a)
           /\ <<a>>[Len(<<a>>)] = a
<1>1. <<a>> \in Seq({a}) /\ Len(<<a>>) = 1 /\ <<a>>[1] = a /\ <<a>> # <<>>
  OBVIOUS
<1>2. IsSequence(<<a>>)
  BY <1>1, OfSeq
<1>. QED  BY <1>1, <1>2 DEF Pushed, PushedIds

LEMMA Push2 ==
    ASSUME NEW n, NEW a, NEW b,
           ItemOK(a, n), ItemOK(b, n), a.do # "end", b.do # "end",
           Pending(a) = {}, a.do \in {"stmt", "ret"} => Lenient(b)
    PROVE  /\ Pushed(<<a, b>>, n) /\ PushedIds(<<a, b>>) = Pending(b)
           /\ <<a, b>>[Len(<<a, b>>)] = b
<1>. DEFINE s == <<a, b>>
<1>1. s \in Seq({a, b}) /\ Len(s) = 2 /\ s[1] = a /\ s[2] = b /\ s # <<>>
  OBVIOUS
<1>2. IsSequence(s)
  BY <1>1, OfSeq
<1>. HIDE DEF s
<1>. QED  BY <1>1, <1>2 DEF Pushed, PushedIds, s

LEMMA Push3 ==
    ASSUME NEW n, NEW a, NEW b, NEW c,
           ItemOK(a, n), ItemOK(b, n), ItemOK(c, n), a.do # "end", b.do # "end", c.do # "end",
           Pending(a) = {}, a.do \in {"stmt", "ret"} => Lenient(b),
           Pending(b) = {}, b.do \in {"stmt", "ret"} => Lenient(c)
    PROVE  /\ Pushed(<<a, b, c>>, n) /\ PushedIds(<<a, b, c>>) = Pending(c)
           /\ <<a, b, c>>[Len(<<a, b, c>>)] = c
<1>. DEFINE s == <<a, b, c>>
<1>1. s \in Seq({a, b, c}) /\ Len(s) = 3 /\ s[1] = a /\ s[2] = b /\ s[3] = c /\ s # <<>>
  OBVIOUS
<1>2. IsSequence(s)
  BY <1>1, OfSeq
<1>. HIDE DEF s
<1>. QED  BY <1>1, <1>2 DEF Pushed, PushedIds, s

-----------------------------------------------------------------------------
(* Every block id is that of an emitted block, of the current one, or        *)
(* pending on the stack, and only one of these.                              *)
PendingIds(w) == UNION {Pending(w[k]) : k \in 1 .. Len(w)}

Owned(w, E, c, n) ==
    /\ \A j, k \in 1 .. Len(w) : j # k => Pending(w[j]) \cap Pending(w[k]) = {}
    /\ c \notin E /\ c \notin PendingIds(w)
    /\ E \cap PendingIds(w) = {}
    /\ E \cup {c} \cup PendingIds(w) = Ids(n)

LEMMA PushedPending ==
    ASSUME NEW items, NEW m, Pushed(items, m), NEW k \in 1 .. Len(items)
    PROVE  Pending(items[k]) # {} => k = Len(items) /\ PushedIds(items) = Pending(items[k])
<1>1. Len(items) \in Nat /\ (items = <<>> => Len(items) = 0)
  BY SequenceFacts DEF Pushed
<1>2. CASE k = Len(items)
  BY <1>1, <1>2 DEF PushedIds
<1>3. CASE k # Len(items)
  <2>1. k \in 1 .. Len(items) - 1
    BY <1>1, <1>3
  <2>. QED  BY <2>1 DEF Pushed
<1>. QED  BY <1>2, <1>3

LEMMA OwnedStep ==
    ASSUME NEW w, IsSequence(w), w # <<>>, NEW n \in Nat, NEW m \in Nat, n <= m,
           NEW items, Pushed(items, m),
           NEW E, NEW c, Owned(w, E, c, n),
           NEW F, NEW d,
           F \cup {d} \cup PushedIds(items) = E \cup {c} \cup Pending(w[1]) \cup (n .. m - 1),
           d \notin F, d \notin PushedIds(items), F \cap PushedIds(items) = {}
    PROVE  Owned(items \o Tail(w), F, d, m)
<1>. DEFINE r == items \o Tail(w)  p == Len(items)  l == Len(w)  q == PushedIds(items)
            R == UNION {Pending(w[k]) : k \in 2 .. l}
<1>1. IsSequence(items)
  BY DEF Pushed
<1>2. /\ IsSequence(r)
      /\ l \in Nat \ {0} /\ p \in Nat
      /\ Len(r) = p + l - 1
      /\ \A k \in 1 .. p : r[k] = items[k]
      /\ \A k \in 2 .. l : r[p + k - 1] = w[k]
  BY ONLY <1>1, IsSequence(w), w # <<>>, PushFacts DEF r, p, l
<1>3. \A k \in 1 .. p : Pending(items[k]) # {} => k = p /\ q = Pending(items[k])
  BY PushedPending
<1>4. q # {} => p \in 1 .. p /\ q = Pending(items[p])
  <2>1. items # <<>> => p # 0
    BY <1>1, SequenceFacts
  <2>. QED  BY <1>2, <2>1 DEF PushedIds
<1>5. \A j, k \in 1 .. l : j # k => Pending(w[j]) \cap Pending(w[k]) = {}
  BY DEF Owned
<1>6. PendingIds(w) = Pending(w[1]) \cup R
  <2>1. 1 .. l = {1} \cup 2 .. l
    BY <1>2
  <2>. QED  BY <2>1 DEF PendingIds
<1>7. Pending(w[1]) \cap R = {}
  <2>1. \A k \in 2 .. l : 1 \in 1 .. l /\ k \in 1 .. l /\ 1 # k
    BY <1>2
  <2>. QED  BY <2>1, <1>5, ZenonT(60)
<1>8. /\ c \notin E /\ c \notin Pending(w[1]) \cup R
      /\ E \cap (Pending(w[1]) \cup R) = {}
      /\ E \cup {c} \cup Pending(w[1]) \cup R = Ids(n)
  BY <1>6 DEF Owned
<1>. HIDE DEF r, p, l, q, R
<1>9. Ids(m) = Ids(n) \cup n .. m - 1 /\ Ids(n) \cap n .. m - 1 = {}
  BY IdsGrow
<1>10. F \cup {d} \cup q = E \cup {c} \cup Pending(w[1]) \cup n .. m - 1
  BY DEF q
<1>11. (F \cup {d} \cup q) \cap R = {}
  BY <1>7, <1>8, <1>9, <1>10
<1>12. F \cup {d} \cup q \cup R = Ids(m)
  BY <1>8, <1>9, <1>10
<1>13. ASSUME NEW k \in 1 .. Len(r)
       PROVE  \/ k \in 1 .. p /\ Pending(r[k]) = Pending(items[k])
              \/ k - p + 1 \in 2 .. l /\ r[k] = w[k - p + 1]
  <2>1. CASE k <= p
    BY <2>1, <1>2
  <2>2. CASE k > p
    <3>1. k - p + 1 \in 2 .. l /\ p + (k - p + 1) - 1 = k
      BY <2>2, <1>2
    <3>. QED  BY <3>1, <1>2
  <2>. QED  BY <2>1, <2>2, <1>2
<1>14. \A k \in 1 .. Len(r) :
          \/ Pending(r[k]) = {}
          \/ k = p /\ Pending(r[k]) = q
          \/ k - p + 1 \in 2 .. l /\ r[k] = w[k - p + 1] /\ Pending(r[k]) \subseteq R
  BY <1>3, <1>13 DEF R
<1>15. PendingIds(r) = q \cup R
  <2>1. PendingIds(r) \subseteq q \cup R
    BY <1>14 DEF PendingIds
  <2>2. q \subseteq PendingIds(r)
    <3>1. q # {} => p \in 1 .. Len(r) /\ r[p] = items[p]
      BY <1>2, <1>4
    <3>. QED  BY <3>1, <1>4 DEF PendingIds
  <2>3. R \subseteq PendingIds(r)
    <3>1. \A k \in 2 .. l : p + k - 1 \in 1 .. Len(r) /\ r[p + k - 1] = w[k]
      BY <1>2
    <3>. QED  BY <3>1 DEF PendingIds, R
  <2>. QED  BY <2>1, <2>2, <2>3
<1>16. ASSUME NEW j \in 1 .. Len(r), NEW k \in 1 .. Len(r), j # k
       PROVE  Pending(r[j]) \cap Pending(r[k]) = {}
  <2>1. CASE Pending(r[j]) = {} \/ Pending(r[k]) = {}
    BY <2>1
  <2>2. CASE (j = p /\ Pending(r[j]) = q) \/ (k = p /\ Pending(r[k]) = q)
    <3>1. q \cap R = {}
      BY <1>11
    <3>. QED  BY <2>2, <3>1, <1>14, <1>16
  <2>3. CASE /\ j - p + 1 \in 2 .. l /\ r[j] = w[j - p + 1]
             /\ k - p + 1 \in 2 .. l /\ r[k] = w[k - p + 1]
    <3>1. j - p + 1 # k - p + 1 /\ j - p + 1 \in 1 .. l /\ k - p + 1 \in 1 .. l
      BY <2>3, <1>2, <1>16
    <3>. QED  BY <2>3, <3>1, <1>5
  <2>. QED  BY <2>1, <2>2, <2>3, <1>14
<1>17. d \notin q /\ F \cap q = {}
  BY DEF q
<1>. QED  BY <1>11, <1>12, <1>15, <1>16, <1>17 DEF Owned, r

-----------------------------------------------------------------------------
(* Instructions of the current block, and blocks *)
Ended(instrs) == instrs # <<>> /\ IsTerminator(instrs[Len(instrs)])

Buffer(instrs, n) ==
    /\ IsSequence(instrs)
    /\ \A k \in 1 .. Len(instrs) - 1 : ~IsTerminator(instrs[k])
    /\ \A k \in 1 .. Len(instrs) : JumpTargets(instrs[k]) \subseteq Ids(n)

Plain(instrs) == IsSequence(instrs) /\ \A k \in 1 .. Len(instrs) : ~IsTerminator(instrs[k])

Closed(instrs, n) == Buffer(instrs, n) /\ Ended(instrs)

Emitted(bs) == {bs[b].id : b \in 1 .. Len(bs)}

BlocksOK(bs, n) ==
    /\ IsSequence(bs)
    /\ \A b \in 1 .. Len(bs) : Closed(bs[b].instrs, n)
    /\ \A b, c \in 1 .. Len(bs) : bs[b].id = bs[c].id => b = c

LEMMA NoTargets ==
    ASSUME NEW instr, ~IsTerminator(instr)
    PROVE  JumpTargets(instr) = {}
BY DEF IsTerminator, JumpTargets

LEMMA BufferGrows ==
    ASSUME NEW n \in Nat, NEW m \in Nat, n <= m, NEW instrs, Buffer(instrs, n)
    PROVE  Buffer(instrs, m)
<1>1. Ids(n) \subseteq Ids(m)
  BY DEF Ids
<1>. QED  BY <1>1 DEF Buffer

LEMMA PlainBuffer ==
    ASSUME NEW n, NEW instrs, Plain(instrs)
    PROVE  Buffer(instrs, n) /\ ~Ended(instrs)
<1>1. Len(instrs) \in Nat /\ (instrs # <<>> => Len(instrs) # 0)
  BY SequenceFacts DEF Plain
<1>2. \A k \in 1 .. Len(instrs) : ~IsTerminator(instrs[k])
  BY DEF Plain
<1>3. ~Ended(instrs)
  BY <1>1, <1>2 DEF Ended
<1>4. \A k \in 1 .. Len(instrs) - 1 : k \in 1 .. Len(instrs)
  BY <1>1
<1>. QED  BY <1>2, <1>3, <1>4, NoTargets DEF Buffer, Plain

LEMMA NotEnded ==
    ASSUME NEW n, NEW instrs, Buffer(instrs, n), ~Ended(instrs)
    PROVE  Plain(instrs)
<1>1. Len(instrs) \in Nat /\ (instrs = <<>> => Len(instrs) = 0)
  BY SequenceFacts DEF Buffer
<1>2. \A k \in 1 .. Len(instrs) : ~IsTerminator(instrs[k])
  BY <1>1 DEF Buffer, Ended
<1>. QED  BY <1>2 DEF Plain, Buffer

\* Instructions behind plain ones
LEMMA Behind ==
    ASSUME NEW b, NEW i, Plain(b), IsSequence(i)
    PROVE  /\ IsSequence(b \o i)
           /\ \A k \in 1 .. Len(b \o i) :
                 \/ ~IsTerminator((b \o i)[k])
                 \/ k - Len(b) \in 1 .. Len(i) /\ (b \o i)[k] = i[k - Len(b)]
           /\ Len(b) \in Nat /\ Len(i) \in Nat /\ Len(b \o i) = Len(b) + Len(i)
<1>. DEFINE r == b \o i
<1>1. IsSequence(b) /\ Len(b) \in Nat /\ Len(i) \in Nat
  BY SequenceFacts DEF Plain
<1>2. /\ IsSequence(r)
      /\ Len(r) = Len(b) + Len(i)
      /\ \A k \in 1 .. Len(b) : r[k] = b[k]
      /\ \A k \in 1 .. Len(i) : r[Len(b) + k] = i[k]
  BY ONLY <1>1, IsSequence(i), ConcatFacts DEF r
<1>. HIDE DEF r
<1>3. ASSUME NEW k \in 1 .. Len(r)
      PROVE  \/ ~IsTerminator(r[k])
             \/ k - Len(b) \in 1 .. Len(i) /\ r[k] = i[k - Len(b)]
  <2>1. CASE k <= Len(b)
    BY <2>1, <1>1, <1>2 DEF Plain
  <2>2. CASE k > Len(b)
    <3>1. k - Len(b) \in 1 .. Len(i) /\ Len(b) + (k - Len(b)) = k
      BY <2>2, <1>1, <1>2
    <3>. QED  BY <3>1, <1>2
  <2>. QED  BY <2>1, <2>2, <1>1, <1>2
<1>. QED  BY <1>1, <1>2, <1>3 DEF r

LEMMA EmitPlain ==
    ASSUME NEW b, NEW i, Plain(b), Plain(i)
    PROVE  Plain(b \o i)
BY Behind DEF Plain

LEMMA EmitClosed ==
    ASSUME NEW b, NEW i, NEW n, Plain(b), Closed(i, n)
    PROVE  Closed(b \o i, n)
<1>. DEFINE r == b \o i
<1>1. IsSequence(i) /\ i # <<>> /\ IsTerminator(i[Len(i)])
  BY DEF Closed, Buffer, Ended
<1>2. /\ IsSequence(r)
      /\ \A k \in 1 .. Len(r) :
            \/ ~IsTerminator(r[k])
            \/ k - Len(b) \in 1 .. Len(i) /\ r[k] = i[k - Len(b)]
      /\ Len(b) \in Nat /\ Len(i) \in Nat /\ Len(r) = Len(b) + Len(i)
  BY ONLY <1>1, Plain(b), Behind DEF r
<1>3. Len(i) # 0
  BY <1>1, SequenceFacts
<1>4. r[Len(r)] = i[Len(i)]
  <2>1. r[Len(b) + Len(i)] = i[Len(i)]
    BY <1>1, <1>2, <1>3, ConcatFacts DEF Plain
  <2>. QED  BY <2>1, <1>2
<1>. HIDE DEF r
<1>5. /\ \A k \in 1 .. Len(i) - 1 : ~IsTerminator(i[k])
      /\ \A k \in 1 .. Len(i) : JumpTargets(i[k]) \subseteq Ids(n)
  BY DEF Closed, Buffer
<1>6. \A k \in 1 .. Len(r) - 1 : ~IsTerminator(r[k])
  <2>1. \A k \in 1 .. Len(r) - 1 : k \in 1 .. Len(r) /\ k - Len(b) # Len(i)
    BY <1>2
  <2>2. \A j \in 1 .. Len(i) : j # Len(i) => j \in 1 .. Len(i) - 1
    BY <1>2
  <2>. QED  BY <2>1, <2>2, <1>2, <1>5
<1>7. \A k \in 1 .. Len(r) : JumpTargets(r[k]) \subseteq Ids(n)
  BY <1>2, <1>5, NoTargets
<1>8. r # <<>>
  BY <1>2, <1>3, SequenceFacts
<1>. QED  BY <1>1, <1>2, <1>4, <1>6, <1>7, <1>8 DEF Closed, Buffer, Ended, r

LEMMA Closed1 ==
    ASSUME NEW n, NEW t, IsTerminator(t), JumpTargets(t) \subseteq Ids(n)
    PROVE  Closed(<<t>>, n)
<1>1. <<t>> \in Seq({t}) /\ Len(<<t>>) = 1 /\ <<t>>[1] = t /\ <<t>> # <<>>
  OBVIOUS
<1>2. IsSequence(<<t>>)
  BY <1>1, OfSeq
<1>. QED  BY <1>1, <1>2 DEF Closed, Buffer, Ended

LEMMA Closed2 ==
    ASSUME NEW n, NEW a, ~IsTerminator(a), NEW t, IsTerminator(t), JumpTargets(t) \subseteq Ids(n)
    PROVE  Closed(<<a, t>>, n)
<1>. DEFINE s == <<a, t>>
<1>1. s \in Seq({a, t}) /\ Len(s) = 2 /\ s[1] = a /\ s[2] = t /\ s # <<>>
  OBVIOUS
<1>2. IsSequence(s)
  BY <1>1, OfSeq
<1>3. JumpTargets(a) = {}
  BY NoTargets
<1>. HIDE DEF s
<1>. QED  BY <1>1, <1>2, <1>3 DEF Closed, Buffer, Ended, s

LEMMA Plain1 ==
    ASSUME NEW a, ~IsTerminator(a)
    PROVE  Plain(<<a>>)
<1>1. <<a>> \in Seq({a}) /\ Len(<<a>>) = 1 /\ <<a>>[1] = a
  OBVIOUS
<1>2. IsSequence(<<a>>)
  BY <1>1, OfSeq
<1>. QED  BY <1>1, <1>2 DEF Plain

LEMMA Plain2 ==
    ASSUME NEW a, ~IsTerminator(a), NEW b, ~IsTerminator(b)
    PROVE  Plain(<<a, b>>)
<1>. DEFINE s == <<a, b>>
<1>1. s \in Seq({a, b}) /\ Len(s) = 2 /\ s[1] = a /\ s[2] = b
  OBVIOUS
<1>2. IsSequence(s)
  BY <1>1, OfSeq
<1>. HIDE DEF s
<1>. QED  BY <1>1, <1>2 DEF Plain, s

LEMMA EmptyPlain == Plain(<<>>)
<1>1. <<>> \in Seq({}) /\ Len(<<>>) = 0
  BY EmptySeq
<1>2. IsSequence(<<>>)
  BY <1>1, OfSeq
<1>. QED  BY <1>1, <1>2 DEF Plain

\* Append is \o with one instruction.
LEMMA AppendOne ==
    ASSUME NEW s, IsSequence(s), NEW x
    PROVE  Append(s, x) = s \o <<x>>
<1>1. s \in Seq(Range(s) \cup {x}) /\ x \in Range(s) \cup {x}
  BY SeqMonotonic DEF IsSequence
<1>. QED  BY ONLY <1>1, AppendIsConcat

LEMMA BlocksGrow ==
    ASSUME NEW n \in Nat, NEW m \in Nat, n <= m, NEW bs, BlocksOK(bs, n)
    PROVE  BlocksOK(bs, m)
BY BufferGrows DEF BlocksOK, Closed

LEMMA BlocksAppend ==
    ASSUME NEW n \in Nat, NEW m \in Nat, n <= m, NEW bs, BlocksOK(bs, n),
           NEW c, c \notin Emitted(bs), NEW instrs, Closed(instrs, m)
    PROVE  /\ BlocksOK(Append(bs, [id |-> c, instrs |-> instrs]), m)
           /\ Emitted(Append(bs, [id |-> c, instrs |-> instrs])) = Emitted(bs) \cup {c}
<1>. DEFINE x == [id |-> c, instrs |-> instrs]  r == Append(bs, x)
<1>1. x.id = c /\ x.instrs = instrs
  OBVIOUS
<1>. HIDE DEF x
<1>2. bs \in Seq(Range(bs) \cup {x})
  BY SeqMonotonic DEF BlocksOK, IsSequence
<1>3. /\ r \in Seq(Range(bs) \cup {x}) /\ Len(bs) \in Nat
      /\ Len(r) = Len(bs) + 1
      /\ \A k \in 1 .. Len(bs) : r[k] = bs[k]
      /\ r[Len(bs) + 1] = x
  BY <1>2, AppendProperties, LenProperties
<1>4. IsSequence(r)
  BY <1>3, OfSeq
<1>. HIDE DEF r
<1>5. \A k \in 1 .. Len(r) : (k \in 1 .. Len(bs) /\ r[k] = bs[k]) \/ (k = Len(bs) + 1 /\ r[k] = x)
  BY <1>3
<1>6. Len(bs) + 1 \in 1 .. Len(r) /\ \A k \in 1 .. Len(bs) : k \in 1 .. Len(r)
  BY <1>3
<1>7. Emitted(r) = Emitted(bs) \cup {c}
  BY <1>1, <1>3, <1>5, <1>6 DEF Emitted
<1>8. BlocksOK(bs, m)
  BY BlocksGrow
<1>9. \A b \in 1 .. Len(r) : Closed(r[b].instrs, m)
  BY <1>1, <1>5, <1>8 DEF BlocksOK
<1>10. \A k \in 1 .. Len(bs) : bs[k].id # c
  BY DEF Emitted
<1>11. \A b, k \in 1 .. Len(r) : r[b].id = r[k].id => b = k
  BY <1>1, <1>5, <1>8, <1>10 DEF BlocksOK
<1>. QED  BY <1>4, <1>7, <1>9, <1>11 DEF BlocksOK, r, x

-----------------------------------------------------------------------------
(* The inductive invariant *)
Targeted ==
    /\ block_count \in Nat
    /\ break_target_id \in Ids(block_count) /\ continue_target_id \in Ids(block_count)

Written == Buffer(ibuf, block_count) /\ BlocksOK(blocks, block_count)

Waiting ==
    work # <<>> =>
        /\ Stack(work, block_count)
        /\ Owned(work, Emitted(blocks), current_block_id, block_count)
        /\ Ended(ibuf) => Lenient(work[1])

Complete == work = <<>> => Emitted(blocks) = Ids(block_count)

LowererInv == Targeted /\ Written /\ Waiting /\ Complete

\* What is pushed last may be followed by what follows the item it replaces.
EndsLike(items, it) ==
    \/ items = <<>>
    \/ items[Len(items)].do \notin {"stmt", "ret"}
    \/ it.do \in {"stmt", "ret"}

\* A step that begins and ends no block
LEMMA QuietStep ==
    ASSUME LowererInv, work # <<>>, work[1].do # "end",
           NEW items, Pushed(items, block_count), EndsLike(items, work[1]),
           PushedIds(items) = {}, Pending(work[1]) = {},
           work' = items \o Tail(work),
           Buffer(ibuf', block_count),
           ~Ended(ibuf') \/ (items = <<>> /\ work[1].do \in {"stmt", "ret"}),
           UNCHANGED <<blocks, current_block_id, block_count, targets>>
    PROVE  LowererInv'
<1>. DEFINE n == block_count  E == Emitted(blocks)  c == current_block_id  q == PushedIds(items)
<1>1. /\ n \in Nat /\ n <= n /\ Stack(work, n) /\ Owned(work, E, c, n) /\ BlocksOK(blocks, n)
  BY DEF LowererInv, Targeted, Written, Waiting
<1>2. /\ Stack(items \o Tail(work), n)
      /\ items \o Tail(work) # <<>>
      /\ items = <<>> /\ work[1].do \in {"stmt", "ret"} => Lenient((items \o Tail(work))[1])
  BY <1>1, StackStep DEF EndsLike
<1>3. Owned(items \o Tail(work), E, c, n)
  <2>1. /\ IsSequence(work)
        /\ E \cup {c} \cup q = E \cup {c} \cup Pending(work[1]) \cup (n .. n - 1)
        /\ c \notin E /\ c \notin q /\ E \cap q = {}
    <3>1. n .. n - 1 = {}
      BY <1>1
    <3>. QED  BY <1>1, <3>1 DEF Stack, Owned
  <2>2. Pushed(items, n) /\ work # <<>>
    OBVIOUS
  <2>. HIDE DEF n, E, c, q
  <2>. QED  BY ONLY <1>1, <2>1, <2>2, OwnedStep DEF q
<1>4. Targeted' /\ Written'
  BY <1>1 DEF LowererInv, Targeted, Written, targets
<1>5. Waiting' /\ Complete'
  BY <1>2, <1>3 DEF Waiting, Complete
<1>. QED  BY <1>4, <1>5 DEF LowererInv

\* A step that ends the current block and begins another one
LEMMA BlockStep ==
    ASSUME LowererInv, work # <<>>, work[1].do # "end",
           block_count' \in Nat, block_count <= block_count',
           NEW items, Pushed(items, block_count'), EndsLike(items, work[1]),
           work' = items \o Tail(work),
           NEW instrs, Closed(instrs, block_count'),
           blocks' = Append(blocks, [id |-> current_block_id, instrs |-> instrs]),
           Plain(ibuf'),
           current_block_id' \notin PushedIds(items),
           {current_block_id'} \cup PushedIds(items)
               = Pending(work[1]) \cup (block_count .. block_count' - 1),
           break_target_id' \in Ids(block_count'), continue_target_id' \in Ids(block_count')
    PROVE  LowererInv'
<1>. DEFINE n == block_count  m == block_count'  E == Emitted(blocks)  c == current_block_id
            F == Emitted(blocks')  d == current_block_id'  q == PushedIds(items)
<1>1. /\ n \in Nat /\ m \in Nat /\ n <= m
      /\ Stack(work, n) /\ Owned(work, E, c, n) /\ BlocksOK(blocks, n)
  BY DEF LowererInv, Targeted, Written, Waiting
<1>2. /\ Stack(items \o Tail(work), m)
      /\ items \o Tail(work) # <<>>
  BY <1>1, StackStep DEF EndsLike
<1>3. BlocksOK(blocks', m) /\ F = E \cup {c}
  BY <1>1, BlocksAppend DEF Owned
<1>4. Owned(items \o Tail(work), F, d, m)
  <2>1. c \notin E
    BY <1>1 DEF Owned
  <2>2. (E \cup {c}) \cap (Pending(work[1]) \cup (n .. m - 1)) = {}
    <3>1. IsSequence(work)
      BY <1>1 DEF Stack
    <3>2. 1 \in 1 .. Len(work)
      BY <3>1, SequenceFacts
    <3>3. Pending(work[1]) \subseteq PendingIds(work)
      BY <3>2 DEF PendingIds
    <3>4. Ids(n) \cap (n .. m - 1) = {}
      <4>. HIDE DEF n, m
      <4>. QED  BY ONLY <1>1, IdsGrow
    <3>. QED  BY <1>1, <3>3, <3>4 DEF Owned
  <2>3. /\ IsSequence(work)
        /\ F \cup {d} \cup q = E \cup {c} \cup Pending(work[1]) \cup (n .. m - 1)
        /\ d \notin F /\ d \notin q /\ F \cap q = {}
    BY <1>1, <1>3, <2>2 DEF Stack
  <2>4. Pushed(items, m) /\ work # <<>>
    OBVIOUS
  <2>. HIDE DEF n, m, E, c, F, d, q
  <2>. QED  BY ONLY <1>1, <2>3, <2>4, OwnedStep DEF q
<1>5. Buffer(ibuf', m) /\ ~Ended(ibuf')
  BY PlainBuffer
<1>6. Targeted' /\ Written'
  BY <1>1, <1>3, <1>5 DEF Targeted, Written
<1>7. Waiting' /\ Complete'
  BY <1>2, <1>4, <1>5 DEF Waiting, Complete
<1>. QED  BY <1>6, <1>7 DEF LowererInv

-----------------------------------------------------------------------------
(* What the handlers push *)
LEMMA NothingPushed ==
    ASSUME NEW n, NEW top
    PROVE  Pushed(<<>>, n) /\ PushedIds(<<>>) = {} /\ EndsLike(<<>>, top)
BY Push0 DEF EndsLike

LEMMA ExprThen ==
    ASSUME NEW n, NEW e \in Exprs, NEW it, ItemOK(it, n), it.do \notin {"end", "stmt", "ret"}, NEW top
    PROVE  /\ Pushed(<<LowerExpr(e), it>>, n)
           /\ PushedIds(<<LowerExpr(e), it>>) = Pending(it)
           /\ EndsLike(<<LowerExpr(e), it>>, top)
<1>. DEFINE a == LowerExpr(e)
<1>1. a.do = "expr" /\ a.expr = e
  BY DEF LowerExpr
<1>. HIDE DEF a
<1>2. ItemOK(a, n) /\ Pending(a) = {} /\ a.do # "end" /\ a.do \notin {"stmt", "ret"}
  BY <1>1 DEF ItemOK, Pending
<1>3. /\ Pushed(<<a, it>>, n) /\ PushedIds(<<a, it>>) = Pending(it)
      /\ <<a, it>>[Len(<<a, it>>)] = it
  BY <1>2, Push2
<1>. QED  BY <1>3 DEF a, EndsLike

LEMMA StmtThen ==
    ASSUME NEW n, NEW s \in Stmts, NEW it, ItemOK(it, n), it.do \notin {"end", "stmt", "ret"},
           Lenient(it), NEW top
    PROVE  /\ Pushed(<<LowerStmt(s), it>>, n)
           /\ PushedIds(<<LowerStmt(s), it>>) = Pending(it)
           /\ EndsLike(<<LowerStmt(s), it>>, top)
<1>. DEFINE a == LowerStmt(s)
<1>1. a.do = "stmt" /\ a.stmt = s
  BY DEF LowerStmt
<1>. HIDE DEF a
<1>2. ItemOK(a, n) /\ Pending(a) = {} /\ a.do # "end"
  BY <1>1 DEF ItemOK, Pending
<1>3. /\ Pushed(<<a, it>>, n) /\ PushedIds(<<a, it>>) = Pending(it)
      /\ <<a, it>>[Len(<<a, it>>)] = it
  BY <1>2, Push2
<1>. QED  BY <1>3 DEF a, EndsLike

\* The rest of a handler that needs neither a block nor a tree
LEMMA Rest ==
    ASSUME NEW n, NEW it, it.do \in {"ignore", "store", "assign", "unary", "bin", "cassign_op", "ret"}
    PROVE  ItemOK(it, n) /\ Pending(it) = {} /\ it.do \notin {"end", "stmt"}
BY DEF ItemOK, Pending

(* The item at the top *)
LEMMA Top ==
    ASSUME LowererInv, work # <<>>
    PROVE  /\ Item = work[1] /\ ItemOK(work[1], block_count)
           /\ HasTerminator <=> Ended(ibuf)
           /\ Ended(ibuf) => Lenient(work[1])
           /\ Plain(ibuf) \/ Ended(ibuf)
           /\ Stack(work, block_count)
<1>1. Stack(work, block_count) /\ Buffer(ibuf, block_count) /\ (Ended(ibuf) => Lenient(work[1]))
  BY DEF LowererInv, Waiting, Written
<1>2. Head(work) = work[1] /\ 1 \in 1 .. Len(work)
  BY <1>1, TailFacts DEF Stack
<1>3. Plain(ibuf) \/ Ended(ibuf)
  BY <1>1, NotEnded
<1>. QED  BY <1>1, <1>2, <1>3 DEF Stack, Item, HasTerminator, Ended, Last

LEMMA TopStmt ==
    ASSUME LowererInv, NEW kind, AtStmt(kind)
    PROVE  /\ work # <<>> /\ Item = work[1] /\ work[1].do = "stmt"
           /\ work[1].stmt \in Stmts /\ work[1].stmt.kind = kind
           /\ Plain(ibuf) /\ Pending(work[1]) = {}
BY Top DEF AtStmt, Resuming, ItemOK, Pending

LEMMA TopExpr ==
    ASSUME LowererInv, NEW kind, AtExpr(kind)
    PROVE  /\ work # <<>> /\ Item = work[1] /\ work[1].do = "expr"
           /\ work[1].expr \in Exprs /\ work[1].expr.kind = kind
           /\ Plain(ibuf) /\ Pending(work[1]) = {}
BY Top DEF AtExpr, Resuming, ItemOK, Pending, Lenient

LEMMA TopRest ==
    ASSUME LowererInv, NEW step, Resuming(step)
    PROVE  /\ work # <<>> /\ Item = work[1] /\ work[1].do = step
           /\ ItemOK(work[1], block_count)
           /\ step \notin {"stmt", "if_then", "if_else", "while_end", "end"} => Plain(ibuf)
           /\ step \notin {"if_then", "while_cond", "while_end", "if_else", "cassign_rhs", "logical_rhs"}
                 => Pending(work[1]) = {}
BY Top DEF Resuming, Pending, Lenient

LEMMA PlainStep ==
    ASSUME LowererInv, work # <<>>, work[1].do # "end", Pending(work[1]) = {},
           NEW items, Pushed(items, block_count), EndsLike(items, work[1]), PushedIds(items) = {},
           work' = items \o Tail(work), Plain(ibuf'),
           UNCHANGED <<blocks, current_block_id, block_count, targets>>
    PROVE  LowererInv'
<1>1. Buffer(ibuf', block_count) /\ ~Ended(ibuf')
  BY PlainBuffer
<1>. QED  BY <1>1, QuietStep

LEMMA Emits ==
    ASSUME LowererInv, Plain(ibuf), NEW instrs, Plain(instrs), Emit(instrs)
    PROVE  Plain(ibuf') /\ UNCHANGED <<blocks, current_block_id>>
BY EmitPlain DEF Emit

-----------------------------------------------------------------------------
(* The handlers that stay in their block *)

\* A statement or an expression is done, or the rest of its handler.
LEMMA PopStep ==
    ASSUME LowererInv, work # <<>>, work[1].do # "end", Pending(work[1]) = {},
           Then(<<>>), Plain(ibuf'),
           UNCHANGED <<blocks, current_block_id, block_count, targets>>
    PROVE  LowererInv'
BY NothingPushed, PlainStep DEF Then

LEMMA DeadStmtStep ==
    ASSUME LowererInv, DeadStmt
    PROVE  LowererInv'
<1>1. /\ work # <<>> /\ work[1].do = "stmt" /\ Pending(work[1]) = {}
      /\ Buffer(ibuf, block_count)
  BY TopRest DEF DeadStmt, LowererInv, Written
<1>2. work' = <<>> \o Tail(work) /\ UNCHANGED <<ibuf, blocks, current_block_id, block_count, targets>>
  BY DEF DeadStmt, Then, emitted, Quiet
<1>. QED  BY <1>1, <1>2, NothingPushed, QuietStep

LEMMA PopSteps ==
    ASSUME LowererInv, StoreValue \/ IgnoreValue \/ CassignOp \/ LowerConst \/ LowerSymbol
                       \/ EmitUnary \/ EmitBin \/ EmitCall
    PROVE  LowererInv'
<1>1. CASE StoreValue
  <2>1. /\ work # <<>> /\ work[1].do # "end" /\ Pending(work[1]) = {} /\ Plain(ibuf)
    BY <1>1, TopRest DEF StoreValue
  <2>. DEFINE i == StoreTo(IF Item.do = "store" THEN Item.ptr ELSE Place(Item.target), Head(vals))
  <2>2. i.op = "store"
    BY DEF StoreTo
  <2>3. Emit(<<i>>) /\ Then(<<>>) /\ UNCHANGED <<block_count, targets>>
    BY <1>1 DEF StoreValue, Quiet
  <2>. HIDE DEF i
  <2>4. Plain(ibuf') /\ UNCHANGED <<blocks, current_block_id>>
    BY <2>1, <2>2, <2>3, Plain1, Emits DEF IsTerminator
  <2>. QED  BY <2>1, <2>3, <2>4, PopStep
<1>2. CASE IgnoreValue
  <2>1. /\ work # <<>> /\ work[1].do # "end" /\ Pending(work[1]) = {} /\ Plain(ibuf)
    BY <1>2, TopRest DEF IgnoreValue
  <2>2. Then(<<>>) /\ UNCHANGED <<ibuf, blocks, current_block_id, block_count, targets>>
    BY <1>2 DEF IgnoreValue, Quiet, emitted
  <2>. QED  BY <2>1, <2>2, PopStep
<1>3. CASE CassignOp
  <2>1. /\ work # <<>> /\ work[1].do # "end" /\ Pending(work[1]) = {} /\ Plain(ibuf)
    BY <1>3, TopRest DEF CassignOp
  <2>. DEFINE i == Bin(Reg(reg_count), Item.op, Item.current, Head(vals))
              j == StoreTo(Item.ptr, Reg(reg_count))
  <2>2. i.op = "bin" /\ j.op = "store"
    BY DEF Bin, StoreTo
  <2>3. Emit(<<i, j>>) /\ Then(<<>>) /\ UNCHANGED <<block_count, targets>>
    BY <1>3 DEF CassignOp, Quiet
  <2>. HIDE DEF i, j
  <2>4. Plain(ibuf') /\ UNCHANGED <<blocks, current_block_id>>
    BY <2>1, <2>2, <2>3, Plain2, Emits DEF IsTerminator
  <2>. QED  BY <2>1, <2>3, <2>4, PopStep
<1>4. CASE LowerConst
  <2>1. /\ work # <<>> /\ work[1].do # "end" /\ Pending(work[1]) = {} /\ Plain(ibuf)
    BY <1>4, TopExpr DEF LowerConst
  <2>2. Then(<<>>) /\ UNCHANGED <<ibuf, blocks, current_block_id, block_count, targets>>
    BY <1>4 DEF LowerConst, Quiet, emitted
  <2>. QED  BY <2>1, <2>2, PopStep
<1>5. CASE LowerSymbol
  <2>1. /\ work # <<>> /\ work[1].do # "end" /\ Pending(work[1]) = {} /\ Plain(ibuf)
    BY <1>5, TopExpr DEF LowerSymbol
  <2>. DEFINE i == Load(Reg(reg_count), Place(Item.expr.sym))
  <2>2. i.op = "load"
    BY DEF Load
  <2>3. Emit(<<i>>) /\ Then(<<>>) /\ UNCHANGED <<block_count, targets>>
    BY <1>5 DEF LowerSymbol, Quiet
  <2>. HIDE DEF i
  <2>4. Plain(ibuf') /\ UNCHANGED <<blocks, current_block_id>>
    BY <2>1, <2>2, <2>3, Plain1, Emits DEF IsTerminator
  <2>. QED  BY <2>1, <2>3, <2>4, PopStep
<1>6. CASE EmitUnary
  <2>1. /\ work # <<>> /\ work[1].do # "end" /\ Pending(work[1]) = {} /\ Plain(ibuf)
    BY <1>6, TopRest DEF EmitUnary
  <2>. DEFINE i == Unary(Reg(reg_count), Head(vals))
  <2>2. i.op = "unary"
    BY DEF Unary
  <2>3. Emit(<<i>>) /\ Then(<<>>) /\ UNCHANGED <<block_count, targets>>
    BY <1>6 DEF EmitUnary, Quiet
  <2>. HIDE DEF i
  <2>4. Plain(ibuf') /\ UNCHANGED <<blocks, current_block_id>>
    BY <2>1, <2>2, <2>3, Plain1, Emits DEF IsTerminator
  <2>. QED  BY <2>1, <2>3, <2>4, PopStep
<1>7. CASE EmitBin
  <2>1. /\ work # <<>> /\ work[1].do # "end" /\ Pending(work[1]) = {} /\ Plain(ibuf)
    BY <1>7, TopRest DEF EmitBin
  <2>. DEFINE i == Bin(Reg(reg_count), Item.op, vals[2], vals[1])
  <2>2. i.op = "bin"
    BY DEF Bin
  <2>3. Emit(<<i>>) /\ Then(<<>>) /\ UNCHANGED <<block_count, targets>>
    BY <1>7 DEF EmitBin, Quiet
  <2>. HIDE DEF i
  <2>4. Plain(ibuf') /\ UNCHANGED <<blocks, current_block_id>>
    BY <2>1, <2>2, <2>3, Plain1, Emits DEF IsTerminator
  <2>. QED  BY <2>1, <2>3, <2>4, PopStep
<1>8. CASE EmitCall
  <2>1. /\ work # <<>> /\ work[1].do # "end" /\ Pending(work[1]) = {} /\ Plain(ibuf)
    BY <1>8, TopRest DEF EmitCall
  <2>2. PICK result, args : Emit(<<Call(result, Item.expr.callee, args)>>)
    BY <1>8 DEF EmitCall
  <2>. DEFINE i == Call(result, Item.expr.callee, args)
  <2>3. i.op = "call"
    BY DEF Call
  <2>4. Emit(<<i>>) /\ Then(<<>>) /\ UNCHANGED <<block_count, targets>>
    BY <1>8, <2>2 DEF EmitCall, Quiet
  <2>. HIDE DEF i
  <2>5. Plain(ibuf') /\ UNCHANGED <<blocks, current_block_id>>
    BY <2>1, <2>3, <2>4, Plain1, Emits DEF IsTerminator
  <2>. QED  BY <2>1, <2>4, <2>5, PopStep
<1>. QED  BY <1>1, <1>2, <1>3, <1>4, <1>5, <1>6, <1>7, <1>8

\* The handler first lowers an expression.
LEMMA ExprStep ==
    ASSUME LowererInv, work # <<>>, work[1].do # "end", Pending(work[1]) = {},
           NEW e \in Exprs, NEW it, ItemOK(it, block_count), it.do \notin {"end", "stmt", "ret"},
           Pending(it) = {}, Then(<<LowerExpr(e), it>>), Plain(ibuf'),
           UNCHANGED <<blocks, current_block_id, block_count, targets>>
    PROVE  LowererInv'
<1>. DEFINE items == <<LowerExpr(e), it>>
<1>1. /\ Pushed(items, block_count) /\ PushedIds(items) = {} /\ EndsLike(items, work[1])
  BY ExprThen
<1>2. work' = items \o Tail(work)
  BY DEF Then
<1>. HIDE DEF items
<1>. QED  BY <1>1, <1>2, PlainStep

LEMMA StmtPushSteps ==
    ASSUME LowererInv, LowerDecl \/ LowerExprStmt \/ LowerAssign \/ LowerIf \/ CassignPlain
    PROVE  LowererInv'
<1>1. CASE LowerDecl
  <2>1. /\ work # <<>> /\ work[1].do # "end" /\ Pending(work[1]) = {} /\ Plain(ibuf)
        /\ Item = work[1] /\ work[1].stmt \in Stmts /\ work[1].stmt.kind = "decl"
    BY <1>1, TopStmt DEF LowerDecl
  <2>. DEFINE i == Alloca(Reg(reg_count))  s == [do |-> "store", ptr |-> Reg(reg_count)]
              e == work[1].stmt.init
  <2>2. i.op = "alloca" /\ s.do = "store"
    BY DEF Alloca
  <2>3. e \in Exprs \/ e = None
    BY <2>1, TreeAssumption DEF HoldParts
  <2>4. /\ Emit(<<i>>) /\ UNCHANGED <<block_count, targets>>
        /\ Then(IF e = None THEN <<>> ELSE <<LowerExpr(e), s>>)
    BY <1>1, <2>1 DEF LowerDecl
  <2>. HIDE DEF i, s, e
  <2>5. Plain(ibuf') /\ UNCHANGED <<blocks, current_block_id>>
    BY <2>1, <2>2, <2>4, Plain1, Emits DEF IsTerminator
  <2>6. CASE e = None
    <3>1. Then(<<>>)
      BY <2>4, <2>6
    <3>. QED  BY <2>1, <2>4, <2>5, <3>1, PopStep
  <2>7. CASE e # None
    <3>1. Then(<<LowerExpr(e), s>>) /\ e \in Exprs
      BY <2>3, <2>4, <2>7
    <3>2. ItemOK(s, block_count) /\ Pending(s) = {} /\ s.do \notin {"end", "stmt", "ret"}
      BY <2>2, Rest
    <3>. QED  BY <2>1, <2>4, <2>5, <3>1, <3>2, ExprStep
  <2>. QED  BY <2>6, <2>7
<1>2. CASE LowerExprStmt
  <2>1. /\ work # <<>> /\ work[1].do # "end" /\ Pending(work[1]) = {} /\ Plain(ibuf)
        /\ Item = work[1] /\ work[1].stmt \in Stmts /\ work[1].stmt.kind = "expr"
    BY <1>2, TopStmt DEF LowerExprStmt
  <2>. DEFINE s == [do |-> "ignore"]  e == work[1].stmt.expr
  <2>2. e \in Exprs
    BY <2>1, TreeAssumption DEF HoldParts
  <2>3. /\ Then(<<LowerExpr(e), s>>)
        /\ UNCHANGED <<ibuf, blocks, current_block_id, block_count, targets>>
    BY <1>2, <2>1 DEF LowerExprStmt, Quiet, emitted
  <2>4. s.do = "ignore"
    OBVIOUS
  <2>. HIDE DEF s, e
  <2>5. ItemOK(s, block_count) /\ Pending(s) = {} /\ s.do \notin {"end", "stmt", "ret"}
    BY <2>4, Rest
  <2>. QED  BY <2>1, <2>2, <2>3, <2>5, ExprStep
<1>3. CASE LowerAssign
  <2>1. /\ work # <<>> /\ work[1].do # "end" /\ Pending(work[1]) = {} /\ Plain(ibuf)
        /\ Item = work[1] /\ work[1].stmt \in Stmts /\ work[1].stmt.kind = "assign"
    BY <1>3, TopStmt DEF LowerAssign
  <2>. DEFINE s == [do |-> "assign", target |-> work[1].stmt.target]  e == work[1].stmt.value
  <2>2. e \in Exprs
    BY <2>1, TreeAssumption DEF HoldParts
  <2>3. /\ Then(<<LowerExpr(e), s>>)
        /\ UNCHANGED <<ibuf, blocks, current_block_id, block_count, targets>>
    BY <1>3, <2>1 DEF LowerAssign, Quiet, emitted
  <2>4. s.do = "assign"
    OBVIOUS
  <2>. HIDE DEF s, e
  <2>5. ItemOK(s, block_count) /\ Pending(s) = {} /\ s.do \notin {"end", "stmt", "ret"}
    BY <2>4, Rest
  <2>. QED  BY <2>1, <2>2, <2>3, <2>5, ExprStep
<1>4. CASE LowerIf
  <2>1. /\ work # <<>> /\ work[1].do # "end" /\ Pending(work[1]) = {} /\ Plain(ibuf)
        /\ Item = work[1] /\ work[1].stmt \in Stmts /\ work[1].stmt.kind = "if"
    BY <1>4, TopStmt DEF LowerIf
  <2>. DEFINE s == [do |-> "if_cond", stmt |-> work[1].stmt]  e == work[1].stmt.cond
  <2>2. e \in Exprs
    BY <2>1, TreeAssumption DEF HoldParts
  <2>3. /\ Then(<<LowerExpr(e), s>>)
        /\ UNCHANGED <<ibuf, blocks, current_block_id, block_count, targets>>
    BY <1>4, <2>1 DEF LowerIf, Quiet, emitted
  <2>4. s.do = "if_cond" /\ s.stmt = work[1].stmt
    OBVIOUS
  <2>. HIDE DEF s, e
  <2>5. ItemOK(s, block_count) /\ Pending(s) = {} /\ s.do \notin {"end", "stmt", "ret"}
    BY <2>1, <2>4 DEF ItemOK, Pending
  <2>. QED  BY <2>1, <2>2, <2>3, <2>5, ExprStep
<1>5. CASE CassignPlain
  <2>1. /\ work # <<>> /\ work[1].do # "end" /\ Pending(work[1]) = {} /\ Plain(ibuf)
        /\ Item = work[1] /\ work[1].stmt \in Stmts /\ work[1].stmt.kind = "cassign"
    BY <1>5, TopStmt DEF CassignPlain
  <2>. DEFINE i == Load(Reg(reg_count), Place(work[1].stmt.target))
              s == [do |-> "cassign_op", op |-> work[1].stmt.op, ptr |-> Place(work[1].stmt.target),
                    current |-> Reg(reg_count)]
              e == work[1].stmt.value
  <2>2. i.op = "load" /\ s.do = "cassign_op"
    BY DEF Load
  <2>3. e \in Exprs
    BY <2>1, TreeAssumption DEF HoldParts
  <2>4. /\ Emit(<<i>>) /\ UNCHANGED <<block_count, targets>>
        /\ Then(<<LowerExpr(e), s>>)
    BY <1>5, <2>1 DEF CassignPlain, Quiet
  <2>. HIDE DEF i, s, e
  <2>5. Plain(ibuf') /\ UNCHANGED <<blocks, current_block_id>>
    BY <2>1, <2>2, <2>4, Plain1, Emits DEF IsTerminator
  <2>6. ItemOK(s, block_count) /\ Pending(s) = {} /\ s.do \notin {"end", "stmt", "ret"}
    BY <2>2, Rest
  <2>. QED  BY <2>1, <2>3, <2>4, <2>5, <2>6, ExprStep
<1>. QED  BY <1>1, <1>2, <1>3, <1>4, <1>5

\* A statement that ends its block with a jump or a return
LEMMA TerminatorStep ==
    ASSUME LowererInv, work # <<>>, work[1].do \in {"stmt", "ret"}, Pending(work[1]) = {},
           Plain(ibuf), NEW t, IsTerminator(t), JumpTargets(t) \subseteq Ids(block_count),
           Emit(<<t>>), Then(<<>>), UNCHANGED <<block_count, targets>>
    PROVE  LowererInv'
<1>1. Closed(ibuf \o <<t>>, block_count)
  BY Closed1, EmitClosed
<1>2. Buffer(ibuf', block_count) /\ UNCHANGED <<blocks, current_block_id>>
  BY <1>1 DEF Emit, Closed
<1>3. work' = <<>> \o Tail(work)
  BY DEF Then
<1>. QED  BY <1>2, <1>3, NothingPushed, QuietStep

LEMMA BreakStep ==
    ASSUME LowererInv, LowerBreak
    PROVE  LowererInv'
<1>1. /\ work # <<>> /\ work[1].do = "stmt" /\ Pending(work[1]) = {} /\ Plain(ibuf)
  BY TopStmt DEF LowerBreak
<1>2. PICK id \in Ids(block_count) : Emit(<<Jmp(id)>>)
  BY DEF LowerBreak, LowererInv, Targeted
<1>. DEFINE t == Jmp(id)
<1>3. t.op = "jmp" /\ t.target_id = id
  BY DEF Jmp
<1>4. Emit(<<t>>) /\ Then(<<>>) /\ UNCHANGED <<block_count, targets>>
  BY <1>2 DEF LowerBreak, Quiet
<1>. HIDE DEF t
<1>5. IsTerminator(t) /\ JumpTargets(t) \subseteq Ids(block_count)
  BY <1>2, <1>3 DEF IsTerminator, JumpTargets
<1>. QED  BY <1>1, <1>4, <1>5, TerminatorStep

LEMMA EmitReturnStep ==
    ASSUME LowererInv, EmitReturn
    PROVE  LowererInv'
<1>1. /\ work # <<>> /\ work[1].do = "ret" /\ Pending(work[1]) = {} /\ Plain(ibuf)
  BY TopRest DEF EmitReturn
<1>. DEFINE t == Ret(IF Item.bare THEN None ELSE Head(vals))
<1>2. t.op = "ret"
  BY DEF Ret
<1>3. Emit(<<t>>) /\ Then(<<>>) /\ UNCHANGED <<block_count, targets>>
  BY DEF EmitReturn, Quiet
<1>. HIDE DEF t
<1>4. IsTerminator(t) /\ JumpTargets(t) \subseteq Ids(block_count)
  BY <1>2 DEF IsTerminator, JumpTargets
<1>. QED  BY <1>1, <1>3, <1>4, TerminatorStep

LEMMA MappedSequence ==
    ASSUME NEW n \in Nat, NEW f, f = [k \in 1 .. n |-> f[k]]
    PROVE  IsSequence(f) /\ Len(f) = n
<1>1. f \in [1 .. n -> Range(f)]
  BY DEF Range
<1>2. f \in Seq(Range(f))
  BY <1>1, SeqDef
<1>3. DOMAIN f = 1 .. n
  BY <1>1
<1>4. Len(f) = n
  BY <1>2, <1>3, LenProperties
<1>. QED  BY <1>2, <1>4 DEF IsSequence

LEMMA StmtSequence ==
    ASSUME NEW ss \in Seq(Stmts), NEW n
    PROVE  LET items == [k \in 1 .. Len(ss) |-> LowerStmt(ss[k])]
           IN  /\ IsSequence(items) /\ Len(items) = Len(ss) /\ Len(ss) \in Nat
               /\ \A k \in 1 .. Len(ss) :
                     ItemOK(items[k], n) /\ Pending(items[k]) = {} /\ items[k].do = "stmt"
<1>. DEFINE f == [k \in 1 .. Len(ss) |-> LowerStmt(ss[k])]
<1>1. Len(ss) \in Nat /\ \A k \in 1 .. Len(ss) : ss[k] \in Stmts
  BY LenProperties, ElementOfSeq
<1>2. IsSequence(f) /\ Len(f) = Len(ss)
  <2>1. f = [k \in 1 .. Len(ss) |-> f[k]]
    OBVIOUS
  <2>. HIDE DEF f
  <2>. QED  BY <1>1, <2>1, MappedSequence
<1>3. ASSUME NEW k \in 1 .. Len(ss)
      PROVE  ItemOK(f[k], n) /\ Pending(f[k]) = {} /\ f[k].do = "stmt"
  <2>. DEFINE a == f[k]
  <2>1. a.do = "stmt" /\ a.stmt = ss[k]
    BY DEF LowerStmt
  <2>. HIDE DEF a
  <2>2. ItemOK(a, n) /\ Pending(a) = {} /\ a.do = "stmt"
    BY <1>1, <2>1 DEF ItemOK, Pending
  <2>. QED  BY <2>2 DEF a
<1>. QED  BY <1>1, <1>2, <1>3

LEMMA BlockPushStep ==
    ASSUME LowererInv, LowerBlock
    PROVE  LowererInv'
<1>. DEFINE ss == work[1].stmt.stmts  items == [k \in 1 .. Len(ss) |-> LowerStmt(ss[k])]
            n == block_count
<1>1. /\ work # <<>> /\ work[1].do = "stmt" /\ Pending(work[1]) = {} /\ Plain(ibuf)
      /\ Item = work[1] /\ work[1].stmt \in Stmts /\ work[1].stmt.kind = "block"
  BY TopStmt DEF LowerBlock
<1>2. ss \in Seq(Stmts)
  BY <1>1, TreeAssumption DEF HoldParts
<1>3. /\ work' = items \o Tail(work)
      /\ UNCHANGED <<ibuf, blocks, current_block_id, block_count, targets>>
  BY <1>1 DEF LowerBlock, Then, Quiet, emitted
<1>. HIDE DEF ss
<1>4. /\ IsSequence(items) /\ Len(items) = Len(ss) /\ Len(ss) \in Nat
      /\ \A k \in 1 .. Len(ss) :
            ItemOK(items[k], n) /\ Pending(items[k]) = {} /\ items[k].do = "stmt"
  BY <1>2, StmtSequence
<1>. HIDE DEF items
<1>5. Pushed(items, n)
  <2>1. \A k \in 1 .. Len(items) - 1 : k \in 1 .. Len(items) /\ k + 1 \in 1 .. Len(items)
    BY <1>4
  <2>. QED  BY <1>4, <2>1 DEF Pushed, Lenient
<1>6. PushedIds(items) = {}
  <2>1. items # <<>> => Len(items) \in 1 .. Len(ss)
    BY <1>4, SequenceFacts
  <2>. QED  BY <1>4, <2>1 DEF PushedIds
<1>7. EndsLike(items, work[1])
  BY <1>1 DEF EndsLike
<1>. QED  BY <1>1, <1>3, <1>5, <1>6, <1>7, PlainStep

LEMMA ReturnPushStep ==
    ASSUME LowererInv, LowerReturn
    PROVE  LowererInv'
<1>. DEFINE e == work[1].stmt.value  s == [do |-> "ret", bare |-> e = None]
<1>1. /\ work # <<>> /\ work[1].do = "stmt" /\ Pending(work[1]) = {} /\ Plain(ibuf)
      /\ Item = work[1] /\ work[1].stmt \in Stmts /\ work[1].stmt.kind = "return"
  BY TopStmt DEF LowerReturn
<1>2. e \in Exprs \/ e = None
  BY <1>1, TreeAssumption DEF HoldParts
<1>3. /\ Then((IF e # None THEN <<LowerExpr(e)>> ELSE <<>>) \o <<s>>)
      /\ UNCHANGED <<ibuf, blocks, current_block_id, block_count, targets>>
  BY <1>1 DEF LowerReturn, Quiet, emitted
<1>4. s.do = "ret"
  OBVIOUS
<1>. HIDE DEF e, s
<1>5. ItemOK(s, block_count) /\ Pending(s) = {} /\ s.do # "end"
  BY <1>4, Rest
<1>6. PICK items : /\ Then(items) /\ Pushed(items, block_count) /\ PushedIds(items) = {}
  <2>1. CASE e = None
    <3>1. <<>> \o <<s>> = <<s>>
      OBVIOUS
    <3>2. Then(<<s>>)
      BY <1>3, <2>1, <3>1
    <3>. QED  BY <1>5, <3>2, Push1
  <2>2. CASE e # None
    <3>. DEFINE a == LowerExpr(e)
    <3>1. <<a>> \o <<s>> = <<a, s>>
      BY PairIsConcat
    <3>2. Then(<<a, s>>)
      BY <1>3, <2>2, <3>1
    <3>3. a.do = "expr" /\ a.expr = e
      BY DEF LowerExpr
    <3>. HIDE DEF a
    <3>4. ItemOK(a, block_count) /\ Pending(a) = {} /\ a.do # "end" /\ a.do \notin {"stmt", "ret"}
      BY <1>2, <2>2, <3>3 DEF ItemOK, Pending
    <3>. QED  BY <1>5, <3>2, <3>4, Push2
  <2>. QED  BY <2>1, <2>2
<1>7. EndsLike(items, work[1]) /\ work' = items \o Tail(work)
  BY <1>1, <1>6 DEF EndsLike, Then
<1>. QED  BY <1>1, <1>3, <1>6, <1>7, PlainStep

LEMMA ExprPushSteps ==
    ASSUME LowererInv, LowerUnary \/ LowerBin \/ LowerLogical
    PROVE  LowererInv'
<1>1. CASE LowerUnary
  <2>1. /\ work # <<>> /\ work[1].do # "end" /\ Pending(work[1]) = {} /\ Plain(ibuf)
        /\ Item = work[1] /\ work[1].expr \in Exprs /\ work[1].expr.kind = "unary"
    BY <1>1, TopExpr DEF LowerUnary
  <2>. DEFINE s == [do |-> "unary"]  e == work[1].expr.operand
  <2>2. e \in Exprs
    BY <2>1, TreeAssumption DEF HoldParts
  <2>3. /\ Then(<<LowerExpr(e), s>>)
        /\ UNCHANGED <<ibuf, blocks, current_block_id, block_count, targets>>
    BY <1>1, <2>1 DEF LowerUnary, Quiet, emitted
  <2>4. s.do = "unary"
    OBVIOUS
  <2>. HIDE DEF s, e
  <2>5. ItemOK(s, block_count) /\ Pending(s) = {} /\ s.do \notin {"end", "stmt", "ret"}
    BY <2>4, Rest
  <2>. QED  BY <2>1, <2>2, <2>3, <2>5, ExprStep
<1>2. CASE LowerBin
  <2>1. /\ work # <<>> /\ work[1].do # "end" /\ Pending(work[1]) = {} /\ Plain(ibuf)
        /\ Item = work[1] /\ work[1].expr \in Exprs /\ work[1].expr.kind = "binary"
    BY <1>2, TopExpr DEF LowerBin
  <2>. DEFINE a == LowerExpr(work[1].expr.left)  b == LowerExpr(work[1].expr.right)
              s == [do |-> "bin", op |-> work[1].expr.op]
  <2>2. work[1].expr.left \in Exprs /\ work[1].expr.right \in Exprs
    BY <2>1, TreeAssumption DEF HoldParts
  <2>3. /\ Then(<<a, b, s>>)
        /\ UNCHANGED <<ibuf, blocks, current_block_id, block_count, targets>>
    BY <1>2, <2>1 DEF LowerBin, Quiet, emitted
  <2>4. /\ a.do = "expr" /\ a.expr \in Exprs /\ b.do = "expr" /\ b.expr \in Exprs
        /\ s.do = "bin"
    BY <2>2 DEF LowerExpr
  <2>. HIDE DEF a, b, s
  <2>5. /\ ItemOK(a, block_count) /\ Pending(a) = {} /\ a.do \notin {"end", "stmt", "ret"}
        /\ ItemOK(b, block_count) /\ Pending(b) = {} /\ b.do \notin {"end", "stmt", "ret"}
        /\ ItemOK(s, block_count) /\ Pending(s) = {} /\ s.do \notin {"end", "stmt", "ret"}
    BY <2>4, Rest DEF ItemOK, Pending
  <2>. DEFINE items == <<a, b, s>>
  <2>6. /\ Pushed(items, block_count) /\ PushedIds(items) = {} /\ items[Len(items)] = s
    BY <2>5, Push3
  <2>7. work' = items \o Tail(work)
    BY <2>3 DEF Then
  <2>. HIDE DEF items
  <2>8. EndsLike(items, work[1])
    BY <2>5, <2>6 DEF EndsLike
  <2>. QED  BY <2>1, <2>3, <2>6, <2>7, <2>8, PlainStep
<1>3. CASE LowerLogical
  <2>1. /\ work # <<>> /\ work[1].do # "end" /\ Pending(work[1]) = {} /\ Plain(ibuf)
        /\ Item = work[1] /\ work[1].expr \in Exprs /\ work[1].expr.kind = "binary"
    BY <1>3, TopExpr DEF LowerLogical
  <2>. DEFINE i == Alloca(Reg(reg_count))
              s == [do |-> "logical_lhs", expr |-> work[1].expr, res |-> Reg(reg_count)]
              e == work[1].expr.left
  <2>2. i.op = "alloca" /\ s.do = "logical_lhs" /\ s.expr = work[1].expr
    BY DEF Alloca
  <2>3. e \in Exprs
    BY <2>1, TreeAssumption DEF HoldParts
  <2>4. /\ Emit(<<i>>) /\ UNCHANGED <<block_count, targets>>
        /\ Then(<<LowerExpr(e), s>>)
    BY <1>3, <2>1 DEF LowerLogical, Quiet
  <2>. HIDE DEF i, s, e
  <2>5. Plain(ibuf') /\ UNCHANGED <<blocks, current_block_id>>
    BY <2>1, <2>2, <2>4, Plain1, Emits DEF IsTerminator
  <2>6. ItemOK(s, block_count) /\ Pending(s) = {} /\ s.do \notin {"end", "stmt", "ret"}
    BY <2>1, <2>2 DEF ItemOK, Pending
  <2>. QED  BY <2>1, <2>3, <2>4, <2>5, <2>6, ExprStep
<1>. QED  BY <1>1, <1>2, <1>3

LEMMA CallPushStep ==
    ASSUME LowererInv, LowerCall
    PROVE  LowererInv'
<1>. DEFINE args == work[1].expr.args
            front == [k \in 1 .. Len(args) |-> LowerExpr(args[k])]
            s == [do |-> "call", expr |-> work[1].expr]
            items == front \o <<s>>
            n == block_count
<1>1. /\ work # <<>> /\ work[1].do # "end" /\ Pending(work[1]) = {} /\ Plain(ibuf)
      /\ Item = work[1] /\ work[1].expr \in Exprs /\ work[1].expr.kind = "call"
  BY TopExpr DEF LowerCall
<1>2. args \in Seq(Exprs)
  BY <1>1, TreeAssumption DEF HoldParts
<1>3. /\ work' = items \o Tail(work)
      /\ UNCHANGED <<ibuf, blocks, current_block_id, block_count, targets>>
  BY <1>1 DEF LowerCall, Then, Quiet, emitted
<1>4. s.do = "call" /\ s.expr = work[1].expr
  OBVIOUS
<1>. HIDE DEF s, args
<1>5. ItemOK(s, n) /\ Pending(s) = {} /\ s.do \notin {"end", "stmt", "ret"}
  BY <1>1, <1>4 DEF ItemOK, Pending
<1>6. Len(args) \in Nat /\ \A k \in 1 .. Len(args) : args[k] \in Exprs
  BY <1>2, LenProperties, ElementOfSeq
<1>7. IsSequence(front) /\ Len(front) = Len(args)
  <2>1. front = [k \in 1 .. Len(args) |-> front[k]]
    OBVIOUS
  <2>. HIDE DEF front
  <2>. QED  BY <1>6, <2>1, MappedSequence
<1>8. ASSUME NEW k \in 1 .. Len(args)
      PROVE  ItemOK(front[k], n) /\ Pending(front[k]) = {} /\ front[k].do = "expr"
  <2>. DEFINE a == front[k]
  <2>1. a.do = "expr" /\ a.expr = args[k]
    BY DEF LowerExpr
  <2>. HIDE DEF a
  <2>2. ItemOK(a, n) /\ Pending(a) = {} /\ a.do = "expr"
    BY <1>6, <2>1 DEF ItemOK, Pending
  <2>. QED  BY <2>2 DEF a
<1>. HIDE DEF front
<1>9. IsSequence(<<s>>) /\ Len(<<s>>) = 1 /\ <<s>>[1] = s
  <2>1. <<s>> \in Seq({s}) /\ Len(<<s>>) = 1 /\ <<s>>[1] = s
    OBVIOUS
  <2>. QED  BY <2>1, OfSeq
<1>10. /\ IsSequence(items) /\ Len(items) = Len(args) + 1
       /\ \A k \in 1 .. Len(args) : items[k] = front[k]
       /\ items[Len(args) + 1] = s
  <2>. DEFINE z == <<s>>
  <2>1. /\ IsSequence(front) /\ IsSequence(z) /\ Len(front) = Len(args) /\ Len(z) = 1 /\ z[1] = s
        /\ Len(args) \in Nat /\ items = front \o z
    BY <1>6, <1>7, <1>9
  <2>. HIDE DEF z, items
  <2>2. IsSequence(front) /\ IsSequence(z)
    BY <2>1
  <2>3. /\ IsSequence(front \o z) /\ Len(front \o z) = Len(front) + Len(z)
        /\ \A k \in 1 .. Len(front) : (front \o z)[k] = front[k]
        /\ \A k \in 1 .. Len(z) : (front \o z)[Len(front) + k] = z[k]
    BY ONLY <2>2, ConcatFacts
  <2>. QED  BY ONLY <2>1, <2>3
<1>. HIDE DEF items
<1>11. \A k \in 1 .. Len(items) : items[k] = s \/ (k \in 1 .. Len(args) /\ items[k] = front[k])
  BY <1>6, <1>10
<1>12. Pushed(items, n)
  <2>1. \A k \in 1 .. Len(items) - 1 : k \in 1 .. Len(items)
    BY <1>6, <1>10
  <2>. QED  BY <1>5, <1>8, <1>10, <1>11, <2>1 DEF Pushed
<1>13. PushedIds(items) = {} /\ EndsLike(items, work[1])
  BY <1>5, <1>10 DEF PushedIds, EndsLike
<1>. QED  BY <1>1, <1>3, <1>12, <1>13, PlainStep

-----------------------------------------------------------------------------
(* The handlers that end a block *)
LEMMA EmitBlockFacts ==
    ASSUME NEW instrs, NEW n, Closed(instrs, n), NEW next, EmitBlock(instrs, next)
    PROVE  /\ blocks' = Append(blocks, [id |-> current_block_id, instrs |-> instrs])
           /\ Plain(ibuf') /\ current_block_id' = next
BY EmptyPlain DEF EmitBlock, Closed, Ended

LEMMA ClosedByJump ==
    ASSUME Plain(ibuf), NEW n, NEW id \in Ids(n)
    PROVE  Closed(Append(ibuf, Jmp(id)), n)
<1>. DEFINE t == Jmp(id)
<1>1. t.op = "jmp" /\ t.target_id = id
  BY DEF Jmp
<1>. HIDE DEF t
<1>2. IsTerminator(t) /\ JumpTargets(t) \subseteq Ids(n)
  BY <1>1 DEF IsTerminator, JumpTargets
<1>3. Closed(ibuf \o <<t>>, n)
  BY <1>2, Closed1, EmitClosed
<1>. QED  BY <1>3, AppendOne DEF Plain, t

LEMMA ClosedByBranch ==
    ASSUME Plain(ibuf), NEW n, NEW v, NEW a \in Ids(n), NEW b \in Ids(n)
    PROVE  Closed(Append(ibuf, JmpIf(v, a, b)), n)
<1>. DEFINE t == JmpIf(v, a, b)
<1>1. t.op = "jmpif" /\ t.then_id = a /\ t.else_id = b
  BY DEF JmpIf
<1>. HIDE DEF t
<1>2. IsTerminator(t) /\ JumpTargets(t) \subseteq Ids(n)
  BY <1>1 DEF IsTerminator, JumpTargets
<1>3. Closed(ibuf \o <<t>>, n)
  BY <1>2, Closed1, EmitClosed
<1>. QED  BY <1>3, AppendOne DEF Plain, t

\* Behind an instruction
LEMMA ClosedBehind ==
    ASSUME Plain(ibuf), NEW n, NEW i, i.op \in {"load", "store"}, NEW t, IsTerminator(t),
           JumpTargets(t) \subseteq Ids(n)
    PROVE  Closed(ibuf \o <<i, t>>, n)
<1>1. ~IsTerminator(i)
  BY DEF IsTerminator
<1>. QED  BY <1>1, Closed2, EmitClosed

LEMMA ClosedByJumping ==
    ASSUME LowererInv, work # <<>>, NEW id \in Ids(block_count)
    PROVE  Closed(JumpingTo(id), block_count)
<1>1. CASE HasTerminator
  BY <1>1, Top DEF JumpingTo, Closed, LowererInv, Written
<1>2. CASE ~HasTerminator
  BY <1>2, Top, ClosedByJump DEF JumpingTo
<1>. QED  BY <1>1, <1>2

LEMMA Intervals ==
    ASSUME NEW n \in Nat
    PROVE  /\ n .. n - 1 = {} /\ n .. n + 2 - 1 = {n, n + 1} /\ n .. n + 3 - 1 = {n, n + 1, n + 2}
           /\ n \in Ids(n + 2) /\ n + 1 \in Ids(n + 2)
           /\ n \in Ids(n + 3) /\ n + 1 \in Ids(n + 3) /\ n + 2 \in Ids(n + 3)
           /\ Ids(n) \subseteq Ids(n + 2) /\ Ids(n) \subseteq Ids(n + 3)
           /\ n + 2 \in Nat /\ n + 3 \in Nat /\ n <= n + 2 /\ n <= n + 3
BY DEF Ids

LEMMA Numbers == LowererInv => /\ block_count \in Nat /\ break_target_id \in Ids(block_count)
                               /\ continue_target_id \in Ids(block_count)
BY DEF LowererInv, Targeted

LEMMA IfCondStep ==
    ASSUME LowererInv, IfCond
    PROVE  LowererInv'
<1>. DEFINE s == work[1].stmt  n == block_count  m == block_count'
            merge_id == n + 1
            else_id  == IF s.else # None THEN n + 2 ELSE n + 1
            it == [do |-> "if_then", stmt |-> s, merge_id |-> merge_id, else_id |-> else_id]
            items == <<LowerStmt(s.then), it>>
            instrs == Append(ibuf, JmpIf(Head(vals), n, else_id))
<1>1. /\ work # <<>> /\ work[1].do = "if_cond" /\ Pending(work[1]) = {} /\ Plain(ibuf)
      /\ Item = work[1] /\ s \in Stmts /\ s.kind = "if"
  BY TopRest DEF IfCond, ItemOK
<1>2. /\ EmitBlock(instrs, n)
      /\ m = IF s.else # None THEN n + 3 ELSE n + 2
      /\ work' = items \o Tail(work)
      /\ UNCHANGED targets
  BY <1>1 DEF IfCond, Then, Quiet
<1>3. s.then \in Stmts
  BY <1>1, TreeAssumption DEF HoldParts
<1>4. /\ it.do = "if_then" /\ it.stmt = s /\ it.merge_id = merge_id /\ it.else_id = else_id
  OBVIOUS
<1>. HIDE DEF it, s
<1>5. n \in Nat /\ m \in Nat /\ n <= m /\ Ids(n) \subseteq Ids(m) /\ n \in Ids(m)
      /\ merge_id \in Ids(m) /\ else_id \in Ids(m)
  BY <1>2, Numbers, Intervals
<1>6. s.else # None <=> else_id # merge_id
  BY Numbers
<1>7. ItemOK(it, m) /\ Lenient(it) /\ it.do \notin {"end", "stmt", "ret"}
      /\ Pending(it) = {merge_id, else_id}
  BY <1>1, <1>4, <1>5, <1>6 DEF ItemOK, Lenient, Pending
<1>8. {n} \cup Pending(it) = n .. m - 1 /\ n \notin Pending(it)
  <2>1. n \in Nat
    BY Numbers
  <2>2. CASE s.else # None
    <3>1. m = n + 3 /\ Pending(it) = {n + 1, n + 2}
      BY <1>2, <1>7, <2>2
    <3>. HIDE DEF n, m
    <3>. QED  BY ONLY <2>1, <3>1, Intervals
  <2>3. CASE s.else = None
    <3>1. m = n + 2 /\ Pending(it) = {n + 1}
      BY <1>2, <1>7, <2>3
    <3>. HIDE DEF n, m
    <3>. QED  BY ONLY <2>1, <3>1, Intervals
  <2>. QED  BY <2>2, <2>3
<1>9. Closed(instrs, m)
  BY <1>1, <1>5, ClosedByBranch
<1>10. Pushed(items, m) /\ PushedIds(items) = Pending(it) /\ EndsLike(items, work[1])
  BY <1>3, <1>7, StmtThen
<1>. HIDE DEF instrs, items
<1>11. /\ blocks' = Append(blocks, [id |-> current_block_id, instrs |-> instrs])
       /\ Plain(ibuf') /\ current_block_id' = n
  BY <1>2, <1>9, EmitBlockFacts
<1>12. break_target_id' \in Ids(m) /\ continue_target_id' \in Ids(m)
  BY <1>2, <1>5, Numbers DEF targets
<1>13. /\ current_block_id' \notin PushedIds(items)
       /\ {current_block_id'} \cup PushedIds(items) = Pending(work[1]) \cup (n .. m - 1)
       /\ work[1].do # "end"
  BY <1>1, <1>8, <1>10, <1>11
<1>. QED  BY <1>1, <1>2, <1>5, <1>9, <1>10, <1>11, <1>12, <1>13, BlockStep

\* A block is ended and one begun that has an id already.
LEMMA NextBlockStep ==
    ASSUME LowererInv, work # <<>>, work[1].do # "end",
           NEW items, Pushed(items, block_count), EndsLike(items, work[1]),
           work' = items \o Tail(work),
           NEW instrs, Closed(instrs, block_count),
           blocks' = Append(blocks, [id |-> current_block_id, instrs |-> instrs]),
           Plain(ibuf'),
           current_block_id' \notin PushedIds(items),
           {current_block_id'} \cup PushedIds(items) = Pending(work[1]),
           block_count' = block_count,
           break_target_id' \in Ids(block_count), continue_target_id' \in Ids(block_count)
    PROVE  LowererInv'
<1>1. /\ block_count' \in Nat /\ block_count <= block_count'
      /\ block_count .. block_count' - 1 = {}
  BY Numbers
<1>2. /\ Pushed(items, block_count') /\ Closed(instrs, block_count')
      /\ break_target_id' \in Ids(block_count') /\ continue_target_id' \in Ids(block_count')
  OBVIOUS
<1>3. {current_block_id'} \cup PushedIds(items)
          = Pending(work[1]) \cup (block_count .. block_count' - 1)
  BY <1>1
<1>. QED  BY <1>1, <1>2, <1>3, BlockStep

LEMMA IfThenStep ==
    ASSUME LowererInv, IfThen
    PROVE  LowererInv'
<1>. DEFINE top == work[1]  s == top.stmt  n == block_count
            it == [do |-> "if_else", merge_id |-> top.merge_id]
            items == IF s.else # None THEN <<LowerStmt(s.else), it>> ELSE <<>>
            instrs == JumpingTo(top.merge_id)
<1>1. /\ work # <<>> /\ top.do = "if_then" /\ Item = top /\ s \in Stmts /\ s.kind = "if"
      /\ top.merge_id \in Ids(n) /\ top.else_id \in Ids(n)
      /\ s.else # None <=> top.else_id # top.merge_id
  BY TopRest DEF IfThen, ItemOK
<1>2. /\ EmitBlock(instrs, top.else_id)
      /\ work' = items \o Tail(work)
      /\ UNCHANGED <<block_count, targets>>
  BY <1>1 DEF IfThen, Then, Quiet
<1>3. s.else # None => s.else \in Stmts
  BY <1>1, TreeAssumption DEF HoldParts
<1>4. it.do = "if_else" /\ it.merge_id = top.merge_id
  OBVIOUS
<1>5. Closed(instrs, n)
  BY <1>1, ClosedByJumping
<1>6. Pending(top) = {top.merge_id, top.else_id}
  BY <1>1 DEF Pending
<1>. HIDE DEF it, s, top, instrs
<1>7. ItemOK(it, n) /\ Lenient(it) /\ it.do \notin {"end", "stmt", "ret"}
      /\ Pending(it) = {top.merge_id}
  BY <1>1, <1>4 DEF ItemOK, Lenient, Pending
<1>8. /\ Pushed(items, n) /\ EndsLike(items, top)
      /\ PushedIds(items) = IF s.else # None THEN {top.merge_id} ELSE {}
  <2>1. CASE s.else = None
    BY <2>1, NothingPushed
  <2>2. CASE s.else # None
    BY <2>2, <1>3, <1>7, StmtThen
  <2>. QED  BY <2>1, <2>2
<1>. HIDE DEF items
<1>9. /\ blocks' = Append(blocks, [id |-> current_block_id, instrs |-> instrs])
      /\ Plain(ibuf') /\ current_block_id' = top.else_id
  BY <1>2, <1>5, EmitBlockFacts
<1>10. break_target_id' \in Ids(n) /\ continue_target_id' \in Ids(n) /\ n' = n
  BY <1>2, Numbers DEF targets
<1>11. /\ current_block_id' \notin PushedIds(items)
       /\ {current_block_id'} \cup PushedIds(items) = Pending(top)
       /\ top.do # "end"
  BY <1>1, <1>6, <1>8, <1>9
<1>. QED  BY <1>1, <1>2, <1>5, <1>8, <1>9, <1>10, <1>11, NextBlockStep DEF top

LEMMA IfElseStep ==
    ASSUME LowererInv, IfElse
    PROVE  LowererInv'
<1>. DEFINE top == work[1]  n == block_count  instrs == JumpingTo(top.merge_id)
<1>1. /\ work # <<>> /\ top.do = "if_else" /\ Item = top /\ top.merge_id \in Ids(n)
  BY TopRest DEF IfElse, ItemOK
<1>2. /\ EmitBlock(instrs, top.merge_id)
      /\ work' = <<>> \o Tail(work)
      /\ UNCHANGED <<block_count, targets>>
  BY <1>1 DEF IfElse, Then, Quiet
<1>3. Closed(instrs, n)
  BY <1>1, ClosedByJumping
<1>4. Pending(top) = {top.merge_id}
  BY <1>1 DEF Pending
<1>. HIDE DEF instrs
<1>5. /\ blocks' = Append(blocks, [id |-> current_block_id, instrs |-> instrs])
      /\ Plain(ibuf') /\ current_block_id' = top.merge_id
  BY <1>2, <1>3, EmitBlockFacts
<1>6. break_target_id' \in Ids(n) /\ continue_target_id' \in Ids(n) /\ n' = n
  BY <1>2, Numbers DEF targets
<1>7. /\ Pushed(<<>>, n) /\ EndsLike(<<>>, top) /\ current_block_id' \notin PushedIds(<<>>)
      /\ {current_block_id'} \cup PushedIds(<<>>) = Pending(top)
  BY <1>4, <1>5, NothingPushed
<1>. QED  BY <1>1, <1>2, <1>3, <1>5, <1>6, <1>7, NextBlockStep

LEMMA WhileStep ==
    ASSUME LowererInv, LowerWhile
    PROVE  LowererInv'
<1>. DEFINE s == work[1].stmt  n == block_count  m == block_count'
            it == [do |-> "while_cond", stmt |-> s, cond_id |-> n, body_id |-> n + 1, exit_id |-> n + 2,
                   prev_break |-> break_target_id, prev_continue |-> continue_target_id]
            items == <<LowerExpr(s.cond), it>>
            instrs == Append(ibuf, Jmp(n))
<1>1. /\ work # <<>> /\ work[1].do = "stmt" /\ Pending(work[1]) = {} /\ Plain(ibuf)
      /\ Item = work[1] /\ s \in Stmts /\ s.kind = "while"
  BY TopStmt DEF LowerWhile
<1>2. /\ EmitBlock(instrs, n)
      /\ m = n + 3
      /\ work' = items \o Tail(work)
      /\ break_target_id' = n + 2 /\ continue_target_id' = n
  BY <1>1 DEF LowerWhile, Then
<1>3. s.cond \in Exprs
  BY <1>1, TreeAssumption DEF HoldParts
<1>4. /\ it.do = "while_cond" /\ it.stmt = s /\ it.cond_id = n /\ it.body_id = n + 1 /\ it.exit_id = n + 2
      /\ it.prev_break = break_target_id /\ it.prev_continue = continue_target_id
  OBVIOUS
<1>. HIDE DEF it, s
<1>5. /\ n \in Nat /\ n + 3 \in Nat /\ n <= n + 3 /\ n .. n + 3 - 1 = {n, n + 1, n + 2}
      /\ n \in Ids(n + 3) /\ n + 1 \in Ids(n + 3) /\ n + 2 \in Ids(n + 3)
      /\ break_target_id \in Ids(n + 3) /\ continue_target_id \in Ids(n + 3)
  BY Numbers, Intervals
<1>6. n # n + 1 /\ n # n + 2 /\ n + 1 # n + 2
  BY <1>5
<1>7. ItemOK(it, m) /\ it.do \notin {"end", "stmt", "ret"} /\ Pending(it) = {n + 1, n + 2}
  BY <1>1, <1>2, <1>4, <1>5, <1>6 DEF ItemOK, Pending
<1>8. Closed(instrs, m)
  BY <1>1, <1>2, <1>5, ClosedByJump
<1>9. Pushed(items, m) /\ PushedIds(items) = {n + 1, n + 2} /\ EndsLike(items, work[1])
  BY <1>3, <1>7, ExprThen
<1>. HIDE DEF instrs, items
<1>10. /\ blocks' = Append(blocks, [id |-> current_block_id, instrs |-> instrs])
       /\ Plain(ibuf') /\ current_block_id' = n
  BY <1>2, <1>8, EmitBlockFacts
<1>11. /\ current_block_id' \notin PushedIds(items)
       /\ {current_block_id'} \cup PushedIds(items) = Pending(work[1]) \cup (n .. m - 1)
       /\ work[1].do # "end"
       /\ m \in Nat /\ n <= m /\ break_target_id' \in Ids(m) /\ continue_target_id' \in Ids(m)
  BY <1>1, <1>2, <1>5, <1>6, <1>9, <1>10
<1>. QED  BY <1>1, <1>2, <1>8, <1>9, <1>10, <1>11, BlockStep

LEMMA WhileCondStep ==
    ASSUME LowererInv, WhileCond
    PROVE  LowererInv'
<1>. DEFINE top == work[1]  s == top.stmt  n == block_count
            a == LowerStmt(s.body)  b == LowerStmt(s.post)
            it == [do |-> "while_end", cond_id |-> top.cond_id, exit_id |-> top.exit_id,
                   prev_break |-> top.prev_break, prev_continue |-> top.prev_continue]
            instrs == Append(ibuf, JmpIf(Head(vals), top.body_id, top.exit_id))
<1>1. /\ work # <<>> /\ top.do = "while_cond" /\ Item = top /\ Plain(ibuf)
      /\ s \in Stmts /\ s.kind = "while"
      /\ top.body_id \in Ids(n) /\ top.exit_id \in Ids(n) /\ top.body_id # top.exit_id
      /\ top.cond_id \in Ids(n) /\ top.prev_break \in Ids(n) /\ top.prev_continue \in Ids(n)
  BY TopRest DEF WhileCond, ItemOK
<1>2. /\ EmitBlock(instrs, top.body_id)
      /\ Then(<<a>> \o (IF s.post # None THEN <<b>> ELSE <<>>) \o <<it>>)
      /\ UNCHANGED <<block_count, targets>>
  BY <1>1 DEF WhileCond, Quiet
<1>3. s.body \in Stmts /\ (s.post # None => s.post \in Stmts)
  BY <1>1, TreeAssumption DEF HoldParts
<1>4. /\ it.do = "while_end" /\ it.cond_id = top.cond_id /\ it.exit_id = top.exit_id
      /\ it.prev_break = top.prev_break /\ it.prev_continue = top.prev_continue
  OBVIOUS
<1>5. a.do = "stmt" /\ a.stmt \in Stmts /\ b.do = "stmt" /\ (s.post # None => b.stmt \in Stmts)
  BY <1>3 DEF LowerStmt
<1>6. Pending(top) = {top.body_id, top.exit_id}
  BY <1>1 DEF Pending
<1>7. Closed(instrs, n)
  BY <1>1, ClosedByBranch
<1>. HIDE DEF it, s, a, b, top, instrs
<1>8. /\ ItemOK(it, n) /\ Lenient(it) /\ it.do \notin {"end", "stmt", "ret"} /\ Pending(it) = {top.exit_id}
      /\ ItemOK(a, n) /\ Lenient(a) /\ a.do # "end" /\ Pending(a) = {}
      /\ s.post # None => ItemOK(b, n) /\ Lenient(b) /\ b.do # "end" /\ Pending(b) = {}
  BY <1>1, <1>4, <1>5 DEF ItemOK, Lenient, Pending
<1>9. PICK items : /\ Then(items) /\ Pushed(items, n) /\ PushedIds(items) = {top.exit_id}
                   /\ EndsLike(items, top)
  <2>1. CASE s.post = None
    <3>1. <<a>> \o <<>> \o <<it>> = <<a, it>>
      BY Singleton, PairIsConcat
    <3>2. Then(<<a, it>>)
      BY <1>2, <2>1, <3>1
    <3>. DEFINE z == <<a, it>>
    <3>3. /\ Pushed(z, n) /\ PushedIds(z) = {top.exit_id} /\ z[Len(z)] = it
      BY <1>8, Push2
    <3>. HIDE DEF z
    <3>4. EndsLike(z, top)
      BY <1>8, <3>3 DEF EndsLike
    <3>. QED  BY <3>2, <3>3, <3>4 DEF z
  <2>2. CASE s.post # None
    <3>1. <<a>> \o <<b>> \o <<it>> = <<a, b, it>>
      BY TripleIsConcat
    <3>2. Then(<<a, b, it>>)
      BY <1>2, <2>2, <3>1
    <3>. DEFINE z == <<a, b, it>>
    <3>3. /\ Pushed(z, n) /\ PushedIds(z) = {top.exit_id} /\ z[Len(z)] = it
      BY <1>8, <2>2, Push3
    <3>. HIDE DEF z
    <3>4. EndsLike(z, top)
      BY <1>8, <3>3 DEF EndsLike
    <3>. QED  BY <3>2, <3>3, <3>4 DEF z
  <2>. QED  BY <2>1, <2>2
<1>10. /\ blocks' = Append(blocks, [id |-> current_block_id, instrs |-> instrs])
       /\ Plain(ibuf') /\ current_block_id' = top.body_id
  BY <1>2, <1>7, EmitBlockFacts
<1>11. /\ break_target_id' \in Ids(n) /\ continue_target_id' \in Ids(n) /\ n' = n
       /\ work' = items \o Tail(work)
  BY <1>2, <1>9, Numbers DEF targets, Then
<1>12. /\ current_block_id' \notin PushedIds(items)
       /\ {current_block_id'} \cup PushedIds(items) = Pending(top)
       /\ top.do # "end"
  BY <1>1, <1>6, <1>9, <1>10
<1>. QED  BY <1>1, <1>7, <1>9, <1>10, <1>11, <1>12, NextBlockStep DEF top

LEMMA WhileEndStep ==
    ASSUME LowererInv, WhileEnd
    PROVE  LowererInv'
<1>. DEFINE top == work[1]  n == block_count  instrs == JumpingTo(top.cond_id)
<1>1. /\ work # <<>> /\ top.do = "while_end" /\ Item = top
      /\ top.cond_id \in Ids(n) /\ top.exit_id \in Ids(n)
      /\ top.prev_break \in Ids(n) /\ top.prev_continue \in Ids(n)
  BY TopRest DEF WhileEnd, ItemOK
<1>2. /\ EmitBlock(instrs, top.exit_id)
      /\ work' = <<>> \o Tail(work)
      /\ block_count' = block_count
      /\ break_target_id' = top.prev_break /\ continue_target_id' = top.prev_continue
  BY <1>1 DEF WhileEnd, Then
<1>3. Closed(instrs, n)
  BY <1>1, ClosedByJumping
<1>4. Pending(top) = {top.exit_id}
  BY <1>1 DEF Pending
<1>. HIDE DEF instrs
<1>5. /\ blocks' = Append(blocks, [id |-> current_block_id, instrs |-> instrs])
      /\ Plain(ibuf') /\ current_block_id' = top.exit_id
  BY <1>2, <1>3, EmitBlockFacts
<1>6. /\ Pushed(<<>>, n) /\ EndsLike(<<>>, top) /\ current_block_id' \notin PushedIds(<<>>)
      /\ {current_block_id'} \cup PushedIds(<<>>) = Pending(top)
  BY <1>4, <1>5, NothingPushed
<1>. QED  BY <1>1, <1>2, <1>3, <1>5, <1>6, NextBlockStep

\* The block of the right side ends with a store and a jump.
LEMMA CassignRhsStep ==
    ASSUME LowererInv, CassignRhs
    PROVE  LowererInv'
<1>. DEFINE top == work[1]  n == block_count  i == StoreTo(top.ptr, Head(vals))  t == Jmp(top.merge_id)
            instrs == ibuf \o <<i, t>>
<1>1. /\ work # <<>> /\ top.do = "cassign_rhs" /\ Item = top /\ Plain(ibuf) /\ top.merge_id \in Ids(n)
  BY TopRest DEF CassignRhs, ItemOK
<1>2. /\ EmitBlock(instrs, top.merge_id)
      /\ work' = <<>> \o Tail(work)
      /\ UNCHANGED <<block_count, targets>>
  BY <1>1 DEF CassignRhs, Then, Quiet
<1>3. Closed(instrs, n)
  <2>1. i.op = "store" /\ t.op = "jmp" /\ t.target_id = top.merge_id
    BY DEF StoreTo, Jmp
  <2>. HIDE DEF i, t
  <2>2. IsTerminator(t) /\ JumpTargets(t) \subseteq Ids(n)
    BY <1>1, <2>1 DEF IsTerminator, JumpTargets
  <2>. QED  BY <1>1, <2>1, <2>2, ClosedBehind
<1>4. Pending(top) = {top.merge_id}
  BY <1>1 DEF Pending
<1>. HIDE DEF instrs
<1>5. /\ blocks' = Append(blocks, [id |-> current_block_id, instrs |-> instrs])
      /\ Plain(ibuf') /\ current_block_id' = top.merge_id
  BY <1>2, <1>3, EmitBlockFacts
<1>6. break_target_id' \in Ids(n) /\ continue_target_id' \in Ids(n) /\ n' = n
  BY <1>2, Numbers DEF targets
<1>7. /\ Pushed(<<>>, n) /\ EndsLike(<<>>, top) /\ current_block_id' \notin PushedIds(<<>>)
      /\ {current_block_id'} \cup PushedIds(<<>>) = Pending(top)
  BY <1>4, <1>5, NothingPushed
<1>. QED  BY <1>1, <1>2, <1>3, <1>5, <1>6, <1>7, NextBlockStep

LEMMA LogicalRhsStep ==
    ASSUME LowererInv, LogicalRhs
    PROVE  LowererInv'
<1>. DEFINE top == work[1]  n == block_count  i == StoreTo(top.res, Head(vals))  t == Jmp(top.merge_id)
            instrs == ibuf \o <<i, t>>  load == Load(Reg(reg_count), top.res)
<1>1. /\ work # <<>> /\ top.do = "logical_rhs" /\ Item = top /\ Plain(ibuf) /\ top.merge_id \in Ids(n)
  BY TopRest DEF LogicalRhs, ItemOK
<1>2. /\ blocks' = Append(blocks, [id |-> current_block_id, instrs |-> instrs])
      /\ ibuf' = <<load>> /\ current_block_id' = top.merge_id
      /\ work' = <<>> \o Tail(work)
      /\ UNCHANGED <<block_count, targets>>
  BY <1>1 DEF LogicalRhs, Then, Quiet
<1>3. Closed(instrs, n)
  <2>1. i.op = "store" /\ t.op = "jmp" /\ t.target_id = top.merge_id
    BY DEF StoreTo, Jmp
  <2>. HIDE DEF i, t
  <2>2. IsTerminator(t) /\ JumpTargets(t) \subseteq Ids(n)
    BY <1>1, <2>1 DEF IsTerminator, JumpTargets
  <2>. QED  BY <1>1, <2>1, <2>2, ClosedBehind
<1>4. Pending(top) = {top.merge_id}
  BY <1>1 DEF Pending
<1>5. Plain(ibuf')
  <2>1. load.op = "load"
    BY DEF Load
  <2>. HIDE DEF load
  <2>. QED  BY <1>2, <2>1, Plain1 DEF IsTerminator
<1>. HIDE DEF instrs
<1>6. break_target_id' \in Ids(n) /\ continue_target_id' \in Ids(n) /\ n' = n
  BY <1>2, Numbers DEF targets
<1>7. /\ Pushed(<<>>, n) /\ EndsLike(<<>>, top) /\ current_block_id' \notin PushedIds(<<>>)
      /\ {current_block_id'} \cup PushedIds(<<>>) = Pending(top)
  BY <1>2, <1>4, NothingPushed
<1>. QED  BY <1>1, <1>2, <1>3, <1>5, <1>6, <1>7, NextBlockStep

\* The block of the left side: two ids are taken, one for the right side and
\* one for what comes behind the operator.
LEMMA TwoBlocksStep ==
    ASSUME LowererInv, work # <<>>, work[1].do # "end", Pending(work[1]) = {},
           NEW e \in Exprs, NEW it, it.do \in {"cassign_rhs", "logical_rhs"},
           it.merge_id = block_count + 1,
           Then(<<LowerExpr(e), it>>),
           NEW instrs, Closed(instrs, block_count + 2), EmitBlock(instrs, block_count),
           block_count' = block_count + 2, UNCHANGED targets
    PROVE  LowererInv'
<1>. DEFINE n == block_count  m == block_count'  items == <<LowerExpr(e), it>>
<1>1. /\ n \in Nat /\ n + 2 \in Nat /\ n <= n + 2 /\ n .. n + 2 - 1 = {n, n + 1}
      /\ n \in Ids(n + 2) /\ n + 1 \in Ids(n + 2)
      /\ break_target_id \in Ids(n + 2) /\ continue_target_id \in Ids(n + 2)
  BY Numbers, Intervals
<1>2. ItemOK(it, m) /\ it.do \notin {"end", "stmt", "ret"} /\ Pending(it) = {n + 1}
  BY <1>1 DEF ItemOK, Pending
<1>3. Pushed(items, m) /\ PushedIds(items) = {n + 1} /\ EndsLike(items, work[1])
  BY <1>2, ExprThen, SMTT(40)
<1>4. work' = items \o Tail(work)
  BY DEF Then
<1>. HIDE DEF items
<1>5. /\ blocks' = Append(blocks, [id |-> current_block_id, instrs |-> instrs])
      /\ Plain(ibuf') /\ current_block_id' = n
  BY EmitBlockFacts
<1>6. /\ current_block_id' \notin PushedIds(items)
      /\ {current_block_id'} \cup PushedIds(items) = Pending(work[1]) \cup (n .. m - 1)
      /\ m \in Nat /\ n <= m /\ break_target_id' \in Ids(m) /\ continue_target_id' \in Ids(m)
      /\ Closed(instrs, m)
  <2>1. n # n + 1
    BY <1>1
  <2>. QED  BY <2>1, <1>1, <1>3, <1>5 DEF targets
<1>. QED  BY <1>3, <1>4, <1>5, <1>6, BlockStep

LEMMA LogicalLhsStep ==
    ASSUME LowererInv, LogicalLhs
    PROVE  LowererInv'
<1>. DEFINE top == work[1]  n == block_count  op == top.expr.op
            it == [do |-> "logical_rhs", res |-> top.res, merge_id |-> n + 1]
            i == StoreTo(top.res, IF op = "imp" THEN Const(TRUE) ELSE Head(vals))
            t == Decides(op, Head(vals), n, n + 1)
            instrs == ibuf \o <<i, t>>
<1>1. /\ work # <<>> /\ top.do = "logical_lhs" /\ Item = top /\ Plain(ibuf) /\ Pending(top) = {}
      /\ top.expr \in Exprs /\ top.expr.kind = "binary"
  BY TopRest DEF LogicalLhs, ItemOK
<1>2. /\ EmitBlock(instrs, n)
      /\ Then(<<LowerExpr(top.expr.right), it>>)
      /\ block_count' = n + 2 /\ UNCHANGED targets
  BY <1>1 DEF LogicalLhs, Quiet
<1>3. top.expr.right \in Exprs
  BY <1>1, TreeAssumption DEF HoldParts
<1>4. it.do = "logical_rhs" /\ it.merge_id = n + 1
  OBVIOUS
<1>5. Closed(instrs, n + 2)
  <2>1. n \in Ids(n + 2) /\ n + 1 \in Ids(n + 2)
    BY Numbers, Intervals
  <2>2. PICK a \in Ids(n + 2), b \in Ids(n + 2) : t = JmpIf(Head(vals), a, b)
    BY <2>1 DEF Decides
  <2>3. i.op = "store" /\ t.op = "jmpif" /\ t.then_id = a /\ t.else_id = b
    BY <2>2 DEF StoreTo, JmpIf
  <2>. HIDE DEF i, t
  <2>4. IsTerminator(t) /\ JumpTargets(t) \subseteq Ids(n + 2)
    BY <2>3 DEF IsTerminator, JumpTargets
  <2>. QED  BY <1>1, <2>3, <2>4, ClosedBehind
<1>. HIDE DEF it, instrs
<1>. QED  BY <1>1, <1>2, <1>3, <1>4, <1>5, TwoBlocksStep

LEMMA AppendTwo ==
    ASSUME NEW s, IsSequence(s), NEW a, NEW b
    PROVE  s \o <<a, b>> = Append(Append(s, a), b)
<1>1. s \in Seq(Range(s) \cup {a, b})
  BY SeqMonotonic DEF IsSequence
<1>. DEFINE S == Range(s) \cup {a, b}
<1>2. a \in S /\ b \in S /\ <<a>> \in Seq(S) /\ <<b>> \in Seq(S)
  OBVIOUS
<1>. HIDE DEF S
<1>3. s \in Seq(S)
  BY <1>1 DEF S
<1>4. Append(s, a) \in Seq(S) /\ Append(s, a) = s \o <<a>>
  BY <1>2, <1>3, AppendProperties, AppendIsConcat
<1>5. Append(Append(s, a), b) = Append(s, a) \o <<b>>
  BY <1>2, <1>4, AppendIsConcat
<1>6. (s \o <<a>>) \o <<b>> = s \o (<<a>> \o <<b>>)
  BY <1>2, <1>3, ConcatAssociative
<1>. QED  BY <1>4, <1>5, <1>6, PairIsConcat

\* => and a target that is false: the block that makes it true is emitted
\* right behind the current one.
LEMMA ImpAssignStep ==
    ASSUME LowererInv, AtStmt("cassign"), work[1].stmt.op = "imp", CassignLogical
    PROVE  LowererInv'
<1>. DEFINE s == work[1].stmt  n == block_count  ptr == Place(s.target)
            i == Load(Reg(reg_count), ptr)  t == JmpIf(Reg(reg_count), n, n + 2)
            j == StoreTo(ptr, Const(TRUE))  u == Jmp(n + 1)
            first == ibuf \o <<i, t>>  second == <<j, u>>
            x == [id |-> current_block_id, instrs |-> first]
            y == [id |-> n + 2, instrs |-> second]
            it == [do |-> "cassign_rhs", ptr |-> ptr, merge_id |-> n + 1]
            items == <<LowerExpr(s.value), it>>
            E == Emitted(blocks)  c == current_block_id  F == E \cup {c} \cup {n + 2}
<1>1. /\ work # <<>> /\ work[1].do = "stmt" /\ Pending(work[1]) = {} /\ Plain(ibuf)
      /\ Item = work[1] /\ s \in Stmts /\ s.kind = "cassign"
  BY TopStmt
<1>2. /\ blocks' = blocks \o <<x, y>> /\ ibuf' = <<>> /\ current_block_id' = n
      /\ block_count' = n + 3 /\ work' = items \o Tail(work) /\ UNCHANGED targets
  BY <1>1 DEF CassignLogical, Then, Quiet
<1>3. s.value \in Exprs
  BY <1>1, TreeAssumption DEF HoldParts
<1>4. it.do = "cassign_rhs" /\ it.merge_id = n + 1
  OBVIOUS
<1>5. /\ n \in Nat /\ n + 3 \in Nat /\ n <= n + 3 /\ n .. n + 3 - 1 = {n, n + 1, n + 2}
      /\ n \in Ids(n + 3) /\ n + 1 \in Ids(n + 3) /\ n + 2 \in Ids(n + 3)
      /\ break_target_id \in Ids(n + 3) /\ continue_target_id \in Ids(n + 3)
      /\ n + 2 \notin Ids(n) /\ n \notin Ids(n) /\ n + 1 \notin Ids(n)
  BY Numbers, Intervals DEF Ids
<1>6. Closed(first, n + 3)
  <2>1. i.op = "load" /\ t.op = "jmpif" /\ t.then_id = n /\ t.else_id = n + 2
    BY DEF Load, JmpIf
  <2>. HIDE DEF i, t
  <2>2. IsTerminator(t) /\ JumpTargets(t) \subseteq Ids(n + 3)
    BY <1>5, <2>1 DEF IsTerminator, JumpTargets
  <2>. QED  BY <1>1, <2>1, <2>2, ClosedBehind
<1>7. Closed(second, n + 3)
  <2>1. j.op = "store" /\ u.op = "jmp" /\ u.target_id = n + 1
    BY DEF StoreTo, Jmp
  <2>. HIDE DEF j, u
  <2>2. ~IsTerminator(j) /\ IsTerminator(u) /\ JumpTargets(u) \subseteq Ids(n + 3)
    BY <1>5, <2>1 DEF IsTerminator, JumpTargets
  <2>. QED  BY <2>2, Closed2
<1>. HIDE DEF it, s, first, second
<1>8. ItemOK(it, n + 3) /\ it.do \notin {"end", "stmt", "ret"} /\ Pending(it) = {n + 1}
  BY <1>4, <1>5 DEF ItemOK, Pending
<1>9. Pushed(items, n + 3) /\ PushedIds(items) = {n + 1} /\ EndsLike(items, work[1])
  BY <1>3, <1>8, ExprThen
<1>. HIDE DEF items
<1>10. Stack(work, n) /\ Owned(work, E, c, n) /\ BlocksOK(blocks, n)
  BY <1>1 DEF LowererInv, Waiting, Written
<1>11. E \cup {c} \subseteq Ids(n) /\ c \notin E
  BY <1>10 DEF Owned
<1>12. blocks' = Append(Append(blocks, x), y)
  BY <1>2, <1>10, AppendTwo DEF BlocksOK
<1>13. BlocksOK(Append(blocks, x), n + 3) /\ Emitted(Append(blocks, x)) = E \cup {c}
  BY <1>5, <1>6, <1>10, <1>11, BlocksAppend
<1>14. BlocksOK(blocks', n + 3) /\ Emitted(blocks') = F
  <2>. DEFINE bs == Append(blocks, x)
  <2>1. n + 2 \notin Emitted(bs)
    BY <1>5, <1>11, <1>13
  <2>2. BlocksOK(bs, n + 3) /\ n + 3 \in Nat /\ n + 3 <= n + 3
    BY <1>5, <1>13
  <2>. HIDE DEF bs
  <2>3. BlocksOK(Append(bs, y), n + 3) /\ Emitted(Append(bs, y)) = Emitted(bs) \cup {n + 2}
    BY <1>7, <2>1, <2>2, BlocksAppend
  <2>. QED  BY <1>12, <1>13, <2>3 DEF bs
<1>15. Stack(items \o Tail(work), n + 3) /\ items \o Tail(work) # <<>>
  BY <1>1, <1>5, <1>9, <1>10, StackStep DEF EndsLike
<1>16. Owned(items \o Tail(work), F, n, n + 3)
  <2>1. n # n + 1 /\ n # n + 2 /\ n + 1 # n + 2
    BY <1>5
  <2>2. /\ IsSequence(work) /\ work # <<>>
        /\ F \cup {n} \cup PushedIds(items) = E \cup {c} \cup Pending(work[1]) \cup (n .. n + 3 - 1)
        /\ n \notin F /\ n \notin PushedIds(items) /\ F \cap PushedIds(items) = {}
    BY <1>1, <1>5, <1>9, <1>10, <1>11, <2>1 DEF Stack
  <2>. DEFINE m == n + 3  q == PushedIds(items)
  <2>3. /\ Pushed(items, m) /\ n \in Nat /\ m \in Nat /\ n <= m /\ Owned(work, E, c, n)
        /\ F \cup {n} \cup q = E \cup {c} \cup Pending(work[1]) \cup (n .. m - 1)
        /\ n \notin F /\ n \notin q /\ F \cap q = {}
    BY <1>5, <1>9, <1>10, <2>2
  <2>. HIDE DEF m, q, n, E, F, c
  <2>4. Owned(items \o Tail(work), F, n, m)
    BY ONLY <2>2, <2>3, OwnedStep DEF q
  <2>. QED  BY <2>4 DEF m
<1>17. Plain(ibuf') /\ Buffer(ibuf', n + 3) /\ ~Ended(ibuf')
  BY <1>2, EmptyPlain, PlainBuffer
<1>18. Targeted' /\ Written'
  BY <1>2, <1>5, <1>14, <1>17 DEF Targeted, Written, targets
<1>19. Waiting' /\ Complete'
  BY <1>2, <1>14, <1>15, <1>16, <1>17 DEF Waiting, Complete
<1>. QED  BY <1>18, <1>19 DEF LowererInv

LEMMA CassignLogicalStep ==
    ASSUME LowererInv, CassignLogical
    PROVE  LowererInv'
<1>. DEFINE s == work[1].stmt  n == block_count  ptr == Place(s.target)
            it == [do |-> "cassign_rhs", ptr |-> ptr, merge_id |-> n + 1]
            i == Load(Reg(reg_count), ptr)
<1>1. /\ work # <<>> /\ work[1].do = "stmt" /\ Pending(work[1]) = {} /\ Plain(ibuf)
      /\ Item = work[1] /\ s \in Stmts /\ s.kind = "cassign"
  BY TopStmt DEF CassignLogical
<1>2. CASE s.op = "imp"
  BY <1>1, <1>2, ImpAssignStep DEF CassignLogical
<1>3. CASE s.op # "imp"
  <2>1. n \in Ids(n + 2) /\ n + 1 \in Ids(n + 2)
    BY Numbers, Intervals
  <2>2. /\ Then(<<LowerExpr(s.value), it>>) /\ block_count' = n + 2 /\ UNCHANGED targets
    BY <1>1, <1>3 DEF CassignLogical, Quiet
  <2>3. PICK a \in Ids(n + 2), b \in Ids(n + 2) :
           EmitBlock(ibuf \o <<i, JmpIf(Reg(reg_count), a, b)>>, n)
    BY <1>1, <1>3, <2>1 DEF CassignLogical
  <2>. DEFINE t == JmpIf(Reg(reg_count), a, b)  instrs == ibuf \o <<i, t>>
  <2>4. EmitBlock(instrs, n)
    BY <2>3
  <2>5. i.op = "load" /\ t.op = "jmpif" /\ t.then_id = a /\ t.else_id = b
    BY DEF Load, JmpIf
  <2>6. it.do = "cassign_rhs" /\ it.merge_id = n + 1
    OBVIOUS
  <2>7. s.value \in Exprs
    BY <1>1, TreeAssumption DEF HoldParts
  <2>. HIDE DEF i, t, it, s
  <2>8. IsTerminator(t) /\ JumpTargets(t) \subseteq Ids(n + 2)
    BY <2>5 DEF IsTerminator, JumpTargets
  <2>9. Closed(instrs, n + 2)
    BY <1>1, <2>5, <2>8, ClosedBehind
  <2>. HIDE DEF instrs
  <2>. QED  BY <1>1, <2>2, <2>4, <2>6, <2>7, <2>9, TwoBlocksStep
<1>. QED  BY <1>2, <1>3

\* The last block: every id that was taken is now that of a block.
LEMMA EndStep ==
    ASSUME LowererInv, EndFunction
    PROVE  LowererInv'
<1>. DEFINE top == work[1]  n == block_count  E == Emitted(blocks)  c == current_block_id
            t == IF top.void THEN Ret(None) ELSE Unreachable
            instrs == IF HasTerminator THEN ibuf ELSE Append(ibuf, t)
<1>1. /\ work # <<>> /\ top.do = "end" /\ Item = top /\ Pending(top) = {}
  BY TopRest DEF EndFunction
<1>2. /\ EmitBlock(instrs, c) /\ work' = <<>> \o Tail(work) /\ UNCHANGED <<block_count, targets>>
  BY <1>1 DEF EndFunction, Then, Quiet
<1>3. Stack(work, n) /\ Owned(work, E, c, n) /\ BlocksOK(blocks, n) /\ n \in Nat /\ n <= n
  BY <1>1 DEF LowererInv, Waiting, Written, Targeted
<1>4. IsSequence(work) /\ Len(work) = 1
  <2>1. IsSequence(work) /\ \A k \in 1 .. Len(work) : work[k].do = "end" <=> k = Len(work)
    BY <1>3 DEF Stack
  <2>2. 1 \in 1 .. Len(work)
    BY <1>1, <2>1, SequenceFacts
  <2>. QED  BY <1>1, <2>1, <2>2
<1>5. work' = <<>>
  <2>1. IsSequence(Tail(work)) /\ Len(Tail(work)) = 0
    BY <1>1, <1>4, TailFacts
  <2>2. Tail(work) = <<>>
    BY <2>1, SequenceFacts
  <2>3. <<>> \o <<>> = <<>>
    BY EmptySeq, ConcatEmptySeq
  <2>. QED  BY <1>2, <2>2, <2>3
<1>6. Closed(instrs, n)
  <2>1. CASE HasTerminator
    BY <1>1, <2>1, Top DEF Closed, LowererInv, Written
  <2>2. CASE ~HasTerminator
    <3>1. t.op \in {"ret", "unreachable"}
      BY DEF Ret, Unreachable
    <3>. HIDE DEF t
    <3>2. IsTerminator(t) /\ JumpTargets(t) \subseteq Ids(n)
      BY <3>1 DEF IsTerminator, JumpTargets
    <3>3. Plain(ibuf)
      BY <1>1, <2>2, Top
    <3>4. Closed(ibuf \o <<t>>, n)
      BY <3>2, <3>3, Closed1, EmitClosed
    <3>5. Append(ibuf, t) = ibuf \o <<t>>
      BY <3>3, AppendOne DEF Plain
    <3>. QED  BY <2>2, <3>4, <3>5
  <2>. QED  BY <2>1, <2>2
<1>. HIDE DEF t, instrs
<1>7. /\ blocks' = Append(blocks, [id |-> c, instrs |-> instrs])
      /\ Plain(ibuf')
  BY <1>2, <1>6, EmitBlockFacts
<1>8. c \notin E
  BY <1>3 DEF Owned
<1>9. BlocksOK(blocks', n) /\ Emitted(blocks') = E \cup {c}
  BY <1>3, <1>6, <1>7, <1>8, BlocksAppend
<1>10. E \cup {c} = Ids(n)
  <2>1. PendingIds(work) = {}
    BY <1>1, <1>4 DEF PendingIds
  <2>. QED  BY <1>3, <2>1 DEF Owned
<1>11. Buffer(ibuf', n)
  BY <1>7, PlainBuffer
<1>12. Targeted' /\ Written'
  BY <1>2, <1>9, <1>11, Numbers DEF Targeted, Written, targets
<1>13. Waiting' /\ Complete'
  BY <1>2, <1>5, <1>9, <1>10 DEF Waiting, Complete
<1>. QED  BY <1>12, <1>13 DEF LowererInv

-----------------------------------------------------------------------------
(* The invariant holds at the start of a function and stays. *)
LEMMA InitInv ==
    ASSUME LowererInit
    PROVE  LowererInv
<1>1. PICK func \in Funcs : LowererStart(func)
  BY DEF LowererInit
<1>. DEFINE ss == func.stmts  front == [k \in 1 .. Len(ss) |-> LowerStmt(ss[k])]
            end == [do |-> "end", void |-> func.void]  z == <<end>>
<1>2. ss \in Seq(Stmts)
  BY FuncAssumption
<1>3. work = front \o z /\ end.do = "end"
  BY <1>1 DEF LowererStart
<1>. HIDE DEF ss, end
<1>4. /\ IsSequence(front) /\ Len(front) = Len(ss) /\ Len(ss) \in Nat
      /\ \A k \in 1 .. Len(ss) :
            ItemOK(front[k], 1) /\ Pending(front[k]) = {} /\ front[k].do = "stmt"
  BY <1>2, StmtSequence
<1>5. IsSequence(z) /\ Len(z) = 1 /\ z[1] = end
  <2>1. z \in Seq({end}) /\ Len(z) = 1 /\ z[1] = end
    OBVIOUS
  <2>2. IsSequence(z)
    BY <2>1, OfSeq
  <2>. QED  BY <2>1, <2>2
<1>. HIDE DEF front, z
<1>6. /\ IsSequence(front \o z) /\ Len(front \o z) = Len(front) + Len(z)
      /\ \A k \in 1 .. Len(front) : (front \o z)[k] = front[k]
      /\ \A k \in 1 .. Len(z) : (front \o z)[Len(front) + k] = z[k]
  <2>1. IsSequence(front) /\ IsSequence(z)
    BY <1>4, <1>5
  <2>. QED  BY ONLY <2>1, ConcatFacts
<1>7. /\ IsSequence(work) /\ Len(work) = Len(ss) + 1
      /\ \A k \in 1 .. Len(ss) : work[k] = front[k]
      /\ work[Len(ss) + 1] = end
  BY <1>3, <1>4, <1>5, <1>6
<1>8. ItemOK(end, 1) /\ Pending(end) = {}
  BY <1>3 DEF ItemOK, Pending
<1>9. \A k \in 1 .. Len(work) :
         \/ k \in 1 .. Len(ss) /\ work[k] = front[k]
         \/ k = Len(work) /\ work[k] = end
  BY <1>4, <1>7
<1>10. \A k \in 1 .. Len(work) : k \in 1 .. Len(ss) => k # Len(work)
  BY <1>4, <1>7
<1>11. Stack(work, 1)
  <2>1. \A k \in 1 .. Len(work) : ItemOK(work[k], 1) /\ work[k].do \in {"stmt", "end"}
    BY <1>3, <1>4, <1>8, <1>9
  <2>2. \A k \in 1 .. Len(work) : work[k].do = "end" <=> k = Len(work)
    BY <1>3, <1>4, <1>9, <1>10
  <2>3. \A k \in 1 .. Len(work) - 1 : k + 1 \in 1 .. Len(work)
    BY <1>4, <1>7
  <2>. QED  BY <1>7, <2>1, <2>2, <2>3 DEF Stack, Lenient
<1>12. PendingIds(work) = {} /\ \A k \in 1 .. Len(work) : Pending(work[k]) = {}
  BY <1>4, <1>8, <1>9 DEF PendingIds
<1>13. /\ blocks = <<>> /\ block_count = 1 /\ current_block_id = 0
       /\ break_target_id = 0 /\ continue_target_id = 0
  BY <1>1 DEF LowererStart
<1>14. Emitted(blocks) = {} /\ BlocksOK(blocks, 1)
  <2>1. IsSequence(<<>>) /\ Len(<<>>) = 0
    BY EmptyPlain, EmptySeq DEF Plain
  <2>. QED  BY <1>13, <2>1 DEF Emitted, BlocksOK
<1>15. Ids(1) = {0}
  BY DEF Ids
<1>16. Owned(work, {}, 0, 1)
  BY <1>12, <1>15 DEF Owned
<1>17. Plain(ibuf)
  <2>. DEFINE l == 2 * Len(Params)
              f == [k \in 1 .. l |-> LET i == (k - 1) \div 2
                                     IN  IF k % 2 = 1 THEN Alloca(Reg(i)) ELSE StoreTo(Reg(i), Arg(i))]
  <2>1. ibuf = f
    BY <1>1 DEF LowererStart
  <2>2. l \in Nat
    BY FuncAssumption, LenProperties
  <2>3. f = [k \in 1 .. l |-> f[k]]
    OBVIOUS
  <2>4. \A k \in 1 .. l : f[k].op \in {"alloca", "store"}
    BY DEF Alloca, StoreTo
  <2>. HIDE DEF f, l
  <2>5. IsSequence(f) /\ Len(f) = l
    BY <2>2, <2>3, MappedSequence
  <2>6. \A k \in 1 .. l : ~IsTerminator(f[k])
    BY <2>4 DEF IsTerminator
  <2>. QED  BY <2>1, <2>5, <2>6 DEF Plain
<1>18. Buffer(ibuf, 1) /\ ~Ended(ibuf)
  BY <1>17, PlainBuffer
<1>19. work # <<>>
  BY <1>4, <1>7, SequenceFacts
<1>. QED  BY <1>11, <1>13, <1>14, <1>15, <1>16, <1>18, <1>19
          DEF LowererInv, Targeted, Written, Waiting, Complete

LEMMA StepInv ==
    ASSUME LowererInv, [Lower]_lowererVars
    PROVE  LowererInv'
<1>1. CASE UNCHANGED lowererVars
  BY <1>1 DEF lowererVars, emitted, targets, LowererInv, Targeted, Written, Waiting, Complete
<1>2. CASE EndFunction
  BY <1>2, EndStep
<1>3. CASE DeadStmt
  BY <1>3, DeadStmtStep
<1>4. CASE StoreValue \/ IgnoreValue \/ CassignOp \/ LowerConst \/ LowerSymbol \/ EmitUnary
           \/ EmitBin \/ EmitCall
  BY <1>4, PopSteps
<1>5. CASE LowerDecl \/ LowerExprStmt \/ LowerAssign \/ LowerIf \/ CassignPlain
  BY <1>5, StmtPushSteps
<1>6. CASE LowerBreak \/ EmitReturn
  BY <1>6, BreakStep, EmitReturnStep
<1>7. CASE LowerBlock \/ LowerReturn \/ LowerCall
  BY <1>7, BlockPushStep, ReturnPushStep, CallPushStep
<1>8. CASE LowerUnary \/ LowerBin \/ LowerLogical
  BY <1>8, ExprPushSteps
<1>9. CASE IfCond \/ IfThen \/ IfElse
  BY <1>9, IfCondStep, IfThenStep, IfElseStep
<1>10. CASE LowerWhile \/ WhileCond \/ WhileEnd
  BY <1>10, WhileStep, WhileCondStep, WhileEndStep
<1>11. CASE CassignLogical \/ CassignRhs
  BY <1>11, CassignLogicalStep, CassignRhsStep
<1>12. CASE LogicalLhs \/ LogicalRhs
  BY <1>12, LogicalLhsStep, LogicalRhsStep
<1>. QED  BY <1>1, <1>2, <1>3, <1>4, <1>5, <1>6, <1>7, <1>8, <1>9, <1>10, <1>11, <1>12 DEF Lower

\* What the lowerer keeps at every step: the stack, the ids that were taken,
\* and what may stand in the current block.
THEOREM LowererInvariant == LowererSpec => []LowererInv
<1>1. LowererInit => LowererInv
  BY InitInv
<1>2. LowererInv /\ [Lower]_lowererVars => LowererInv'
  BY StepInv
<1>. QED  BY <1>1, <1>2, PTL DEF LowererSpec

LEMMA InvShape ==
    ASSUME LowererInv
    PROVE  BlockShape
<1>1. BlocksOK(blocks, block_count)
  BY DEF LowererInv, Written
<1>2. DOMAIN blocks = 1 .. Len(blocks)
  BY <1>1, SequenceFacts DEF BlocksOK
<1>. QED  BY <1>1, <1>2 DEF BlocksOK, Closed, Ended, Buffer, BlockShape, WellEnded

LEMMA InvLand ==
    ASSUME LowererInv
    PROVE  JumpsLand
<1>1. SUFFICES ASSUME work = <<>>, NEW b \in DOMAIN blocks, NEW k \in DOMAIN blocks[b].instrs
               PROVE  JumpTargets(blocks[b].instrs[k]) \subseteq {blocks[c].id : c \in DOMAIN blocks}
  BY DEF JumpsLand, Lowered
<1>2. BlocksOK(blocks, block_count) /\ Emitted(blocks) = Ids(block_count)
  BY <1>1 DEF LowererInv, Written, Complete
<1>3. DOMAIN blocks = 1 .. Len(blocks)
  BY <1>2, SequenceFacts DEF BlocksOK
<1>4. Buffer(blocks[b].instrs, block_count)
  BY <1>2, <1>3 DEF BlocksOK, Closed
<1>5. k \in 1 .. Len(blocks[b].instrs)
  BY <1>4, SequenceFacts DEF Buffer
<1>. QED  BY <1>2, <1>3, <1>4, <1>5 DEF Buffer, Emitted

\* Every block handed to a function ends in its only terminator, and block
\* ids are not used twice (el_lowerer_emit_block).
THEOREM BlocksWellShaped == LowererSpec => []BlockShape
<1>1. LowererInv => BlockShape
  BY InvShape
<1>. QED  BY <1>1, LowererInvariant, PTL

\* Every jump of a lowered function leads to a block that was emitted: none
\* of the ids that lower_if, lower_while and the logical operators take is
\* left without a block.
THEOREM AllJumpsLand == LowererSpec => []JumpsLand
<1>1. LowererInv => JumpsLand
  BY InvLand
<1>. QED  BY <1>1, LowererInvariant, PTL
=============================================================================
