------------------------ MODULE ElTokenQueue_proofs ------------------------
(* The ring buffer stays a ring and implements TokenDeque, for all queues,   *)
(* tokens and capacities.                                                    *)
EXTENDS ElTokenQueue, Integers, SequenceTheorems, TLAPS

\* Where (i % c) lies, and what it is for the sums the code forms.
LEMMA ModRange ==
    ASSUME NEW c \in Nat \ {0}, NEW i \in Nat
    PROVE  i % c \in 0 .. c - 1
OBVIOUS

LEMMA ModWrap ==
    ASSUME NEW c \in Nat \ {0}, NEW h \in 0 .. c - 1, NEW i \in 0 .. c
    PROVE  /\ h + i < c => (h + i) % c = h + i
           /\ h + i >= c => (h + i) % c = h + i - c
OBVIOUS

LEMMA ModBack ==
    ASSUME NEW c \in Nat \ {0}, NEW h \in 0 .. c - 1
    PROVE  (h + c - 1) % c = IF h = 0 THEN c - 1 ELSE h - 1
OBVIOUS

\* The fields of a ring, and the slot of its i-th token.
LEMMA RingFacts ==
    ASSUME NEW q, IsRing(q), q.cap # 0
    PROVE  /\ q.cap \in Nat \ {0} /\ q.head \in 0 .. q.cap - 1
           /\ q.len \in 0 .. q.cap /\ q.tail \in 0 .. q.cap - 1
           /\ q.head + q.len < q.cap => q.tail = q.head + q.len
           /\ q.head + q.len >= q.cap => q.tail = q.head + q.len - q.cap
           /\ q.data \in [0 .. q.cap - 1 -> Slots]
<1>1. /\ q.cap \in Nat \ {0} /\ q.head \in 0 .. q.cap - 1 /\ q.len \in 0 .. q.cap
      /\ q.data \in [0 .. q.cap - 1 -> Slots] /\ q.tail = (q.head + q.len) % q.cap
  BY DEF IsRing
<1>2. /\ q.head + q.len < q.cap => q.tail = q.head + q.len
      /\ q.head + q.len >= q.cap => q.tail = q.head + q.len - q.cap
  <2>. DEFINE c == q.cap  h == q.head  n == q.len  z == q.tail
  <2>1. /\ c \in Nat \ {0} /\ h \in 0 .. c - 1 /\ n \in 0 .. c /\ z = (h + n) % c
    BY <1>1
  <2>. HIDE DEF c, h, n, z
  <2>2. /\ h + n < c => z = h + n
        /\ h + n >= c => z = h + n - c
    BY ONLY <2>1, ModWrap
  <2>. QED  BY <2>2 DEF c, h, n, z
<1>3. q.tail \in 0 .. q.cap - 1
  <2>. DEFINE c == q.cap  h == q.head  n == q.len  z == q.tail
  <2>1. /\ c \in Nat \ {0} /\ h \in 0 .. c - 1 /\ n \in 0 .. c
        /\ h + n < c => z = h + n
        /\ h + n >= c => z = h + n - c
    BY <1>1, <1>2
  <2>. HIDE DEF c, h, n, z
  <2>2. z \in 0 .. c - 1
    BY ONLY <2>1
  <2>. QED  BY <2>2 DEF c, z
<1>. QED  BY ONLY <1>1, <1>2, <1>3

LEMMA AtFacts ==
    ASSUME NEW q, IsRing(q), q.cap # 0, NEW i \in 0 .. q.cap
    PROVE  /\ q.head + i < q.cap => At(q, i) = q.data[q.head + i]
           /\ q.head + i >= q.cap => At(q, i) = q.data[q.head + i - q.cap]
           /\ At(q, i) \in Slots
<1>1. /\ q.cap \in Nat \ {0} /\ q.head \in 0 .. q.cap - 1
      /\ q.data \in [0 .. q.cap - 1 -> Slots]
  BY RingFacts
<1>. DEFINE c == q.cap  h == q.head
<1>2. c \in Nat \ {0} /\ h \in 0 .. c - 1 /\ i \in 0 .. c /\ h + i \in Nat
  BY <1>1
<1>. HIDE DEF c, h
<1>3. /\ h + i < c => (h + i) % c = h + i
      /\ h + i >= c => (h + i) % c = h + i - c
      /\ (h + i) % c \in 0 .. c - 1
  BY ONLY <1>2, ModWrap, ModRange
<1>. QED  BY <1>1, <1>3 DEF At, c, h

LEMMA ContentsType ==
    ASSUME NEW q, IsRing(q)
    PROVE  /\ Contents(q) \in Seq(Slots)
           /\ Len(Contents(q)) = q.len
           /\ \A i \in 1 .. q.len : Contents(q)[i] = At(q, i - 1)
           /\ q.len = 0 => Contents(q) = <<>>
<1>1. q.len \in Nat /\ q.cap \in Nat /\ (q.cap = 0 => q.len = 0) /\ q.len <= q.cap
  BY DEF IsRing
<1>2. \A i \in 1 .. q.len : Contents(q)[i] = At(q, i - 1)
  BY DEF Contents
<1>3. \A i \in 1 .. q.len : At(q, i - 1) \in Slots
  <2>. TAKE i \in 1 .. q.len
  <2>1. q.cap # 0 /\ i - 1 \in 0 .. q.cap
    BY <1>1
  <2>. QED  BY <2>1, AtFacts
<1>4. Contents(q) \in [1 .. q.len -> Slots]
  BY <1>3 DEF Contents
<1>5. Contents(q) \in Seq(Slots)
  BY <1>1, <1>4, SeqDef
<1>6. Len(Contents(q)) = q.len
  <2>1. DOMAIN Contents(q) = 1 .. Len(Contents(q)) /\ Len(Contents(q)) \in Nat
    BY <1>5, LenProperties
  <2>2. DOMAIN Contents(q) = 1 .. q.len
    BY <1>4
  <2>. QED  BY <1>1, <2>1, <2>2, SMT
<1>. QED  BY <1>2, <1>5, <1>6, EmptySeq

\* Two sequences of the same length and elements are equal.
LEMMA SameContents ==
    ASSUME NEW q, NEW r, IsRing(q), IsRing(r), q.len = r.len,
           \A i \in 1 .. q.len : At(q, i - 1) = At(r, i - 1)
    PROVE  Contents(q) = Contents(r)
BY DEF Contents

\* A new array holds the tokens of the old one, in the same order.
LEMMA ResizedRing ==
    ASSUME NEW q, IsRing(q), NEW cap \in Nat \ {0}, q.len < cap
    PROVE  /\ IsRing(Resized(q, cap)) /\ Resized(q, cap).len = q.len
           /\ Resized(q, cap).cap = cap
           /\ Contents(Resized(q, cap)) = Contents(q)
<1>. DEFINE r == Resized(q, cap)
<1>1. /\ r.data = Repack(q, cap) /\ r.cap = cap /\ r.head = 0
      /\ r.tail = q.len /\ r.len = q.len
  BY DEF Resized
<1>2. q.len \in Nat /\ q.cap \in Nat /\ q.head \in Nat /\ q.tail \in Nat
  BY DEF IsRing
<1>3. \A k \in 0 .. cap - 1 :
        /\ Repack(q, cap)[k] \in Slots
        /\ k < q.len => Repack(q, cap)[k] = At(q, k)
  <2>. TAKE k \in 0 .. cap - 1
  <2>. DEFINE size == IF q.head < q.tail THEN q.len
                      ELSE IF q.len = 0 THEN 0 ELSE q.cap - q.head + q.tail
  <2>1. Repack(q, cap)[k] = IF k >= size THEN Junk
                            ELSE IF q.head < q.tail \/ k < q.cap - q.head
                            THEN q.data[q.head + k] ELSE q.data[k - (q.cap - q.head)]
    BY DEF Repack
  <2>2. CASE q.len = 0
    <3>1. ~(q.head < q.tail)
      <4>1. CASE q.cap = 0
        BY <4>1 DEF IsRing
      <4>2. CASE q.cap # 0
        BY <1>2, <2>2, <4>2, RingFacts
      <4>. QED  BY <4>1, <4>2
    <3>2. size = 0
      BY <2>2, <3>1
    <3>. QED  BY <2>1, <2>2, <3>2 DEF Slots
  <2>3. CASE q.len # 0
    <3>1. q.cap # 0
      BY <1>2, <2>3 DEF IsRing
    <3>2. /\ q.cap \in Nat \ {0} /\ q.head \in 0 .. q.cap - 1
          /\ q.len \in 1 .. q.cap
          /\ q.head + q.len < q.cap => q.tail = q.head + q.len
          /\ q.head + q.len >= q.cap => q.tail = q.head + q.len - q.cap
      BY <2>3, <3>1, RingFacts
    <3>3. size = q.len
      BY ONLY <3>2
    <3>4. CASE k < q.len
      <4>1. k \in 0 .. q.cap
        BY <3>2, <3>4
      <4>2. /\ q.head + k < q.cap => At(q, k) = q.data[q.head + k]
            /\ q.head + k >= q.cap => At(q, k) = q.data[q.head + k - q.cap]
            /\ At(q, k) \in Slots
        BY <3>1, <4>1, AtFacts
      <4>3. q.head < q.tail \/ k < q.cap - q.head <=> q.head + k < q.cap
        BY ONLY <3>2, <3>4, k \in 0 .. cap - 1, cap \in Nat
      <4>4. k - (q.cap - q.head) = q.head + k - q.cap
        BY <3>2
      <4>. HIDE DEF size
      <4>5. Repack(q, cap)[k] = At(q, k)
        BY <2>1, <3>2, <3>3, <3>4, <4>2, <4>3, <4>4
      <4>. QED  BY <4>2, <4>5
    <3>5. CASE ~(k < q.len)
      <4>1. k >= size
        BY <3>2, <3>3, <3>5
      <4>. QED  BY <2>1, <3>5, <4>1 DEF Slots
    <3>. QED  BY <3>4, <3>5
  <2>. QED  BY <2>2, <2>3
<1>4. r.data \in [0 .. r.cap - 1 -> Slots]
  <2>1. DOMAIN Repack(q, cap) = 0 .. cap - 1 /\ Repack(q, cap) = [k \in 0 .. cap - 1 |-> Repack(q, cap)[k]]
    BY DEF Repack
  <2>. QED  BY <1>1, <1>3, <2>1
<1>5. (0 + q.len) % cap = q.len
  BY <1>2, ModWrap
<1>6. r = [data |-> r.data, cap |-> r.cap, head |-> r.head, tail |-> r.tail, len |-> r.len]
  BY <1>1 DEF Resized
<1>. HIDE DEF r
<1>7. IsRing(r)
  <2>. DEFINE d == r.data  n == q.len
  <2>1. r = [data |-> d, cap |-> cap, head |-> 0, tail |-> n, len |-> n]
    BY <1>1, <1>6
  <2>2. /\ cap \in Nat \ {0} /\ d \in [0 .. cap - 1 -> Slots] /\ n \in Nat /\ n < cap
        /\ (0 + n) % cap = n
    BY <1>1, <1>2, <1>4, <1>5
  <2>. HIDE DEF d, n
  <2>. QED  BY ONLY <2>1, <2>2 DEF IsRing
<1>8. \A i \in 1 .. q.len : At(r, i - 1) = At(q, i - 1)
  <2>. TAKE i \in 1 .. q.len
  <2>1. i - 1 \in 0 .. cap - 1 /\ i - 1 < q.len /\ i - 1 \in 0 .. r.cap
    BY <1>1, <1>2
  <2>2. At(r, i - 1) = r.data[0 + (i - 1)]
    BY <1>1, <1>7, <2>1, AtFacts
  <2>. QED  BY <1>1, <1>3, <2>1, <2>2
<1>9. Contents(r) = Contents(q)
  BY <1>1, <1>7, <1>8, SameContents
<1>. QED  BY <1>1, <1>7, <1>9 DEF r

\* A full queue has been given room.
LEMMA RoomyRing ==
    ASSUME NEW q, IsRing(q)
    PROVE  /\ IsRing(Roomy(q)) /\ Roomy(q).len = q.len
           /\ Roomy(q).len < Roomy(q).cap
           /\ Contents(Roomy(q)) = Contents(q)
<1>1. q.len \in Nat /\ q.cap \in Nat /\ (q.cap = 0 => q.len = 0) /\ q.len <= q.cap
  BY DEF IsRing
<1>2. CASE q.len # q.cap
  BY <1>1, <1>2 DEF Roomy
<1>3. CASE q.len = q.cap
  <2>. DEFINE cap == IF q.cap = 0 THEN DefaultCap ELSE 2 * q.cap
  <2>1. cap \in Nat \ {0} /\ q.len < cap
    BY <1>1, <1>3, QueueAssumption
  <2>2. Roomy(q) = Resized(q, cap)
    BY <1>3 DEF Roomy
  <2>. HIDE DEF cap
  <2>. QED  BY <2>1, <2>2, ResizedRing
<1>. QED  BY <1>2, <1>3

\* The slot behind the last token, and the next one.
LEMMA TailPlace ==
    ASSUME NEW c \in Nat \ {0}, NEW h \in 0 .. c - 1, NEW n \in 0 .. c - 1
    PROVE  /\ (h + n) % c \in 0 .. c - 1
           /\ (((h + n) % c) + 1) % c = (h + (n + 1)) % c
           /\ (((h + n) % c) + 1) % c \in Nat
           /\ \A i \in 0 .. n - 1 : (h + i) % c \in 0 .. c - 1 /\ (h + i) % c # (h + n) % c
<1>. DEFINE z == (h + n) % c
<1>1. /\ h + n < c => z = h + n
      /\ h + n >= c => z = h + n - c
  <2>1. n \in 0 .. c
    OBVIOUS
  <2>. QED  BY <2>1, ModWrap
<1>. HIDE DEF z
<1>2. z \in 0 .. c - 1
  BY <1>1
<1>3. /\ z + 1 < c => (z + 1) % c = z + 1
      /\ z + 1 >= c => (z + 1) % c = z + 1 - c
  <2>1. 1 \in 0 .. c
    OBVIOUS
  <2>. QED  BY <1>2, <2>1, ModWrap
<1>4. /\ h + (n + 1) < c => (h + (n + 1)) % c = h + (n + 1)
      /\ h + (n + 1) >= c => (h + (n + 1)) % c = h + (n + 1) - c
  <2>1. n + 1 \in 0 .. c
    OBVIOUS
  <2>. QED  BY <2>1, ModWrap
<1>5. (z + 1) % c = (h + (n + 1)) % c /\ (z + 1) % c \in Nat
  BY <1>1, <1>2, <1>3, <1>4
<1>6. ASSUME NEW i \in 0 .. n - 1
      PROVE  (h + i) % c \in 0 .. c - 1 /\ (h + i) % c # z
  <2>1. i \in 0 .. c /\ i < n
    OBVIOUS
  <2>2. /\ h + i < c => (h + i) % c = h + i
        /\ h + i >= c => (h + i) % c = h + i - c
    BY <2>1, ModWrap
  <2>. QED  BY <1>1, <2>1, <2>2
<1>. QED  BY <1>2, <1>5, <1>6 DEF z

LEMMA PushedRing ==
    ASSUME NEW r, IsRing(r), r.len < r.cap, NEW t \in Tokens
    PROVE  /\ IsRing(Pushed(r, t))
           /\ Contents(Pushed(r, t)) = Append(Contents(r), t)
<1>. DEFINE p == Pushed(r, t)
            c == r.cap  h == r.head  z == r.tail  n == r.len  d == r.data
<1>1. /\ c \in Nat \ {0} /\ h \in 0 .. c - 1 /\ n \in 0 .. c - 1 /\ z = (h + n) % c
      /\ d \in [0 .. c - 1 -> Slots]
      /\ r = [data |-> d, cap |-> c, head |-> h, tail |-> z, len |-> n]
  BY DEF IsRing
<1>2. p = [data |-> [d EXCEPT ![z] = t], cap |-> c, head |-> h,
           tail |-> (z + 1) % c, len |-> n + 1]
  <2>1. p = [r EXCEPT !.data = [d EXCEPT ![z] = t], !.tail = (z + 1) % c, !.len = n + 1]
    BY <1>1 DEF Pushed
  <2>. HIDE DEF p, c, h, z, n, d
  <2>. QED  BY <1>1, <2>1
<1>3. \A i : At(r, i) = d[(h + i) % c]
  BY DEF At
<1>4. \A i : At(p, i) = [d EXCEPT ![z] = t][(h + i) % c]
  <2>. HIDE DEF p, c, h, z, n, d
  <2>. QED  BY <1>2 DEF At
<1>5. /\ Contents(r) \in Seq(Slots) /\ Len(Contents(r)) = n
      /\ \A i \in 1 .. n : Contents(r)[i] = At(r, i - 1)
  BY ContentsType
<1>. HIDE DEF p, c, h, z, n, d
<1>6. /\ z \in 0 .. c - 1
      /\ (z + 1) % c = (h + (n + 1)) % c /\ (z + 1) % c \in Nat
      /\ \A i \in 0 .. n - 1 : (h + i) % c \in 0 .. c - 1 /\ (h + i) % c # z
  <2>1. c \in Nat \ {0} /\ h \in 0 .. c - 1 /\ n \in 0 .. c - 1 /\ z = (h + n) % c
    BY <1>1
  <2>. QED  BY ONLY <2>1, TailPlace
<1>7. t \in Slots
  BY DEF Slots
<1>8. IsRing(p)
  <2>1. [d EXCEPT ![z] = t] \in [0 .. c - 1 -> Slots]
    BY <1>1, <1>6, <1>7
  <2>. QED  BY ONLY <1>1, <1>2, <1>6, <2>1 DEF IsRing
<1>9. /\ Contents(p) \in Seq(Slots) /\ Len(Contents(p)) = n + 1
      /\ \A i \in 1 .. n + 1 : Contents(p)[i] = At(p, i - 1)
  <2>1. p.len = n + 1
    BY <1>2
  <2>2. /\ Contents(p) \in Seq(Slots) /\ Len(Contents(p)) = p.len
        /\ \A i \in 1 .. p.len : Contents(p)[i] = At(p, i - 1)
    BY ONLY <1>8, ContentsType
  <2>. QED  BY <2>1, <2>2
<1>10. /\ Append(Contents(r), t) \in Seq(Slots) /\ Len(Append(Contents(r), t)) = n + 1
       /\ \A i \in 1 .. n : Append(Contents(r), t)[i] = Contents(r)[i]
       /\ Append(Contents(r), t)[n + 1] = t
  BY <1>5, <1>7, AppendProperties
<1>11. \A i \in 1 .. n + 1 : Contents(p)[i] = Append(Contents(r), t)[i]
  <2>. TAKE i \in 1 .. n + 1
  <2>1. CASE i \in 1 .. n
    <3>1. i - 1 \in 0 .. n - 1
      BY <1>1, <2>1
    <3>2. At(p, i - 1) = At(r, i - 1)
      BY <1>1, <1>3, <1>4, <1>6, <3>1
    <3>. QED  BY <1>5, <1>9, <1>10, <2>1, <3>2
  <2>2. CASE i = n + 1
    <3>1. i - 1 = n
      BY <1>1, <2>2
    <3>2. At(p, n) = t
      BY <1>1, <1>4, <1>6
    <3>. QED  BY <1>9, <1>10, <2>2, <3>1, <3>2
  <2>3. i \in 1 .. n \/ i = n + 1
    BY <1>1
  <2>. QED  BY <2>1, <2>2, <2>3
<1>12. Contents(p) = Append(Contents(r), t)
  BY <1>9, <1>10, <1>11, SeqEqual
<1>. QED  BY <1>8, <1>12 DEF p

\* The slot before the first token.
LEMMA HeadPlace ==
    ASSUME NEW c \in Nat \ {0}, NEW h \in 0 .. c - 1, NEW n \in 0 .. c - 1
    PROVE  /\ (h + c - 1) % c \in 0 .. c - 1
           /\ (((h + c - 1) % c) + (n + 1)) % c = (h + n) % c
           /\ (((h + c - 1) % c) + 0) % c = (h + c - 1) % c
           /\ \A i \in 0 .. n - 1 : /\ (((h + c - 1) % c) + (i + 1)) % c = (h + i) % c
                                  /\ (h + i) % c \in 0 .. c - 1
                                  /\ (h + i) % c # (h + c - 1) % c
<1>. DEFINE z == (h + c - 1) % c
<1>1. z = IF h = 0 THEN c - 1 ELSE h - 1
  BY ModBack
<1>. HIDE DEF z
<1>2. z \in 0 .. c - 1
  BY <1>1
<1>3. ASSUME NEW i \in 0 .. n
      PROVE  /\ (z + (i + 1)) % c = (h + i) % c
             /\ (h + i) % c \in 0 .. c - 1
             /\ i # n => (h + i) % c # z
  <2>1. i \in 0 .. c /\ i + 1 \in 0 .. c /\ i <= n
    OBVIOUS
  <2>2. /\ h + i < c => (h + i) % c = h + i
        /\ h + i >= c => (h + i) % c = h + i - c
    BY <2>1, ModWrap
  <2>3. /\ z + (i + 1) < c => (z + (i + 1)) % c = z + (i + 1)
        /\ z + (i + 1) >= c => (z + (i + 1)) % c = z + (i + 1) - c
    BY <1>2, <2>1, ModWrap
  <2>. QED  BY <1>1, <2>1, <2>2, <2>3
<1>4. (z + 0) % c = z
  <2>1. 0 \in 0 .. c
    OBVIOUS
  <2>2. z + 0 < c => (z + 0) % c = z + 0
    BY <1>2, <2>1, ModWrap
  <2>. QED  BY <1>2, <2>2
<1>5. /\ (z + (n + 1)) % c = (h + n) % c
      /\ \A i \in 0 .. n - 1 : /\ (z + (i + 1)) % c = (h + i) % c
                             /\ (h + i) % c \in 0 .. c - 1
                             /\ (h + i) % c # z
  <2>1. n \in 0 .. n /\ \A i \in 0 .. n - 1 : i \in 0 .. n /\ i # n
    OBVIOUS
  <2>. QED  BY <1>3, <2>1
<1>. QED  BY <1>2, <1>4, <1>5 DEF z

LEMMA PushedFrontRing ==
    ASSUME NEW r, IsRing(r), r.len < r.cap, NEW t \in Tokens
    PROVE  /\ IsRing(PushedFront(r, t))
           /\ Contents(PushedFront(r, t)) = <<t>> \o Contents(r)
<1>. DEFINE p == PushedFront(r, t)
            c == r.cap  h == r.head  z == r.tail  n == r.len  d == r.data
            y == (h + c - 1) % c
<1>1. /\ c \in Nat \ {0} /\ h \in 0 .. c - 1 /\ n \in 0 .. c - 1 /\ z = (h + n) % c
      /\ d \in [0 .. c - 1 -> Slots] /\ z \in Nat
      /\ r = [data |-> d, cap |-> c, head |-> h, tail |-> z, len |-> n]
  BY DEF IsRing
<1>2. p = [data |-> [d EXCEPT ![y] = t], cap |-> c, head |-> y, tail |-> z, len |-> n + 1]
  <2>1. p = [r EXCEPT !.data = [d EXCEPT ![y] = t], !.head = y, !.len = n + 1]
    BY <1>1 DEF PushedFront
  <2>. HIDE DEF p, c, h, z, n, d, y
  <2>. QED  BY <1>1, <2>1
<1>3. \A i : At(r, i) = d[(h + i) % c]
  BY DEF At
<1>4. \A i : At(p, i) = [d EXCEPT ![y] = t][(y + i) % c]
  <2>. HIDE DEF p, c, h, z, n, d, y
  <2>. QED  BY <1>2 DEF At
<1>5. /\ Contents(r) \in Seq(Slots) /\ Len(Contents(r)) = n
      /\ \A i \in 1 .. n : Contents(r)[i] = At(r, i - 1)
  BY ContentsType
<1>. HIDE DEF p, c, h, z, n, d
<1>6. /\ y \in 0 .. c - 1
      /\ (y + (n + 1)) % c = (h + n) % c
      /\ (y + 0) % c = y
      /\ \A i \in 0 .. n - 1 : /\ (y + (i + 1)) % c = (h + i) % c
                             /\ (h + i) % c \in 0 .. c - 1
                             /\ (h + i) % c # y
  <2>1. c \in Nat \ {0} /\ h \in 0 .. c - 1 /\ n \in 0 .. c - 1
    BY <1>1
  <2>. QED  BY ONLY <2>1, HeadPlace
<1>. HIDE DEF y
<1>7. t \in Slots
  BY DEF Slots
<1>8. IsRing(p)
  <2>1. [d EXCEPT ![y] = t] \in [0 .. c - 1 -> Slots]
    BY <1>1, <1>6, <1>7
  <2>. QED  BY ONLY <1>1, <1>2, <1>6, <2>1 DEF IsRing
<1>9. /\ Contents(p) \in Seq(Slots) /\ Len(Contents(p)) = n + 1
      /\ \A i \in 1 .. n + 1 : Contents(p)[i] = At(p, i - 1)
  <2>1. p.len = n + 1
    BY <1>2
  <2>2. /\ Contents(p) \in Seq(Slots) /\ Len(Contents(p)) = p.len
        /\ \A i \in 1 .. p.len : Contents(p)[i] = At(p, i - 1)
    BY ONLY <1>8, ContentsType
  <2>. QED  BY <2>1, <2>2
<1>10. /\ <<t>> \in Seq(Slots) /\ Len(<<t>>) = 1 /\ <<t>>[1] = t
  BY <1>7
<1>. DEFINE e == <<t>> \o Contents(r)
<1>11. /\ e \in Seq(Slots) /\ Len(e) = n + 1 /\ e[1] = t
       /\ \A i \in 2 .. n + 1 : e[i] = Contents(r)[i - 1]
  <2>1. /\ e \in Seq(Slots) /\ Len(e) = Len(<<t>>) + Len(Contents(r))
        /\ \A i \in 1 .. Len(<<t>>) + Len(Contents(r)) :
              e[i] = IF i <= Len(<<t>>) THEN <<t>>[i] ELSE Contents(r)[i - Len(<<t>>)]
    BY <1>5, <1>10, ConcatProperties
  <2>. HIDE DEF e
  <2>2. 1 + n = n + 1 /\ 1 \in 1 .. 1 + n /\ 2 .. n + 1 \subseteq 1 .. 1 + n
    BY <1>1
  <2>3. \A i \in 1 .. 1 + n : e[i] = IF i <= 1 THEN <<t>>[i] ELSE Contents(r)[i - 1]
    BY <1>5, <1>10, <2>1
  <2>4. e[1] = t
    BY <1>10, <2>2, <2>3
  <2>5. \A i \in 2 .. n + 1 : e[i] = Contents(r)[i - 1]
    BY <1>1, <2>2, <2>3
  <2>6. Len(e) = n + 1
    BY <1>5, <1>10, <2>1, <2>2
  <2>. QED  BY <2>1, <2>4, <2>5, <2>6
<1>. HIDE DEF e
<1>12. \A i \in 1 .. n + 1 : Contents(p)[i] = e[i]
  <2>. TAKE i \in 1 .. n + 1
  <2>1. CASE i = 1
    <3>1. At(p, 0) = t
      BY <1>1, <1>4, <1>6
    <3>. QED  BY <1>9, <1>11, <2>1, <3>1
  <2>2. CASE i # 1
    <3>1. i - 2 \in 0 .. n - 1 /\ i - 1 = (i - 2) + 1 /\ i - 1 \in 1 .. n /\ i \in 2 .. n + 1
      BY <1>1, <2>2
    <3>2. At(p, (i - 2) + 1) = At(r, i - 2)
      BY <1>1, <1>3, <1>4, <1>6, <3>1
    <3>3. Contents(r)[i - 1] = At(r, i - 2)
      BY <1>5, <3>1, (i - 1) - 1 = i - 2
    <3>. QED  BY <1>9, <1>11, <3>1, <3>2, <3>3
  <2>. QED  BY <2>1, <2>2
<1>13. Contents(p) = e
  BY <1>9, <1>11, <1>12, SeqEqual
<1>. QED  BY <1>8, <1>13 DEF p, e

LEMMA PopPlace ==
    ASSUME NEW c \in Nat \ {0}, NEW h \in 0 .. c - 1, NEW n \in 1 .. c
    PROVE  /\ (h + 1) % c \in 0 .. c - 1
           /\ (((h + 1) % c) + (n - 1)) % c = (h + n) % c
           /\ \A i \in 0 .. n - 2 : (((h + 1) % c) + i) % c = (h + (i + 1)) % c
<1>. DEFINE y == (h + 1) % c
<1>1. /\ h + 1 < c => y = h + 1
      /\ h + 1 >= c => y = h + 1 - c
  <2>1. 1 \in 0 .. c
    OBVIOUS
  <2>. QED  BY <2>1, ModWrap
<1>. HIDE DEF y
<1>2. y \in 0 .. c - 1
  BY <1>1
<1>3. ASSUME NEW i \in 0 .. n - 1
      PROVE  (y + i) % c = (h + (i + 1)) % c
  <2>1. i \in 0 .. c /\ i + 1 \in 0 .. c
    OBVIOUS
  <2>2. /\ h + (i + 1) < c => (h + (i + 1)) % c = h + (i + 1)
        /\ h + (i + 1) >= c => (h + (i + 1)) % c = h + (i + 1) - c
    BY <2>1, ModWrap
  <2>3. /\ y + i < c => (y + i) % c = y + i
        /\ y + i >= c => (y + i) % c = y + i - c
    BY <1>2, <2>1, ModWrap
  <2>. QED  BY <1>1, <2>1, <2>2, <2>3
<1>4. (y + (n - 1)) % c = (h + n) % c
  <2>1. n - 1 \in 0 .. n - 1 /\ (n - 1) + 1 = n
    OBVIOUS
  <2>. QED  BY <1>3, <2>1
<1>5. \A i \in 0 .. n - 2 : (y + i) % c = (h + (i + 1)) % c
  <2>1. \A i \in 0 .. n - 2 : i \in 0 .. n - 1
    OBVIOUS
  <2>. QED  BY <1>3, <2>1
<1>. QED  BY <1>2, <1>4, <1>5 DEF y

\* Moving the head past the first token takes it off.
LEMMA PoppedRing ==
    ASSUME NEW q, IsRing(q), q.len # 0,
           NEW p, p = [q EXCEPT !.head = (q.head + 1) % q.cap, !.len = q.len - 1]
    PROVE  /\ IsRing(p)
           /\ Contents(q) # <<>> /\ Head(Contents(q)) = At(q, 0)
           /\ Contents(p) = Tail(Contents(q))
<1>. DEFINE c == q.cap  h == q.head  z == q.tail  n == q.len  d == q.data
            y == (h + 1) % c
<1>1. /\ c \in Nat \ {0} /\ h \in 0 .. c - 1 /\ n \in 1 .. c /\ z = (h + n) % c
      /\ d \in [0 .. c - 1 -> Slots] /\ z \in Nat
      /\ q = [data |-> d, cap |-> c, head |-> h, tail |-> z, len |-> n]
  BY DEF IsRing
<1>2. p = [data |-> d, cap |-> c, head |-> y, tail |-> z, len |-> n - 1]
  <2>1. p = [q EXCEPT !.head = y, !.len = n - 1]
    OBVIOUS
  <2>. HIDE DEF c, h, z, n, d, y
  <2>. QED  BY <1>1, <2>1
<1>3. \A i : At(q, i) = d[(h + i) % c]
  BY DEF At
<1>4. \A i : At(p, i) = d[(y + i) % c]
  <2>. HIDE DEF c, h, z, n, d, y
  <2>. QED  BY ONLY <1>2 DEF At
<1>5. /\ Contents(q) \in Seq(Slots) /\ Len(Contents(q)) = n
      /\ \A i \in 1 .. n : Contents(q)[i] = At(q, i - 1)
  BY ContentsType
<1>. HIDE DEF c, h, z, n, d
<1>6. /\ y \in 0 .. c - 1
      /\ (y + (n - 1)) % c = (h + n) % c
      /\ \A i \in 0 .. n - 2 : (y + i) % c = (h + (i + 1)) % c
  <2>1. c \in Nat \ {0} /\ h \in 0 .. c - 1 /\ n \in 1 .. c
    BY <1>1
  <2>. QED  BY ONLY <2>1, PopPlace
<1>. HIDE DEF y
<1>7. n - 1 \in Nat /\ n - 1 <= c /\ y < c
  BY <1>1, <1>6
<1>8. IsRing(p)
  BY ONLY <1>1, <1>2, <1>6, <1>7 DEF IsRing
<1>9. /\ Contents(p) \in Seq(Slots) /\ Len(Contents(p)) = n - 1
      /\ \A i \in 1 .. n - 1 : Contents(p)[i] = At(p, i - 1)
  <2>1. p.len = n - 1
    BY ONLY <1>2
  <2>2. /\ Contents(p) \in Seq(Slots) /\ Len(Contents(p)) = p.len
        /\ \A i \in 1 .. p.len : Contents(p)[i] = At(p, i - 1)
    BY ONLY <1>8, ContentsType
  <2>. QED  BY <2>1, <2>2
<1>10. Contents(q) # <<>>
  BY <1>1, <1>5, EmptySeq
<1>11. Head(Contents(q)) = At(q, 0)
  <2>1. Head(Contents(q)) = Contents(q)[1]
    BY <1>5, <1>10
  <2>2. 1 \in 1 .. n /\ 1 - 1 = 0
    BY <1>1
  <2>3. Contents(q)[1] = At(q, 1 - 1)
    BY <1>5, <2>2
  <2>. QED  BY <2>1, <2>2, <2>3
<1>12. /\ Tail(Contents(q)) \in Seq(Slots) /\ Len(Tail(Contents(q))) = n - 1
       /\ \A i \in 1 .. n - 1 : Tail(Contents(q))[i] = Contents(q)[i + 1]
  BY <1>5, <1>10, HeadTailProperties
<1>13. \A i \in 1 .. n - 1 : Contents(p)[i] = Tail(Contents(q))[i]
  <2>. TAKE i \in 1 .. n - 1
  <2>1. i - 1 \in 0 .. n - 2 /\ i + 1 \in 1 .. n /\ (i - 1) + 1 = i /\ (i + 1) - 1 = i
    BY <1>1
  <2>2. At(p, i - 1) = At(q, i)
    BY <1>3, <1>4, <1>6, <2>1
  <2>3. Contents(q)[i + 1] = At(q, i)
    BY <1>5, <2>1
  <2>. QED  BY <1>9, <1>12, <2>2, <2>3
<1>14. Contents(p) = Tail(Contents(q))
  BY <1>9, <1>12, <1>13, SeqEqual
<1>. QED  BY <1>8, <1>10, <1>11, <1>14

\* Queues without tokens
LEMMA NothingInRing ==
    ASSUME NEW p, NEW cap \in Nat, NEW d \in [0 .. cap - 1 -> Slots],
           p = [data |-> d, cap |-> cap, head |-> 0, tail |-> 0, len |-> 0]
    PROVE  IsRing(p) /\ Contents(p) = <<>>
<1>1. cap # 0 => (0 + 0) % cap = 0
  <2>1. cap # 0 => 0 \in 0 .. cap - 1 /\ 0 \in 0 .. cap /\ cap \in Nat \ {0}
    OBVIOUS
  <2>. QED  BY <2>1, ModWrap
<1>2. IsRing(p)
  BY <1>1 DEF IsRing
<1>3. p.len = 0
  OBVIOUS
<1>. QED  BY <1>2, <1>3, ContentsType

LEMMA EmptyRings ==
    /\ IsRing(Zeroed) /\ Contents(Zeroed) = <<>>
    /\ \A cap \in Nat \ {0} : IsRing(Initialised(cap)) /\ Contents(Initialised(cap)) = <<>>
<1>1. \A cap \in Nat : Fresh(cap) \in [0 .. cap - 1 -> Slots]
  BY DEF Fresh, Slots
<1>3. IsRing(Zeroed) /\ Contents(Zeroed) = <<>>
  BY <1>1, NothingInRing DEF Zeroed
<1>4. ASSUME NEW cap \in Nat \ {0}
      PROVE  IsRing(Initialised(cap)) /\ Contents(Initialised(cap)) = <<>>
  <2>1. Initialised(cap) = [data |-> Fresh(cap), cap |-> cap, head |-> 0, tail |-> 0, len |-> 0]
    <3>. DEFINE f == Fresh(0)  g == Fresh(cap)
    <3>1. Initialised(cap) = [[data |-> f, cap |-> 0, head |-> 0, tail |-> 0, len |-> 0]
                                 EXCEPT !.data = g, !.cap = cap]
      BY DEF Initialised, Zeroed
    <3>. HIDE DEF f, g
    <3>2. Initialised(cap) = [data |-> g, cap |-> cap, head |-> 0, tail |-> 0, len |-> 0]
      BY <3>1
    <3>. QED  BY <3>2 DEF g
  <2>. QED  BY <1>1, <2>1, NothingInRing
<1>. QED  BY <1>3, <1>4

LEMMA ClearedRing ==
    ASSUME NEW q, IsRing(q), NEW p, p = [q EXCEPT !.head = 0, !.tail = 0, !.len = 0]
    PROVE  IsRing(p) /\ Contents(p) = <<>>
<1>. DEFINE d == q.data  c == q.cap  h == q.head  z == q.tail  n == q.len
<1>1. c \in Nat /\ d \in [0 .. c - 1 -> Slots]
  BY DEF IsRing
<1>2. q = [data |-> d, cap |-> c, head |-> h, tail |-> z, len |-> n]
  BY DEF IsRing
<1>3. p = [q EXCEPT !.head = 0, !.tail = 0, !.len = 0]
  OBVIOUS
<1>. HIDE DEF d, c, h, z, n
<1>4. p = [data |-> d, cap |-> c, head |-> 0, tail |-> 0, len |-> 0]
  BY ONLY <1>2, <1>3
<1>. QED  BY <1>1, <1>4, NothingInRing

-----------------------------------------------------------------------------
\* An action that stores a ring changes the one sequence to its contents.
LEMMA StoreStep ==
    ASSUME RingShape, NEW h \in Handles, NEW q, IsRing(q), Store(h, q)
    PROVE  /\ RingShape'
           /\ \A s : s = Contents(q) => Held' = [Held EXCEPT ![h] = s]
<1>1. queue' = [x \in Handles |-> IF x = h THEN q ELSE queue[x]]
  BY DEF RingShape, Store
<1>2. RingShape'
  BY <1>1 DEF RingShape
<1>3. Held' = [x \in Handles |-> IF x = h THEN Contents(q) ELSE Contents(queue[x])]
  <2>. DEFINE C(x) == Contents(x)
  <2>1. Held' = [x \in Handles |-> C(queue'[x])]
    BY DEF Held, Contents, At
  <2>. HIDE DEF C
  <2>2. \A x \in Handles : C(queue'[x]) = IF x = h THEN C(q) ELSE C(queue[x])
    BY <1>1
  <2>3. Held' = [x \in Handles |-> IF x = h THEN C(q) ELSE C(queue[x])]
    BY <2>1, <2>2
  <2>. QED  BY <2>3 DEF C
<1>. QED  BY <1>2, <1>3 DEF Held

\* Every step keeps the rings and is a step of the sequences, or none.
LEMMA StepMapped ==
    ASSUME RingShape, [QueueNext]_queueVars
    PROVE  RingShape' /\ [Deque!DequeNext]_<<Held, got>>
<1>. USE DEF Deque!DequeNext, Deque!Hold
<1>0. \A h \in Handles : IsRing(queue[h]) /\ Held[h] = Contents(queue[h])
  BY DEF RingShape, Held
<1>1. ASSUME NEW h \in Handles, NEW cap \in 0 .. MaxCap, InitWithCap(h, cap)
      PROVE  RingShape' /\ Deque!Empty(h)
  <2>1. (IF cap = 0 THEN DefaultCap ELSE cap) \in Nat \ {0}
    BY QueueAssumption
  <2>. QED  BY <1>1, <2>1, EmptyRings, StoreStep DEF InitWithCap, Deque!Empty
<1>2. ASSUME NEW h \in Handles, Destroy(h)
      PROVE  RingShape' /\ Deque!Empty(h)
  BY <1>2, EmptyRings, StoreStep DEF Destroy, Deque!Empty
<1>3. ASSUME NEW h \in Handles, Push(h)
      PROVE  RingShape' /\ Deque!PushBack(h)
  <2>1. PICK t \in Tokens : Store(h, Pushed(Roomy(queue[h]), t))
    BY <1>3 DEF Push
  <2>2. /\ IsRing(Pushed(Roomy(queue[h]), t))
        /\ Contents(Pushed(Roomy(queue[h]), t)) = Append(Held[h], t)
    BY <1>0, RoomyRing, PushedRing
  <2>. QED  BY <1>3, <2>1, <2>2, StoreStep DEF Push, Deque!PushBack
<1>4. ASSUME NEW h \in Handles, PushFront(h)
      PROVE  RingShape' /\ Deque!PushFront(h)
  <2>1. PICK t \in Tokens : Store(h, PushedFront(Roomy(queue[h]), t))
    BY <1>4 DEF PushFront
  <2>2. /\ IsRing(PushedFront(Roomy(queue[h]), t))
        /\ Contents(PushedFront(Roomy(queue[h]), t)) = <<t>> \o Held[h]
    BY <1>0, RoomyRing, PushedFrontRing
  <2>. QED  BY <1>4, <2>1, <2>2, StoreStep DEF PushFront, Deque!PushFront
<1>5. ASSUME NEW h \in Handles, Pop(h)
      PROVE  RingShape' /\ Deque!PopFront(h)
  <2>. DEFINE q == queue[h]
              p == [q EXCEPT !.head = (q.head + 1) % q.cap, !.len = q.len - 1]
  <2>1. q.len # 0 /\ got' = At(q, 0) /\ Store(h, p)
    BY <1>5 DEF Pop
  <2>2. p = [q EXCEPT !.head = (q.head + 1) % q.cap, !.len = q.len - 1]
    OBVIOUS
  <2>. HIDE DEF p, q
  <2>3. /\ IsRing(p) /\ Contents(q) # <<>> /\ Head(Contents(q)) = At(q, 0)
        /\ Contents(p) = Tail(Contents(q))
    <3>1. IsRing(q)
      BY <1>0 DEF q
    <3>. QED  BY ONLY <2>1, <2>2, <3>1, PoppedRing
  <2>4. Held[h] = Contents(q)
    BY <1>0 DEF q
  <2>5. RingShape' /\ Held' = [Held EXCEPT ![h] = Tail(Held[h])]
    BY <2>1, <2>3, <2>4, StoreStep
  <2>. QED  BY <2>1, <2>3, <2>4, <2>5 DEF Deque!PopFront
<1>6. ASSUME NEW h \in Handles, NEW i \in 0 .. MaxCap, ReadAt(h, i)
      PROVE  RingShape' /\ Deque!ReadAt(h)
  <2>1. i < queue[h].len /\ got' = At(queue[h], i) /\ queue' = queue
    BY <1>6 DEF ReadAt
  <2>2. queue[h].len \in Nat
    BY <1>0 DEF IsRing
  <2>3. /\ Len(Held[h]) = queue[h].len
        /\ \A k \in 1 .. queue[h].len : Held[h][k] = At(queue[h], k - 1)
    BY <1>0, ContentsType
  <2>4. i + 1 \in 1 .. Len(Held[h]) /\ (i + 1) - 1 = i
    BY <2>1, <2>2, <2>3
  <2>5. got' = Held[h][i + 1]
    BY <2>1, <2>3, <2>4
  <2>6. RingShape' /\ Held' = Held
    BY <2>1 DEF RingShape, Held
  <2>. QED  BY <2>4, <2>5, <2>6 DEF Deque!ReadAt
<1>7. ASSUME NEW h \in Handles, Clear(h)
      PROVE  RingShape' /\ Deque!Empty(h)
  <2>. DEFINE p == [queue[h] EXCEPT !.head = 0, !.tail = 0, !.len = 0]
  <2>1. Store(h, p) /\ got' = got
    BY <1>7 DEF Clear
  <2>. DEFINE q == queue[h]
  <2>2. IsRing(q) /\ p = [q EXCEPT !.head = 0, !.tail = 0, !.len = 0]
    BY <1>0
  <2>. HIDE DEF p, q
  <2>3. IsRing(p) /\ Contents(p) = <<>>
    BY ONLY <2>2, ClearedRing
  <2>. QED  BY <2>1, <2>3, StoreStep DEF Deque!Empty
<1>8. ASSUME NEW h \in Handles, NEW min \in 0 .. MaxCap, Reserve(h, min)
      PROVE  RingShape' /\ UNCHANGED <<Held, got>>
  <2>1. PICK cap \in min .. MaxCap : Store(h, Resized(queue[h], cap))
    BY <1>8 DEF Reserve
  <2>2. queue[h].cap < min /\ got' = got
    BY <1>8 DEF Reserve
  <2>3. cap \in Nat \ {0} /\ queue[h].len < cap
    <3>1. queue[h].len \in Nat /\ queue[h].cap \in Nat /\ queue[h].len <= queue[h].cap
      BY <1>0 DEF IsRing
    <3>. QED  BY <2>2, <3>1, QueueAssumption
  <2>4. IsRing(Resized(queue[h], cap)) /\ Contents(Resized(queue[h], cap)) = Held[h]
    BY <1>0, <2>3, ResizedRing
  <2>5. RingShape' /\ Held' = [Held EXCEPT ![h] = Held[h]]
    BY <2>1, <2>4, StoreStep
  <2>. QED  BY <2>2, <2>5 DEF Held
<1>9. ASSUME NEW h \in Handles, NEW to \in Handles, Move(h, to)
      PROVE  RingShape' /\ h # to /\ Deque!Move(h, to)
  <2>1. /\ h # to /\ got' = got
        /\ queue' = [x \in Handles |-> IF x = h THEN Zeroed
                                     ELSE IF x = to THEN queue[h] ELSE queue[x]]
    BY <1>9 DEF Move, RingShape
  <2>2. RingShape'
    BY <1>0, <2>1, EmptyRings DEF RingShape
  <2>. DEFINE C(x) == Contents(x)
  <2>3. Held' = [x \in Handles |-> C(queue'[x])] /\ Held = [x \in Handles |-> C(queue[x])]
    BY DEF Held, Contents, At
  <2>4. C(Zeroed) = <<>>
    BY EmptyRings
  <2>. HIDE DEF C
  <2>5. \A x \in Handles : C(queue'[x]) = IF x = h THEN <<>>
                                        ELSE IF x = to THEN C(queue[h]) ELSE C(queue[x])
    BY <2>1, <2>4
  <2>6. Held' = [Held EXCEPT ![to] = Held[h], ![h] = <<>>]
    BY <2>1, <2>3, <2>5
  <2>. QED  BY <2>1, <2>2, <2>6 DEF Deque!Move
<1>10. CASE UNCHANGED queueVars
  BY <1>10 DEF queueVars, RingShape, Held
<1>. QED  BY <1>1, <1>2, <1>3, <1>4, <1>5, <1>6, <1>7, <1>8, <1>9, <1>10 DEF QueueNext

LEMMA InitMapped == QueueInit => RingShape /\ Deque!DequeInit
<1>. SUFFICES ASSUME QueueInit PROVE RingShape /\ Deque!DequeInit
  OBVIOUS
<1>1. \A h \in Handles : queue[h] = Zeroed
  BY DEF QueueInit
<1>2. RingShape
  BY <1>1, EmptyRings DEF QueueInit, RingShape
<1>3. Held = [h \in Handles |-> <<>>]
  BY <1>1, EmptyRings DEF Held
<1>. QED  BY <1>2, <1>3 DEF QueueInit, Deque!DequeInit

\* For all capacities, whatever is pushed, popped and moved: head, tail and
\* len of every queue agree, and the slot written next is inside its array.
THEOREM RingKept == QueueSpec => []RingShape
<1>1. QueueInit => RingShape
  BY InitMapped
<1>2. RingShape /\ [QueueNext]_queueVars => RingShape'
  BY StepMapped
<1>. QED  BY <1>1, <1>2, PTL DEF QueueSpec

\* Growing, wrapping and moving the array never lose, repeat or reorder a
\* token: the ring buffer implements the sequence of TokenDeque.
THEOREM DequeImplemented == QueueSpec => IsDeque
<1>1. QueueInit => Deque!DequeInit
  BY InitMapped
<1>2. RingShape /\ [QueueNext]_queueVars => [Deque!DequeNext]_<<Held, got>>
  BY StepMapped
<1>. QED  BY <1>1, <1>2, RingKept, PTL DEF QueueSpec, IsDeque, Deque!DequeSpec
=============================================================================
