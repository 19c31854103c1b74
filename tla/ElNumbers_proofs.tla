-------------------------- MODULE ElNumbers_proofs --------------------------
(***************************************************************************)
(* The emulated 128-bit integers compare, add, subtract, negate, multiply, *)
(* combine bits, shift and divide as a type of their width does, whatever  *)
(* the width of a limb and whatever the operands: ArithmeticExact and      *)
(* QuotientsExact are invariants of ElNumbers.  So is FoldAgrees: what the *)
(* binder folds is what the instruction of the type computes.  And so is   *)
(* LiteralExact: a literal is read as the number it denotes or refused.    *)
(* And RoundTrip: a number that is written and read again is the number.   *)
(*                                                                         *)
(* The loops of the division are recursive functions.  That such a         *)
(* function exists is proved here, from a measure that decreases, and what *)
(* a loop returns follows by induction on it.                              *)
(***************************************************************************)
EXTENDS ElNumbers, WellFoundedInduction, TLAPS

-----------------------------------------------------------------------------
(* Quotients and remainders.                                               *)

LEMMA Divided ==
    ASSUME NEW m \in Nat \ {0}, NEW n \in Int
    PROVE  /\ n = (n \div m) * m + (n % m)
           /\ n \div m \in Int /\ n % m \in 0 .. m - 1
OBVIOUS

LEMMA ProductSign ==
    ASSUME NEW m \in Nat \ {0}, NEW k \in Int
    PROVE  /\ k >= 1 => k * m >= m
           /\ k <= -1 => k * m <= -m
OBVIOUS

LEMMA Remainder ==
    ASSUME NEW m \in Nat \ {0}, NEW n \in Int, NEW q \in Int, NEW r \in 0 .. m - 1,
           n = q * m + r
    PROVE  n \div m = q /\ n % m = r
<1>1. PICK d : d = n \div m
  OBVIOUS
<1>2. PICK s : s = n % m
  OBVIOUS
<1>3. n = d * m + s /\ d \in Int /\ s \in 0 .. m - 1
  BY <1>1, <1>2, Divided
<1>4. (d - q) * m = r - s
  BY ONLY <1>3, n = q * m + r, m \in Nat, q \in Int, r \in 0 .. m - 1
<1>5. d - q = 0
  BY ONLY <1>3, <1>4, ProductSign, m \in Nat \ {0}, q \in Int, r \in 0 .. m - 1
<1>. QED  BY ONLY <1>1, <1>2, <1>3, <1>5, n = q * m + r, m \in Nat, q \in Int, r \in 0 .. m - 1

-----------------------------------------------------------------------------
(* Limbs, and what two of them stand for.                                  *)

LEMMA Sizes ==
    /\ HalfSize \in Nat \ {0} /\ LimbSize \in Nat \ {0} /\ WideSize \in Nat \ {0}
    /\ LimbSize = HalfSize * HalfSize /\ WideSize = LimbSize * LimbSize
    /\ \E h \in Nat : LimbSize = 2 * h /\ h > 0
<1>1. HalfSize \in Nat /\ HalfSize >= 2 /\ HalfSize % 2 = 0
  BY HalfAssumption
<1>2. PICK g \in Nat : HalfSize = 2 * g /\ g > 0
  BY <1>1
<1>3. LimbSize = HalfSize * HalfSize /\ WideSize = LimbSize * LimbSize
  BY DEF LimbSize, WideSize
<1>4. LimbSize = 2 * (g * HalfSize) /\ g * HalfSize \in Nat /\ g * HalfSize > 0
  BY ONLY <1>1, <1>2, <1>3
<1>5. LimbSize \in Nat \ {0}
  BY ONLY <1>4
<1>6. WideSize \in Nat \ {0}
  BY ONLY <1>3, <1>5
<1>. QED  BY <1>1, <1>3, <1>4, <1>5, <1>6

\* A limb holds what is left of an integer.
LEMMA ToLimbFacts ==
    ASSUME NEW n \in Int
    PROVE  ToLimb(n) \in Limb /\ \E c \in Int : n = c * LimbSize + ToLimb(n)
<1>1. PICK m \in Nat \ {0} : m = LimbSize
  BY Sizes
<1>2. n = (n \div m) * m + (n % m) /\ n \div m \in Int /\ n % m \in 0 .. m - 1
  BY Divided
<1>. QED  BY <1>1, <1>2 DEF ToLimb, Limb

LEMMA ToLimbIs ==
    ASSUME NEW n \in Int, NEW c \in Int, NEW l \in Limb, n = c * LimbSize + l
    PROVE  ToLimb(n) = l
<1>1. PICK m \in Nat \ {0} : m = LimbSize
  BY Sizes
<1>2. l \in 0 .. m - 1 /\ n = c * m + l
  BY <1>1 DEF Limb
<1>3. n % m = l
  BY ONLY <1>1, <1>2, n \in Int, c \in Int, Remainder
<1>. QED  BY <1>1, <1>3 DEF ToLimb

LEMMA ToLimbNear ==
    ASSUME NEW n \in Int
    PROVE  /\ n \in Limb => ToLimb(n) = n
           /\ n - LimbSize \in Limb => ToLimb(n) = n - LimbSize
           /\ n + LimbSize \in Limb => ToLimb(n) = n + LimbSize
<1>1. PICK m \in Nat \ {0} : m = LimbSize
  BY Sizes
<1>2. PICK a, b : a = n - m /\ b = n + m
  OBVIOUS
<1>3. n \in Limb => ToLimb(n) = n
  <2>1. n = 0 * LimbSize + n
    BY ONLY <1>1, n \in Int
  <2>. QED  BY <2>1, ToLimbIs
<1>4. a \in Limb => ToLimb(n) = a
  <2>1. n = 1 * LimbSize + a
    BY ONLY <1>1, <1>2, n \in Int
  <2>. QED  BY <2>1, ToLimbIs
<1>5. b \in Limb => ToLimb(n) = b
  <2>1. n = (-1) * LimbSize + b
    BY ONLY <1>1, <1>2, n \in Int
  <2>. QED  BY <2>1, ToLimbIs
<1>. QED  BY <1>1, <1>2, <1>3, <1>4, <1>5

LEMMA SignFacts ==
    ASSUME NEW l \in Limb
    PROVE  /\ AsSigned(l) \in Int
           /\ 2 * l < LimbSize => AsSigned(l) = l /\ AsSigned(l) >= 0
           /\ 2 * l >= LimbSize => AsSigned(l) = l - LimbSize /\ AsSigned(l) < 0
BY Sizes DEF AsSigned, Limb

\* What two limbs stand for determines them, and is in range.
LEMMA ValueFacts ==
    ASSUME NEW v \in Wide
    PROVE  /\ v.lo \in Limb /\ v.hi \in Limb
           /\ v = [lo |-> v.lo, hi |-> v.hi]
           /\ UValue(v) = v.hi * LimbSize + v.lo
           /\ IValue(v) = AsSigned(v.hi) * LimbSize + v.lo
           /\ UValue(v) \in 0 .. WideSize - 1
           /\ IValue(v) \in Int
           /\ IValue(v) = UValue(v) \/ IValue(v) = UValue(v) - WideSize
           /\ IValue(v) < 0 <=> 2 * v.hi >= LimbSize
           /\ 2 * IValue(v) >= -WideSize /\ 2 * IValue(v) < WideSize
<1>1. PICK l, h, m : l = v.lo /\ h = v.hi /\ m = LimbSize
  OBVIOUS
<1>2. l \in 0 .. m - 1 /\ h \in 0 .. m - 1 /\ m \in Nat \ {0} /\ v = [lo |-> l, hi |-> h]
  BY <1>1, Sizes DEF Wide, Limb
<1>3. PICK s \in Int : s = AsSigned(h) /\ IF 2 * h < m THEN s = h ELSE s = h - m
  BY <1>1, <1>2, SignFacts DEF Limb
<1>4. PICK u, i, w : u = UValue(v) /\ i = IValue(v) /\ w = WideSize
  OBVIOUS
<1>5. u = h * m + l /\ i = s * m + l /\ w = m * m
  BY <1>1, <1>3, <1>4, Sizes DEF UValue, IValue
<1>6. u \in 0 .. w - 1
  <2>1. PICK d \in Nat : h = m - 1 - d
    BY <1>2
  <2>2. d * m >= 0
    BY ONLY <2>1, <1>2
  <2>3. h * m = m * m - m - d * m /\ h * m >= 0
    BY ONLY <2>1, <1>2
  <2>. QED  BY ONLY <1>2, <1>5, <2>1, <2>2, <2>3
<1>7. PICK e \in Nat : m = 2 * e
  BY <1>1, Sizes
<1>8. /\ i \in Int /\ (i = u \/ i = u - w) /\ (i < 0 <=> 2 * h >= m)
      /\ 2 * i >= -w /\ 2 * i < w
  <2>1. CASE 2 * h < m
    <3>1. PICK d \in Nat : h = e - 1 - d
      BY <1>2, <1>7, <2>1
    <3>2. d * m >= 0 /\ e * m >= 0
      BY ONLY <3>1, <1>2, <1>7
    <3>3. s = h /\ 2 * (h * m + l) < m * m
      BY ONLY <1>2, <1>3, <1>7, <2>1, <3>1, <3>2
    <3>. QED  BY ONLY <1>2, <1>5, <1>6, <2>1, <3>3
  <2>2. CASE 2 * h >= m
    <3>1. PICK d \in Nat : h = e + d
      BY <1>2, <1>7, <2>2
    <3>2. d * m >= 0 /\ s = h - m
      BY ONLY <3>1, <1>2, <1>3, <1>7, <2>2
    <3>3. s * m + l = h * m + l - m * m /\ 2 * (s * m + l) >= -(m * m)
      BY ONLY <1>2, <1>7, <3>1, <3>2
    <3>. QED  BY ONLY <1>2, <1>5, <1>6, <2>2, <3>3
  <2>. QED  BY <1>2, <2>1, <2>2
<1>. QED  BY <1>1, <1>2, <1>3, <1>4, <1>5, <1>6, <1>8 DEF Limb

-----------------------------------------------------------------------------
(* Numbers that are the same but for the width, and sums.                  *)

\* Two integers of which the width leaves the same.
Alike(m, n) == \E k \in Int : m = n + k * WideSize

LEMMA AlikeFacts ==
    ASSUME NEW a \in Int, NEW b \in Int, Alike(a, b)
    PROVE  /\ Alike(b, a)
           /\ Alike(-a, -b)
           /\ \A c \in Int : Alike(b, c) => Alike(a, c)
           /\ \A c, d \in Int : Alike(c, d) => Alike(a + c, b + d) /\ Alike(a * c, b * d)
<1>1. PICK w \in Nat \ {0} : w = WideSize
  BY Sizes
<1>2. PICK k \in Int : a = b + k * w
  BY <1>1 DEF Alike
<1>3. b = a + (-k) * w /\ -a = -b + (-k) * w /\ -k \in Int
  BY ONLY <1>1, <1>2, a \in Int, b \in Int
<1>4. ASSUME NEW c \in Int, Alike(b, c)
      PROVE  Alike(a, c)
  <2>1. PICK j \in Int : b = c + j * w
    BY <1>1, <1>4 DEF Alike
  <2>2. a = c + (k + j) * w /\ k + j \in Int
    BY ONLY <1>1, <1>2, <2>1, c \in Int
  <2>. QED  BY <1>1, <2>2 DEF Alike
<1>5. ASSUME NEW c \in Int, NEW d \in Int, Alike(c, d)
      PROVE  Alike(a + c, b + d) /\ Alike(a * c, b * d)
  <2>1. PICK j \in Int : c = d + j * w
    BY <1>1, <1>5 DEF Alike
  <2>2. a + c = b + d + (k + j) * w /\ k + j \in Int
    BY ONLY <1>1, <1>2, <2>1, b \in Int, d \in Int
  <2>3. PICK i : i = k * d + b * j + k * j * w
    OBVIOUS
  <2>4. i \in Int
    BY ONLY <1>1, <1>2, <2>1, <2>3, b \in Int, d \in Int
  <2>5. a * c = b * d + i * w
    BY ONLY <1>1, <1>2, <2>1, <2>3, b \in Int, d \in Int
  <2>. QED  BY <1>1, <2>2, <2>4, <2>5 DEF Alike
<1>. QED  BY <1>1, <1>3, <1>4, <1>5 DEF Alike

LEMMA AlikeSame == ASSUME NEW a \in Int PROVE Alike(a, a)
<1>1. PICK w \in Nat : w = WideSize
  BY Sizes
<1>2. a = a + 0 * w
  BY ONLY <1>1, a \in Int
<1>. QED  BY <1>1, <1>2 DEF Alike

LEMMA AlikeValues ==
    ASSUME NEW v \in Wide
    PROVE  Alike(IValue(v), UValue(v)) /\ Alike(UValue(v), IValue(v))
<1>1. PICK w \in Nat : w = WideSize
  BY Sizes
<1>2. PICK u \in Int : u = UValue(v)
  BY <1>1, ValueFacts
<1>3. u = u + 0 * w /\ u - w = u + (-1) * w
  BY ONLY <1>1, <1>2
<1>4. Alike(IValue(v), u)
  BY <1>1, <1>2, <1>3, ValueFacts DEF Alike
<1>. QED  BY <1>2, <1>4, AlikeFacts, ValueFacts

LEMMA AlikeHolds ==
    ASSUME NEW v \in Wide, NEW n \in Int, Alike(n, UValue(v))
    PROVE  Holds(v, n)
<1>1. PICK w \in Nat \ {0} : w = WideSize
  BY Sizes
<1>2. PICK u \in 0 .. w - 1 : u = UValue(v)
  BY <1>1, ValueFacts
<1>3. PICK k \in Int : n = k * w + u
  <2>1. PICK k \in Int : n = u + k * w
    BY <1>1, <1>2 DEF Alike
  <2>. QED  BY ONLY <2>1, <1>1, <1>2
<1>4. n % w = u
  BY ONLY <1>1, <1>2, <1>3, n \in Int, Remainder
<1>. QED  BY <1>1, <1>2, <1>4 DEF Holds

\* Sums carry from the low limb into the high one.
LEMMA SumFacts ==
    ASSUME NEW x \in Wide, NEW y \in Wide
    PROVE  i128_add(x, y) \in Wide /\ Alike(UValue(x) + UValue(y), UValue(i128_add(x, y)))
<1>1. PICK m, xl, xh, yl, yh : m = LimbSize /\ xl = x.lo /\ xh = x.hi /\ yl = y.lo /\ yh = y.hi
  OBVIOUS
<1>2. /\ m \in Nat \ {0} /\ xl \in 0 .. m - 1 /\ xh \in 0 .. m - 1
      /\ yl \in 0 .. m - 1 /\ yh \in 0 .. m - 1
  BY <1>1, Sizes, ValueFacts DEF Limb
<1>3. PICK lo, hi, top : lo = ToLimb(xl + yl) /\ hi = ToLimb(xh + yh) /\ top = ToLimb(hi + 1)
  OBVIOUS
<1>4. /\ lo \in 0 .. m - 1 /\ \E c \in Int : xl + yl = c * m + lo
      /\ hi \in 0 .. m - 1 /\ \E c \in Int : xh + yh = c * m + hi
  <2>1. xl + yl \in Int /\ xh + yh \in Int
    BY <1>2
  <2>. QED  BY <1>1, <1>3, <2>1, ToLimbFacts DEF Limb
<1>5. top \in 0 .. m - 1 /\ \E c \in Int : hi + 1 = c * m + top
  <2>1. hi + 1 \in Int
    BY <1>4
  <2>. QED  BY <1>1, <1>3, <2>1, ToLimbFacts DEF Limb
<1>6. IF lo < xl THEN xl + yl = m + lo ELSE xl + yl = lo
  <2>1. PICK c \in Int : xl + yl = c * m + lo
    BY <1>4
  <2>2. c >= 2 => c * m >= 2 * m
    BY ONLY <2>1, <1>2
  <2>3. c <= -1 => c * m <= -m
    BY ONLY <2>1, <1>2, ProductSign
  <2>4. c = 0 \/ c = 1
    BY ONLY <2>1, <2>2, <2>3, <1>2, <1>4
  <2>. QED  BY ONLY <2>1, <2>4, <1>2, <1>4
<1>7. PICK z : z = [lo |-> lo, hi |-> IF lo < xl THEN top ELSE hi]
  OBVIOUS
<1>8. z = i128_add(x, y) /\ z \in Wide
  BY <1>1, <1>3, <1>4, <1>5, <1>7 DEF i128_add, Wide, Limb
<1>9. PICK u, v, w, n : u = UValue(x) /\ v = UValue(y) /\ w = WideSize /\ n = UValue(z)
  OBVIOUS
<1>10. u = xh * m + xl /\ v = yh * m + yl /\ w = m * m
  BY <1>1, <1>9, ValueFacts, Sizes
<1>11. n = (IF lo < xl THEN top ELSE hi) * m + lo
  BY <1>1, <1>7, <1>9 DEF UValue
<1>12. \E k \in Int : u + v = n + k * w
  <2>1. PICK c \in Int : xh + yh = c * m + hi
    BY <1>4
  <2>2. CASE lo < xl
    <3>1. PICK d \in Int : hi + 1 = d * m + top
      BY <1>5
    <3>2. u + v = n + (c + d) * w
      <4>1. u + v = (xh + yh + 1) * m + lo
        BY ONLY <1>2, <1>4, <1>6, <1>10, <2>2
      <4>2. xh + yh + 1 = (c + d) * m + top
        BY ONLY <1>2, <1>4, <1>5, <2>1, <3>1
      <4>3. u + v = ((c + d) * m + top) * m + lo
        BY ONLY <4>1, <4>2
      <4>. QED  BY ONLY <4>3, <1>2, <1>4, <1>5, <1>10, <1>11, <2>1, <2>2, <3>1
    <3>. QED  BY <2>1, <3>1, <3>2
  <2>3. CASE ~(lo < xl)
    <3>1. u + v = (xh + yh) * m + lo
      BY ONLY <1>2, <1>4, <1>6, <1>10, <2>3
    <3>2. u + v = (c * m + hi) * m + lo
      BY ONLY <2>1, <3>1
    <3>3. u + v = n + c * w
      BY ONLY <3>2, <1>2, <1>4, <1>10, <1>11, <2>1, <2>3
    <3>. QED  BY <2>1, <3>3
  <2>. QED  BY <2>2, <2>3
<1>. QED  BY <1>8, <1>9, <1>12 DEF Alike

\* Negation complements the limbs and adds one, which carries only out of a zero.
LEMMA NegFacts ==
    ASSUME NEW x \in Wide
    PROVE  i128_neg(x) \in Wide /\ Alike(-UValue(x), UValue(i128_neg(x)))
<1>1. PICK m, l, h : m = LimbSize /\ l = x.lo /\ h = x.hi
  OBVIOUS
<1>2. m \in Nat \ {0} /\ l \in 0 .. m - 1 /\ h \in 0 .. m - 1
  BY <1>1, Sizes, ValueFacts DEF Limb
<1>3. PICK w, u : w = WideSize /\ u = UValue(x)
  OBVIOUS
<1>4. w = m * m /\ u = h * m + l
  BY <1>1, <1>3, Sizes, ValueFacts
<1>5. CASE l = 0
  <2>1. ToLimb((m - 1 - l) + 1) = 0
    <3>1. PICK n : n = (m - 1 - l) + 1
      OBVIOUS
    <3>2. n \in Int /\ n - m = 0 /\ 0 \in Limb
      BY <1>1, <1>2, <1>5, <3>1 DEF Limb
    <3>. QED  BY <1>1, <3>1, <3>2, ToLimbNear
  <2>2. PICK t \in 0 .. m - 1, c \in Int :
         t = ToLimb((m - 1 - h) + 1) /\ (m - 1 - h) + 1 = c * m + t
    <3>1. (m - 1 - h) + 1 \in Int
      BY <1>2
    <3>. QED  BY <1>1, <3>1, ToLimbFacts DEF Limb
  <2>3. i128_neg(x) = [lo |-> 0, hi |-> t]
    BY <1>1, <1>5, <2>1, <2>2 DEF i128_neg
  <2>4. UValue(i128_neg(x)) = t * m + 0 /\ i128_neg(x) \in Wide
    BY <1>1, <1>2, <2>2, <2>3 DEF UValue, Wide, Limb
  <2>5. -u = (t * m + 0) + (c - 1) * w /\ c - 1 \in Int
    <3>1. h = m - c * m - t
      <4>1. PICK p \in Int : p = c * m
        BY <1>2
      <4>2. (m - 1 - h) + 1 = p + t
        BY <2>2, <4>1
      <4>3. h = m - p - t
        BY ONLY <1>2, <4>2, t \in 0 .. m - 1, p \in Int
      <4>. QED  BY ONLY <4>1, <4>3
    <3>2. u = (m - c * m - t) * m
      BY ONLY <3>1, <1>2, <1>4, <1>5
    <3>. QED  BY ONLY <3>2, <1>2, <1>4, <2>2
  <2>. QED  BY <1>3, <2>4, <2>5 DEF Alike
<1>6. CASE l # 0
  <2>1. ToLimb((m - 1 - l) + 1) = m - l
    <3>1. (m - 1 - l) + 1 = m - l /\ m - l \in Int /\ m - l \in Limb
      BY <1>1, <1>2, <1>6 DEF Limb
    <3>. QED  BY <3>1, ToLimbNear
  <2>2. ToLimb((m - 1 - h) + 0) = m - 1 - h
    <3>1. (m - 1 - h) + 0 = m - 1 - h /\ m - 1 - h \in Int /\ m - 1 - h \in Limb
      BY <1>1, <1>2 DEF Limb
    <3>. QED  BY <3>1, ToLimbNear
  <2>3. i128_neg(x) = [lo |-> m - l, hi |-> m - 1 - h]
    BY <1>1, <1>6, <2>1, <2>2 DEF i128_neg
  <2>4. m - l \in 0 .. m - 1 /\ m - 1 - h \in 0 .. m - 1
    BY <1>2, <1>6
  <2>5. UValue(i128_neg(x)) = (m - 1 - h) * m + (m - l) /\ i128_neg(x) \in Wide
    BY <1>1, <2>3, <2>4 DEF UValue, Wide, Limb
  <2>6. -u = ((m - 1 - h) * m + (m - l)) + (-1) * w
    BY ONLY <1>2, <1>4
  <2>. QED  BY <1>3, <2>5, <2>6 DEF Alike
<1>. QED  BY <1>5, <1>6

\* A difference borrows from the high limb.
LEMMA DifferenceFacts ==
    ASSUME NEW x \in Wide, NEW y \in Wide
    PROVE  u128_sub(x, y) \in Wide /\ Alike(UValue(x) - UValue(y), UValue(u128_sub(x, y)))
<1>1. PICK m, xl, xh, yl, yh : m = LimbSize /\ xl = x.lo /\ xh = x.hi /\ yl = y.lo /\ yh = y.hi
  OBVIOUS
<1>2. /\ m \in Nat \ {0} /\ xl \in 0 .. m - 1 /\ xh \in 0 .. m - 1
      /\ yl \in 0 .. m - 1 /\ yh \in 0 .. m - 1
  BY <1>1, Sizes, ValueFacts DEF Limb
<1>3. PICK lo, hi, top : lo = ToLimb(xl - yl) /\ hi = ToLimb(xh - yh) /\ top = ToLimb(hi - 1)
  OBVIOUS
<1>4. hi \in 0 .. m - 1 /\ \E c \in Int : xh - yh = c * m + hi
  <2>1. xh - yh \in Int
    BY <1>2
  <2>. QED  BY <1>1, <1>3, <2>1, ToLimbFacts DEF Limb
<1>5. top \in 0 .. m - 1 /\ \E c \in Int : hi - 1 = c * m + top
  <2>1. hi - 1 \in Int
    BY <1>4
  <2>. QED  BY <1>1, <1>3, <2>1, ToLimbFacts DEF Limb
<1>6. lo \in 0 .. m - 1 /\ IF xl < yl THEN xl - yl = lo - m ELSE xl - yl = lo
  <2>1. CASE xl < yl
    <3>1. xl - yl \in Int /\ (xl - yl) + m \in Limb
      BY <1>1, <1>2, <2>1 DEF Limb
    <3>2. lo = (xl - yl) + m
      BY <1>1, <1>3, <3>1, ToLimbNear
    <3>. QED  BY <1>2, <2>1, <3>2
  <2>2. CASE ~(xl < yl)
    <3>1. xl - yl \in Int /\ xl - yl \in Limb
      BY <1>1, <1>2, <2>2 DEF Limb
    <3>2. lo = xl - yl
      BY <1>3, <3>1, ToLimbNear
    <3>. QED  BY <1>2, <2>2, <3>2
  <2>. QED  BY <2>1, <2>2
<1>7. PICK z : z = [lo |-> lo, hi |-> IF xl < yl THEN top ELSE hi]
  OBVIOUS
<1>8. z = u128_sub(x, y) /\ z \in Wide
  BY <1>1, <1>3, <1>4, <1>5, <1>6, <1>7 DEF u128_sub, Wide, Limb
<1>9. PICK u, v, w, n : u = UValue(x) /\ v = UValue(y) /\ w = WideSize /\ n = UValue(z)
  OBVIOUS
<1>10. u = xh * m + xl /\ v = yh * m + yl /\ w = m * m
  BY <1>1, <1>9, ValueFacts, Sizes
<1>11. n = (IF xl < yl THEN top ELSE hi) * m + lo
  BY <1>1, <1>7, <1>9 DEF UValue
<1>12. \E k \in Int : u - v = n + k * w
  <2>1. PICK c \in Int : xh - yh = c * m + hi
    BY <1>4
  <2>2. CASE xl < yl
    <3>1. PICK d \in Int : hi - 1 = d * m + top
      BY <1>5
    <3>2. u - v = (xh - yh - 1) * m + lo
      BY ONLY <1>2, <1>6, <1>10, <2>2
    <3>3. xh - yh - 1 = (c + d) * m + top
      BY ONLY <1>2, <1>4, <1>5, <2>1, <3>1
    <3>4. u - v = ((c + d) * m + top) * m + lo
      BY ONLY <3>2, <3>3
    <3>5. u - v = n + (c + d) * w
      BY ONLY <3>4, <1>2, <1>4, <1>5, <1>6, <1>10, <1>11, <2>1, <2>2, <3>1
    <3>. QED  BY <2>1, <3>1, <3>5
  <2>3. CASE ~(xl < yl)
    <3>1. u - v = (xh - yh) * m + lo
      BY ONLY <1>2, <1>6, <1>10, <2>3
    <3>2. u - v = (c * m + hi) * m + lo
      BY ONLY <2>1, <3>1
    <3>3. u - v = n + c * w
      BY ONLY <3>2, <1>2, <1>4, <1>6, <1>10, <1>11, <2>1, <2>3
    <3>. QED  BY <2>1, <3>3
  <2>. QED  BY <2>2, <2>3
<1>. QED  BY <1>8, <1>9, <1>12 DEF Alike

LEMMA Constants ==
    /\ INT128(0) \in Wide /\ UValue(INT128(0)) = 0 /\ IValue(INT128(0)) = 0
    /\ INT128(-1) = [lo |-> LimbSize - 1, hi |-> LimbSize - 1]
    /\ INT128(-1) \in Wide /\ IValue(INT128(-1)) = -1
<1>1. PICK m \in Nat \ {0} : m = LimbSize
  BY Sizes
<1>2. ToLimb(0) = 0 /\ ToLimb(-1) = m - 1
  <2>1. 0 \in Limb /\ m - 1 \in Limb /\ -1 + m = m - 1 /\ 0 \in Int /\ -1 \in Int
    BY <1>1 DEF Limb
  <2>. QED  BY <1>1, <2>1, ToLimbNear
<1>3. INT128(0) = [lo |-> 0, hi |-> 0] /\ INT128(-1) = [lo |-> m - 1, hi |-> m - 1]
  BY <1>1, <1>2 DEF INT128
<1>4. 0 \in Limb /\ m - 1 \in Limb
  BY <1>1 DEF Limb
<1>5. AsSigned(0) = 0 /\ AsSigned(m - 1) = -1
  BY <1>1, <1>4, Sizes DEF AsSigned
<1>6. 0 * m + 0 = 0 /\ (-1) * m + (m - 1) = -1
  BY ONLY <1>1
<1>. QED  BY <1>1, <1>3, <1>4, <1>5, <1>6 DEF Wide, UValue, IValue

-----------------------------------------------------------------------------
(* Products.                                                               *)

LEMMA DividedIn ==
    ASSUME NEW m \in Nat \ {0}, NEW n \in Int
    PROVE  \E q \in Int, r \in 0 .. m - 1 : q = n \div m /\ r = n % m /\ n = q * m + r
BY Divided

LEMMA LimbPart ==
    ASSUME NEW n \in Int
    PROVE  \E c \in Int, x \in Int : x = ToLimb(n) /\ n = c * LimbSize + x
<1>1. PICK c \in Int : n = c * LimbSize + ToLimb(n)
  BY ToLimbFacts
<1>2. ToLimb(n) \in Int
  BY ToLimbFacts, Sizes DEF Limb
<1>. QED  BY <1>1, <1>2

\* A limb is two halves.
LEMMA Halves ==
    ASSUME NEW l \in Limb
    PROVE  /\ l \div HalfSize \in 0 .. HalfSize - 1 /\ l % HalfSize \in 0 .. HalfSize - 1
           /\ l = (l \div HalfSize) * HalfSize + (l % HalfSize)
<1>1. PICK g \in Nat \ {0} : g = HalfSize
  BY Sizes
<1>2. l \in Int /\ l >= 0 /\ l < g * g
  BY <1>1, Sizes DEF Limb
<1>3. PICK q \in Int, r \in 0 .. g - 1 : q = l \div g /\ r = l % g /\ l = q * g + r
  BY ONLY <1>2, Divided
<1>4. q <= -1 => q * g <= -g
  BY ONLY <1>1, <1>3, ProductSign
<1>5. q >= g => q * g >= g * g
  <2>1. SUFFICES ASSUME q >= g PROVE q * g >= g * g
    OBVIOUS
  <2>2. PICK d \in Nat : q = g + d
    BY ONLY <2>1, <1>1, <1>3
  <2>3. d * g >= 0
    BY ONLY <2>2, <1>1
  <2>. QED  BY ONLY <1>1, <2>2, <2>3
<1>6. q \in 0 .. g - 1
  BY ONLY <1>1, <1>2, <1>3, <1>4, <1>5
<1>. QED  BY <1>1, <1>3, <1>6

\* The product of two numbers below a bound is below its square.
LEMMA ProductBound ==
    ASSUME NEW m \in Nat \ {0}, NEW a \in 0 .. m - 1, NEW b \in 0 .. m - 1
    PROVE  a * b >= 0 /\ a * b < m * m
<1>1. PICK c \in Nat : a = m - 1 - c
  OBVIOUS
<1>2. PICK d \in Nat : b = m - 1 - d
  OBVIOUS
<1>3. a * b >= 0 /\ c * b >= 0 /\ d * m >= 0
  OBVIOUS
<1>4. a * b = (m - 1) * b - c * b
  BY ONLY <1>1, m \in Nat, b \in 0 .. m - 1
<1>5. (m - 1) * b = m * b - b
  BY ONLY m \in Nat, b \in 0 .. m - 1
<1>6. m * b = m * m - m - d * m
  BY ONLY <1>2, m \in Nat
<1>7. PICK p, q, r, s \in Int : p = a * b /\ q = c * b /\ r = d * m /\ s = m * m
  OBVIOUS
<1>8. p = s - m - r - b - q
  BY ONLY <1>3, <1>4, <1>5, <1>6, <1>7, b \in 0 .. m - 1, m \in Nat
<1>. QED  BY ONLY <1>3, <1>7, <1>8, b \in 0 .. m - 1, m \in Nat \ {0}

\* The four products of the halves make up the product: schoolbook multiplication,
\* with the carry that the middle ones hand to the high limb.
LEMMA LimbProduct ==
    ASSUME NEW l \in Limb, NEW r \in Limb
    PROVE  u128_mul64(l, r) \in Wide /\ UValue(u128_mul64(l, r)) = l * r
<1>1. PICK g \in Nat \ {0}, m \in Nat \ {0} : g = HalfSize /\ m = LimbSize /\ m = g * g
  BY Sizes
<1>2. PICK lh, ll, rh, rl \in 0 .. g - 1 :
         /\ lh = l \div g /\ ll = l % g /\ l = lh * g + ll
         /\ rh = r \div g /\ rl = r % g /\ r = rh * g + rl
  BY <1>1, Halves
<1>3. PICK ll2, lh2, hl2, hh2 \in Nat :
         ll2 = ll * rl /\ lh2 = ll * rh /\ hl2 = lh * rl /\ hh2 = lh * rh
  BY <1>2
<1>4. PICK q0 \in Int, r0 \in 0 .. g - 1 : q0 = ll2 \div g /\ r0 = ll2 % g /\ ll2 = q0 * g + r0
  BY <1>1, DividedIn
<1>5. PICK q1 \in Int, r1 \in 0 .. g - 1 : q1 = lh2 \div g /\ r1 = lh2 % g /\ lh2 = q1 * g + r1
  BY <1>1, DividedIn
<1>6. PICK q2 \in Int, r2 \in 0 .. g - 1 : q2 = hl2 \div g /\ r2 = hl2 % g /\ hl2 = q2 * g + r2
  BY <1>1, DividedIn
<1>7. PICK s \in Int : s = q0 + r1 + r2
  OBVIOUS
<1>8. PICK carry \in Int, t \in 0 .. g - 1 : carry = s \div g /\ t = s % g /\ s = carry * g + t
  BY <1>1, DividedIn
<1>9. PICK lo \in Int, hi \in Int : lo = t * g + r0 /\ hi = hh2 + q1 + q2 + carry
  OBVIOUS
<1>10. /\ ll2 = q0 * g + r0 /\ lh2 = q1 * g + r1 /\ hl2 = q2 * g + r2
       /\ q0 + r1 + r2 = carry * g + t /\ m = g * g /\ lo = t * g + r0 /\ hi = hh2 + q1 + q2 + carry
       /\ l = lh * g + ll /\ r = rh * g + rl
       /\ ll2 = ll * rl /\ lh2 = ll * rh /\ hl2 = lh * rl /\ hh2 = lh * rh
  BY <1>1, <1>2, <1>3, <1>4, <1>5, <1>6, <1>7, <1>8, <1>9
<1>11. /\ g \in Int /\ m \in Int /\ ll \in Int /\ lh \in Int /\ rl \in Int /\ rh \in Int
       /\ ll2 \in Int /\ lh2 \in Int /\ hl2 \in Int /\ hh2 \in Int
       /\ q0 \in Int /\ q1 \in Int /\ q2 \in Int /\ r0 \in Int /\ r1 \in Int /\ r2 \in Int
       /\ carry \in Int /\ t \in Int /\ lo \in Int /\ hi \in Int
  <2>1. /\ g \in Int /\ m \in Int /\ ll \in Int /\ lh \in Int /\ rl \in Int /\ rh \in Int
        /\ ll2 \in Int /\ lh2 \in Int /\ hl2 \in Int /\ hh2 \in Int
    BY ONLY <1>1, <1>2, <1>3
  <2>2. /\ q0 \in Int /\ q1 \in Int /\ q2 \in Int /\ r0 \in Int /\ r1 \in Int /\ r2 \in Int
        /\ carry \in Int /\ t \in Int
    BY ONLY <1>1, <1>4, <1>5, <1>6, <1>8
  <2>. QED  BY ONLY <1>9, <2>1, <2>2
<1>12. l * r = hi * m + lo /\ (lh2 + hl2) * g + ll2 = (q1 + q2 + carry) * m + lo
  <2>1. l * r = hh2 * m + (lh2 + hl2) * g + ll2
    <3>1. l * r = (lh * rh) * (g * g) + (ll * rh + lh * rl) * g + ll * rl
      BY ONLY <1>10, <1>11
    <3>. QED  BY ONLY <1>10, <3>1
  <2>2. (lh2 + hl2) * g + ll2 = (q1 + q2) * m + (q0 + r1 + r2) * g + r0
    BY ONLY <1>10, <1>11
  <2>3. (q0 + r1 + r2) * g = carry * m + t * g
    <3>1. (q0 + r1 + r2) * g = (carry * g + t) * g
      BY ONLY <1>10
    <3>2. (carry * g + t) * g = carry * (g * g) + t * g
      BY ONLY <1>11
    <3>. QED  BY ONLY <1>10, <3>1, <3>2
  <2>4. (lh2 + hl2) * g + ll2 = (q1 + q2 + carry) * m + lo
    <3>1. PICK e \in Int : e = (q0 + r1 + r2) * g
      BY <1>11
    <3>2. (lh2 + hl2) * g + ll2 = (q1 + q2) * m + e + r0 /\ e = carry * m + t * g
      BY ONLY <2>2, <2>3, <3>1
    <3>3. (q1 + q2) * m + (carry * m + t * g) + r0 = (q1 + q2 + carry) * m + (t * g + r0)
      BY ONLY <1>11
    <3>. QED  BY ONLY <1>10, <3>2, <3>3
  <2>5. hh2 * m + ((q1 + q2 + carry) * m + lo) = (hh2 + q1 + q2 + carry) * m + lo
    BY ONLY <1>11
  <2>6. l * r = hh2 * m + ((q1 + q2 + carry) * m + lo)
    <3>1. PICK e \in Int : e = (lh2 + hl2) * g + ll2
      BY <1>11
    <3>2. hh2 * m + (lh2 + hl2) * g + ll2 = hh2 * m + e
      BY ONLY <1>11, <3>1
    <3>. QED  BY ONLY <2>1, <2>4, <3>1, <3>2
  <2>. QED  BY ONLY <1>10, <2>4, <2>5, <2>6
<1>13. lo \in 0 .. m - 1
  <2>1. PICK d \in Nat : t = g - 1 - d
    BY <1>8
  <2>2. d * g >= 0 /\ t * g >= 0
    BY ONLY <2>1, <1>1, <1>8
  <2>3. t * g = g * g - g - d * g
    BY ONLY <2>1, <1>1
  <2>. QED  BY ONLY <1>1, <1>5, <1>9, <2>2, <2>3
<1>14. hi \in 0 .. m - 1
  <2>1. PICK p : p = l * r
    OBVIOUS
  <2>2. p >= 0 /\ p < m * m /\ p = hi * m + lo
    BY <1>1, <1>12, <2>1, ProductBound DEF Limb
  <2>3. hi <= -1 => hi * m <= -m
    BY ONLY <1>1, <1>9, ProductSign
  <2>4. hi >= m => hi * m >= m * m
    <3>1. SUFFICES ASSUME hi >= m PROVE hi * m >= m * m
      OBVIOUS
    <3>2. PICK d \in Nat : hi = m + d
      BY ONLY <3>1, <1>1, <1>9
    <3>3. d * m >= 0
      BY ONLY <3>2, <1>1
    <3>. QED  BY ONLY <1>1, <3>2, <3>3
  <2>5. PICK z, y \in Int : z = hi * m /\ y = m * m
    BY <1>1, <1>9
  <2>. QED  BY ONLY <1>1, <1>9, <1>13, <2>2, <2>3, <2>4, <2>5
<1>15. ToLimb(hh2 + q1 + q2 + carry) = hi
  <2>1. hi \in Limb
    BY <1>1, <1>14 DEF Limb
  <2>. QED  BY <1>9, <2>1, ToLimbNear
<1>16. ToLimb(ll2 + ToLimb(lh2 * g) + ToLimb(hl2 * g)) = lo
  <2>1. PICK a, b \in Int : a = lh2 * g /\ b = hl2 * g
    BY <1>11
  <2>2. PICK c, x \in Int : x = ToLimb(a) /\ a = c * LimbSize + x
    BY LimbPart
  <2>3. PICK d, y \in Int : y = ToLimb(b) /\ b = d * LimbSize + y
    BY LimbPart
  <2>5. a = c * m + x /\ b = d * m + y
    BY <1>1, <2>2, <2>3
  <2>6. PICK n \in Int : n = ll2 + x + y
    BY <1>11
  <2>7. PICK k \in Int : k = q1 + q2 + carry - c - d
    BY <1>11
  <2>8. n = k * m + lo
    <3>1. n = (a + b + ll2) - c * m - d * m
      <4>1. PICK e, f \in Int : e = c * m /\ f = d * m
        BY <1>11
      <4>2. a = e + x /\ b = f + y
        BY ONLY <2>5, <4>1
      <4>3. n = (a + b + ll2) - e - f
        BY ONLY <1>11, <2>6, <4>2, x \in Int, y \in Int, e \in Int, f \in Int
      <4>. QED  BY ONLY <4>1, <4>3
    <3>2. a + b + ll2 = (lh2 + hl2) * g + ll2
      BY ONLY <1>11, <2>1
    <3>3. (q1 + q2 + carry) * m + lo - c * m - d * m = (q1 + q2 + carry - c - d) * m + lo
      BY ONLY <1>11, c \in Int, d \in Int
    <3>. QED  BY ONLY <1>12, <2>7, <3>1, <3>2, <3>3
  <2>9. ToLimb(n) = lo
    <3>1. n = k * LimbSize + lo /\ lo \in Limb
      BY <1>1, <1>13, <2>8 DEF Limb
    <3>. QED  BY <2>6, <2>7, <3>1, ToLimbIs
  <2>. QED  BY <2>1, <2>2, <2>3, <2>6, <2>9
<1>17. u128_mul64(l, r) = [lo |-> lo, hi |-> hi]
  <2>1. /\ carry = (ll2 \div g + (lh2 % g) + (hl2 % g)) \div g
        /\ q1 = lh2 \div g /\ q2 = hl2 \div g
    BY <1>4, <1>5, <1>6, <1>7, <1>8
  <2>2. /\ g = HalfSize /\ ll = l % HalfSize /\ lh = l \div HalfSize
        /\ rl = r % HalfSize /\ rh = r \div HalfSize
    BY <1>1, <1>2
  <2>3. u128_mul64(l, r) =
          [lo |-> ToLimb(ll * rl + ToLimb((ll * rh) * g) + ToLimb((lh * rl) * g)),
           hi |-> ToLimb(lh * rh + ((ll * rh) \div g) + ((lh * rl) \div g)
                           + (((ll * rl) \div g + ((ll * rh) % g) + ((lh * rl) % g)) \div g))]
    BY ONLY <2>2 DEF u128_mul64
  <2>4. u128_mul64(l, r) =
          [lo |-> ToLimb(ll2 + ToLimb(lh2 * g) + ToLimb(hl2 * g)),
           hi |-> ToLimb(hh2 + (lh2 \div g) + (hl2 \div g)
                           + ((ll2 \div g + (lh2 % g) + (hl2 % g)) \div g))]
    BY ONLY <1>3, <2>3
  <2>. QED  BY ONLY <1>15, <1>16, <2>1, <2>4
<1>18. UValue([lo |-> lo, hi |-> hi]) = hi * m + lo /\ [lo |-> lo, hi |-> hi] \in Wide
  BY <1>1, <1>13, <1>14 DEF UValue, Wide, Limb
<1>. QED  BY <1>12, <1>17, <1>18

LEMMA AlikeStep ==
    ASSUME NEW a \in Int, NEW b \in Int, NEW c \in Int, Alike(a, b), Alike(b, c)
    PROVE  Alike(a, c)
BY AlikeFacts

\* Three of the four products of the limbs: the fourth is a multiple of the width.
LEMMA ProductFacts ==
    ASSUME NEW x \in Wide, NEW y \in Wide
    PROVE  u128_mul(x, y) \in Wide /\ Alike(UValue(x) * UValue(y), UValue(u128_mul(x, y)))
<1>1. PICK m \in Nat \ {0} : m = LimbSize /\ WideSize = m * m
  BY Sizes
<1>2. PICK xl, xh, yl, yh \in Int : xl = x.lo /\ xh = x.hi /\ yl = y.lo /\ yh = y.hi
  BY <1>1, ValueFacts DEF Limb
<1>3. xl \in Limb /\ xh \in Limb /\ yl \in Limb /\ yh \in Limb
  BY <1>2, ValueFacts
<1>4. PICK i \in Wide : i = u128_mul64(xl, yl) /\ UValue(i) = xl * yl
  BY <1>3, LimbProduct
<1>5. PICK j \in Wide : j = u128_mul64(xl, yh) /\ UValue(j) = xl * yh
  BY <1>3, LimbProduct
<1>6. PICK k \in Wide : k = u128_mul64(xh, yl) /\ UValue(k) = xh * yl
  BY <1>3, LimbProduct
<1>7. ASSUME NEW v \in Wide
      PROVE  UINT128_H(0, v.lo) \in Wide /\ Alike(UValue(v) * m, UValue(UINT128_H(0, v.lo)))
  <2>1. PICK lo, hi \in Int : lo = v.lo /\ hi = v.hi
    BY <1>1, ValueFacts DEF Limb
  <2>2. UINT128_H(0, lo) \in Wide /\ UValue(UINT128_H(0, lo)) = lo * m + 0
    <3>1. lo \in Limb /\ 0 \in Limb
      BY <1>1, <2>1, ValueFacts DEF Limb
    <3>. QED  BY <1>1, <3>1 DEF UINT128_H, Wide, UValue
  <2>3. UValue(v) = hi * m + lo
    BY <1>1, <2>1, ValueFacts
  <2>4. (hi * m + lo) * m = (lo * m + 0) + hi * (m * m)
    BY ONLY m \in Int, lo \in Int, hi \in Int
  <2>. QED  BY <1>1, <2>1, <2>2, <2>3, <2>4 DEF Alike
<1>8. PICK j2 \in Wide : j2 = UINT128_H(0, j.lo) /\ Alike((xl * yh) * m, UValue(j2))
  BY <1>5, <1>7
<1>9. PICK k2 \in Wide : k2 = UINT128_H(0, k.lo) /\ Alike((xh * yl) * m, UValue(k2))
  BY <1>6, <1>7
<1>10. PICK s \in Wide : s = u128_add(i, j2) /\ Alike(UValue(i) + UValue(j2), UValue(s))
  BY SumFacts DEF u128_add
<1>11. PICK z \in Wide : z = u128_add(s, k2) /\ Alike(UValue(s) + UValue(k2), UValue(z))
  BY SumFacts DEF u128_add
<1>12. z = u128_mul(x, y)
  BY <1>2, <1>4, <1>5, <1>6, <1>8, <1>9, <1>10, <1>11 DEF u128_mul
<1>13. PICK a, b, c, d, e, f, n \in Int :
          /\ a = UValue(i) /\ b = UValue(j2) /\ c = UValue(k2) /\ d = UValue(s) /\ e = UValue(z)
          /\ f = (xl * yh) * m /\ n = (xh * yl) * m
  <2>1. /\ UValue(i) \in Int /\ UValue(j2) \in Int /\ UValue(k2) \in Int /\ UValue(s) \in Int
        /\ UValue(z) \in Int
    <3>1. WideSize \in Nat
      BY Sizes
    <3>. QED  BY <3>1, ValueFacts
  <2>2. (xl * yh) * m \in Int /\ (xh * yl) * m \in Int
    BY <1>1
  <2>. QED  BY <2>1, <2>2
<1>14. Alike(f, b) /\ Alike(n, c) /\ Alike(a + b, d) /\ Alike(d + c, e)
  BY <1>8, <1>9, <1>10, <1>11, <1>13
<1>15. Alike(a + f + n, e)
  <2>1. Alike(f + a, b + a)
    BY <1>13, <1>14, AlikeFacts, AlikeSame
  <2>2. f + a \in Int /\ b + a \in Int /\ b + a = a + b
    BY <1>13
  <2>3. Alike(f + a, d)
    <3>1. Alike(f + a, a + b)
      BY <2>1, <2>2
    <3>2. a + b \in Int
      BY <2>2
    <3>. QED  BY ONLY <1>14, <2>2, <3>1, <3>2, d \in Int, AlikeStep
  <2>4. Alike((f + a) + n, d + c)
    BY <2>2, <2>3, <1>13, <1>14, AlikeFacts, SMTT(40)
  <2>5. (f + a) + n \in Int /\ d + c \in Int /\ (f + a) + n = a + f + n
    BY <1>13
  <2>6. Alike((f + a) + n, e)
    BY ONLY <1>14, <2>4, <2>5, e \in Int, AlikeStep
  <2>. QED  BY <2>5, <2>6
<1>16. PICK u, v \in Int : u = UValue(x) /\ v = UValue(y) /\ u = xh * m + xl /\ v = yh * m + yl
  <2>1. xh * m + xl \in Int /\ yh * m + yl \in Int
    BY <1>1
  <2>. QED  BY <1>1, <1>2, <2>1, ValueFacts
<1>17. u * v = (a + f + n) + (xh * yh) * (m * m)
  <2>1. u * v = (xh * m + xl) * (yh * m + yl)
    BY <1>16
  <2>2. (xh * m + xl) * (yh * m + yl)
          = (xl * yl + (xl * yh) * m + (xh * yl) * m) + (xh * yh) * (m * m)
    BY ONLY <1>1, xl \in Int, xh \in Int, yl \in Int, yh \in Int
  <2>3. a = xl * yl
    BY <1>4, <1>13
  <2>. QED  BY ONLY <1>13, <2>1, <2>2, <2>3
<1>18. Alike(u * v, a + f + n)
  <2>1. xh * yh \in Int
    OBVIOUS
  <2>. QED  BY <1>1, <1>17, <2>1 DEF Alike
<1>19. Alike(u * v, e)
  <2>1. u * v \in Int /\ a + f + n \in Int /\ e \in Int
    OBVIOUS
  <2>. QED  BY ONLY <1>15, <1>18, <2>1, AlikeFacts
<1>. QED  BY <1>12, <1>13, <1>16, <1>19

-----------------------------------------------------------------------------
(* What the operations are held to.                                        *)

\* Two digits are ordered by the higher one first.
LEMMA DigitOrder ==
    ASSUME NEW m \in Nat \ {0}, NEW a \in Int, NEW b \in Int,
           NEW k \in 0 .. m - 1, NEW l \in 0 .. m - 1
    PROVE  /\ a * m + k < b * m + l <=> IF a = b THEN k < l ELSE a < b
           /\ a * m + k = b * m + l <=> a = b /\ k = l
<1>1. ASSUME NEW c \in Int, NEW d \in Int, NEW i \in 0 .. m - 1, NEW j \in 0 .. m - 1, c < d
      PROVE  c * m + i < d * m + j
  <2>1. PICK e \in Nat : d = c + 1 + e
    BY <1>1
  <2>2. e * m >= 0
    OBVIOUS
  <2>3. d * m = c * m + m + e * m
    BY ONLY <2>1, m \in Nat, c \in Int, e \in Nat
  <2>4. PICK p, q, r \in Int : p = c * m /\ q = d * m /\ r = e * m
    OBVIOUS
  <2>5. r >= 0 /\ q = p + m + r
    BY ONLY <2>2, <2>3, <2>4
  <2>6. p + i < q + j
    BY ONLY <2>5, m \in Nat, p \in Int, q \in Int, r \in Int, i \in 0 .. m - 1, j \in 0 .. m - 1
  <2>. QED  BY ONLY <2>4, <2>6
<1>2. CASE a < b
  <2>1. a * m + k < b * m + l
    BY <1>1, <1>2
  <2>2. PICK p, q \in Int : p = a * m + k /\ q = b * m + l
    OBVIOUS
  <2>3. p < q /\ p # q
    BY ONLY <2>1, <2>2
  <2>. QED  BY ONLY <1>2, <2>2, <2>3, a \in Int, b \in Int
<1>3. CASE b < a
  <2>1. b * m + l < a * m + k
    BY <1>1, <1>3
  <2>2. PICK p, q \in Int : p = a * m + k /\ q = b * m + l
    OBVIOUS
  <2>3. ~(p < q) /\ p # q
    BY ONLY <2>1, <2>2
  <2>. QED  BY ONLY <1>3, <2>2, <2>3, a \in Int, b \in Int
<1>4. CASE a = b
  <2>1. PICK p \in Int : p = a * m
    OBVIOUS
  <2>2. (p + k < p + l <=> k < l) /\ (p + k = p + l <=> k = l)
    BY ONLY p \in Int, m \in Nat, k \in 0 .. m - 1, l \in 0 .. m - 1
  <2>. QED  BY ONLY <1>4, <2>1, <2>2
<1>. QED  BY <1>2, <1>3, <1>4

LEMMA SignedOrder ==
    ASSUME NEW a \in Limb, NEW b \in Limb
    PROVE  AsSigned(a) = AsSigned(b) <=> a = b
<1>1. PICK m \in Nat \ {0} : m = LimbSize
  BY Sizes
<1>. QED  BY <1>1 DEF AsSigned, Limb

LEMMA OrderFacts ==
    ASSUME NEW x \in Wide, NEW y \in Wide
    PROVE  /\ u128_lt(x, y) <=> UValue(x) < UValue(y)
           /\ i128_lt(x, y) <=> IValue(x) < IValue(y)
           /\ u128_gt(x, y) <=> UValue(y) < UValue(x)
           /\ i128_gt(x, y) <=> IValue(y) < IValue(x)
           /\ u128_eq(x, y) <=> UValue(x) = UValue(y)
           /\ i128_eq(x, y) <=> IValue(x) = IValue(y)
<1>1. PICK m \in Nat \ {0} : m = LimbSize
  BY Sizes
<1>2. PICK xl, xh, yl, yh \in 0 .. m - 1 : xl = x.lo /\ xh = x.hi /\ yl = y.lo /\ yh = y.hi
  BY <1>1, ValueFacts DEF Limb
<1>3. PICK xs, ys \in Int : xs = AsSigned(xh) /\ ys = AsSigned(yh) /\ (xs = ys <=> xh = yh)
  BY <1>1, SignFacts, SignedOrder DEF Limb
<1>4. /\ UValue(x) = xh * m + xl /\ UValue(y) = yh * m + yl
      /\ IValue(x) = xs * m + xl /\ IValue(y) = ys * m + yl
  BY <1>1, <1>2, <1>3, ValueFacts
<1>5. xh \in Int /\ yh \in Int
  OBVIOUS
<1>6. /\ xh * m + xl < yh * m + yl <=> IF xh = yh THEN xl < yl ELSE xh < yh
      /\ xs * m + xl < ys * m + yl <=> IF xs = ys THEN xl < yl ELSE xs < ys
      /\ xh * m + xl = yh * m + yl <=> xh = yh /\ xl = yl
      /\ xs * m + xl = ys * m + yl <=> xs = ys /\ xl = yl
  BY <1>5, DigitOrder
<1>7. /\ yh * m + yl < xh * m + xl <=> IF yh = xh THEN yl < xl ELSE yh < xh
      /\ ys * m + yl < xs * m + xl <=> IF ys = xs THEN yl < xl ELSE ys < xs
  BY <1>5, DigitOrder
<1>8. /\ u128_lt(x, y) <=> IF xh = yh THEN xl < yl ELSE xh < yh
      /\ i128_lt(x, y) <=> IF xs = ys THEN xl < yl ELSE xs < ys
      /\ u128_eq(x, y) <=> xl = yl /\ xh = yh
      /\ i128_eq(x, y) <=> xl = yl /\ xh = yh
  BY <1>2, <1>3 DEF u128_lt, i128_lt, u128_eq, i128_eq
<1>9. /\ u128_gt(x, y) <=> IF yh = xh THEN yl < xl ELSE yh < xh
      /\ i128_gt(x, y) <=> IF ys = xs THEN yl < xl ELSE ys < xs
  BY <1>2, <1>3 DEF u128_gt, i128_gt
<1>. QED  BY ONLY <1>3, <1>4, <1>6, <1>7, <1>8, <1>9

\* OrderExact: comparing two limbs, the high one as unsigned or as signed, compares the
\* numbers they stand for (el_u128_lt ... el_i128_le in util/int128.h).
THEOREM OrderIsExact == \A x, y \in Wide : OrderExact(x, y)
<1>. SUFFICES ASSUME NEW x \in Wide, NEW y \in Wide PROVE OrderExact(x, y)
  OBVIOUS
<1>1. PICK ux, uy, ix, iy \in Int :
         ux = UValue(x) /\ uy = UValue(y) /\ ix = IValue(x) /\ iy = IValue(y)
  BY ValueFacts, Sizes
<1>2. /\ u128_lt(x, y) <=> ux < uy
      /\ i128_lt(x, y) <=> ix < iy
      /\ u128_gt(x, y) <=> ux > uy
      /\ i128_gt(x, y) <=> ix > iy
      /\ u128_eq(x, y) <=> ux = uy
      /\ i128_eq(x, y) <=> ix = iy
  BY <1>1, OrderFacts
<1>3. /\ u128_le(x, y) <=> ux <= uy
      /\ u128_ge(x, y) <=> ux >= uy
      /\ i128_le(x, y) <=> ix <= iy
      /\ i128_ge(x, y) <=> ix >= iy
  BY <1>2 DEF u128_le, u128_ge, i128_le, i128_ge
<1>. QED  BY <1>1, <1>2, <1>3 DEF OrderExact

LEMMA NegativeSign ==
    ASSUME NEW v \in Wide
    PROVE  i128_lt(v, INT128(0)) <=> IValue(v) < 0
BY OrderFacts, Constants

\* SumsExact: sums, differences, negations and magnitudes (el_i128_add ... el_u128_sub in
\* util/int128.h, el_i128_abs_u128 in util/int128.c).
THEOREM SumsAreExact == \A x, y \in Wide : SumsExact(x, y)
<1>. SUFFICES ASSUME NEW x \in Wide, NEW y \in Wide PROVE SumsExact(x, y)
  OBVIOUS
<1>1. PICK ux, uy, ix, iy \in Int :
         ux = UValue(x) /\ uy = UValue(y) /\ ix = IValue(x) /\ iy = IValue(y)
  BY ValueFacts, Sizes
<1>2. ASSUME NEW v \in Wide PROVE UValue(v) \in Int
  BY ValueFacts, Sizes
<1>3. Alike(ix, ux) /\ Alike(iy, uy) /\ Alike(uy, iy)
  BY <1>1, AlikeValues
<1>4. Alike(-ix, -ux) /\ Alike(-iy, -uy) /\ Alike(-ux, -ix) /\ Alike(ix + iy, ux + uy)
  <2>1. Alike(ux, ix)
    BY <1>1, AlikeValues
  <2>. QED  BY ONLY <1>3, <2>1, ux \in Int, uy \in Int, ix \in Int, iy \in Int, AlikeFacts
<1>5. Holds(u128_add(x, y), ux + uy) /\ Holds(i128_add(x, y), ix + iy)
  <2>1. PICK z \in Wide, n \in Int : z = i128_add(x, y) /\ n = UValue(z) /\ Alike(ux + uy, n)
    BY <1>1, <1>2, SumFacts
  <2>2. ux + uy \in Int /\ ix + iy \in Int
    OBVIOUS
  <2>3. Alike(ix + iy, n)
    BY ONLY <1>4, <2>1, <2>2, n \in Int, AlikeStep
  <2>4. Holds(z, ux + uy) /\ Holds(z, ix + iy)
    BY <2>1, <2>2, <2>3, AlikeHolds
  <2>. QED  BY <2>1, <2>4 DEF u128_add
<1>6. Holds(u128_sub(x, y), ux - uy)
  <2>1. ux - uy \in Int
    OBVIOUS
  <2>. QED  BY <1>1, <2>1, DifferenceFacts, AlikeHolds
<1>7. PICK nx \in Wide, n \in Int : nx = i128_neg(x) /\ n = UValue(nx) /\ Alike(-ux, n)
  BY <1>1, <1>2, NegFacts
<1>8. Holds(u128_neg(x), -ux) /\ Holds(i128_neg(x), -ix)
  <2>1. -ux \in Int /\ -ix \in Int
    OBVIOUS
  <2>2. Alike(-ix, n)
    BY ONLY <1>4, <1>7, <2>1, n \in Int, AlikeStep
  <2>3. Holds(nx, -ux) /\ Holds(nx, -ix)
    BY <1>7, <2>1, <2>2, AlikeHolds
  <2>. QED  BY <1>7, <2>3 DEF u128_neg
<1>9. Holds(i128_sub(x, y), ix - iy)
  <2>1. PICK ny \in Wide, k \in Int : ny = i128_neg(y) /\ k = UValue(ny) /\ Alike(-uy, k)
    BY <1>1, <1>2, NegFacts
  <2>2. PICK z \in Wide, p \in Int : z = i128_add(x, ny) /\ p = UValue(z) /\ Alike(ux + k, p)
    BY <1>1, <1>2, <2>1, SumFacts
  <2>3. PICK b, c \in Int : b = -iy /\ c = -uy
    OBVIOUS
  <2>4. Alike(b, k)
    BY ONLY <1>4, <2>1, <2>3, b \in Int, c \in Int, k \in Int, AlikeStep
  <2>5. Alike(ix + b, ux + k)
    BY ONLY <1>3, <2>4, ix \in Int, ux \in Int, b \in Int, k \in Int, AlikeFacts
  <2>6. ix + b \in Int /\ ux + k \in Int /\ ix + b = ix - iy
    BY <2>3
  <2>7. Alike(ix + b, p)
    BY ONLY <2>2, <2>5, <2>6, p \in Int, AlikeStep
  <2>8. Holds(z, ix - iy)
    BY ONLY <2>6, <2>7, <2>2, z \in Wide, AlikeHolds
  <2>. QED  BY <2>1, <2>2, <2>8 DEF i128_sub
<1>10. UValue(i128_abs_u128(x)) = IF ix < 0 THEN -ix ELSE ix
  <2>1. PICK w \in Nat \ {0} : w = WideSize
    BY Sizes
  <2>2. ux \in 0 .. w - 1 /\ (ix = ux \/ ix = ux - w) /\ 2 * ix >= -w
    BY <1>1, <2>1, ValueFacts
  <2>3. CASE ix < 0
    <3>1. Holds(nx, -ix) /\ UValue(nx) = n
      BY <1>7, <1>8
    <3>2. n = (-ix) % w
      BY <2>1, <3>1 DEF Holds
    <3>3. PICK k \in Int : k = -ix
      OBVIOUS
    <3>4. k = 0 * w + k /\ k \in 0 .. w - 1
      BY ONLY <2>1, <2>2, <2>3, <3>3, ix \in Int
    <3>5. k % w = k
      BY ONLY <2>1, <3>4, k \in Int, Remainder
    <3>6. i128_abs_u128(x) = nx
      BY <1>1, <1>7, <2>3, NegativeSign DEF i128_abs_u128
    <3>. QED  BY <1>7, <2>3, <3>2, <3>3, <3>5, <3>6
  <2>4. CASE ~(ix < 0)
    <3>1. i128_abs_u128(x) = x
      BY <1>1, <2>4, NegativeSign DEF i128_abs_u128
    <3>2. ix = ux
      BY ONLY <2>1, <2>2, <2>4, ix \in Int, ux \in Int
    <3>. QED  BY <1>1, <2>4, <3>1, <3>2
  <2>. QED  BY <2>3, <2>4
<1>. QED  BY <1>1, <1>5, <1>6, <1>8, <1>9, <1>10 DEF SumsExact

\* The limb a signed number is read from.
LEMMA SignedLimb ==
    ASSUME NEW l \in Limb
    PROVE  /\ ToLimb(AsSigned(l)) = l
           /\ AsSigned(l) = IF AsSigned(l) < 0 THEN l - LimbSize ELSE l
<1>1. PICK m \in Nat \ {0} : m = LimbSize
  BY Sizes
<1>2. AsSigned(l) \in Int /\ l \in Int
  BY <1>1, SignFacts DEF Limb
<1>3. CASE 2 * l < LimbSize
  BY <1>2, <1>3, SignFacts, ToLimbNear
<1>4. CASE 2 * l >= LimbSize
  <2>1. AsSigned(l) = l - m /\ AsSigned(l) < 0
    BY <1>1, <1>4, SignFacts
  <2>2. (l - m) + m = l /\ l - m \in Int
    BY <1>1, <1>2
  <2>3. ToLimb(l - m) = l
    BY <1>1, <2>2, ToLimbNear
  <2>. QED  BY <1>1, <2>1, <2>3
<1>5. 2 * l < LimbSize \/ 2 * l >= LimbSize
  BY <1>1, <1>2
<1>. QED  BY <1>3, <1>4, <1>5

\* The signed product corrects the high limb once for each negative factor.
LEMMA SignedProduct ==
    ASSUME NEW a \in Limb, NEW b \in Limb
    PROVE  /\ i128_mul64(AsSigned(a), AsSigned(b)) \in Wide
           /\ Alike(AsSigned(a) * AsSigned(b), UValue(i128_mul64(AsSigned(a), AsSigned(b))))
<1>1. PICK m \in Nat \ {0} : m = LimbSize /\ WideSize = m * m
  BY Sizes
<1>2. PICK l, r \in Int : l = AsSigned(a) /\ r = AsSigned(b)
  BY SignFacts
<1>3. a \in 0 .. m - 1 /\ b \in 0 .. m - 1
  BY <1>1 DEF Limb
<1>4. PICK s, t \in {0, 1} : /\ l = a - s * m /\ r = b - t * m
                             /\ (l < 0 <=> s = 1) /\ (r < 0 <=> t = 1)
  <2>1. l = IF l < 0 THEN a - m ELSE a
    BY <1>1, <1>2, SignedLimb
  <2>2. r = IF r < 0 THEN b - m ELSE b
    BY <1>1, <1>2, SignedLimb
  <2>3. PICK s \in {0, 1} : l = a - s * m /\ (l < 0 <=> s = 1)
    <3>1. a = a - 0 * m /\ a - m = a - 1 * m
      BY <1>3
    <3>. QED  BY <2>1, <3>1
  <2>4. PICK t \in {0, 1} : r = b - t * m /\ (r < 0 <=> t = 1)
    <3>1. b = b - 0 * m /\ b - m = b - 1 * m
      BY <1>3
    <3>. QED  BY <2>2, <3>1
  <2>. QED  BY <2>3, <2>4
<1>5. PICK p \in Wide : p = u128_mul64(a, b) /\ UValue(p) = a * b
  BY LimbProduct
<1>6. PICK lo, hi \in Int : lo = p.lo /\ hi = p.hi /\ a * b = hi * m + lo
  BY <1>1, <1>5, ValueFacts DEF Limb
<1>7. PICK d \in Int : d = hi - (IF l < 0 THEN r ELSE 0) - (IF r < 0 THEN l ELSE 0)
  OBVIOUS
<1>8. d = hi - s * r - t * l
  <2>1. (IF l < 0 THEN r ELSE 0) = s * r
    BY <1>4
  <2>2. (IF r < 0 THEN l ELSE 0) = t * l
    BY <1>4
  <2>. QED  BY <1>7, <2>1, <2>2
<1>9. PICK c, x \in Int : x = ToLimb(d) /\ d = c * m + x
  BY <1>1, LimbPart
<1>10. PICK z \in Wide : z = i128_mul64(l, r) /\ UValue(z) = x * m + lo
  <2>1. lo \in Limb /\ x \in Limb
    BY <1>6, <1>9, ToLimbFacts, ValueFacts
  <2>2. i128_mul64(l, r) = [lo |-> lo, hi |-> x]
    <3>1. ToLimb(l) = a /\ ToLimb(r) = b
      BY <1>2, SignedLimb
    <3>. QED  BY <1>5, <1>6, <1>7, <1>9, <3>1 DEF i128_mul64
  <2>. QED  BY <1>1, <2>1, <2>2 DEF Wide, UValue
<1>11. l * r = (x * m + lo) + (c - s * t) * (m * m)
  <2>0. m \in Int /\ a \in Int /\ b \in Int /\ s \in Int /\ t \in Int
    BY <1>3
  <2>1. l * r = a * b - s * m * r - t * m * l - s * t * (m * m)
    <3>1. a = l + s * m /\ b = r + t * m
      BY ONLY <1>4, <2>0, l \in Int, r \in Int
    <3>2. (l + s * m) * (r + t * m) = l * r + s * m * r + t * m * l + s * t * (m * m)
      BY ONLY <2>0, l \in Int, r \in Int
    <3>3. PICK e, f, g, h, i \in Int : /\ e = l * r /\ f = s * m * r /\ g = t * m * l
                                       /\ h = s * t * (m * m) /\ i = a * b
      BY <2>0
    <3>4. i = e + f + g + h
      BY ONLY <3>1, <3>2, <3>3
    <3>5. e = i - f - g - h
      BY ONLY <3>4, e \in Int, f \in Int, g \in Int, h \in Int, i \in Int
    <3>. QED  BY ONLY <3>3, <3>5
  <2>2. hi * m - s * m * r - t * m * l = (hi - s * r - t * l) * m
    BY ONLY <2>0, hi \in Int, l \in Int, r \in Int
  <2>3. (hi - s * r - t * l) * m = (c * m + x) * m
    BY ONLY <1>8, <1>9
  <2>4. (c * m + x) * m = c * (m * m) + x * m
    BY ONLY <2>0, c \in Int, x \in Int
  <2>5. PICK e, f, g, h, i \in Int : /\ e = hi * m /\ f = s * m * r /\ g = t * m * l
                                     /\ h = s * t * (m * m) /\ i = c * (m * m)
    BY <2>0
  <2>6. PICK j \in Int : j = x * m
    BY <2>0
  <2>7. l * r = (e + lo) - f - g - h /\ e - f - g = i + j
    BY ONLY <1>6, <2>1, <2>2, <2>3, <2>4, <2>5, <2>6
  <2>8. (e + lo) - f - g - h = (j + lo) + i - h
    BY ONLY <2>7, lo \in Int, e \in Int, f \in Int, g \in Int, h \in Int, i \in Int, j \in Int
  <2>9. i - h = (c - s * t) * (m * m)
    <3>1. (c - s * t) * (m * m) = c * (m * m) - s * t * (m * m)
      BY ONLY <2>0, c \in Int
    <3>. QED  BY ONLY <2>5, <3>1
  <2>10. (j + lo) + i - h = (j + lo) + (i - h)
    BY ONLY lo \in Int, h \in Int, i \in Int, j \in Int
  <2>. QED  BY ONLY <2>6, <2>7, <2>8, <2>9, <2>10
<1>12. PICK k \in Int : k = c - s * t
  OBVIOUS
<1>13. l * r = UValue(z) + k * WideSize
  BY <1>1, <1>10, <1>11, <1>12
<1>. QED  BY <1>2, <1>10, <1>13 DEF Alike

LEMMA OrderType == ASSUME NEW x, NEW y PROVE i128_lt(x, y) \in BOOLEAN
<1>1. CASE AsSigned(x.hi) = AsSigned(y.hi)
  <2>1. i128_lt(x, y) = (x.lo < y.lo)
    BY <1>1 DEF i128_lt
  <2>2. (x.lo < y.lo) \in BOOLEAN
    OBVIOUS
  <2>. QED  BY <2>1, <2>2
<1>2. CASE AsSigned(x.hi) # AsSigned(y.hi)
  <2>1. i128_lt(x, y) = (AsSigned(x.hi) < AsSigned(y.hi))
    BY <1>2 DEF i128_lt
  <2>2. (AsSigned(x.hi) < AsSigned(y.hi)) \in BOOLEAN
    OBVIOUS
  <2>. QED  BY <2>1, <2>2
<1>. QED  BY <1>1, <1>2

\* The signs of the factors are taken off and put on the product.
LEMMA SignedWideProduct ==
    ASSUME NEW x \in Wide, NEW y \in Wide
    PROVE  i128_mul(x, y) \in Wide /\ Alike(IValue(x) * IValue(y), UValue(i128_mul(x, y)))
<1>1. PICK ix, iy \in Int : ix = IValue(x) /\ iy = IValue(y)
  BY ValueFacts
<1>2. ASSUME NEW v \in Wide PROVE UValue(v) \in Int
  BY ValueFacts, Sizes
\* What stays of a factor or of a product when its sign is changed.
<1>3. ASSUME NEW v \in Wide, NEW n \in Int, Alike(n, UValue(v))
      PROVE  i128_neg(v) \in Wide /\ Alike(-n, UValue(i128_neg(v)))
  <2>1. PICK u, k \in Int : u = UValue(v) /\ k = UValue(i128_neg(v)) /\ i128_neg(v) \in Wide
    BY <1>2, NegFacts
  <2>2. Alike(-n, -u)
    BY <1>3, <2>1, AlikeFacts
  <2>3. Alike(-u, k)
    BY <2>1, NegFacts
  <2>4. -u \in Int /\ -n \in Int
    OBVIOUS
  <2>. QED  BY <2>1, <2>2, <2>3, <2>4, AlikeStep
<1>4. Alike(ix, UValue(x)) /\ Alike(iy, UValue(y))
  BY <1>1, AlikeValues
<1>5. CASE i128_eq(x, INT128(-1))
  <2>1. ix = -1
    BY <1>1, <1>5, OrderFacts, Constants
  <2>2. i128_neg(y) \in Wide /\ Alike(-iy, UValue(i128_neg(y)))
    BY <1>3, <1>4
  <2>3. ix * iy = -iy
    BY ONLY <2>1, iy \in Int
  <2>. QED  BY <1>1, <1>5, <2>2, <2>3 DEF i128_mul
<1>6. CASE ~i128_eq(x, INT128(-1)) /\ i128_eq(y, INT128(-1))
  <2>1. iy = -1
    BY <1>1, <1>6, OrderFacts, Constants
  <2>2. i128_neg(x) \in Wide /\ Alike(-ix, UValue(i128_neg(x)))
    BY <1>3, <1>4
  <2>3. ix * iy = -ix
    BY ONLY <2>1, ix \in Int
  <2>. QED  BY <1>1, <1>6, <2>2, <2>3 DEF i128_mul
<1>7. CASE ~i128_eq(x, INT128(-1)) /\ ~i128_eq(y, INT128(-1))
  <2>1. PICK a \in Wide, s \in {1, -1} :
          /\ a = IF i128_lt(x, INT128(0)) THEN i128_neg(x) ELSE x
          /\ Alike(s * ix, UValue(a)) /\ (i128_lt(x, INT128(0)) <=> s = -1)
    <3>1. CASE i128_lt(x, INT128(0))
      <4>1. i128_neg(x) \in Wide /\ Alike(-ix, UValue(i128_neg(x))) /\ (-1) * ix = -ix
        BY <1>3, <1>4
      <4>. QED  BY <3>1, <4>1
    <3>2. CASE ~i128_lt(x, INT128(0))
      <4>1. 1 * ix = ix
        OBVIOUS
      <4>. QED  BY <1>4, <3>2, <4>1
    <3>. QED  BY <3>1, <3>2
  <2>2. PICK b \in Wide, t \in {1, -1} :
          /\ b = IF i128_lt(y, INT128(0)) THEN i128_neg(y) ELSE y
          /\ Alike(t * iy, UValue(b)) /\ (i128_lt(y, INT128(0)) <=> t = -1)
    <3>1. CASE i128_lt(y, INT128(0))
      <4>1. i128_neg(y) \in Wide /\ Alike(-iy, UValue(i128_neg(y))) /\ (-1) * iy = -iy
        BY <1>3, <1>4
      <4>. QED  BY <3>1, <4>1
    <3>2. CASE ~i128_lt(y, INT128(0))
      <4>1. 1 * iy = iy
        OBVIOUS
      <4>. QED  BY <1>4, <3>2, <4>1
    <3>. QED  BY <3>1, <3>2
  <2>3. PICK p \in Wide : p = u128_mul(a, b) /\ Alike(UValue(a) * UValue(b), UValue(p))
    BY ProductFacts
  <2>4. PICK u, v, q, e, f, g \in Int :
          /\ u = UValue(a) /\ v = UValue(b) /\ q = UValue(p)
          /\ e = s * ix /\ f = t * iy /\ g = u * v
    BY <1>2
  <2>5. Alike(e * f, q)
    <3>1. Alike(e * f, g)
      BY <2>1, <2>2, <2>4, AlikeFacts
    <3>2. Alike(g, q)
      BY <2>3, <2>4
    <3>3. e * f \in Int
      OBVIOUS
    <3>. QED  BY ONLY <3>1, <3>2, <3>3, g \in Int, q \in Int, AlikeStep
  <2>6. PICK n \in Int : n = ix * iy
    OBVIOUS
  <2>7. CASE s # t
    <3>1. i128_mul(x, y) = i128_neg(p)
      BY <1>7, <2>1, <2>2, <2>3, <2>7 DEF i128_mul
    <3>2. e * f = -n
      <4>1. CASE s = 1 /\ t = -1
        <5>1. e = ix /\ f = -iy
          BY ONLY <2>4, <4>1, ix \in Int, iy \in Int
        <5>. QED  BY ONLY <2>6, <5>1, ix \in Int, iy \in Int
      <4>2. CASE s = -1 /\ t = 1
        <5>1. e = -ix /\ f = iy
          BY ONLY <2>4, <4>2, ix \in Int, iy \in Int
        <5>. QED  BY ONLY <2>6, <5>1, ix \in Int, iy \in Int
      <4>. QED  BY <2>7, <4>1, <4>2
    <3>3. -n \in Int /\ Alike(-n, UValue(p))
      <4>1. -n \in Int
        OBVIOUS
      <4>2. Alike(-n, q)
        BY ONLY <2>5, <3>2
      <4>. QED  BY <2>4, <4>1, <4>2
    <3>4. i128_neg(p) \in Wide /\ Alike(-(-n), UValue(i128_neg(p)))
      BY <1>3, <3>3
    <3>5. -(-n) = n
      OBVIOUS
    <3>. QED  BY <1>1, <2>6, <3>1, <3>4, <3>5
  <2>8. CASE s = t
    <3>1. i128_mul(x, y) = p
      <4>1. i128_lt(x, INT128(0)) \in BOOLEAN /\ i128_lt(y, INT128(0)) \in BOOLEAN
        BY OrderType
      <4>2. i128_lt(x, INT128(0)) = i128_lt(y, INT128(0))
        BY <2>1, <2>2, <2>8, <4>1
      <4>3. i128_mul(x, y) = u128_mul(a, b)
        BY <1>7, <2>1, <2>2, <4>2 DEF i128_mul
      <4>. QED  BY <2>3, <4>3
    <3>2. e * f = n
      <4>1. CASE s = 1 /\ t = 1
        <5>1. e = ix /\ f = iy
          BY ONLY <2>4, <4>1, ix \in Int, iy \in Int
        <5>. QED  BY ONLY <2>6, <5>1, ix \in Int, iy \in Int
      <4>2. CASE s = -1 /\ t = -1
        <5>1. e = -ix /\ f = -iy
          BY ONLY <2>4, <4>2, ix \in Int, iy \in Int
        <5>. QED  BY ONLY <2>6, <5>1, ix \in Int, iy \in Int
      <4>. QED  BY <2>8, <4>1, <4>2
    <3>. QED  BY <1>1, <2>4, <2>5, <2>6, <3>1, <3>2
  <2>. QED  BY <2>7, <2>8
<1>. QED  BY <1>5, <1>6, <1>7

\* ProductsExact: products of limbs and of two limbs, unsigned and signed (el_u128_mul64,
\* el_i128_mul64, el_u128_mul and el_i128_mul in util/int128.h).
THEOREM ProductsAreExact == \A x, y \in Wide : ProductsExact(x, y)
<1>. SUFFICES ASSUME NEW x \in Wide, NEW y \in Wide PROVE ProductsExact(x, y)
  OBVIOUS
<1>1. x.lo \in Limb /\ y.lo \in Limb
  BY ValueFacts
<1>2. /\ UValue(x) \in Int /\ UValue(y) \in Int /\ IValue(x) \in Int /\ IValue(y) \in Int
      /\ AsSigned(x.lo) \in Int /\ AsSigned(y.lo) \in Int
  BY <1>1, ValueFacts, SignFacts, Sizes
<1>3. /\ UValue(x) * UValue(y) \in Int /\ IValue(x) * IValue(y) \in Int
      /\ AsSigned(x.lo) * AsSigned(y.lo) \in Int
  BY ONLY <1>2
<1>4. UValue(u128_mul64(x.lo, y.lo)) = x.lo * y.lo
  BY <1>1, LimbProduct
<1>5. Holds(i128_mul64(AsSigned(x.lo), AsSigned(y.lo)), AsSigned(x.lo) * AsSigned(y.lo))
  BY <1>1, <1>3, SignedProduct, AlikeHolds
<1>6. Holds(u128_mul(x, y), UValue(x) * UValue(y))
  BY <1>3, ProductFacts, AlikeHolds
<1>7. Holds(i128_mul(x, y), IValue(x) * IValue(y))
  BY <1>3, SignedWideProduct, AlikeHolds
<1>. QED  BY <1>4, <1>5, <1>6, <1>7 DEF ProductsExact

-----------------------------------------------------------------------------
(* Recursion.  The recursive functions of the model stop in the states of  *)
(* Stop and in others need their value for one state more, after[s], with  *)
(* a smaller measure.                                                      *)

LEMMA SmallestOf ==
    ASSUME NEW T \in SUBSET Nat, T # {}
    PROVE  \E m \in T : \A n \in T : m <= n
<1>1. PICK m \in T : \A y \in T : ~ (<<y, m>> \in OpToRel(<, Nat))
  BY Zenon, NatLessThanWellFounded, WFMin
<1>2. \A y \in T : ~(y < m)
  BY <1>1 DEF OpToRel
<1>. QED  BY <1>2

Decreases(S, Stop, after, measure) ==
    /\ measure \in [S -> Nat]
    /\ \A s \in S \ Stop : after[s] \in S /\ measure[after[s]] < measure[s]

\* A claim about all states follows if it carries over from after[s] to s.
LEMMA Induction ==
    ASSUME NEW S, NEW Stop, NEW after, NEW measure, Decreases(S, Stop, after, measure),
           NEW J \in SUBSET S, NEW Good,
           \A s \in J \cap Stop : s \in Good,
           \A s \in J \ Stop : after[s] \in J /\ (after[s] \in Good => s \in Good)
    PROVE  J \subseteq Good
<1>. DEFINE T == {measure[s] : s \in J \ Good}
<1>1. SUFFICES ASSUME T # {}
               PROVE  FALSE
  OBVIOUS
<1>2. T \in SUBSET Nat
  BY DEF Decreases
<1>3. PICK m \in T : \A n \in T : m <= n
  BY <1>1, <1>2, SmallestOf
<1>4. PICK s \in J \ Good : m = measure[s]
  BY <1>3
<1>5. s \notin Stop
  BY <1>4
<1>6. after[s] \in J \ Good /\ measure[after[s]] < measure[s]
  BY <1>4, <1>5 DEF Decreases
<1>7. measure[after[s]] \in T
  BY <1>6
<1>8. m <= measure[after[s]]
  <2>. HIDE DEF T
  <2>. QED  BY <1>3, <1>7
<1>9. measure[after[s]] \in Nat /\ m \in Nat
  BY <1>2, <1>3, <1>7
<1>. QED  BY <1>4, <1>6, <1>8, <1>9

\* The function that combines the value for after[s] with s.
Solves(f, S, R, Stop, after, ended, combine) ==
    /\ f \in [S -> R]
    /\ \A s \in S : f[s] = IF s \in Stop THEN ended[s] ELSE combine[<<s, f[after[s]]>>]

LEMMA RecursionExists ==
    ASSUME NEW S, NEW Stop, NEW after, NEW measure, Decreases(S, Stop, after, measure),
           NEW R, NEW ended \in [S -> R], NEW combine \in [S \X R -> R]
    PROVE  \E f : Solves(f, S, R, Stop, after, ended, combine)
<1>. DEFINE Below(n) == {s \in S : measure[s] < n}
            Partly(f, n) == Solves(f, Below(n), R, Stop, after, ended, combine)
            T == {n \in Nat : ~ \E f : Partly(f, n)}
<1>1. \A n \in Nat : n \notin T => \E f : Partly(f, n)
  <2>. HIDE DEF Partly
  <2>. QED  OBVIOUS
<1>2. ASSUME NEW n \in Nat, NEW s \in Below(n), s \notin Stop
      PROVE  after[s] \in Below(n) /\ after[s] \in Below(measure[s]) /\ measure[s] \in Nat
  BY <1>2 DEF Decreases
<1>3. T = {}
  <2>1. SUFFICES ASSUME T # {}
                 PROVE  FALSE
    OBVIOUS
  <2>2. PICK m \in T : \A n \in T : m <= n
    <3>1. T \in SUBSET Nat
      OBVIOUS
    <3>. HIDE DEF T
    <3>. QED  BY <2>1, <3>1, SmallestOf
  <2>3. m \in Nat /\ ~ \E f : Partly(f, m)
    <3>. HIDE DEF Partly
    <3>. QED  OBVIOUS
  <2>4. m # 0
    <3>1. SUFFICES ASSUME m = 0
                   PROVE  FALSE
      OBVIOUS
    <3>2. Below(0) = {}
      BY DEF Decreases
    <3>. DEFINE e == [s \in {} |-> s]
    <3>3. Partly(e, 0)
      BY <3>2 DEF Solves
    <3>. HIDE DEF Partly
    <3>. QED  BY <2>3, <3>1, <3>3
  <2>5. m - 1 \in Nat /\ m - 1 \notin T
    <3>. HIDE DEF T
    <3>. QED  BY <2>2, <2>3, <2>4
  <2>6. PICK f : Partly(f, m - 1)
    <3>. HIDE DEF Partly, T
    <3>. QED  BY <1>1, <2>5
  <2>. DEFINE g == [s \in Below(m) |-> IF s \in Stop THEN ended[s]
                                       ELSE combine[<<s, f[after[s]]>>]]
  <2>7. ASSUME NEW s \in Below(m), s \notin Stop
        PROVE  after[s] \in Below(m - 1) /\ after[s] \in Below(m)
    BY <2>3, <2>7 DEF Decreases
  <2>8. ASSUME NEW s \in Below(m - 1)
        PROVE  s \in Below(m) /\ f[s] = g[s] /\ f[s] \in R
    <3>1. s \in Below(m)
      BY <2>3 DEF Decreases
    <3>2. f[s] = (IF s \in Stop THEN ended[s] ELSE combine[<<s, f[after[s]]>>]) /\ f[s] \in R
      BY <2>6 DEF Solves
    <3>. QED  BY <3>1, <3>2
  <2>9. ASSUME NEW s \in Below(m)
        PROVE  /\ g[s] \in R
               /\ g[s] = IF s \in Stop THEN ended[s] ELSE combine[<<s, g[after[s]]>>]
    <3>1. s \in S
      OBVIOUS
    <3>2. CASE s \in Stop
      BY <3>1, <3>2
    <3>3. CASE s \notin Stop
      <4>1. after[s] \in Below(m - 1)
        BY <2>7, <3>3
      <4>2. f[after[s]] = g[after[s]] /\ f[after[s]] \in R
        <5>. HIDE DEF g, Below
        <5>. QED  BY <2>8, <4>1
      <4>3. g[s] = combine[<<s, f[after[s]]>>]
        BY <3>3
      <4>. HIDE DEF g
      <4>. QED  BY <3>1, <3>3, <4>2, <4>3
    <3>. QED  BY <3>2, <3>3
  <2>10. g \in [Below(m) -> R]
    <3>1. g = [s \in Below(m) |-> g[s]]
      OBVIOUS
    <3>. HIDE DEF g, Below
    <3>. QED  BY <2>9, <3>1
  <2>11. Partly(g, m)
    <3>. HIDE DEF g, Below
    <3>. QED  BY <2>9, <2>10 DEF Solves
  <2>. HIDE DEF Partly
  <2>. QED  BY <2>3, <2>11
<1>4. \A n \in Nat : \E f : Partly(f, n)
  <2>. HIDE DEF Partly, T
  <2>. QED  BY <1>1, <1>3
<1>. DEFINE sol(n) == CHOOSE f : Partly(f, n)
<1>5. \A n \in Nat : Partly(sol(n), n)
  <2>. HIDE DEF Partly
  <2>. QED  BY <1>4
<1>. HIDE DEF sol
<1>6. ASSUME NEW m \in Nat, NEW n \in Nat, m <= n
      PROVE  \A s \in Below(m) : sol(m)[s] = sol(n)[s]
  <2>. DEFINE J == Below(m)
              Good == {s \in S : sol(m)[s] = sol(n)[s]}
  <2>1. J \in SUBSET S /\ J \subseteq Below(n)
    BY <1>6 DEF Decreases
  <2>2. /\ \A s \in J : sol(m)[s] = IF s \in Stop THEN ended[s]
                                   ELSE combine[<<s, sol(m)[after[s]]>>]
        /\ \A s \in J : sol(n)[s] = IF s \in Stop THEN ended[s]
                                   ELSE combine[<<s, sol(n)[after[s]]>>]
    <3>1. Partly(sol(m), m) /\ Partly(sol(n), n)
      <4>. HIDE DEF Partly
      <4>. QED  BY <1>5
    <3>. HIDE DEF Below
    <3>. QED  BY <2>1, <3>1 DEF Solves
  <2>3. \A s \in J \cap Stop : s \in Good
    BY <2>1, <2>2
  <2>4. \A s \in J \ Stop : after[s] \in J /\ (after[s] \in Good => s \in Good)
    BY <1>2, <2>1, <2>2
  <2>5. J \subseteq Good
    <3>. HIDE DEF J, Good
    <3>. QED  BY <2>1, <2>3, <2>4, Induction
  <2>. QED  BY <2>5
<1>. DEFINE all == [s \in S |-> sol(measure[s] + 1)[s]]
<1>7. ASSUME NEW s \in S
      PROVE  /\ all[s] \in R
             /\ all[s] = IF s \in Stop THEN ended[s] ELSE combine[<<s, all[after[s]]>>]
  <2>. DEFINE m == measure[s] + 1
              n == measure[after[s]] + 1
  <2>1. m \in Nat /\ s \in Below(m)
    BY DEF Decreases
  <2>2. Partly(sol(m), m)
    <3>. HIDE DEF Partly, m
    <3>. QED  BY <1>5, <2>1
  <2>3. all[s] = sol(m)[s]
    OBVIOUS
  <2>. HIDE DEF m
  <2>4. /\ sol(m)[s] \in R
        /\ sol(m)[s] = IF s \in Stop THEN ended[s] ELSE combine[<<s, sol(m)[after[s]]>>]
    <3>. HIDE DEF Below
    <3>. QED  BY <2>1, <2>2 DEF Solves
  <2>5. ASSUME s \notin Stop
        PROVE  sol(m)[after[s]] = all[after[s]]
    <3>1. after[s] \in S /\ n \in Nat /\ n <= m /\ after[s] \in Below(n)
      BY <2>5 DEF Decreases, m
    <3>2. all[after[s]] = sol(n)[after[s]]
      BY <3>1
    <3>. HIDE DEF n, Below
    <3>. QED  BY <1>6, <2>1, <3>1, <3>2
  <2>. HIDE DEF all
  <2>. QED  BY <2>3, <2>4, <2>5
<1>8. all \in [S -> R]
  <2>1. all = [s \in S |-> all[s]]
    OBVIOUS
  <2>. HIDE DEF all
  <2>. QED  BY <1>7, <2>1
<1>9. Solves(all, S, R, Stop, after, ended, combine)
  <2>. HIDE DEF all
  <2>. QED  BY <1>7, <1>8 DEF Solves
<1>. QED  BY <1>9

-----------------------------------------------------------------------------
(* Powers of two.                                                          *)

LEMMA NatDecreases == Decreases(Nat, {0}, [n \in Nat |-> n - 1], [n \in Nat |-> n])
BY DEF Decreases

\* Induction over the natural numbers, for a set of them.
LEMMA AllNumbers ==
    ASSUME NEW Good, 0 \in Good, \A n \in Nat \ {0} : n - 1 \in Good => n \in Good
    PROVE  Nat \subseteq Good
<1>. DEFINE after == [n \in Nat |-> n - 1]
            measure == [n \in Nat |-> n]
            Stop == {0}
            S == Nat
<1>1. Decreases(S, Stop, after, measure)
  BY NatDecreases
<1>2. \A n \in S \cap Stop : n \in Good
  OBVIOUS
<1>3. \A n \in S \ Stop : after[n] \in S /\ (after[n] \in Good => n \in Good)
  OBVIOUS
<1>4. S \in SUBSET S
  OBVIOUS
<1>5. S \subseteq Good
  <2>. HIDE DEF S, Stop, after, measure
  <2>. QED  BY <1>1, <1>2, <1>3, <1>4, Induction
<1>. QED  BY <1>5

LEMMA Powers ==
    /\ Pow2[0] = 1
    /\ \A n \in Nat : Pow2[n] \in Nat \ {0} /\ Pow2[n + 1] = 2 * Pow2[n]
<1>. DEFINE Loop(f) == f = [n \in Nat |-> IF n = 0 THEN 1 ELSE 2 * f[n - 1]]
            after == [n \in Nat |-> n - 1]
            measure == [n \in Nat |-> n]
            ended == [n \in Nat |-> 1]
            combine == [p \in Nat \X Nat |-> 2 * p[2]]
            Stop == {0}
            S == Nat
<1>1. \E f : Loop(f)
  <2>1. ended \in [S -> S] /\ combine \in [S \X S -> S]
    OBVIOUS
  <2>2. Decreases(S, Stop, after, measure)
    BY NatDecreases
  <2>3. PICK f : Solves(f, S, S, Stop, after, ended, combine)
    <3>. HIDE DEF S, Stop, after, measure, ended, combine
    <3>. QED  BY <2>1, <2>2, RecursionExists
  <2>4. f \in [Nat -> Nat]
    BY <2>3 DEF Solves
  <2>5. ASSUME NEW n \in Nat
        PROVE  f[n] = IF n = 0 THEN 1 ELSE 2 * f[n - 1]
    <3>1. CASE n = 0
      BY <2>3, <3>1 DEF Solves
    <3>2. CASE n # 0
      <4>1. n - 1 \in Nat /\ f[n - 1] \in Nat
        BY <2>4, <3>2
      <4>2. after[n] = n - 1 /\ combine[<<n, f[n - 1]>>] = 2 * f[n - 1]
        BY <4>1
      <4>3. f[n] = combine[<<n, f[after[n]]>>]
        <5>. HIDE DEF after, combine, ended
        <5>. QED  BY <2>3, <3>2 DEF Solves
      <4>. QED  BY <3>2, <4>2, <4>3
    <3>. QED  BY <3>1, <3>2
  <2>6. Loop(f)
    BY <2>4, <2>5
  <2>. QED  BY <2>6
<1>2. Pow2 = CHOOSE f : Loop(f)
  BY DEF Pow2
<1>3. Loop(Pow2)
  <2>. HIDE DEF Loop
  <2>. QED  BY <1>1, <1>2
<1>4. \A n \in Nat : Pow2[n] = IF n = 0 THEN 1 ELSE 2 * Pow2[n - 1]
  BY <1>3
<1>. DEFINE Good == {n \in Nat : Pow2[n] \in Nat \ {0}}
<1>5. 0 \in Good /\ \A n \in Nat \ {0} : n - 1 \in Good => n \in Good
  BY <1>4
<1>6. Nat \subseteq Good
  <2>. HIDE DEF Good
  <2>. QED  BY <1>5, AllNumbers
<1>7. \A n \in Nat : Pow2[n + 1] = 2 * Pow2[n]
  BY <1>4
<1>. QED  BY <1>4, <1>6, <1>7

LEMMA PowerSum ==
    \A m, n \in Nat : Pow2[m + n] = Pow2[m] * Pow2[n]
<1>1. SUFFICES ASSUME NEW m \in Nat
               PROVE  \A n \in Nat : Pow2[m + n] = Pow2[m] * Pow2[n]
  OBVIOUS
<1>. DEFINE Good == {n \in Nat : Pow2[m + n] = Pow2[m] * Pow2[n]}
<1>2. 0 \in Good
  BY Powers
<1>3. ASSUME NEW n \in Nat \ {0}, n - 1 \in Good
      PROVE  n \in Good
  <2>1. PICK k \in Nat : k = n - 1 /\ n = k + 1
    BY <1>3
  <2>2. Pow2[m + k] = Pow2[m] * Pow2[k]
    BY <1>3, <2>1
  <2>3. m + n = (m + k) + 1 /\ m + k \in Nat
    BY <2>1
  <2>4. Pow2[m + n] = 2 * Pow2[m + k] /\ Pow2[n] = 2 * Pow2[k]
    BY <2>1, <2>3, Powers
  <2>5. Pow2[m] \in Nat /\ Pow2[k] \in Nat
    BY Powers
  <2>6. 2 * (Pow2[m] * Pow2[k]) = Pow2[m] * (2 * Pow2[k])
    BY <2>5
  <2>. QED  BY <2>2, <2>4, <2>6
<1>4. Nat \subseteq Good
  <2>. HIDE DEF Good
  <2>. QED  BY <1>2, <1>3, AllNumbers
<1>. QED  BY <1>4

-----------------------------------------------------------------------------
(* Bit operators.                                                          *)

Bit(ones, m, n) == IF <<m % 2, n % 2>> \in ones THEN 1 ELSE 0

LEMMA Half ==
    ASSUME NEW n \in Nat
    PROVE  /\ n \div 2 \in Nat /\ n % 2 \in {0, 1} /\ n = 2 * (n \div 2) + (n % 2)
           /\ n # 0 => n \div 2 < n
           /\ n = 0 => n \div 2 = 0 /\ n % 2 = 0
OBVIOUS

LEMMA BitByBitIs ==
    ASSUME NEW ones, <<0, 0>> \notin ones, NEW m \in Nat, NEW n \in Nat
    PROVE  /\ BitByBit(ones, m, n) \in Nat
           /\ BitByBit(ones, m, n) = Bit(ones, m, n) + 2 * BitByBit(ones, m \div 2, n \div 2)
<1>. DEFINE S == [left : Nat, right : Nat]
            Stop == {s \in S : s.left = 0 /\ s.right = 0}
            halved(s) == [left |-> s.left \div 2, right |-> s.right \div 2]
            after == [s \in S |-> halved(s)]
            measure == [s \in S |-> s.left + s.right]
            ended == [s \in S |-> 0]
            combine == [p \in S \X Nat |-> Bit(ones, p[1].left, p[1].right) + 2 * p[2]]
            Loop(f) == f = [s \in S |-> IF s.left = 0 /\ s.right = 0 THEN 0
                                        ELSE Bit(ones, s.left, s.right) + 2 * f[halved(s)]]
<1>1. ASSUME NEW s \in S
      PROVE  /\ s.left \in Nat /\ s.right \in Nat /\ halved(s) \in S
             /\ Bit(ones, s.left, s.right) \in Nat
             /\ halved(s).left = s.left \div 2 /\ halved(s).right = s.right \div 2
  <2>1. s.left \in Nat /\ s.right \in Nat
    OBVIOUS
  <2>2. s.left \div 2 \in Nat /\ s.right \div 2 \in Nat
    BY <2>1, Half
  <2>. QED  BY <2>1, <2>2 DEF Bit
<1>2. Decreases(S, Stop, after, measure)
  <2>1. measure \in [S -> Nat]
    BY <1>1
  <2>2. ASSUME NEW s \in S \ Stop
        PROVE  after[s] \in S /\ measure[after[s]] < measure[s]
    <3>1. PICK p \in Nat, q \in Nat : p = s.left /\ q = s.right /\ ~(p = 0 /\ q = 0)
      OBVIOUS
    <3>2. measure[s] = p + q
      BY <3>1
    <3>3. after[s] = halved(s) /\ halved(s) \in S
      BY <1>1
    <3>4. measure[after[s]] = (p \div 2) + (q \div 2)
      BY <1>1, <3>1, <3>3
    <3>5. /\ p \div 2 \in Nat /\ q \div 2 \in Nat
          /\ p # 0 => p \div 2 < p
          /\ q # 0 => q \div 2 < q
          /\ p = 0 => p \div 2 = 0
          /\ q = 0 => q \div 2 = 0
      BY Half
    <3>. HIDE DEF after, measure, halved, S, Stop
    <3>. QED  BY <3>1, <3>2, <3>3, <3>4, <3>5
  <2>. HIDE DEF S, Stop, after, measure
  <2>. QED  BY <2>1, <2>2 DEF Decreases
<1>3. \E f : Loop(f)
  <2>1. ended \in [S -> Nat]
    OBVIOUS
  <2>2. combine \in [S \X Nat -> Nat]
    <3>1. ASSUME NEW p \in S \X Nat
          PROVE  Bit(ones, p[1].left, p[1].right) + 2 * p[2] \in Nat
      BY <1>1
    <3>. HIDE DEF S
    <3>. QED  BY <3>1
  <2>3. \E f : Solves(f, S, Nat, Stop, after, ended, combine)
    <3>. DEFINE R == Nat
    <3>1. \E f : Solves(f, S, R, Stop, after, ended, combine)
      <4>. HIDE DEF S, R, Stop, after, measure, ended, combine
      <4>1. ended \in [S -> R] /\ combine \in [S \X R -> R]
        BY <2>1, <2>2 DEF R
      <4>. QED  BY <1>2, <4>1, RecursionExists
    <3>. QED  BY <3>1
  <2>4. PICK f : Solves(f, S, Nat, Stop, after, ended, combine)
    <3>. HIDE DEF S, Stop, after, ended, combine
    <3>. QED  BY <2>3
  <2>5. f \in [S -> Nat]
    <3>. HIDE DEF S
    <3>. QED  BY <2>4 DEF Solves
  <2>6. ASSUME NEW s \in S
        PROVE  f[s] = IF s.left = 0 /\ s.right = 0 THEN 0
                      ELSE Bit(ones, s.left, s.right) + 2 * f[halved(s)]
    <3>1. f[s] = IF s \in Stop THEN ended[s] ELSE combine[<<s, f[after[s]]>>]
      <4>. HIDE DEF S, Stop, after, ended, combine
      <4>. QED  BY <2>4 DEF Solves
    <3>2. s \in Stop <=> s.left = 0 /\ s.right = 0
      OBVIOUS
    <3>3. ended[s] = 0 /\ after[s] = halved(s)
      OBVIOUS
    <3>4. f[halved(s)] \in Nat
      BY <1>1, <2>5
    <3>5. combine[<<s, f[halved(s)]>>] = Bit(ones, s.left, s.right) + 2 * f[halved(s)]
      <4>. HIDE DEF S, halved
      <4>. QED  BY <3>4
    <3>. HIDE DEF S, Stop, after, ended, combine, halved
    <3>. QED  BY <3>1, <3>2, <3>3, <3>5
  <2>7. Loop(f)
    <3>. HIDE DEF S, halved
    <3>. QED  BY <2>5, <2>6
  <2>. QED  BY <2>7
<1>. DEFINE go == CHOOSE f : Loop(f)
<1>4. Loop(go)
  <2>. HIDE DEF Loop
  <2>. QED  BY <1>3
<1>5. \A p, q : BitByBit(ones, p, q) = go[[left |-> p, right |-> q]]
  BY DEF BitByBit, Bit
<1>. HIDE DEF go
<1>6. \A s \in S : go[s] = IF s.left = 0 /\ s.right = 0 THEN 0
                           ELSE Bit(ones, s.left, s.right) + 2 * go[halved(s)]
  <2>. HIDE DEF S, halved
  <2>. QED  BY <1>4
<1>7. \A s \in S : go[s] \in Nat
  <2>. DEFINE Good == {s \in S : go[s] \in Nat}
  <2>1. \A s \in S \cap Stop : s \in Good
    BY <1>6
  <2>2. \A s \in S \ Stop : after[s] \in S /\ (after[s] \in Good => s \in Good)
    <3>1. TAKE s \in S \ Stop
    <3>2. after[s] = halved(s) /\ halved(s) \in S /\ Bit(ones, s.left, s.right) \in Nat
      BY <1>1
    <3>3. go[s] = Bit(ones, s.left, s.right) + 2 * go[halved(s)]
      BY <1>6
    <3>. HIDE DEF after, halved, S, Stop
    <3>. QED  BY <3>2, <3>3
  <2>3. S \in SUBSET S
    OBVIOUS
  <2>4. S \subseteq Good
    <3>. HIDE DEF S, Stop, after, measure, Good
    <3>. QED  BY <1>2, <2>1, <2>2, <2>3, Induction
  <2>. QED  BY <2>4
<1>. DEFINE s == [left |-> m, right |-> n]
<1>8. s \in S /\ s.left = m /\ s.right = n /\ halved(s) = [left |-> m \div 2, right |-> n \div 2]
  OBVIOUS
<1>9. BitByBit(ones, m, n) = go[s] /\ BitByBit(ones, m \div 2, n \div 2) = go[halved(s)]
  BY <1>5, <1>8
<1>10. CASE m = 0 /\ n = 0
  <2>1. halved(s) = s
    BY <1>8, <1>10, Half
  <2>2. Bit(ones, m, n) = 0
    BY <1>10 DEF Bit
  <2>3. go[s] = 0
    BY <1>6, <1>8, <1>10
  <2>. QED  BY <1>9, <2>1, <2>2, <2>3
<1>11. CASE ~(m = 0 /\ n = 0)
  <2>. HIDE DEF s, S, halved
  <2>. QED  BY <1>6, <1>7, <1>8, <1>9, <1>11
<1>. QED  BY <1>10, <1>11

\* Above n bits the operator works on the rests, below on the bits.
LEMMA BitByBitParts ==
    ASSUME NEW ones, <<0, 0>> \notin ones
    PROVE  \A n \in Nat : \A g, h \in Nat : \A k, l \in 0 .. Pow2[n] - 1 :
              BitByBit(ones, g * Pow2[n] + k, h * Pow2[n] + l)
                = BitByBit(ones, g, h) * Pow2[n] + BitByBit(ones, k, l)
<1>. DEFINE Claim(n) == \A g, h \in Nat : \A k, l \in 0 .. Pow2[n] - 1 :
                           BitByBit(ones, g * Pow2[n] + k, h * Pow2[n] + l)
                             = BitByBit(ones, g, h) * Pow2[n] + BitByBit(ones, k, l)
            Good == {n \in Nat : Claim(n)}
<1>1. BitByBit(ones, 0, 0) = 0
  <2>1. PICK b \in Nat : b = BitByBit(ones, 0, 0)
    BY BitByBitIs
  <2>2. Bit(ones, 0, 0) = 0 /\ 0 \div 2 = 0
    BY DEF Bit
  <2>3. BitByBit(ones, 0, 0) = Bit(ones, 0, 0) + 2 * BitByBit(ones, 0 \div 2, 0 \div 2)
    BY BitByBitIs
  <2>. QED  BY <2>1, <2>2, <2>3
<1>2. 0 \in Good
  <2>1. SUFFICES ASSUME NEW g \in Nat, NEW h \in Nat, NEW k \in 0 .. Pow2[0] - 1,
                        NEW l \in 0 .. Pow2[0] - 1
                 PROVE  BitByBit(ones, g * Pow2[0] + k, h * Pow2[0] + l)
                          = BitByBit(ones, g, h) * Pow2[0] + BitByBit(ones, k, l)
    OBVIOUS
  <2>2. Pow2[0] = 1 /\ k = 0 /\ l = 0
    BY Powers
  <2>3. g * Pow2[0] + k = g /\ h * Pow2[0] + l = h
    BY <2>2
  <2>4. BitByBit(ones, g, h) \in Nat
    BY BitByBitIs
  <2>. QED  BY <1>1, <2>2, <2>3, <2>4
<1>3. ASSUME NEW n \in Nat \ {0}, n - 1 \in Good
      PROVE  n \in Good
  <2>1. PICK i \in Nat : i = n - 1 /\ n = i + 1
    OBVIOUS
  <2>2. PICK m \in Nat \ {0} : m = Pow2[i] /\ Pow2[n] = 2 * m
    BY <2>1, Powers
  <2>3. SUFFICES ASSUME NEW g \in Nat, NEW h \in Nat, NEW k \in 0 .. 2 * m - 1,
                        NEW l \in 0 .. 2 * m - 1
                 PROVE  BitByBit(ones, g * (2 * m) + k, h * (2 * m) + l)
                          = BitByBit(ones, g, h) * (2 * m) + BitByBit(ones, k, l)
    BY <2>2
  <2>4. ASSUME NEW f \in Nat, NEW j \in 0 .. 2 * m - 1
        PROVE  /\ (f * (2 * m) + j) \div 2 = f * m + (j \div 2)
               /\ (f * (2 * m) + j) % 2 = j % 2
               /\ j \div 2 \in 0 .. m - 1 /\ j \in Nat
               /\ f * (2 * m) + j \in Nat
    <3>1. PICK t \in Nat : t = f * m
      OBVIOUS
    <3>2. f * (2 * m) = 2 * t
      BY <3>1
    <3>3. f * (2 * m) + j = 2 * t + j
      BY <3>2
    <3>4. (2 * t + j) \div 2 = t + (j \div 2) /\ (2 * t + j) % 2 = j % 2
      OBVIOUS
    <3>5. j \div 2 \in 0 .. m - 1
      OBVIOUS
    <3>. QED  BY <3>1, <3>3, <3>4, <3>5
  <2>. DEFINE a == g * (2 * m) + k
              b == h * (2 * m) + l
  <2>5. /\ a \in Nat /\ b \in Nat /\ k \in Nat /\ l \in Nat
        /\ a \div 2 = g * m + (k \div 2) /\ a % 2 = k % 2 /\ k \div 2 \in 0 .. m - 1
        /\ b \div 2 = h * m + (l \div 2) /\ b % 2 = l % 2 /\ l \div 2 \in 0 .. m - 1
    BY <2>4
  <2>. HIDE DEF a, b
  <2>0. \A x, y \in Nat : BitByBit(ones, x, y) = Bit(ones, x, y) + 2 * BitByBit(ones, x \div 2, y \div 2)
    BY BitByBitIs, Zenon
  <2>6. Bit(ones, a, b) = Bit(ones, k, l)
    BY <2>5 DEF Bit
  <2>7. PICK c \in Nat, d \in Nat, e \in Nat, w \in Nat :
           /\ c = BitByBit(ones, a \div 2, b \div 2)
           /\ d = BitByBit(ones, g, h)
           /\ e = BitByBit(ones, k \div 2, l \div 2)
           /\ w = Bit(ones, k, l)
    <3>1. /\ k \div 2 \in Nat /\ l \div 2 \in Nat
          /\ a \div 2 \in Nat /\ b \div 2 \in Nat
      BY <2>5, Half
    <3>2. /\ BitByBit(ones, a \div 2, b \div 2) \in Nat
          /\ BitByBit(ones, g, h) \in Nat
          /\ BitByBit(ones, k \div 2, l \div 2) \in Nat
      BY <3>1, BitByBitIs
    <3>3. Bit(ones, k, l) \in Nat
      BY DEF Bit
    <3>. QED  BY <3>2, <3>3
  <2>8. BitByBit(ones, a, b) = w + 2 * c
    <3>1. BitByBit(ones, a, b) = Bit(ones, a, b) + 2 * BitByBit(ones, a \div 2, b \div 2)
      BY <2>0, <2>5, Zenon
    <3>. QED  BY <2>6, <2>7, <3>1, Zenon
  <2>9. BitByBit(ones, k, l) = w + 2 * e
    <3>1. BitByBit(ones, k, l) = Bit(ones, k, l) + 2 * BitByBit(ones, k \div 2, l \div 2)
      BY <2>0, <2>5, Zenon
    <3>. QED  BY <2>7, <3>1, Zenon
  <2>10. c = d * m + e
    <3>1. Claim(i)
      BY <1>3, <2>1
    <3>2. BitByBit(ones, g * m + (k \div 2), h * m + (l \div 2))
            = BitByBit(ones, g, h) * m + BitByBit(ones, k \div 2, l \div 2)
      BY <2>2, <2>5, <3>1
    <3>. QED  BY <2>5, <2>7, <3>2
  <2>11. w + 2 * (d * m + e) = d * (2 * m) + (w + 2 * e)
    OBVIOUS
  <2>. QED  BY <2>7, <2>8, <2>9, <2>10, <2>11 DEF a, b
<1>4. Nat \subseteq Good
  <2>. HIDE DEF Good
  <2>. QED  BY <1>2, <1>3, AllNumbers
<1>. QED  BY <1>4

\* The result has no more bits than the operands.
LEMMA BitByBitBound ==
    ASSUME NEW ones, <<0, 0>> \notin ones
    PROVE  \A n \in Nat : \A k, l \in 0 .. Pow2[n] - 1 : BitByBit(ones, k, l) \in 0 .. Pow2[n] - 1
<1>. DEFINE Claim(n) == \A k, l \in 0 .. Pow2[n] - 1 : BitByBit(ones, k, l) \in 0 .. Pow2[n] - 1
            Good == {n \in Nat : Claim(n)}
<1>1. 0 \in Good
  <2>1. SUFFICES ASSUME NEW k \in 0 .. Pow2[0] - 1, NEW l \in 0 .. Pow2[0] - 1
                 PROVE  BitByBit(ones, k, l) \in 0 .. Pow2[0] - 1
    OBVIOUS
  <2>2. Pow2[0] = 1 /\ k = 0 /\ l = 0
    BY Powers
  <2>3. BitByBit(ones, 0, 0) \in Nat /\ Bit(ones, 0, 0) = 0 /\ 0 \div 2 = 0
    BY BitByBitIs DEF Bit
  <2>4. BitByBit(ones, 0, 0) = Bit(ones, 0, 0) + 2 * BitByBit(ones, 0 \div 2, 0 \div 2)
    BY BitByBitIs
  <2>5. BitByBit(ones, 0, 0) = 0
    BY <2>3, <2>4
  <2>. QED  BY <2>2, <2>5
<1>2. ASSUME NEW n \in Nat \ {0}, n - 1 \in Good
      PROVE  n \in Good
  <2>1. PICK i \in Nat : i = n - 1 /\ n = i + 1
    OBVIOUS
  <2>2. PICK m \in Nat \ {0} : m = Pow2[i] /\ Pow2[n] = 2 * m
    BY <2>1, Powers
  <2>3. SUFFICES ASSUME NEW k \in 0 .. 2 * m - 1, NEW l \in 0 .. 2 * m - 1
                 PROVE  BitByBit(ones, k, l) \in 0 .. 2 * m - 1
    BY <2>2
  <2>4. k \div 2 \in 0 .. m - 1 /\ l \div 2 \in 0 .. m - 1 /\ k \in Nat /\ l \in Nat
    OBVIOUS
  <2>5. PICK c \in 0 .. m - 1 : c = BitByBit(ones, k \div 2, l \div 2)
    <3>1. Claim(i)
      BY <1>2, <2>1
    <3>. QED  BY <2>2, <2>4, <3>1
  <2>6. BitByBit(ones, k, l) = Bit(ones, k, l) + 2 * c
    BY <2>4, <2>5, BitByBitIs
  <2>7. Bit(ones, k, l) \in {0, 1}
    BY DEF Bit
  <2>. QED  BY <2>5, <2>6, <2>7
<1>3. Nat \subseteq Good
  <2>. HIDE DEF Good
  <2>. QED  BY <1>1, <1>2, AllNumbers
<1>. QED  BY <1>3

LEMMA NoOnesFromZeros == \A ones \in {AndOnes, OrOnes, XorOnes} : <<0, 0>> \notin ones
BY DEF AndOnes, OrOnes, XorOnes

LEMMA OrZero == \A n \in Nat : BitOr(n, 0) = n /\ BitOr(0, n) = n
<1>. DEFINE S == Nat
            Stop == {0}
            after == [n \in Nat |-> n \div 2]
            measure == [n \in Nat |-> n]
            Good == {n \in Nat : BitOr(n, 0) = n /\ BitOr(0, n) = n}
<1>1. Decreases(S, Stop, after, measure)
  <2>1. \A n \in S \ Stop : after[n] \in S /\ measure[after[n]] < measure[n]
    BY Half
  <2>2. measure \in [S -> Nat]
    OBVIOUS
  <2>. HIDE DEF S, Stop, after, measure
  <2>. QED  BY <2>1, <2>2 DEF Decreases
<1>2. BitByBit(OrOnes, 0, 0) = 0
  <2>1. PICK b \in Nat : b = BitByBit(OrOnes, 0, 0)
    BY NoOnesFromZeros, BitByBitIs
  <2>2. Bit(OrOnes, 0, 0) = 0 /\ 0 \div 2 = 0
    BY NoOnesFromZeros DEF Bit
  <2>3. BitByBit(OrOnes, 0, 0) = Bit(OrOnes, 0, 0) + 2 * BitByBit(OrOnes, 0 \div 2, 0 \div 2)
    BY NoOnesFromZeros, BitByBitIs
  <2>. QED  BY <2>1, <2>2, <2>3
<1>3. \A n \in S \cap Stop : n \in Good
  BY <1>2 DEF BitOr
<1>4. \A n \in S \ Stop : after[n] \in S /\ (after[n] \in Good => n \in Good)
  <2>1. SUFFICES ASSUME NEW n \in Nat, BitOr(n \div 2, 0) = n \div 2, BitOr(0, n \div 2) = n \div 2
                 PROVE  BitOr(n, 0) = n /\ BitOr(0, n) = n
    BY Half
  <2>2. n \div 2 \in Nat /\ n % 2 \in {0, 1} /\ n = 2 * (n \div 2) + (n % 2)
    BY Half
  <2>3. Bit(OrOnes, n, 0) = n % 2 /\ Bit(OrOnes, 0, n) = n % 2 /\ 0 \div 2 = 0 /\ 0 % 2 = 0
    BY <2>2 DEF Bit, OrOnes
  <2>4. /\ BitByBit(OrOnes, n, 0) = Bit(OrOnes, n, 0) + 2 * BitByBit(OrOnes, n \div 2, 0 \div 2)
        /\ BitByBit(OrOnes, 0, n) = Bit(OrOnes, 0, n) + 2 * BitByBit(OrOnes, 0 \div 2, n \div 2)
    <3>1. <<0, 0>> \notin OrOnes /\ 0 \in Nat
      BY NoOnesFromZeros
    <3>. QED  BY <3>1, BitByBitIs, Zenon
  <2>. QED  BY <2>1, <2>2, <2>3, <2>4 DEF BitOr
<1>5. S \in SUBSET S
  OBVIOUS
<1>6. S \subseteq Good
  <2>. HIDE DEF S, Stop, after, measure, Good
  <2>. QED  BY <1>1, <1>3, <1>4, <1>5, Induction
<1>. QED  BY <1>6

\* Where the bits of one operand end before those of the other begin, | is a sum.
LEMMA OrSum ==
    ASSUME NEW n \in Nat, NEW h \in Nat, NEW l \in 0 .. Pow2[n] - 1
    PROVE  BitOr(h * Pow2[n], l) = h * Pow2[n] + l /\ BitOr(l, h * Pow2[n]) = h * Pow2[n] + l
<1>1. PICK p \in Nat \ {0} : p = Pow2[n]
  BY Powers
<1>2. 0 \in 0 .. p - 1 /\ h * p + 0 = h * p /\ 0 * p + l = l /\ l \in Nat
  BY <1>1
<1>3. /\ BitByBit(OrOnes, h * p + 0, 0 * p + l)
           = BitByBit(OrOnes, h, 0) * p + BitByBit(OrOnes, 0, l)
      /\ BitByBit(OrOnes, 0 * p + l, h * p + 0)
           = BitByBit(OrOnes, 0, h) * p + BitByBit(OrOnes, l, 0)
  BY <1>1, <1>2, NoOnesFromZeros, BitByBitParts, SMTT(40)
<1>4. /\ BitByBit(OrOnes, h, 0) = h /\ BitByBit(OrOnes, 0, l) = l
      /\ BitByBit(OrOnes, 0, h) = h /\ BitByBit(OrOnes, l, 0) = l
  BY <1>2, OrZero DEF BitOr
<1>. QED  BY <1>1, <1>2, <1>3, <1>4 DEF BitOr

\* The sizes as powers of two.
LEMMA SizePowers ==
    /\ LimbBits \in Nat \ {0} /\ LimbSize = Pow2[LimbBits]
    /\ 2 * LimbBits \in Nat /\ WideSize = Pow2[2 * LimbBits]
<1>1. HalfBits \in Nat \ {0} /\ LimbBits = HalfBits + HalfBits /\ HalfSize = Pow2[HalfBits]
  BY HalfAssumption DEF LimbBits
<1>2. LimbSize = Pow2[LimbBits]
  BY <1>1, PowerSum DEF LimbSize
<1>3. 2 * LimbBits = LimbBits + LimbBits /\ LimbBits \in Nat \ {0}
  BY <1>1
<1>. QED  BY <1>2, <1>3, PowerSum DEF WideSize

\* An operator on the limbs is the operator on the numbers.
LEMMA WideBits ==
    ASSUME NEW ones \in {AndOnes, OrOnes, XorOnes}, NEW v \in Wide, NEW w \in Wide
    PROVE  LET r == [lo |-> BitByBit(ones, v.lo, w.lo), hi |-> BitByBit(ones, v.hi, w.hi)]
           IN  r \in Wide /\ UValue(r) = BitByBit(ones, UValue(v), UValue(w))
<1>1. PICK m \in Nat \ {0} : m = LimbSize /\ m = Pow2[LimbBits]
  BY Sizes, SizePowers
<1>2. PICK vl \in 0 .. m - 1, vh \in 0 .. m - 1, wl \in 0 .. m - 1, wh \in 0 .. m - 1 :
         vl = v.lo /\ vh = v.hi /\ wl = w.lo /\ wh = w.hi
  BY <1>1, ValueFacts DEF Limb
<1>3. BitByBit(ones, vl, wl) \in 0 .. m - 1 /\ BitByBit(ones, vh, wh) \in 0 .. m - 1
  BY <1>1, NoOnesFromZeros, BitByBitBound, SizePowers
<1>4. BitByBit(ones, vh * m + vl, wh * m + wl)
        = BitByBit(ones, vh, wh) * m + BitByBit(ones, vl, wl)
  <2>1. vh \in Nat /\ wh \in Nat /\ <<0, 0>> \notin ones /\ LimbBits \in Nat
    BY NoOnesFromZeros, SizePowers
  <2>2. /\ vl \in 0 .. Pow2[LimbBits] - 1 /\ wl \in 0 .. Pow2[LimbBits] - 1
    BY <1>1
  <2>3. BitByBit(ones, vh * Pow2[LimbBits] + vl, wh * Pow2[LimbBits] + wl)
          = BitByBit(ones, vh, wh) * Pow2[LimbBits] + BitByBit(ones, vl, wl)
    <3>1. \A n \in Nat : \A g, h \in Nat : \A k, l \in 0 .. Pow2[n] - 1 :
              BitByBit(ones, g * Pow2[n] + k, h * Pow2[n] + l)
                = BitByBit(ones, g, h) * Pow2[n] + BitByBit(ones, k, l)
      BY <2>1, BitByBitParts
    <3>. QED  BY <2>1, <2>2, <3>1
  <2>. QED  BY <1>1, <2>3, Zenon
<1>5. UValue(v) = vh * m + vl /\ UValue(w) = wh * m + wl
  BY <1>1, <1>2, ValueFacts
<1>. DEFINE r == [lo |-> BitByBit(ones, v.lo, w.lo), hi |-> BitByBit(ones, v.hi, w.hi)]
<1>6. r \in Wide /\ r.lo = BitByBit(ones, vl, wl) /\ r.hi = BitByBit(ones, vh, wh)
  BY <1>1, <1>2, <1>3 DEF Wide, Limb
<1>7. UValue(r) = BitByBit(ones, vh, wh) * m + BitByBit(ones, vl, wl)
  BY <1>1, <1>6 DEF UValue
<1>. QED  BY <1>4, <1>5, <1>6, <1>7

\* The emulated bit operations are those on the numbers held.
LEMMA BitsAreExact ==
    ASSUME NEW v \in Wide, NEW w \in Wide
    PROVE  /\ Holds(u128_and(v, w), BitAnd(UValue(v), UValue(w)))
           /\ Holds(u128_or(v, w), BitOr(UValue(v), UValue(w)))
           /\ Holds(u128_xor(v, w), BitXor(UValue(v), UValue(w)))
           /\ u128_or(v, w) \in Wide /\ UValue(u128_or(v, w)) = BitOr(UValue(v), UValue(w))
<1>1. ASSUME NEW r \in Wide, NEW n, UValue(r) = n
      PROVE  Holds(r, n)
  <2>1. n \in Int
    BY <1>1, ValueFacts
  <2>. QED  BY <1>1, <2>1, AlikeSame, AlikeHolds
<1>2. /\ u128_and(v, w) \in Wide /\ UValue(u128_and(v, w)) = BitAnd(UValue(v), UValue(w))
      /\ u128_or(v, w) \in Wide /\ UValue(u128_or(v, w)) = BitOr(UValue(v), UValue(w))
      /\ u128_xor(v, w) \in Wide /\ UValue(u128_xor(v, w)) = BitXor(UValue(v), UValue(w))
  <2>1. AndOnes \in {AndOnes, OrOnes, XorOnes} /\ OrOnes \in {AndOnes, OrOnes, XorOnes}
          /\ XorOnes \in {AndOnes, OrOnes, XorOnes}
    OBVIOUS
  <2>2. /\ u128_and(v, w) \in Wide /\ UValue(u128_and(v, w)) = BitAnd(UValue(v), UValue(w))
    BY <2>1, WideBits DEF u128_and, i128_and, BitAnd
  <2>3. /\ u128_or(v, w) \in Wide /\ UValue(u128_or(v, w)) = BitOr(UValue(v), UValue(w))
    BY <2>1, WideBits DEF u128_or, i128_or, BitOr
  <2>4. /\ u128_xor(v, w) \in Wide /\ UValue(u128_xor(v, w)) = BitXor(UValue(v), UValue(w))
    BY <2>1, WideBits DEF u128_xor, i128_xor, BitXor
  <2>. QED  BY <2>2, <2>3, <2>4
<1>. QED  BY <1>1, <1>2

-----------------------------------------------------------------------------
(* Shifts.                                                                 *)

\* A limb cut in two: the part above is what one shift leaves, the part below what
\* the other one does.
LEMMA LimbCut ==
    ASSUME NEW n \in 1 .. LimbBits - 1, NEW l \in Limb, NEW p, p = Pow2[n],
           NEW q, q = Pow2[LimbBits - n]
    PROVE  /\ p \in Nat \ {0} /\ q \in Nat \ {0} /\ LimbSize = p * q
           /\ \E a \in 0 .. p - 1, b \in 0 .. q - 1 :
                 l = a * q + b /\ shr64(l, LimbBits - n) = a /\ shl64(l, n) = b * p
<1>1. LimbBits \in Nat /\ n \in Nat /\ LimbBits - n \in Nat /\ LimbBits = n + (LimbBits - n)
  BY SizePowers
<1>2. p \in Nat \ {0} /\ q \in Nat \ {0}
  BY <1>1, Powers
<1>3. LimbSize = p * q
  BY <1>1, PowerSum, SizePowers
<1>4. PICK a \in Int, b \in 0 .. q - 1 : a = l \div q /\ l = a * q + b
  <2>1. l \in Int
    BY Sizes DEF Limb
  <2>2. \E a \in Int, b \in 0 .. q - 1 : a = l \div q /\ b = l % q /\ l = a * q + b
    BY <1>2, <2>1, DividedIn, Zenon
  <2>. QED  BY ONLY <2>2, Zenon
<1>5. l \in 0 .. p * q - 1
  BY <1>3 DEF Limb
<1>6. a \in 0 .. p - 1
  <2>1. 0 <= a * q + b /\ a * q + b < p * q
    BY ONLY <1>4, <1>5, <1>2
  <2>2. CASE a < 0
    <3>1. a * q <= -q
      BY ONLY <2>2, <1>2, <1>4, ProductSign
    <3>. QED  BY ONLY <1>2, <1>4, <2>1, <3>1
  <2>3. CASE a >= p
    <3>1. PICK d \in Nat : a = p + d
      BY ONLY <2>3, <1>2, <1>4
    <3>2. d * q >= 0 /\ a * q = p * q + d * q /\ d * q \in Int /\ p * q \in Int
      BY ONLY <3>1, <1>2
    <3>. QED  BY ONLY <2>1, <3>2, <1>2, <1>4
  <2>. QED  BY <1>2, <1>4, <2>2, <2>3
<1>7. b * p \in 0 .. LimbSize - 1
  <2>1. PICK d \in Nat : q = b + 1 + d
    BY ONLY <1>2, <1>4
  <2>2. p * q = b * p + p + d * p /\ b * p >= 0 /\ d * p >= 0 /\ b * p \in Int /\ d * p \in Int
    BY ONLY <1>2, <1>4, <2>1
  <2>. QED  BY ONLY <1>2, <1>3, <2>2
<1>8. l * p = a * (p * q) + b * p /\ l * p \in Int
  <2>1. (a * q + b) * p = a * (p * q) + b * p /\ (a * q + b) * p \in Int
    BY ONLY <1>2, a \in Int, b \in 0 .. q - 1
  <2>2. l = a * q + b
    BY <1>4
  <2>3. l * p = (a * q + b) * p
    BY <2>2, Zenon
  <2>. QED  BY <2>1, <2>3, Zenon
<1>9. ToLimb(l * p) = b * p
  <2>1. l * p = a * LimbSize + b * p
    BY <1>3, <1>8
  <2>2. b * p \in Limb
    BY <1>7 DEF Limb
  <2>. QED  BY <1>4, <1>8, <2>1, <2>2, ToLimbIs
<1>10. shr64(l, LimbBits - n) = a /\ shl64(l, n) = b * p
  BY <1>4, <1>9 DEF shr64, shl64
<1>. QED  BY <1>2, <1>3, <1>4, <1>6, <1>10

\* A shift to the left multiplies by a power of two, modulo the width.
LEMMA ShlIsExact ==
    ASSUME NEW v \in Wide, NEW n \in Nat
    PROVE  /\ u128_shl(v, n) \in Wide /\ Alike(UValue(v) * Pow2[n], UValue(u128_shl(v, n)))
           /\ Holds(u128_shl(v, n), UValue(v) * Pow2[n])
<1>1. PICK m \in Nat \ {0}, w \in Nat \ {0} : m = LimbSize /\ w = WideSize /\ w = m * m
  BY Sizes
<1>2. PICK l \in 0 .. m - 1, h \in 0 .. m - 1, u \in Int :
         /\ l = v.lo /\ h = v.hi /\ u = UValue(v) /\ u = h * m + l
         /\ v.lo \in Limb /\ v.hi \in Limb
  <2>1. v.lo \in 0 .. m - 1 /\ v.hi \in 0 .. m - 1 /\ UValue(v) = v.hi * m + v.lo
        /\ v.lo \in Limb /\ v.hi \in Limb
    BY <1>1, ValueFacts DEF Limb
  <2>2. UValue(v) \in Int
    BY <1>1, ValueFacts
  <2>. QED  BY <2>1, <2>2
<1>3. PICK p \in Nat \ {0} : p = Pow2[n]
  BY Powers
<1>4. LimbBits \in Nat \ {0}
  BY SizePowers
<1>5. SUFFICES u128_shl(v, n) \in Wide /\ Alike(u * p, UValue(u128_shl(v, n)))
  <2>1. u * p \in Int
    BY ONLY <1>2, <1>3
  <2>. QED  BY <1>2, <1>3, <2>1, AlikeHolds
<1>6. ASSUME NEW k \in Int, NEW r \in Wide, u * p = UValue(r) + k * w
      PROVE  Alike(u * p, UValue(r))
  BY <1>1, <1>6 DEF Alike
<1>7. CASE n = 0
  <2>1. u128_shl(v, n) = v
    BY <1>7 DEF u128_shl, i128_shl
  <2>2. u * p = u
    BY <1>2, <1>3, <1>7, Powers
  <2>. QED  BY <1>2, <2>1, <2>2, AlikeSame
<1>8. CASE n >= 2 * LimbBits
  <2>1. u128_shl(v, n) = INT128(0) \/ n = 0
    BY <1>8 DEF u128_shl, i128_shl
  <2>2. PICK k \in Nat : n = 2 * LimbBits + k
    BY <1>4, <1>8
  <2>3. PICK c \in Nat : c = Pow2[k]
    BY Powers
  <2>4. p = w * c
    <3>1. Pow2[2 * LimbBits + k] = Pow2[2 * LimbBits] * Pow2[k]
      BY PowerSum, SizePowers, Zenon
    <3>. QED  BY <1>1, <1>3, <2>2, <2>3, <3>1, SizePowers, Zenon
  <2>5. u * p = 0 + (u * c) * w /\ u * c \in Int
    BY ONLY <1>1, <1>2, <2>3, <2>4
  <2>6. INT128(0) \in Wide /\ UValue(INT128(0)) = 0
    BY Constants
  <2>7. u128_shl(v, n) = INT128(0)
    BY <1>4, <1>8, <2>1
  <2>8. PICK j \in Int : u * p = UValue(INT128(0)) + j * w
    BY <2>5, <2>6, Zenon
  <2>. QED  BY <1>6, <2>6, <2>7, <2>8
<1>9. CASE LimbBits <= n /\ n < 2 * LimbBits
  <2>1. PICK k \in Nat : k = n - LimbBits /\ n = LimbBits + k
    BY <1>4, <1>9
  <2>2. PICK c \in Nat : c = Pow2[k]
    BY Powers
  <2>3. p = m * c
    BY <1>1, <1>3, <1>4, <2>1, <2>2, PowerSum, SizePowers
  <2>4. l * c \in Int
    BY ONLY <1>2, <2>2
  <2>5. PICK t \in Int, x \in 0 .. m - 1 : x = ToLimb(l * c) /\ l * c = t * m + x /\ x \in Limb
    <3>1. ToLimb(l * c) \in Limb /\ \E t \in Int : l * c = t * LimbSize + ToLimb(l * c)
      BY <2>4, ToLimbFacts
    <3>. QED  BY <1>1, <3>1 DEF Limb
  <2>6. u128_shl(v, n) = [lo |-> 0, hi |-> x]
    BY <1>2, <1>4, <1>9, <2>1, <2>2, <2>5 DEF u128_shl, i128_shl, shl64
  <2>7. u128_shl(v, n) \in Wide
    BY <1>1, <2>5, <2>6 DEF Wide, Limb
  <2>8. UValue(u128_shl(v, n)) = x * m
    BY <1>1, <2>5, <2>6 DEF UValue
  <2>9. u * p = x * m + (h * c + t) * w /\ h * c + t \in Int
    <3>1. (h * m + l) * (m * c) = (h * c) * (m * m) + (l * c) * m
      BY ONLY <1>1, <1>2, <2>2
    <3>2. (l * c) * m = x * m + t * (m * m)
      BY ONLY <1>1, <1>2, <2>5
    <3>3. (h * c + t) * (m * m) = (h * c) * (m * m) + t * (m * m)
      BY ONLY <1>1, <1>2, <2>2, <2>5
    <3>4. h * c \in Int /\ (h * c) * (m * m) \in Int /\ t * (m * m) \in Int /\ x * m \in Int
      BY ONLY <1>1, <1>2, <2>2, <2>5
    <3>. QED  BY ONLY <1>1, <1>2, <2>3, <2>5, <3>1, <3>2, <3>3, <3>4
  <2>. QED  BY <1>6, <2>7, <2>8, <2>9
<1>10. CASE n \in 1 .. LimbBits - 1
  <2>1. PICK q : q = Pow2[LimbBits - n]
    OBVIOUS
  <2>2. q \in Nat \ {0} /\ m = p * q
    BY <1>1, <1>2, <1>3, <1>10, <2>1, LimbCut
  <2>3. PICK a \in 0 .. p - 1, b \in 0 .. q - 1 :
           l = a * q + b /\ shr64(l, LimbBits - n) = a /\ shl64(l, n) = b * p
    BY <1>2, <1>3, <1>10, <2>1, LimbCut
  <2>4. PICK c \in 0 .. p - 1, d \in 0 .. q - 1 : h = c * q + d /\ shl64(h, n) = d * p
    BY <1>2, <1>3, <1>10, <2>1, LimbCut
  <2>5. BitOr(d * p, a) = d * p + a
    <3>1. d \in Nat /\ n \in Nat
      BY <1>10
    <3>. QED  BY <1>3, <2>3, <3>1, OrSum
  <2>6. u128_shl(v, n) = [lo |-> b * p, hi |-> d * p + a]
    BY <1>2, <1>4, <1>10, <2>3, <2>4, <2>5 DEF u128_shl, i128_shl
  <2>7. b * p \in 0 .. m - 1 /\ d * p + a \in 0 .. m - 1
    <3>1. PICK e \in Nat : q = d + 1 + e
      BY ONLY <2>2, <2>4
    <3>2. PICK f \in Nat : q = b + 1 + f
      BY ONLY <2>2, <2>3
    <3>3. /\ p * q = d * p + p + e * p /\ d * p >= 0 /\ e * p >= 0 /\ d * p \in Int /\ e * p \in Int
      BY ONLY <1>3, <2>4, <3>1
    <3>4. /\ p * q = b * p + p + f * p /\ b * p >= 0 /\ f * p >= 0 /\ b * p \in Int /\ f * p \in Int
      BY ONLY <1>3, <2>3, <3>2
    <3>. QED  BY ONLY <1>3, <2>2, <2>3, <3>3, <3>4
  <2>8. u128_shl(v, n) \in Wide
    BY <1>1, <2>6, <2>7 DEF Wide, Limb
  <2>9. UValue(u128_shl(v, n)) = (d * p + a) * m + b * p
    BY <1>1, <2>6 DEF UValue
  <2>10. u * p = ((d * p + a) * m + b * p) + c * w
    <3>1. ASSUME NEW t, t = h * m + l
          PROVE  t * p = (h * p) * m + l * p
      BY ONLY <1>1, <1>2, <1>3, <3>1
    <3>2. h * p = c * (p * q) + d * p
      BY ONLY <1>3, <2>2, <2>4
    <3>3. l * p = a * (p * q) + b * p
      BY ONLY <1>3, <2>2, <2>3
    <3>4. (c * m + d * p) * m + (a * m + b * p) = ((d * p + a) * m + b * p) + c * (m * m)
      <4>1. PICK x \in Int, y \in Int : x = d * p /\ y = b * p
        BY ONLY <1>3, <2>3, <2>4
      <4>2. (c * m + x) * m + (a * m + y) = ((x + a) * m + y) + c * (m * m)
        BY ONLY <4>1, <1>1, <2>3, <2>4
      <4>. QED  BY <4>1, <4>2
    <3>5. h * p = c * m + d * p /\ l * p = a * m + b * p
      BY <2>2, <3>2, <3>3, Zenon
    <3>6. u * p = (h * p) * m + l * p
      BY <1>2, <3>1
    <3>7. u * p = (c * m + d * p) * m + (a * m + b * p)
      BY <3>5, <3>6, Zenon
    <3>. QED  BY <1>1, <3>4, <3>7, Zenon
  <2>11. u * p = UValue(u128_shl(v, n)) + c * w
    BY <2>9, <2>10, Zenon
  <2>12. c \in Int
    BY <2>2
  <2>. QED  BY <1>6, <2>8, <2>11, <2>12
<1>. QED  BY <1>4, <1>7, <1>8, <1>9, <1>10

LEMMA UnsignedZero ==
    UINT128(0) = INT128(0) /\ UINT128(0) \in Wide /\ UValue(UINT128(0)) = 0
<1>1. PICK m \in Nat \ {0} : m = LimbSize
  BY Sizes
<1>2. 0 \div m = 0
  BY <1>1
<1>3. UINT128(0) = INT128(0)
  BY <1>1, <1>2 DEF UINT128, INT128
<1>. QED  BY <1>3, Constants

\* A limb that is shifted in below, and the power that shifted it out.
LEMMA WideCut ==
    ASSUME NEW n \in 1 .. LimbBits - 1, NEW v \in Wide, NEW p, p = Pow2[n],
           NEW q, q = Pow2[LimbBits - n]
    PROVE  /\ p \in Nat \ {0} /\ q \in Nat \ {0} /\ LimbSize = p * q
           /\ \E a \in 0 .. q - 1, b \in 0 .. p - 1, c \in 0 .. q - 1, d \in 0 .. p - 1 :
                 /\ v.lo = a * p + b /\ v.hi = c * p + d
                 /\ shr64(v.lo, n) = a /\ shr64(v.hi, n) = c
                 /\ BitOr(shr64(v.lo, n), shl64(v.hi, LimbBits - n)) = d * q + a
                 /\ d * q + a \in Limb /\ c \in Limb
                 /\ UValue(v) = (c * LimbSize + (d * q + a)) * p + b
<1>1. LimbBits \in Nat /\ LimbBits - n \in 1 .. LimbBits - 1 /\ LimbBits - (LimbBits - n) = n
  BY SizePowers
<1>2. v.lo \in Limb /\ v.hi \in Limb
  BY ValueFacts
<1>3. p \in Nat \ {0} /\ q \in Nat \ {0} /\ LimbSize = p * q
  BY <1>2, LimbCut
<1>4. PICK a \in 0 .. q - 1, b \in 0 .. p - 1 : v.lo = a * p + b /\ shr64(v.lo, n) = a
  BY <1>1, <1>2, LimbCut
<1>5. PICK c \in 0 .. q - 1, d \in 0 .. p - 1 :
         v.hi = c * p + d /\ shr64(v.hi, n) = c /\ shl64(v.hi, LimbBits - n) = d * q
  BY <1>1, <1>2, LimbCut
<1>6. BitOr(a, d * q) = d * q + a
  <2>1. d \in Nat /\ LimbBits - n \in Nat
    BY <1>1
  <2>. QED  BY <1>4, <2>1, OrSum
<1>7. d * q + a \in 0 .. p * q - 1
  <2>1. PICK e \in Nat : p = d + 1 + e
    BY ONLY <1>3, <1>5
  <2>2. p * q = d * q + q + e * q /\ d * q >= 0 /\ e * q >= 0 /\ d * q \in Int /\ e * q \in Int
    BY ONLY <1>3, <1>5, <2>1
  <2>. QED  BY ONLY <1>3, <1>4, <2>2
<1>8. c \in 0 .. p * q - 1
  <2>1. p * q >= q
    <3>1. PICK e \in Nat : p = 1 + e
      BY ONLY <1>3
    <3>2. p * q = q + e * q /\ e * q >= 0 /\ e * q \in Int
      BY ONLY <1>3, <3>1
    <3>. QED  BY ONLY <1>3, <3>2
  <2>2. p * q \in Int
    BY ONLY <1>3
  <2>. QED  BY ONLY <1>3, <1>5, <2>1, <2>2
<1>9. UValue(v) = (c * LimbSize + (d * q + a)) * p + b
  <2>1. UValue(v) = (c * p + d) * (p * q) + (a * p + b)
    BY <1>3, <1>4, <1>5, ValueFacts, Zenon
  <2>2. (c * p + d) * (p * q) + (a * p + b) = (c * (p * q) + (d * q + a)) * p + b
    BY ONLY <1>3, a \in 0 .. q - 1, b \in 0 .. p - 1, c \in 0 .. q - 1, d \in 0 .. p - 1
  <2>. QED  BY <1>3, <2>1, <2>2, Zenon
<1>. QED  BY <1>3, <1>4, <1>5, <1>6, <1>7, <1>8, <1>9 DEF Limb

\* An unsigned shift to the right divides by a power of two.
LEMMA ShrIsExact ==
    ASSUME NEW v \in Wide, NEW n \in Nat
    PROVE  u128_shr(v, n) \in Wide /\ UValue(u128_shr(v, n)) = UValue(v) \div Pow2[n]
<1>1. PICK m \in Nat \ {0}, w \in Nat \ {0} : m = LimbSize /\ w = WideSize /\ w = m * m
  BY Sizes
<1>2. PICK l \in 0 .. m - 1, h \in 0 .. m - 1, u \in 0 .. w - 1 :
         /\ l = v.lo /\ h = v.hi /\ u = UValue(v) /\ u = h * m + l
  <2>1. v.lo \in 0 .. m - 1 /\ v.hi \in 0 .. m - 1 /\ UValue(v) = v.hi * m + v.lo
    BY <1>1, ValueFacts DEF Limb
  <2>2. UValue(v) \in 0 .. w - 1
    BY <1>1, ValueFacts
  <2>. QED  BY <2>1, <2>2
<1>3. PICK p \in Nat \ {0} : p = Pow2[n]
  BY Powers
<1>4. LimbBits \in Nat \ {0}
  BY SizePowers
<1>5. ASSUME NEW k \in Int, NEW r \in 0 .. p - 1, u = k * p + r
      PROVE  UValue(v) \div Pow2[n] = k
  <2>1. u \in Int
    BY <1>1
  <2>2. u \div p = k
    BY <1>5, <2>1, Remainder
  <2>. QED  BY <1>2, <1>3, <2>2
<1>6. CASE n = 0
  <2>1. u128_shr(v, n) = v
    BY <1>6 DEF u128_shr
  <2>2. u = u * p + 0 /\ u \in Int /\ 0 \in 0 .. p - 1
    BY <1>1, <1>3, <1>6, Powers
  <2>3. UValue(v) \div Pow2[n] = u
    BY <1>5, <2>2
  <2>. QED  BY <1>2, <2>1, <2>3
<1>7. CASE n >= 2 * LimbBits
  <2>1. u128_shr(v, n) = UINT128(0)
    BY <1>4, <1>7 DEF u128_shr
  <2>2. PICK k \in Nat : n = 2 * LimbBits + k
    BY <1>4, <1>7
  <2>3. PICK c \in Nat \ {0} : c = Pow2[k]
    BY Powers
  <2>4. p = w * c
    <3>1. Pow2[2 * LimbBits + k] = Pow2[2 * LimbBits] * Pow2[k]
      BY PowerSum, SizePowers, Zenon
    <3>. QED  BY <1>1, <1>3, <2>2, <2>3, <3>1, SizePowers, Zenon
  <2>5. u < p
    <3>1. PICK e \in Nat : c = 1 + e
      BY ONLY <2>3
    <3>2. w * c = w + e * w /\ e * w >= 0 /\ e * w \in Int
      BY ONLY <1>1, <3>1
    <3>. QED  BY ONLY <1>1, <1>2, <2>4, <3>2
  <2>6. u = 0 * p + u /\ u \in 0 .. p - 1
    BY <1>1, <1>3, <2>5
  <2>7. UValue(v) \div Pow2[n] = 0
    BY <1>5, <2>6
  <2>. QED  BY <2>1, <2>7, UnsignedZero
<1>8. CASE LimbBits <= n /\ n < 2 * LimbBits
  <2>1. PICK k \in Nat : k = n - LimbBits /\ n = LimbBits + k
    BY <1>4, <1>8
  <2>2. PICK c \in Nat \ {0} : c = Pow2[k]
    BY Powers
  <2>3. p = m * c
    BY <1>1, <1>3, <1>4, <2>1, <2>2, PowerSum, SizePowers
  <2>4. PICK e \in Int, f \in 0 .. c - 1 : e = h \div c /\ h = e * c + f
    <3>1. h \in Int
      BY <1>1
    <3>2. \E a \in Int, b \in 0 .. c - 1 : a = h \div c /\ b = h % c /\ h = a * c + b
      BY <2>2, <3>1, DividedIn, Zenon
    <3>. QED  BY ONLY <3>2, Zenon
  <2>5. e \in 0 .. m - 1
    <3>1. CASE e < 0
      <4>1. e * c <= -c
        BY ONLY <2>2, <2>4, <3>1, ProductSign
      <4>. QED  BY ONLY <1>1, <1>2, <2>2, <2>4, <4>1
    <3>2. CASE e > h
      <4>1. PICK g \in Nat, t \in Nat : e = 1 + g /\ c = 1 + t
        BY ONLY <1>1, <1>2, <2>2, <2>4, <3>2
      <4>2. (1 + g) * (1 + t) = (1 + g) + t + g * t /\ g * t >= 0 /\ g * t \in Int
        BY ONLY g \in Nat, t \in Nat
      <4>3. e * c = (1 + g) * (1 + t)
        BY <4>1, Zenon
      <4>. QED  BY ONLY <1>1, <1>2, <2>4, <3>2, <4>1, <4>2, <4>3
    <3>. QED  BY <1>1, <1>2, <2>4, <3>1, <3>2
  <2>6. u128_shr(v, n) = [lo |-> e, hi |-> 0]
    <3>1. shr64(v.hi, n - LimbBits) = e
      BY <1>2, <2>1, <2>2, <2>4, Zenon DEF shr64
    <3>. QED  BY ONLY <1>4, <1>8, <3>1, n \in Nat DEF u128_shr
  <2>7. u128_shr(v, n) \in Wide
    BY <1>1, <2>5, <2>6 DEF Wide, Limb
  <2>8. UValue(u128_shr(v, n)) = e
    BY <1>1, <2>5, <2>6 DEF UValue
  <2>9. u = e * p + (f * m + l)
    <3>1. h * m = (e * c + f) * m
      BY <2>4, Zenon
    <3>2. (e * c + f) * m = e * (m * c) + f * m /\ e * (m * c) \in Int /\ f * m \in Int
      BY ONLY <1>1, <2>2, e \in Int, f \in 0 .. c - 1
    <3>3. h * m = e * p + f * m
      BY <2>3, <3>1, <3>2, Zenon
    <3>. QED  BY <1>1, <1>2, <2>3, <3>2, <3>3
  <2>10. f * m + l \in 0 .. p - 1
    <3>1. PICK g \in Nat : c = f + 1 + g
      BY ONLY <2>2, f \in 0 .. c - 1
    <3>2. m * c = f * m + m + g * m /\ f * m >= 0 /\ g * m >= 0 /\ f * m \in Int /\ g * m \in Int
      BY ONLY <1>1, <3>1, <2>2, f \in 0 .. c - 1
    <3>. QED  BY ONLY <1>1, l \in 0 .. m - 1, <2>3, <3>2
  <2>. QED  BY <1>5, <2>4, <2>7, <2>8, <2>9, <2>10
<1>9. CASE n \in 1 .. LimbBits - 1
  <2>1. PICK q : q = Pow2[LimbBits - n]
    OBVIOUS
  <2>2. q \in Nat \ {0} /\ m = p * q
    BY <1>1, <1>3, <1>9, <2>1, WideCut
  <2>3. PICK a \in 0 .. q - 1, b \in 0 .. p - 1, c \in 0 .. q - 1, d \in 0 .. p - 1 :
           /\ shr64(v.hi, n) = c
           /\ BitOr(shr64(v.lo, n), shl64(v.hi, LimbBits - n)) = d * q + a
           /\ d * q + a \in Limb /\ c \in Limb
           /\ UValue(v) = (c * LimbSize + (d * q + a)) * p + b
    BY <1>3, <1>9, <2>1, WideCut
  <2>4. u128_shr(v, n) = [lo |-> d * q + a, hi |-> c]
    BY <1>4, <1>9, <2>3 DEF u128_shr
  <2>5. u128_shr(v, n) \in Wide /\ UValue(u128_shr(v, n)) = c * LimbSize + (d * q + a)
    BY <2>3, <2>4 DEF Wide, UValue
  <2>6. c * LimbSize + (d * q + a) \in Int
    BY <1>1, <2>2, <2>3
  <2>7. PICK k \in Int : k = c * LimbSize + (d * q + a)
    BY <2>6
  <2>8. u = k * p + b
    BY <1>2, <2>3, <2>7
  <2>. QED  BY <1>5, <2>5, <2>7, <2>8
<1>. QED  BY <1>4, <1>6, <1>7, <1>8, <1>9

\* A signed shift to the right divides, rounding down.
LEMMA SignedShrIsExact ==
    ASSUME NEW v \in Wide, NEW n \in Nat
    PROVE  /\ i128_shr(v, n) \in Wide
           /\ Alike(IValue(v) \div Pow2[n], UValue(i128_shr(v, n)))
           /\ Holds(i128_shr(v, n), IValue(v) \div Pow2[n])
<1>1. PICK m \in Nat \ {0}, w \in Nat \ {0} : m = LimbSize /\ w = WideSize /\ w = m * m
  BY Sizes
<1>2. PICK l \in 0 .. m - 1, h \in 0 .. m - 1, u \in 0 .. w - 1, i \in Int, s \in Int :
         /\ l = v.lo /\ h = v.hi /\ u = UValue(v) /\ u = h * m + l
         /\ i = IValue(v) /\ s = AsSigned(h) /\ i = s * m + l
         /\ 2 * i >= -w /\ 2 * i < w /\ (i < 0 <=> 2 * h >= m)
         /\ s = IF i < 0 THEN h - m ELSE h
  <2>1. /\ v.lo \in 0 .. m - 1 /\ v.hi \in 0 .. m - 1 /\ UValue(v) = v.hi * m + v.lo
        /\ v.lo \in Limb /\ v.hi \in Limb
    BY <1>1, ValueFacts DEF Limb
  <2>2. UValue(v) \in 0 .. w - 1 /\ IValue(v) \in Int /\ IValue(v) = AsSigned(v.hi) * m + v.lo
        /\ 2 * IValue(v) >= -w /\ 2 * IValue(v) < w /\ (IValue(v) < 0 <=> 2 * v.hi >= m)
    BY <1>1, ValueFacts
  <2>3. AsSigned(v.hi) \in Int
        /\ AsSigned(v.hi) = IF 2 * v.hi >= m THEN v.hi - m ELSE v.hi
    BY <1>1, <2>1, SignFacts
  <2>. QED  BY <2>1, <2>2, <2>3
<1>3. PICK p \in Nat \ {0} : p = Pow2[n]
  BY Powers
<1>4. LimbBits \in Nat \ {0}
  BY SizePowers
<1>5. PICK q \in Int, z \in 0 .. p - 1 : q = i \div p /\ i = q * p + z
  <2>1. \E a \in Int, b \in 0 .. p - 1 : a = i \div p /\ b = i % p /\ i = a * p + b
    BY <1>3, <1>2, DividedIn, Zenon
  <2>. QED  BY ONLY <2>1, Zenon
<1>6. SUFFICES i128_shr(v, n) \in Wide /\ Alike(q, UValue(i128_shr(v, n)))
  BY <1>2, <1>3, <1>5, AlikeHolds
<1>7. ASSUME NEW k \in Int, NEW r \in 0 .. p - 1, i = k * p + r
      PROVE  q = k
  BY <1>3, <1>5, <1>7, Remainder
<1>8. (i128_lt(v, INT128(0)) <=> i < 0) /\ (i128_ge(v, INT128(0)) <=> i >= 0)
  <2>1. INT128(0) \in Wide /\ IValue(INT128(0)) = 0
    BY Constants
  <2>2. /\ i128_lt(v, INT128(0)) <=> IValue(v) < IValue(INT128(0))
        /\ i128_ge(v, INT128(0)) <=> IValue(v) >= IValue(INT128(0))
    BY <2>1, OrderIsExact DEF OrderExact
  <2>. QED  BY <1>2, <2>1, <2>2
<1>9. u = IF i < 0 THEN i + w ELSE i
  <2>1. CASE i < 0
    <3>1. i = (h - m) * m + l
      BY <1>2, <2>1
    <3>2. (h - m) * m + l = (h * m + l) - m * m
      BY ONLY <1>1, h \in 0 .. m - 1, l \in 0 .. m - 1
    <3>. QED  BY <1>1, <1>2, <2>1, <3>1, <3>2
  <2>2. CASE ~(i < 0)
    BY <1>2, <2>2
  <2>. QED  BY <2>1, <2>2
<1>10. CASE n = 0
  <2>1. i128_shr(v, n) = v
    BY <1>10 DEF i128_shr
  <2>2. i = i * p + 0 /\ 0 \in 0 .. p - 1
    BY <1>2, <1>3, <1>10, Powers
  <2>3. q = i
    BY <1>2, <1>7, <2>2
  <2>. QED  BY <1>2, <2>1, <2>3, AlikeValues
<1>11. CASE i >= 0 /\ n # 0 /\ n < 2 * LimbBits
  <2>1. i128_shr(v, n) = u128_shr(v, n)
    BY <1>4, <1>8, <1>11 DEF i128_shr
  <2>2. i = u
    BY <1>9, <1>11
  <2>3. u128_shr(v, n) \in Wide /\ UValue(u128_shr(v, n)) = q
    BY <1>2, <1>3, <1>5, <2>2, ShrIsExact
  <2>. QED  BY <2>1, <2>3, <1>5, AlikeSame
<1>12. CASE n >= 2 * LimbBits
  <2>1. i128_shr(v, n) = INT128(IF i < 0 THEN -1 ELSE 0)
    BY <1>4, <1>8, <1>12 DEF i128_shr
  <2>2. PICK k \in Nat : n = 2 * LimbBits + k
    BY <1>4, <1>12
  <2>3. PICK c \in Nat \ {0} : c = Pow2[k]
    BY Powers
  <2>4. p = w * c
    <3>1. Pow2[2 * LimbBits + k] = Pow2[2 * LimbBits] * Pow2[k]
      BY PowerSum, SizePowers, Zenon
    <3>. QED  BY <1>1, <1>3, <2>2, <2>3, <3>1, SizePowers, Zenon
  <2>5. p >= w
    <3>1. PICK e \in Nat : c = 1 + e
      BY ONLY <2>3
    <3>2. w * c = w + e * w /\ e * w >= 0 /\ e * w \in Int
      BY ONLY <1>1, <3>1
    <3>. QED  BY ONLY <1>1, <2>4, <3>2
  <2>6. CASE i < 0
    <3>1. i = (-1) * p + (i + p) /\ i + p \in 0 .. p - 1
      BY <1>1, <1>2, <1>3, <2>5, <2>6
    <3>2. q = -1
      BY <1>7, <3>1
    <3>3. INT128(-1) \in Wide /\ IValue(INT128(-1)) = -1
      BY Constants
    <3>4. Alike(-1, UValue(INT128(-1)))
      BY <3>3, AlikeValues
    <3>. QED  BY <2>1, <2>6, <3>2, <3>3, <3>4
  <2>7. CASE ~(i < 0)
    <3>1. i = 0 * p + i /\ i \in 0 .. p - 1
      BY <1>1, <1>2, <1>3, <2>5, <2>7
    <3>2. q = 0
      BY <1>7, <3>1
    <3>3. INT128(0) \in Wide /\ UValue(INT128(0)) = 0
      BY Constants
    <3>4. Alike(0, UValue(INT128(0)))
      BY <3>3, AlikeSame
    <3>. QED  BY <2>1, <2>7, <3>2, <3>3, <3>4
  <2>. QED  BY <2>6, <2>7
<1>13. ASSUME NEW r \in Wide, UValue(r) = q + w
       PROVE  Alike(q, UValue(r))
  <2>1. q = UValue(r) + (-1) * w
    BY <1>1, <1>13, <1>5
  <2>. QED  BY <1>1, <2>1 DEF Alike
<1>14. CASE i < 0 /\ LimbBits <= n /\ n < 2 * LimbBits
  <2>1. PICK k \in Nat : k = n - LimbBits /\ n = LimbBits + k
    BY <1>4, <1>14
  <2>2. PICK c \in Nat \ {0} : c = Pow2[k]
    BY Powers
  <2>3. p = m * c
    BY <1>1, <1>3, <1>4, <2>1, <2>2, PowerSum, SizePowers
  <2>4. PICK e \in Int, f \in 0 .. c - 1 : e = s \div c /\ s = e * c + f
    <3>1. s \div c \in Int /\ s % c \in 0 .. c - 1 /\ s = (s \div c) * c + (s % c)
      BY <2>2, Divided
    <3>. QED  BY <3>1
  <2>5. s = h - m /\ s < 0 /\ s >= -m
    BY <1>1, <1>2, <1>14
  <2>6. e \in -m .. -1
    <3>1. CASE e >= 0
      <4>1. e * c >= 0 /\ e * c \in Int
        BY ONLY <2>2, e \in Int, <3>1
      <4>2. s = e * c + f
        BY <2>4
      <4>. QED  BY ONLY <2>2, f \in 0 .. c - 1, <2>5, <4>1, <4>2, s \in Int
    <3>2. CASE e < -m
      <4>1. PICK g \in Nat, t \in Nat : g = -e /\ c = 1 + t
        BY ONLY <1>1, <2>2, e \in Int, <3>2
      <4>2. g * (1 + t) = g + g * t /\ g * t >= t /\ g * t \in Int
        <5>1. PICK o \in Nat : g = 1 + o
          BY ONLY <1>1, <3>2, <4>1, e \in Int
        <5>2. (1 + o) * t = t + o * t /\ o * t >= 0 /\ o * t \in Int
          BY ONLY <4>1, o \in Nat
        <5>3. g * t = (1 + o) * t
          BY <5>1, Zenon
        <5>4. g * (1 + t) = g + g * t
          BY ONLY g \in Nat, t \in Nat
        <5>. QED  BY ONLY <5>2, <5>3, <5>4, g \in Nat, t \in Nat
      <4>3. e * c = -(g * (1 + t))
        <5>1. e = -g
          BY <4>1
        <5>2. (-g) * (1 + t) = -(g * (1 + t))
          BY ONLY g \in Nat, t \in Nat
        <5>. QED  BY <4>1, <5>1, <5>2, Zenon
      <4>4. s = e * c + f
        BY <2>4
      <4>5. s = f - (g + g * t)
        BY ONLY <4>2, <4>3, <4>4, f \in 0 .. c - 1, c \in Nat, g \in Nat, t \in Nat
      <4>. QED  BY ONLY <4>1, <4>2, <4>5, <2>5, <3>2, <1>1, f \in 0 .. c - 1, s \in Int, e \in Int
    <3>. QED  BY <1>1, <2>4, <3>1, <3>2
  <2>7. ToLimb(e) = e + m /\ e + m \in 0 .. m - 1
    <3>1. e + m \in 0 .. m - 1
      BY <1>1, <2>6
    <3>. QED  BY <1>1, <2>4, <3>1, ToLimbNear DEF Limb
  <2>8. i128_shr(v, n) = [lo |-> e + m, hi |-> m - 1]
    <3>1. i128_shr(v, n) = [lo |-> ToLimb(AsSigned(v.hi) \div Pow2[n - LimbBits]),
                            hi |-> LimbSize - 1]
      BY <1>4, <1>8, <1>14 DEF i128_shr
    <3>. QED  BY <1>1, <1>2, <2>1, <2>2, <2>4, <2>7, <3>1
  <2>9. i128_shr(v, n) \in Wide
    BY <1>1, <2>7, <2>8 DEF Wide, Limb
  <2>10. UValue(i128_shr(v, n)) = e + w
    <3>1. UValue(i128_shr(v, n)) = (m - 1) * m + (e + m)
      BY <1>1, <2>8 DEF UValue
    <3>2. (m - 1) * m + (e + m) = e + m * m
      BY ONLY <1>1, e \in Int
    <3>. QED  BY <1>1, <3>1, <3>2
  <2>11. i = e * p + (f * m + l)
    <3>1. s * m = (e * c + f) * m
      BY <2>4, Zenon
    <3>2. (e * c + f) * m = e * (m * c) + f * m /\ e * (m * c) \in Int /\ f * m \in Int
      BY ONLY <1>1, <2>2, e \in Int, f \in 0 .. c - 1
    <3>3. s * m = e * p + f * m
      BY <2>3, <3>1, <3>2, Zenon
    <3>. QED  BY <1>1, <1>2, <2>3, <3>2, <3>3
  <2>12. f * m + l \in 0 .. p - 1
    <3>1. PICK g \in Nat : c = f + 1 + g
      <4>1. c - f - 1 \in Nat /\ c = f + 1 + (c - f - 1)
        BY <2>2
      <4>. QED  BY <4>1
    <3>2. m * c = f * m + m + g * m /\ f * m >= 0 /\ g * m >= 0 /\ f * m \in Int /\ g * m \in Int
      BY ONLY <1>1, <3>1, <2>2, f \in 0 .. c - 1
    <3>. QED  BY ONLY <1>1, l \in 0 .. m - 1, <2>3, <3>2
  <2>13. q = e
    BY <1>7, <2>4, <2>11, <2>12
  <2>. QED  BY <1>13, <2>9, <2>10, <2>13
<1>15. CASE i < 0 /\ n \in 1 .. LimbBits - 1
  <2>1. PICK x : x = Pow2[LimbBits - n]
    OBVIOUS
  <2>2. x \in Nat \ {0} /\ m = p * x
    BY <1>1, <1>3, <1>15, <2>1, WideCut
  <2>3. PICK a \in 0 .. x - 1, b \in 0 .. p - 1, c \in 0 .. x - 1, d \in 0 .. p - 1 :
           /\ shr64(v.hi, n) = c
           /\ BitOr(shr64(v.lo, n), shl64(v.hi, LimbBits - n)) = d * x + a
           /\ d * x + a \in Limb /\ c \in Limb
           /\ UValue(v) = (c * LimbSize + (d * x + a)) * p + b
    BY <1>3, <1>15, <2>1, WideCut
  <2>4. shl64(LimbSize - 1, LimbBits - n) = (p - 1) * x
    <3>1. LimbSize - 1 \in Limb /\ LimbBits - n \in 1 .. LimbBits - 1
          /\ LimbBits - (LimbBits - n) = n
      BY <1>1, <1>4, <1>15 DEF Limb
    <3>2. PICK g \in 0 .. x - 1, t \in 0 .. p - 1 :
             LimbSize - 1 = g * p + t /\ shl64(LimbSize - 1, LimbBits - n) = t * x
      BY <1>3, <2>1, <3>1, LimbCut
    <3>3. LimbSize - 1 = (x - 1) * p + (p - 1)
      <4>1. (x - 1) * p + (p - 1) = p * x - 1
        BY ONLY <1>3, <2>2
      <4>. QED  BY <1>1, <2>2, <4>1
    <3>4. (LimbSize - 1) % p = t /\ (LimbSize - 1) % p = p - 1
      <4>1. LimbSize - 1 \in Int /\ g \in Int /\ x - 1 \in Int /\ p - 1 \in 0 .. p - 1
        BY <1>1, <1>3, <2>2
      <4>2. (LimbSize - 1) % p = t
        BY <3>2, <4>1, Remainder
      <4>3. (LimbSize - 1) % p = p - 1
        BY <3>3, <4>1, Remainder
      <4>. QED  BY <4>2, <4>3
    <3>. QED  BY <3>2, <3>4
  <2>5. BitOr(c, (p - 1) * x) = (p - 1) * x + c
    <3>1. p - 1 \in Nat /\ LimbBits - n \in Nat /\ c \in 0 .. x - 1
      BY <1>3, <1>4, <1>15
    <3>. QED  BY <2>1, <3>1, OrSum
  <2>6. i128_shr(v, n) = [lo |-> d * x + a, hi |-> (p - 1) * x + c]
    <3>1. i128_shr(v, n) = [lo |-> BitOr(shr64(v.lo, n), shl64(v.hi, LimbBits - n)),
                            hi |-> BitOr(shr64(v.hi, n), shl64(LimbSize - 1, LimbBits - n))]
      BY <1>4, <1>8, <1>15 DEF i128_shr
    <3>. QED  BY <2>3, <2>4, <2>5, <3>1
  <2>7. (p - 1) * x + c \in 0 .. m - 1
    <3>1. (p - 1) * x = p * x - x /\ p * x \in Int /\ (p - 1) * x >= 0
      BY ONLY <1>3, <2>2
    <3>. QED  BY ONLY <1>1, <2>2, <3>1, c \in 0 .. x - 1
  <2>8. i128_shr(v, n) \in Wide
    BY <1>1, <2>3, <2>6, <2>7 DEF Wide, Limb
  <2>9. PICK y \in Int : y = d * x + a
    BY ONLY <2>2, <2>3, <1>3
  <2>10. UValue(i128_shr(v, n)) = ((p - 1) * x + c) * m + y
    BY <1>1, <2>6, <2>9 DEF UValue
  <2>11. UValue(i128_shr(v, n)) = ((c * m + y) - x * m) + w
    <3>1. ((p - 1) * x + c) * m + y = ((c * m + y) - x * m) + (p * x) * m
      BY ONLY <1>1, <1>3, <2>2, y \in Int, c \in 0 .. x - 1
    <3>. QED  BY <1>1, <2>2, <2>10, <3>1, Zenon
  <2>12. (c * m + y) - x * m \in Int
    BY ONLY <1>1, <2>2, y \in Int, c \in 0 .. x - 1
  <2>13. i = ((c * m + y) - x * m) * p + b
    <3>1. ((c * m + y) - x * m) * p + b = ((c * m + y) * p + b) - (p * x) * m
      BY ONLY <1>1, <1>3, <2>2, y \in Int, c \in 0 .. x - 1, b \in 0 .. p - 1
    <3>2. u = (c * m + y) * p + b
      BY <1>1, <1>2, <2>3, <2>9, Zenon
    <3>3. (p * x) * m = w
      BY <1>1, <2>2, Zenon
    <3>4. i = u - w
      BY <1>1, <1>2, <1>9, <1>15
    <3>. QED  BY <3>1, <3>2, <3>3, <3>4, Zenon
  <2>14. q = (c * m + y) - x * m
    BY <1>7, <2>3, <2>12, <2>13
  <2>. QED  BY <1>13, <2>8, <2>11, <2>14
<1>. QED  BY <1>4, <1>10, <1>11, <1>12, <1>14, <1>15

\* The function a loop computes, which has nothing left to do with the result.
Loops(f, S, R, Stop, after, ended) ==
    /\ f \in [S -> R]
    /\ \A s \in S : f[s] = IF s \in Stop THEN ended[s] ELSE f[after[s]]

LEMMA LoopExists ==
    ASSUME NEW S, NEW Stop, NEW after, NEW measure, Decreases(S, Stop, after, measure),
           NEW R, NEW ended \in [S -> R]
    PROVE  \E f : Loops(f, S, R, Stop, after, ended)
<1>. DEFINE combine == [p \in S \X R |-> p[2]]
<1>1. combine \in [S \X R -> R]
  OBVIOUS
<1>2. PICK f : Solves(f, S, R, Stop, after, ended, combine)
  <2>. HIDE DEF combine
  <2>. QED  BY <1>1, RecursionExists
<1>3. f \in [S -> R]
  BY <1>2 DEF Solves
<1>4. ASSUME NEW s \in S
      PROVE  f[s] = IF s \in Stop THEN ended[s] ELSE f[after[s]]
  <2>1. CASE s \in Stop
    BY <1>2, <2>1 DEF Solves
  <2>2. CASE s \notin Stop
    <3>1. f[s] = combine[<<s, f[after[s]]>>]
      <4>. HIDE DEF combine
      <4>. QED  BY <1>2, <2>2 DEF Solves
    <3>2. f[after[s]] \in R
      BY <1>3, <2>2 DEF Decreases
    <3>3. combine[<<s, f[after[s]]>>] = f[after[s]]
      BY <3>2
    <3>. QED  BY <2>2, <3>1, <3>3
  <2>. QED  BY <2>1, <2>2
<1>. QED  BY <1>3, <1>4 DEF Loops

-----------------------------------------------------------------------------
(* One bit to the left and one to the right.                               *)

LEMMA ShlOne ==
    ASSUME NEW v \in Wide
    PROVE  /\ u128_shl(v, 1) \in Wide
           /\ UValue(u128_shl(v, 1)) = IF 2 * UValue(v) < WideSize THEN 2 * UValue(v)
                                       ELSE 2 * UValue(v) - WideSize
           /\ Alike(UValue(v) * 2, UValue(u128_shl(v, 1)))
<1>1. Pow2[1] = 2
  BY Powers
<1>2. /\ u128_shl(v, 1) \in Wide
      /\ Alike(UValue(v) * 2, UValue(u128_shl(v, 1)))
  BY <1>1, ShlIsExact
<1>3. PICK w \in Nat \ {0}, u \in Int, r \in Int :
         /\ w = WideSize /\ u = UValue(v) /\ r = UValue(u128_shl(v, 1))
         /\ u \in 0 .. w - 1 /\ r \in 0 .. w - 1
  BY <1>2, Sizes, ValueFacts
<1>4. PICK k \in Int : u * 2 = r + k * w
  BY <1>2, <1>3 DEF Alike
<1>5. k \in {0, 1}
  <2>1. k >= 2 => k * w >= 2 * w
    <3>1. ASSUME k >= 2
          PROVE  k * w >= 2 * w
      <4>1. PICK j \in Nat : k = 2 + j
        BY ONLY <3>1, k \in Int
      <4>2. (2 + j) * w = 2 * w + j * w /\ j * w >= 0 /\ j * w \in Int
        BY ONLY <1>3, j \in Nat
      <4>. QED  BY ONLY <1>3, <4>1, <4>2
    <3>. QED  BY <3>1
  <2>2. k <= -1 => k * w <= -w
    BY <1>3, ProductSign
  <2>3. k * w \in Int
    BY <1>3
  <2>. QED  BY ONLY <1>3, <1>4, <2>1, <2>2, <2>3, k \in Int
<1>6. r = IF 2 * u < w THEN 2 * u ELSE 2 * u - w
  <2>1. k * w = 0 \/ k * w = w
    BY <1>3, <1>5
  <2>. QED  BY ONLY <1>3, <1>4, <2>1
<1>. QED  BY <1>2, <1>3, <1>6

LEMMA ShrOne ==
    ASSUME NEW v \in Wide
    PROVE  u128_shr(v, 1) \in Wide /\ UValue(u128_shr(v, 1)) = UValue(v) \div 2
<1>1. Pow2[1] = 2
  BY Powers
<1>. QED  BY <1>1, ShrIsExact

LEMMA UnsignedOne ==
    UINT128(1) \in Wide /\ UValue(UINT128(1)) = 1
<1>1. PICK m \in Nat \ {0} : m = LimbSize /\ m > 1
  BY Sizes
<1>2. 1 \div m = 0 /\ 1 % m = 1
  <2>1. 1 = 0 * m + 1 /\ 1 \in 0 .. m - 1
    BY <1>1
  <2>. QED  BY <1>1, <2>1, Remainder
<1>3. UINT128(1) = [lo |-> 1, hi |-> 0]
  BY <1>1, <1>2 DEF UINT128, ToLimb
<1>. QED  BY <1>1, <1>3 DEF Wide, Limb, UValue

\* Doubled often enough, every number is a multiple of the width.
Vanishes(n) == {k \in Nat : Alike(n * Pow2[k], 0)}
Doublings(n) == CHOOSE k \in Vanishes(n) : \A j \in Vanishes(n) : k <= j

LEMMA DoublingsIs ==
    ASSUME NEW n \in Int
    PROVE  /\ Doublings(n) \in Vanishes(n) /\ Doublings(n) \in Nat
           /\ \A j \in Vanishes(n) : Doublings(n) <= j
<1>1. PICK w \in Nat \ {0} : w = WideSize
  BY Sizes
<1>2. 2 * LimbBits \in Vanishes(n)
  <2>1. n * w = 0 + n * w
    BY <1>1
  <2>2. 2 * LimbBits \in Nat /\ Pow2[2 * LimbBits] = w
    BY <1>1, SizePowers
  <2>3. Alike(n * w, 0)
    BY <1>1, <2>1 DEF Alike
  <2>. QED  BY <2>2, <2>3 DEF Vanishes
<1>3. Vanishes(n) \in SUBSET Nat
  BY DEF Vanishes
<1>4. \E k \in Vanishes(n) : \A j \in Vanishes(n) : k <= j
  BY <1>2, <1>3, SmallestOf
<1>5. Doublings(n) \in Vanishes(n) /\ \A j \in Vanishes(n) : Doublings(n) <= j
  BY <1>4 DEF Doublings
<1>. QED  BY <1>3, <1>5

\* A doubling that leaves something leaves less to do.
LEMMA DoublingsDecrease ==
    ASSUME NEW v \in Wide, UValue(u128_shl(v, 1)) # 0
    PROVE  Doublings(UValue(u128_shl(v, 1))) < Doublings(UValue(v))
<1>1. PICK u \in Int, r \in Int, w \in Nat \ {0} :
         u = UValue(v) /\ r = UValue(u128_shl(v, 1)) /\ w = WideSize /\ r \in 1 .. w - 1
  <2>1. u128_shl(v, 1) \in Wide
    BY ShlOne
  <2>2. UValue(u128_shl(v, 1)) \in 0 .. WideSize - 1 /\ UValue(v) \in 0 .. WideSize - 1
    BY <2>1, ValueFacts
  <2>. QED  BY <2>2, Sizes
<1>2. Alike(u * 2, r)
  BY <1>1, ShlOne
<1>3. PICK k \in Nat : k = Doublings(u) /\ Alike(u * Pow2[k], 0)
  BY <1>1, DoublingsIs DEF Vanishes
<1>4. ~ Alike(r, 0)
  <2>1. SUFFICES ASSUME NEW c \in Int, r = 0 + c * w
                 PROVE  FALSE
    BY <1>1 DEF Alike
  <2>2. c >= 1 => c * w >= w
    BY <1>1, ProductSign
  <2>3. c <= -1 => c * w <= -w
    BY <1>1, ProductSign
  <2>4. c = 0 => c * w = 0
    BY <1>1
  <2>5. c * w \in Int
    BY <1>1
  <2>. QED  BY ONLY <1>1, <2>1, <2>2, <2>3, <2>4, <2>5, c \in Int
<1>5. ASSUME NEW j \in Nat, Alike(u * Pow2[j + 1], 0)
      PROVE  Alike(r * Pow2[j], 0)
  <2>1. PICK p \in Int : p = Pow2[j] /\ Pow2[j + 1] = 2 * p
    BY Powers
  <2>2. Alike((u * 2) * p, r * p)
    <3>1. PICK t \in Int : t = u * 2
      BY <1>1
    <3>2. Alike(p, p) /\ Alike(t, r)
      BY <1>2, <2>1, <3>1, AlikeSame
    <3>3. \A c, d \in Int : Alike(c, d) => Alike(t * c, r * d)
      BY <1>1, <3>2, AlikeFacts
    <3>4. Alike(t * p, r * p)
      BY <2>1, <3>2, <3>3
    <3>. QED  BY <3>1, <3>4, Zenon
  <2>3. (u * 2) * p = u * (2 * p) /\ u * (2 * p) \in Int /\ r * p \in Int
    BY ONLY <1>1, <2>1
  <2>4. Alike(r * p, u * (2 * p))
    BY <2>2, <2>3, AlikeFacts
  <2>5. Alike(u * (2 * p), 0)
    BY <1>5, <2>1
  <2>. QED  BY <2>1, <2>3, <2>4, <2>5, AlikeStep
<1>6. k # 0
  <2>1. SUFFICES ASSUME k = 0
                 PROVE  FALSE
    OBVIOUS
  <2>2. u * Pow2[0] = u /\ 2 \in Int
    BY <1>1, Powers
  <2>3. Alike(u, 0)
    BY <1>3, <2>1, <2>2
  <2>4. Alike(u * 2, 0 * 2)
    BY <1>1, <2>3, AlikeFacts, AlikeSame
  <2>5. 0 * 2 = 0 /\ u * 2 \in Int
    BY <1>1
  <2>6. Alike(r, u * 2) /\ Alike(u * 2, 0)
    BY <1>1, <1>2, <2>4, <2>5, AlikeFacts
  <2>. QED  BY <1>1, <1>4, <2>5, <2>6, AlikeStep
<1>7. PICK i \in Nat : k = i + 1
  <2>1. k - 1 \in Nat /\ k = (k - 1) + 1
    BY <1>6
  <2>. QED  BY <2>1
<1>8. Alike(r * Pow2[i], 0)
  BY <1>3, <1>5, <1>7
<1>9. i \in Vanishes(r)
  BY <1>8 DEF Vanishes
<1>10. Doublings(r) <= i /\ Doublings(r) \in Nat
  BY <1>1, <1>9, DoublingsIs
<1>. QED  BY <1>1, <1>3, <1>7, <1>10

-----------------------------------------------------------------------------
(* The loop that doubles.                                                  *)

\* Between powers of two there is the double of the smaller one.
LEMMA PowerOrder ==
    ASSUME NEW i \in Nat, NEW j \in Nat, Pow2[i] < Pow2[j]
    PROVE  2 * Pow2[i] <= Pow2[j]
<1>1. \A k \in Nat : Pow2[k] \in Nat \ {0}
  BY Powers
<1>2. i < j
  <2>1. CASE j <= i
    <3>1. PICK k \in Nat : i = j + k
      <4>1. i - j \in Nat /\ i = j + (i - j)
        BY <2>1
      <4>. QED  BY <4>1
    <3>2. Pow2[i] = Pow2[j] * Pow2[k]
      BY <3>1, PowerSum
    <3>3. PICK a \in Nat, b \in Nat : Pow2[j] = a + 1 /\ Pow2[k] = b + 1
      <4>1. Pow2[j] - 1 \in Nat /\ Pow2[k] - 1 \in Nat
        BY <1>1
      <4>2. Pow2[j] = (Pow2[j] - 1) + 1 /\ Pow2[k] = (Pow2[k] - 1) + 1
        BY <1>1
      <4>. QED  BY <4>1, <4>2
    <3>4. (a + 1) * (b + 1) = (a + 1) + (a * b + b) /\ a * b \in Nat
      BY ONLY a \in Nat, b \in Nat
    <3>5. Pow2[i] = (a + 1) * (b + 1)
      BY <3>2, <3>3, Zenon
    <3>. QED  BY <3>3, <3>4, <3>5
  <2>. QED  BY <2>1
<1>3. PICK k \in Nat : j = (i + 1) + k
  <2>1. j - (i + 1) \in Nat /\ j = (i + 1) + (j - (i + 1))
    BY <1>2
  <2>. QED  BY <2>1
<1>4. Pow2[j] = Pow2[i + 1] * Pow2[k]
  BY <1>3, PowerSum
<1>5. PICK a \in Nat, b \in Nat : Pow2[i + 1] = a /\ Pow2[k] = b + 1
  <2>1. Pow2[i + 1] \in Nat /\ Pow2[k] - 1 \in Nat /\ Pow2[k] = (Pow2[k] - 1) + 1
    BY <1>1
  <2>. QED  BY <2>1
<1>6. a * (b + 1) = a + a * b /\ a * b \in Nat
  BY ONLY a \in Nat, b \in Nat
<1>7. Pow2[j] = a * (b + 1)
  BY <1>4, <1>5, Zenon
<1>8. Pow2[i + 1] = 2 * Pow2[i]
  BY Powers
<1>. QED  BY <1>1, <1>5, <1>6, <1>7, <1>8

\* The first loop of the division: a pass of it doubles divisor and current, and the
\* end of it halves them again if the divisor has passed the dividend.
Doubling == [divisor : Wide, current : Wide]
Up(s)    == [divisor |-> u128_shl(s.divisor, 1), current |-> u128_shl(s.current, 1)]
Down(s)  == [divisor |-> u128_shr(s.divisor, 1), current |-> u128_shr(s.current, 1)]

LEMMA OnePass ==
    ASSUME NEW s \in Doubling
    PROVE  /\ s.divisor \in Wide /\ s.current \in Wide
           /\ UValue(s.divisor) \in 0 .. WideSize - 1 /\ UValue(s.current) \in 0 .. WideSize - 1
           /\ Up(s) \in Doubling /\ Down(s) \in Doubling
           /\ UValue(Up(s).divisor) = IF 2 * UValue(s.divisor) < WideSize
                                      THEN 2 * UValue(s.divisor)
                                      ELSE 2 * UValue(s.divisor) - WideSize
           /\ UValue(Up(s).current) = IF 2 * UValue(s.current) < WideSize
                                      THEN 2 * UValue(s.current)
                                      ELSE 2 * UValue(s.current) - WideSize
           /\ UValue(Down(s).divisor) = UValue(s.divisor) \div 2
           /\ UValue(Down(s).current) = UValue(s.current) \div 2
<1>1. s.divisor \in Wide /\ s.current \in Wide
  BY DEF Doubling
<1>2. /\ u128_shl(s.divisor, 1) \in Wide /\ u128_shl(s.current, 1) \in Wide
      /\ u128_shr(s.divisor, 1) \in Wide /\ u128_shr(s.current, 1) \in Wide
  BY <1>1, ShlOne, ShrOne
<1>3. /\ Up(s) \in Doubling /\ Down(s) \in Doubling
      /\ Up(s).divisor = u128_shl(s.divisor, 1) /\ Up(s).current = u128_shl(s.current, 1)
      /\ Down(s).divisor = u128_shr(s.divisor, 1) /\ Down(s).current = u128_shr(s.current, 1)
  BY <1>2 DEF Doubling, Up, Down
<1>4. UValue(s.divisor) \in 0 .. WideSize - 1 /\ UValue(s.current) \in 0 .. WideSize - 1
  BY <1>1, ValueFacts
<1>. QED  BY <1>1, <1>3, <1>4, ShlOne, ShrOne

\* What the passes preserve holds when the loop has ended.
LEMMA DoubledEnds ==
    ASSUME NEW lhs \in Wide, NEW rhs \in Wide,
           NEW J \in SUBSET Doubling, NEW Good \in SUBSET Doubling,
           [divisor |-> rhs, current |-> UINT128(1)] \in J,
           \A s \in J :
              IF UValue(s.divisor) > UValue(lhs) THEN Down(s) \in Good
              ELSE IF UValue(Up(s).divisor) = 0 \/ UValue(Up(s).current) = 0 THEN s \in Good
              ELSE Up(s) \in J
    PROVE  Doubled(lhs, rhs) \in Good
<1>. DEFINE S == Doubling
            Of(divisor, current) == [divisor |-> divisor, current |-> current]
            Passed(s) == ~u128_le(s.divisor, lhs)
            Nothing(s) == u128_eq(Up(s).divisor, UINT128(0)) \/ u128_eq(Up(s).current, UINT128(0))
            Stop == {s \in S : Passed(s) \/ Nothing(s)}
            ended == [s \in S |-> IF Passed(s) THEN Down(s) ELSE s]
            after == [s \in S |-> Up(s)]
            measure == [s \in S |-> Doublings(UValue(s.current))]
            Loop(f) == f = [s \in S |-> IF Passed(s) THEN Down(s)
                                        ELSE IF Nothing(s) THEN s ELSE f[Up(s)]]
<1>1. \A s \in S : Up(s) \in S /\ Down(s) \in S
  BY OnePass
<1>2. ASSUME NEW s \in S
      PROVE  /\ Passed(s) <=> UValue(s.divisor) > UValue(lhs)
             /\ Nothing(s) <=> UValue(Up(s).divisor) = 0 \/ UValue(Up(s).current) = 0
  <2>1. /\ s.divisor \in Wide /\ UValue(s.divisor) \in Int /\ UValue(lhs) \in Int
        /\ Up(s).divisor \in Wide /\ Up(s).current \in Wide
    BY <1>1, OnePass, ValueFacts, Sizes
  <2>2. u128_le(s.divisor, lhs) <=> UValue(s.divisor) <= UValue(lhs)
    BY <2>1, OrderIsExact DEF OrderExact
  <2>3. \A v \in Wide : u128_eq(v, UINT128(0)) <=> UValue(v) = 0
    BY UnsignedZero, OrderFacts
  <2>. QED  BY <2>1, <2>2, <2>3
<1>. HIDE DEF Passed, Nothing
<1>3. Decreases(S, Stop, after, measure)
  <2>1. measure \in [S -> Nat]
    <3>1. ASSUME NEW s \in S
          PROVE  Doublings(UValue(s.current)) \in Nat
      <4>1. UValue(s.current) \in Int
        BY OnePass, Sizes
      <4>. QED  BY <4>1, DoublingsIs
    <3>. HIDE DEF S
    <3>. QED  BY <3>1
  <2>2. ASSUME NEW s \in S \ Stop
        PROVE  after[s] \in S /\ measure[after[s]] < measure[s]
    <3>1. s \in S /\ ~Nothing(s)
      BY DEF Stop
    <3>2. s.current \in Wide /\ Up(s) \in S /\ Up(s).current = u128_shl(s.current, 1)
      BY <1>1, <3>1, OnePass DEF Up
    <3>3. UValue(u128_shl(s.current, 1)) # 0
      BY <1>2, <3>1, <3>2
    <3>4. Doublings(UValue(u128_shl(s.current, 1))) < Doublings(UValue(s.current))
      BY <3>2, <3>3, DoublingsDecrease
    <3>5. after[s] = Up(s)
      <4>. HIDE DEF S
      <4>. QED  BY <3>1 DEF after
    <3>6. measure[Up(s)] = Doublings(UValue(u128_shl(s.current, 1)))
          /\ measure[s] = Doublings(UValue(s.current))
      <4>. HIDE DEF S
      <4>. QED  BY <3>1, <3>2 DEF measure
    <3>. HIDE DEF S, after, measure
    <3>. QED  BY <3>2, <3>4, <3>5, <3>6
  <2>. HIDE DEF S, Stop, after, measure
  <2>. QED  BY <2>1, <2>2 DEF Decreases
<1>. HIDE DEF S
<1>4. ended \in [S -> S]
  BY <1>1
<1>5. \E f : Loop(f)
  <2>1. PICK f : Loops(f, S, S, Stop, after, ended)
    <3>. HIDE DEF Stop, after, measure, ended
    <3>. QED  BY <1>3, <1>4, LoopExists
  <2>2. ASSUME NEW s \in S
        PROVE  f[s] = IF Passed(s) THEN Down(s) ELSE IF Nothing(s) THEN s ELSE f[Up(s)]
    <3>1. s \in Stop <=> Passed(s) \/ Nothing(s)
      BY DEF Stop
    <3>2. ended[s] = (IF Passed(s) THEN Down(s) ELSE s) /\ after[s] = Up(s)
      BY DEF ended, after
    <3>. HIDE DEF Stop, ended, after
    <3>. QED  BY <2>1, <3>1, <3>2 DEF Loops
  <2>3. Loop(f)
    <3>. HIDE DEF Stop, after, ended
    <3>. QED  BY <2>1, <2>2 DEF Loops
  <2>. HIDE DEF Loop
  <2>. QED  BY <2>3
<1>. DEFINE go == CHOOSE f : Loop(f)
<1>6. Loop(go)
  <2>. HIDE DEF Loop
  <2>. QED  BY <1>5
<1>7. Doubled(lhs, rhs) = go[Of(rhs, UINT128(1))]
  BY DEF Doubled, S, Doubling, Passed, Nothing, Up, Down
<1>. HIDE DEF go
<1>8. \A s \in S : go[s] = IF Passed(s) THEN Down(s) ELSE IF Nothing(s) THEN s ELSE go[Up(s)]
  BY <1>6
<1>9. J \in SUBSET S /\ Good \in SUBSET S
  BY DEF S
<1>. DEFINE Ends == {s \in S : go[s] \in Good}
<1>10. \A s \in J \cap Stop : s \in Ends
  <2>1. TAKE s \in J \cap Stop
  <2>2. s \in S /\ s \in J /\ (Passed(s) \/ Nothing(s))
    BY <1>9 DEF Stop
  <2>3. go[s] = IF Passed(s) THEN Down(s) ELSE s
    BY <1>8, <2>2
  <2>. QED  BY <1>2, <2>2, <2>3
<1>11. \A s \in J \ Stop : after[s] \in J /\ (after[s] \in Ends => s \in Ends)
  <2>1. TAKE s \in J \ Stop
  <2>2. s \in S /\ s \in J /\ ~Passed(s) /\ ~Nothing(s)
    BY <1>9 DEF Stop
  <2>3. go[s] = go[Up(s)] /\ after[s] = Up(s)
    BY <1>8, <2>2
  <2>4. Up(s) \in J
    BY <1>2, <2>2
  <2>. HIDE DEF after
  <2>. QED  BY <2>2, <2>3, <2>4
<1>12. J \subseteq Ends
  <2>. HIDE DEF Ends, Stop, after, measure
  <2>. QED  BY <1>3, <1>9, <1>10, <1>11, Induction
<1>. QED  BY <1>7, <1>12

\* The divisions whose first loop stops before it loses a digit of the divisor: the
\* dividend leaves a bit free, or the divisor is a power of two.
Orderly(lhs, rhs) ==
    \/ 2 * UValue(lhs) <= WideSize
    \/ \E k \in Nat : UValue(rhs) = Pow2[k]

\* It ends at the largest product of the divisor and a power of two that does not
\* exceed the dividend.
LEMMA DoubledIs ==
    ASSUME NEW lhs \in Wide, NEW rhs \in Wide, UValue(rhs) > 0, UValue(rhs) <= UValue(lhs),
           Orderly(lhs, rhs)
    PROVE  LET top == Doubled(lhs, rhs)
           IN  /\ top \in [divisor : Wide, current : Wide]
               /\ \E j \in Nat : /\ UValue(top.current) = Pow2[j]
                                 /\ UValue(top.divisor) = UValue(rhs) * Pow2[j]
                                 /\ UValue(rhs) * Pow2[j] <= UValue(lhs)
                                 /\ UValue(lhs) < 2 * (UValue(rhs) * Pow2[j])
<1>1. PICK w \in Nat \ {0}, ul \in Int, ur \in Int :
         /\ w = WideSize /\ ul = UValue(lhs) /\ ur = UValue(rhs)
         /\ ur > 0 /\ ur <= ul /\ ul < w
         /\ 2 * ul <= w \/ \E c \in Nat : ur = Pow2[c]
  <2>1. UValue(lhs) \in Int /\ UValue(rhs) \in Int /\ UValue(lhs) < WideSize
    BY Sizes, ValueFacts
  <2>. QED  BY <2>1, Sizes DEF Orderly
<1>. DEFINE At(s, k) == /\ UValue(s.current) = Pow2[k]
                        /\ UValue(s.divisor) = ur * Pow2[k]
                        /\ k # 0 => ur * Pow2[k - 1] <= ul
            Top(s) == \E j \in Nat : /\ UValue(s.current) = Pow2[j]
                                     /\ UValue(s.divisor) = ur * Pow2[j]
                                     /\ ur * Pow2[j] <= ul
                                     /\ ul < 2 * (ur * Pow2[j])
            J == {s \in Doubling : \E k \in Nat : At(s, k)}
            Good == {s \in Doubling : Top(s)}
<1>2. ASSUME NEW s \in Doubling, NEW k \in Nat, At(s, k)
      PROVE  IF UValue(s.divisor) > ul THEN Down(s) \in Good
             ELSE IF UValue(Up(s).divisor) = 0 \/ UValue(Up(s).current) = 0 THEN s \in Good
             ELSE Up(s) \in J
  <2>1. PICK p \in Nat \ {0}, d \in Int :
           /\ p = Pow2[k] /\ d = ur * p /\ UValue(s.current) = p /\ UValue(s.divisor) = d
           /\ Pow2[k + 1] = 2 * p
    <3>1. Pow2[k] \in Nat \ {0} /\ Pow2[k + 1] = 2 * Pow2[k] /\ ur * Pow2[k] \in Int
      BY <1>1, Powers
    <3>. QED  BY <1>2, <3>1
  <2>2. d >= p
    <3>1. PICK g \in Nat : ur = 1 + g
      BY <1>1
    <3>2. (1 + g) * p = p + g * p /\ g * p >= 0 /\ g * p \in Int
      BY ONLY <2>1, g \in Nat
    <3>3. d = (1 + g) * p
      BY <2>1, <3>1, Zenon
    <3>. QED  BY ONLY <2>1, <3>2, <3>3
  <2>3. CASE d > ul
    <3>1. k # 0
      <4>1. k = 0 => d = ur
        BY <1>1, <2>1, Powers
      <4>. QED  BY <1>1, <2>3, <4>1
    <3>2. PICK j \in Nat : k = j + 1 /\ j = k - 1
      BY <3>1
    <3>3. PICK c \in Nat, e \in Int : c = Pow2[j] /\ p = 2 * c /\ e = ur * c /\ d = 2 * e
      <4>1. Pow2[j] \in Nat /\ Pow2[j + 1] = 2 * Pow2[j]
        BY Powers
      <4>2. p = 2 * Pow2[j]
        BY <2>1, <3>2, <4>1
      <4>3. ur * (2 * Pow2[j]) = 2 * (ur * Pow2[j]) /\ ur * Pow2[j] \in Int
        BY <1>1, <4>1
      <4>. QED  BY <2>1, <4>1, <4>2, <4>3
    <3>4. e <= ul
      BY <1>2, <3>1, <3>2, <3>3
    <3>5. UValue(Down(s).divisor) = e /\ UValue(Down(s).current) = c
      <4>1. UValue(Down(s).divisor) = d \div 2 /\ UValue(Down(s).current) = p \div 2
        BY <2>1, OnePass
      <4>2. d \div 2 = e /\ p \div 2 = c
        BY <3>3
      <4>. QED  BY <4>1, <4>2
    <3>6. Top(Down(s))
      BY <2>3, <3>3, <3>4, <3>5
    <3>7. Down(s) \in Doubling
      BY OnePass
    <3>. QED  BY <2>1, <2>3, <3>6, <3>7
  <2>4. CASE d <= ul
    <3>1. /\ Up(s) \in Doubling
          /\ UValue(Up(s).divisor) = IF 2 * d < w THEN 2 * d ELSE 2 * d - w
          /\ UValue(Up(s).current) = IF 2 * p < w THEN 2 * p ELSE 2 * p - w
      BY <1>1, <2>1, OnePass
    <3>2. CASE UValue(Up(s).divisor) = 0 \/ UValue(Up(s).current) = 0
      <4>1. 2 * d >= w
        BY <1>1, <2>1, <2>2, <3>1, <3>2
      <4>2. d <= ul /\ ul < 2 * d
        BY <1>1, <2>4, <4>1
      <4>3. Top(s)
        BY <2>1, <4>2
      <4>. QED  BY <2>1, <2>4, <3>2, <4>3
    <3>3. CASE ~(UValue(Up(s).divisor) = 0 \/ UValue(Up(s).current) = 0)
      <4>1. 2 * d < w /\ 2 * p < w
        <5>1. 2 * d <= w
          <6>1. CASE 2 * ul <= w
            BY ONLY <1>1, <2>1, <2>4, <6>1
          <6>2. CASE \E c \in Nat : ur = Pow2[c]
            <7>1. PICK c \in Nat : ur = Pow2[c]
              BY <6>2
            <7>2. d = Pow2[c + k] /\ c + k \in Nat
              BY <2>1, <7>1, PowerSum
            <7>3. w = Pow2[2 * LimbBits] /\ 2 * LimbBits \in Nat
              BY <1>1, SizePowers
            <7>4. d < w
              BY ONLY <1>1, <2>1, <2>4
            <7>. QED  BY <7>2, <7>3, <7>4, PowerOrder
          <6>. QED  BY <1>1, <6>1, <6>2
        <5>. QED  BY <1>1, <2>1, <2>2, <2>4, <3>1, <3>3, <5>1
      <4>2. UValue(Up(s).divisor) = 2 * d /\ UValue(Up(s).current) = 2 * p
        BY <3>1, <4>1
      <4>3. ur * (2 * p) = 2 * d
        <5>1. ur * (2 * p) = 2 * (ur * p)
          BY <1>1, <2>1
        <5>. QED  BY <2>1, <5>1
      <4>4. k + 1 \in Nat /\ k + 1 # 0 /\ (k + 1) - 1 = k
        OBVIOUS
      <4>5. At(Up(s), k + 1)
        BY <2>1, <2>4, <4>2, <4>3, <4>4
      <4>6. Up(s) \in J
        BY <3>1, <4>4, <4>5
      <4>. QED  BY <2>1, <2>4, <3>3, <4>6
    <3>. QED  BY <3>2, <3>3
  <2>. QED  BY <1>1, <2>1, <2>3, <2>4
<1>3. [divisor |-> rhs, current |-> UINT128(1)] \in J
  <2>. DEFINE s == [divisor |-> rhs, current |-> UINT128(1)]
  <2>1. s \in Doubling /\ s.divisor = rhs /\ s.current = UINT128(1)
    BY UnsignedOne DEF Doubling
  <2>2. At(s, 0)
    <3>1. Pow2[0] = 1 /\ ur * 1 = ur
      BY <1>1, Powers
    <3>. QED  BY <1>1, <2>1, <3>1, UnsignedOne
  <2>. QED  BY <2>1, <2>2
<1>4. Doubled(lhs, rhs) \in Good
  <2>1. J \in SUBSET Doubling /\ Good \in SUBSET Doubling
    OBVIOUS
  <2>2. \A s \in J : s \in Doubling /\ \E k \in Nat : At(s, k)
    OBVIOUS
  <2>. HIDE DEF At, J, Good
  <2>3. \A s \in J :
           IF UValue(s.divisor) > UValue(lhs) THEN Down(s) \in Good
           ELSE IF UValue(Up(s).divisor) = 0 \/ UValue(Up(s).current) = 0 THEN s \in Good
           ELSE Up(s) \in J
    BY <1>1, <1>2, <2>2
  <2>. QED  BY <1>3, <2>1, <2>3, DoubledEnds
<1>. QED  BY <1>1, <1>4 DEF Doubling

-----------------------------------------------------------------------------
(* The loop that subtracts.                                                *)

LEMMA HalfOf ==
    ASSUME NEW n \in Nat
    PROVE  (2 * n) \div 2 = n /\ 1 \div 2 = 0
OBVIOUS

\* Below the largest product, the loop leaves the quotient and the rest.
LEMMA SubtractedIs ==
    ASSUME NEW lhs \in Wide, NEW top \in [divisor : Wide, current : Wide],
           NEW n \in Nat, n > 0, NEW j \in Nat,
           UValue(top.current) = Pow2[j], UValue(top.divisor) = n * Pow2[j],
           UValue(lhs) < 2 * (n * Pow2[j])
    PROVE  LET r == Subtracted(lhs, top)
           IN  /\ r \in [quotient : Wide, rest : Wide]
               /\ UValue(r.quotient) * n + UValue(r.rest) = UValue(lhs)
               /\ UValue(r.rest) < n
<1>. DEFINE S == [lhs : Wide, divisor : Wide, current : Wide, result : Wide]
            R == [quotient : Wide, rest : Wide]
            Of(l, d, c, q) == [lhs |-> l, divisor |-> d, current |-> c, result |-> q]
            Zeroed(s) == u128_eq(s.current, UINT128(0))
            Fits(s) == u128_ge(s.lhs, s.divisor)
            leaves(s) == [quotient |-> s.result, rest |-> s.lhs]
            taken(s) == Of(u128_sub(s.lhs, s.divisor), u128_shr(s.divisor, 1),
                           u128_shr(s.current, 1), u128_or(s.result, s.current))
            passed(s) == Of(s.lhs, u128_shr(s.divisor, 1), u128_shr(s.current, 1), s.result)
            Stop == {s \in S : Zeroed(s)}
            ended == [s \in S |-> leaves(s)]
            after == [s \in S |-> IF Fits(s) THEN taken(s) ELSE passed(s)]
            measure == [s \in S |-> UValue(s.current)]
            Loop(f) == f = [s \in S |-> IF Zeroed(s) THEN leaves(s)
                                        ELSE IF Fits(s) THEN f[taken(s)] ELSE f[passed(s)]]
<1>1. PICK ul \in Int : ul = UValue(lhs)
  BY Sizes, ValueFacts
<1>2. ASSUME NEW s \in S
      PROVE  /\ s.lhs \in Wide /\ s.divisor \in Wide /\ s.current \in Wide /\ s.result \in Wide
             /\ leaves(s) \in R /\ leaves(s).quotient = s.result /\ leaves(s).rest = s.lhs
             /\ taken(s) \in S /\ passed(s) \in S
             /\ taken(s).lhs = u128_sub(s.lhs, s.divisor) /\ passed(s).lhs = s.lhs
             /\ taken(s).divisor = u128_shr(s.divisor, 1)
             /\ passed(s).divisor = u128_shr(s.divisor, 1)
             /\ taken(s).current = u128_shr(s.current, 1)
             /\ passed(s).current = u128_shr(s.current, 1)
             /\ taken(s).result = u128_or(s.result, s.current) /\ passed(s).result = s.result
             /\ Zeroed(s) <=> UValue(s.current) = 0
             /\ Fits(s) <=> UValue(s.lhs) >= UValue(s.divisor)
             /\ UValue(s.current) \in Nat /\ UValue(s.lhs) \in Nat
             /\ UValue(s.divisor) \in Nat /\ UValue(s.result) \in Nat
  <2>1. s.lhs \in Wide /\ s.divisor \in Wide /\ s.current \in Wide /\ s.result \in Wide
    OBVIOUS
  <2>2. /\ u128_sub(s.lhs, s.divisor) \in Wide /\ u128_or(s.result, s.current) \in Wide
        /\ u128_shr(s.divisor, 1) \in Wide /\ u128_shr(s.current, 1) \in Wide
    BY <2>1, DifferenceFacts, BitsAreExact, ShrOne
  <2>3. leaves(s) \in R /\ leaves(s).quotient = s.result /\ leaves(s).rest = s.lhs
    BY <2>1
  <2>4. /\ taken(s) \in S
        /\ taken(s).lhs = u128_sub(s.lhs, s.divisor)
        /\ taken(s).divisor = u128_shr(s.divisor, 1)
        /\ taken(s).current = u128_shr(s.current, 1)
        /\ taken(s).result = u128_or(s.result, s.current)
    BY <2>1, <2>2
  <2>5. /\ passed(s) \in S
        /\ passed(s).lhs = s.lhs
        /\ passed(s).divisor = u128_shr(s.divisor, 1)
        /\ passed(s).current = u128_shr(s.current, 1)
        /\ passed(s).result = s.result
    BY <2>1, <2>2
  <2>6. Zeroed(s) <=> UValue(s.current) = 0
    BY <2>1, UnsignedZero, OrderFacts
  <2>7. Fits(s) <=> UValue(s.lhs) >= UValue(s.divisor)
    BY <2>1, OrderIsExact DEF OrderExact
  <2>8. \A v \in Wide : UValue(v) \in Nat
    BY Sizes, ValueFacts
  <2>. HIDE DEF S, R, leaves, taken, passed, Zeroed, Fits
  <2>. QED  BY <2>1, <2>3, <2>4, <2>5, <2>6, <2>7, <2>8
<1>. HIDE DEF S, R, leaves, taken, passed, Zeroed, Fits
<1>3. Decreases(S, Stop, after, measure)
  <2>1. measure \in [S -> Nat]
    BY <1>2
  <2>2. ASSUME NEW s \in S \ Stop
        PROVE  after[s] \in S /\ measure[after[s]] < measure[s]
    <3>1. PICK c \in Nat : c = UValue(s.current) /\ c # 0 /\ s \in S /\ s.current \in Wide
      BY <1>2
    <3>2. after[s] \in {taken(s), passed(s)} /\ taken(s) \in S /\ passed(s) \in S
      BY <1>2, <3>1
    <3>3. after[s] \in S /\ after[s].current = u128_shr(s.current, 1)
      BY <1>2, <3>1, <3>2
    <3>4. UValue(u128_shr(s.current, 1)) = c \div 2
      BY <3>1, ShrOne
    <3>5. c \div 2 < c
      BY <3>1, Half
    <3>6. measure[after[s]] = c \div 2 /\ measure[s] = c
      <4>. HIDE DEF after
      <4>. QED  BY <3>1, <3>3, <3>4
    <3>. QED  BY <3>3, <3>5, <3>6
  <2>. HIDE DEF Stop, after, measure
  <2>. QED  BY <2>1, <2>2 DEF Decreases
<1>4. ended \in [S -> R]
  BY <1>2
<1>5. \E f : Loop(f)
  <2>1. PICK f : Loops(f, S, R, Stop, after, ended)
    <3>. HIDE DEF Stop, after, measure, ended
    <3>. QED  BY <1>3, <1>4, LoopExists
  <2>2. ASSUME NEW s \in S
        PROVE  f[s] = IF Zeroed(s) THEN leaves(s)
                      ELSE IF Fits(s) THEN f[taken(s)] ELSE f[passed(s)]
    <3>1. s \in Stop <=> Zeroed(s)
      BY DEF Stop
    <3>2. ended[s] = leaves(s) /\ after[s] = IF Fits(s) THEN taken(s) ELSE passed(s)
      BY DEF ended, after
    <3>. HIDE DEF Stop, ended, after
    <3>. QED  BY <2>1, <3>1, <3>2 DEF Loops
  <2>3. Loop(f)
    <3>. HIDE DEF Stop, after, ended
    <3>. QED  BY <2>1, <2>2 DEF Loops
  <2>. HIDE DEF Loop
  <2>. QED  BY <2>3
<1>. DEFINE go == CHOOSE f : Loop(f)
<1>6. Loop(go)
  <2>. HIDE DEF Loop
  <2>. QED  BY <1>5
<1>. DEFINE start == Of(lhs, top.divisor, top.current, UINT128(0))
<1>7. Subtracted(lhs, top) = go[start]
  BY DEF Subtracted, S, Zeroed, Fits, leaves, taken, passed
<1>. HIDE DEF go
<1>8. \A s \in S : go[s] = IF Zeroed(s) THEN leaves(s)
                           ELSE IF Fits(s) THEN go[taken(s)] ELSE go[passed(s)]
  BY <1>6
<1>. DEFINE Balanced(s) == UValue(s.result) * n + UValue(s.lhs) = ul
            Ended(s) == /\ UValue(s.current) = 0
                        /\ Balanced(s) /\ UValue(s.lhs) < n
            At(s, k) == /\ UValue(s.current) = Pow2[k]
                        /\ UValue(s.divisor) = n * Pow2[k]
                        /\ Balanced(s)
                        /\ UValue(s.lhs) < 2 * (n * Pow2[k])
                        /\ \E h \in Nat : UValue(s.result) = h * Pow2[k + 1]
            J == {s \in S : Ended(s) \/ \E k \in Nat : At(s, k)}
            Exact(r) == UValue(r.quotient) * n + UValue(r.rest) = ul /\ UValue(r.rest) < n
            Good == {s \in S : go[s] \in R /\ Exact(go[s])}
\* The step: what is left fits once or not at all.
<1>9. ASSUME NEW s \in S, NEW k \in Nat, At(s, k)
      PROVE  s \notin Stop /\ \E t \in S : t = after[s] /\ t \in J /\ go[s] = go[t]
  <2>1. PICK p \in Nat \ {0}, d \in Nat, l \in Nat, q \in Nat, h \in Nat :
           /\ p = Pow2[k] /\ d = n * p /\ UValue(s.current) = p /\ UValue(s.divisor) = d
           /\ l = UValue(s.lhs) /\ q = UValue(s.result)
           /\ q = h * (2 * p) /\ q * n + l = ul /\ l < 2 * d /\ Pow2[k + 1] = 2 * p
    <3>1. Pow2[k] \in Nat \ {0} /\ Pow2[k + 1] = 2 * Pow2[k] /\ n * Pow2[k] \in Nat
      BY Powers
    <3>2. UValue(s.lhs) \in Nat /\ UValue(s.result) \in Nat
      BY <1>2
    <3>. QED  BY <1>9, <3>1, <3>2
  <2>2. s \notin Stop /\ ~Zeroed(s)
    BY <1>2, <2>1
  <2>3. \A t \in S : /\ UValue(t.current) = p \div 2 /\ UValue(t.divisor) = d \div 2
                     /\ Balanced(t) /\ UValue(t.lhs) < d
                     /\ \E g \in Nat : UValue(t.result) = g * p
                     => t \in J
    <3>1. SUFFICES ASSUME NEW t \in S, UValue(t.current) = p \div 2, UValue(t.divisor) = d \div 2,
                          Balanced(t), UValue(t.lhs) < d,
                          NEW g \in Nat, UValue(t.result) = g * p
                   PROVE  t \in J
      BY Zenon
    <3>2. CASE k = 0
      <4>1. p = 1 /\ p \div 2 = 0 /\ d = n
        BY <2>1, <3>2, Powers, HalfOf
      <4>2. Ended(t)
        BY <3>1, <4>1
      <4>. QED  BY <3>1, <4>2
    <3>3. CASE k # 0
      <4>1. PICK i \in Nat : k = i + 1
        <5>1. k - 1 \in Nat /\ k = (k - 1) + 1
          BY <3>3
        <5>. QED  BY <5>1
      <4>2. PICK c \in Nat, e \in Nat : c = Pow2[i] /\ p = 2 * c /\ e = n * c /\ d = 2 * e
        <5>1. Pow2[i] \in Nat /\ Pow2[i + 1] = 2 * Pow2[i]
          BY Powers
        <5>2. p = 2 * Pow2[i]
          BY <2>1, <4>1, <5>1
        <5>3. n * (2 * Pow2[i]) = 2 * (n * Pow2[i]) /\ n * Pow2[i] \in Nat
          BY <5>1
        <5>. QED  BY <2>1, <5>1, <5>2, <5>3
      <4>3. p \div 2 = c /\ d \div 2 = e
        BY <4>2, HalfOf
      <4>4. At(t, i)
        BY <2>1, <3>1, <4>1, <4>2, <4>3
      <4>. QED  BY <3>1, <4>4
    <3>. QED  BY <3>2, <3>3
  <2>4. s.divisor \in Wide /\ s.current \in Wide /\ s.lhs \in Wide /\ s.result \in Wide
    BY <1>2
  <2>5. UValue(u128_shr(s.divisor, 1)) = d \div 2 /\ UValue(u128_shr(s.current, 1)) = p \div 2
    BY <2>1, <2>4, ShrOne
  <2>6. CASE Fits(s)
    <3>1. l >= d
      BY <1>2, <2>1, <2>6
    <3>2. UValue(u128_sub(s.lhs, s.divisor)) = l - d
      <4>1. PICK w \in Nat \ {0}, r \in Int : w = WideSize /\ r = UValue(u128_sub(s.lhs, s.divisor))
                                              /\ r \in 0 .. w - 1 /\ l \in 0 .. w - 1
        BY <2>1, <2>4, DifferenceFacts, Sizes, ValueFacts
      <4>2. PICK z \in Int : l - d = r + z * w
        <5>1. Alike(UValue(s.lhs) - UValue(s.divisor), UValue(u128_sub(s.lhs, s.divisor)))
          BY <2>4, DifferenceFacts
        <5>2. Alike(l - d, r)
          BY <2>1, <4>1, <5>1, Zenon
        <5>. QED  BY <4>1, <5>2 DEF Alike
      <4>3. z >= 1 => z * w >= w
        BY <4>1, ProductSign
      <4>4. z <= -1 => z * w <= -w
        BY <4>1, ProductSign
      <4>5. z = 0 => z * w = 0
        BY <4>1
      <4>6. z * w \in Int
        BY <4>1
      <4>7. r = l - d
        BY ONLY <2>1, <3>1, <4>1, <4>2, <4>3, <4>4, <4>5, <4>6, z \in Int
      <4>. QED  BY <4>1, <4>7
    <3>3. UValue(u128_or(s.result, s.current)) = q + p
      <4>1. UValue(u128_or(s.result, s.current)) = BitOr(q, p)
        <5>1. UValue(u128_or(s.result, s.current)) = BitOr(UValue(s.result), UValue(s.current))
          BY <2>4, BitsAreExact
        <5>. QED  BY <2>1, <5>1, Zenon
      <4>2. p \in 0 .. Pow2[k + 1] - 1 /\ k + 1 \in Nat
        BY <2>1
      <4>3. BitOr(h * Pow2[k + 1], p) = h * Pow2[k + 1] + p
        BY <4>2, OrSum
      <4>. QED  BY <2>1, <4>1, <4>3
    <3>. DEFINE t == taken(s)
    <3>4. /\ t \in S /\ t = after[s] /\ go[s] = go[t]
          /\ UValue(t.lhs) = l - d /\ UValue(t.result) = q + p
          /\ UValue(t.divisor) = d \div 2 /\ UValue(t.current) = p \div 2
      BY <1>2, <1>8, <2>2, <2>5, <2>6, <3>2, <3>3
    <3>. HIDE DEF t, after, Stop
    <3>5. Balanced(t)
      <4>1. (q + p) * n + (l - d) = q * n + l
        <5>1. (q + p) * n = q * n + n * p /\ q * n \in Int /\ n * p \in Int
          BY <2>1
        <5>. QED  BY <2>1, <5>1
      <4>. QED  BY <2>1, <3>4, <4>1
    <3>6. l - d < d
      BY <2>1
    <3>7. q + p = (2 * h + 1) * p /\ 2 * h + 1 \in Nat
      <4>1. (2 * h + 1) * p = h * (2 * p) + p
        BY ONLY h \in Nat, p \in Nat
      <4>. QED  BY <2>1, <4>1
    <3>8. t \in J
      <4>. HIDE DEF J, Balanced
      <4>. QED  BY <2>3, <3>4, <3>5, <3>6, <3>7
    <3>. HIDE DEF J
    <3>. QED  BY <2>2, <3>4, <3>8
  <2>7. CASE ~Fits(s)
    <3>1. l < d
      BY <1>2, <2>1, <2>7
    <3>. DEFINE t == passed(s)
    <3>2. /\ t \in S /\ t = after[s] /\ go[s] = go[t]
          /\ UValue(t.lhs) = l /\ UValue(t.result) = q
          /\ UValue(t.divisor) = d \div 2 /\ UValue(t.current) = p \div 2
      BY <1>2, <1>8, <2>1, <2>2, <2>5, <2>7
    <3>. HIDE DEF t, after, Stop
    <3>3. Balanced(t)
      BY <2>1, <3>2
    <3>4. q = (2 * h) * p /\ 2 * h \in Nat
      BY <2>1
    <3>5. t \in J
      <4>. HIDE DEF J, Balanced
      <4>. QED  BY <2>3, <3>1, <3>2, <3>3, <3>4
    <3>. HIDE DEF J
    <3>. QED  BY <2>2, <3>2, <3>5
  <2>. QED  BY <2>6, <2>7
<1>10. ASSUME NEW s \in S, Ended(s)
       PROVE  s \in Stop /\ s \in Good
  <2>1. Zeroed(s)
    BY <1>2, <1>10
  <2>2. /\ go[s] = leaves(s) /\ leaves(s) \in R
        /\ leaves(s).quotient = s.result /\ leaves(s).rest = s.lhs
    BY <1>2, <1>8, <2>1
  <2>. QED  BY <1>10, <2>1, <2>2
<1>11. \A s \in J \cap Stop : s \in Good
  <2>1. TAKE s \in J \cap Stop
  <2>2. s \in S /\ s \in Stop /\ (Ended(s) \/ \E k \in Nat : At(s, k))
    OBVIOUS
  <2>. HIDE DEF At, Ended, Stop, Good
  <2>. QED  BY <1>9, <1>10, <2>2
<1>12. \A s \in J \ Stop : after[s] \in J /\ (after[s] \in Good => s \in Good)
  <2>1. TAKE s \in J \ Stop
  <2>2. s \in S /\ s \notin Stop /\ (Ended(s) \/ \E k \in Nat : At(s, k))
    OBVIOUS
  <2>3. PICK k \in Nat : At(s, k)
    <3>. HIDE DEF At, Ended, Stop, Good
    <3>. QED  BY <1>10, <2>2
  <2>4. PICK t \in S : t = after[s] /\ t \in J /\ go[s] = go[t]
    <3>. HIDE DEF At, Ended, Stop, Good, J, after
    <3>. QED  BY <1>9, <2>2, <2>3
  <2>5. t \in Good => s \in Good
    <3>. HIDE DEF J, after, Stop
    <3>. QED  BY <2>2, <2>4
  <2>. HIDE DEF J, after, Stop, Good
  <2>. QED  BY <2>4, <2>5
<1>13. J \in SUBSET S
  OBVIOUS
<1>14. J \subseteq Good
  <2>. HIDE DEF J, Good, Stop, after, measure
  <2>. QED  BY <1>3, <1>11, <1>12, <1>13, Induction
<1>15. /\ start \in S /\ start.lhs = lhs /\ start.divisor = top.divisor
       /\ start.current = top.current /\ start.result = UINT128(0)
  BY UnsignedZero DEF S
<1>16. At(start, j)
  <2>. HIDE DEF start
  <2>1. 0 * n + ul = ul /\ 0 * Pow2[j + 1] = 0
    BY <1>1, Powers
  <2>. QED  BY <1>1, <1>15, <2>1, UnsignedZero
<1>17. go[start] \in R /\ Exact(go[start])
  <2>1. start \in J
    <3>. HIDE DEF start, At
    <3>. QED  BY <1>15, <1>16
  <2>. HIDE DEF start, J, Exact
  <2>. QED  BY <1>14, <2>1
<1>. HIDE DEF start
<1>. QED  BY <1>1, <1>7, <1>17 DEF R

-----------------------------------------------------------------------------
(* Quotients and rests.                                                    *)

LEMMA LongDivisionIs ==
    ASSUME NEW lhs \in Wide, NEW rhs \in Wide, UValue(rhs) > 0, UValue(rhs) <= UValue(lhs),
           Orderly(lhs, rhs)
    PROVE  LET r == LongDivision(lhs, rhs)
           IN  /\ r \in [quotient : Wide, rest : Wide]
               /\ UValue(r.quotient) = UValue(lhs) \div UValue(rhs)
               /\ UValue(r.rest) = UValue(lhs) % UValue(rhs)
<1>1. \A v \in Wide : UValue(v) \in Nat
  BY Sizes, ValueFacts
<1>2. PICK n \in Nat : n = UValue(rhs) /\ n > 0
  BY <1>1
<1>3. PICK top \in [divisor : Wide, current : Wide] : top = Doubled(lhs, rhs)
  BY DoubledIs
<1>4. PICK j \in Nat : /\ UValue(top.current) = Pow2[j]
                       /\ UValue(top.divisor) = n * Pow2[j]
                       /\ UValue(lhs) < 2 * (n * Pow2[j])
  BY <1>2, <1>3, DoubledIs
<1>5. PICK r \in [quotient : Wide, rest : Wide] :
         /\ r = Subtracted(lhs, top)
         /\ UValue(r.quotient) * n + UValue(r.rest) = UValue(lhs)
         /\ UValue(r.rest) < n
  BY <1>2, <1>4, SubtractedIs
<1>6. PICK q \in Nat, z \in Nat, u \in Int :
         q = UValue(r.quotient) /\ z = UValue(r.rest) /\ u = UValue(lhs) /\ u = q * n + z /\ z < n
  <2>1. UValue(r.quotient) \in Nat /\ UValue(r.rest) \in Nat /\ UValue(lhs) \in Int
    BY <1>1
  <2>. QED  BY <1>5, <2>1
<1>7. u \div n = q /\ u % n = z
  <2>1. n \in Nat \ {0} /\ z \in 0 .. n - 1 /\ q \in Int
    BY <1>2, <1>6
  <2>. QED  BY <1>6, <2>1, Remainder
<1>8. LongDivision(lhs, rhs) = r
  BY <1>3, <1>5 DEF LongDivision
<1>. QED  BY <1>2, <1>6, <1>7, <1>8

\* The emulated unsigned division, of a dividend no larger than the magnitude of
\* INT128_MIN or by a power of two.
LEMMA UnsignedQuotient ==
    ASSUME NEW lhs \in Wide, NEW rhs \in Wide, UValue(rhs) # 0, Orderly(lhs, rhs)
    PROVE  /\ u128_div(lhs, rhs) \in Wide /\ u128_mod(lhs, rhs) \in Wide
           /\ UValue(u128_div(lhs, rhs)) = UValue(lhs) \div UValue(rhs)
           /\ UValue(u128_mod(lhs, rhs)) = UValue(lhs) % UValue(rhs)
<1>1. PICK u \in Nat, n \in Nat \ {0} : u = UValue(lhs) /\ n = UValue(rhs)
  <2>1. UValue(lhs) \in Nat /\ UValue(rhs) \in Nat
    BY Sizes, ValueFacts
  <2>. QED  BY <2>1
<1>2. ~ u128_eq(rhs, UINT128(0))
  BY UnsignedZero, OrderFacts
<1>3. (u128_gt(rhs, lhs) <=> n > u) /\ (u128_eq(lhs, rhs) <=> u = n)
  <2>1. (u128_gt(rhs, lhs) <=> UValue(lhs) < UValue(rhs))
        /\ (u128_eq(lhs, rhs) <=> UValue(lhs) = UValue(rhs))
    BY OrderFacts
  <2>. QED  BY <1>1, <2>1
<1>4. CASE n > u
  <2>1. u = 0 * n + u /\ u \in 0 .. n - 1 /\ u \in Int
    BY <1>4
  <2>2. u \div n = 0 /\ u % n = u
    BY <2>1, Remainder
  <2>3. u128_div(lhs, rhs) = UINT128(0) /\ u128_mod(lhs, rhs) = lhs
    BY <1>2, <1>3, <1>4 DEF u128_div, u128_mod
  <2>. QED  BY <1>1, <2>2, <2>3, UnsignedZero
<1>5. CASE u = n
  <2>1. u = 1 * n + 0 /\ 0 \in 0 .. n - 1 /\ u \in Int
    BY <1>5
  <2>2. u \div n = 1 /\ u % n = 0
    BY <2>1, Remainder
  <2>3. u128_div(lhs, rhs) = UINT128(1) /\ u128_mod(lhs, rhs) = UINT128(0)
    BY <1>2, <1>3, <1>5 DEF u128_div, u128_mod
  <2>. QED  BY <1>1, <2>2, <2>3, UnsignedZero, UnsignedOne
<1>6. CASE n < u
  <2>1. /\ u128_div(lhs, rhs) = LongDivision(lhs, rhs).quotient
        /\ u128_mod(lhs, rhs) = LongDivision(lhs, rhs).rest
    BY <1>2, <1>3, <1>6 DEF u128_div, u128_mod
  <2>2. UValue(rhs) > 0 /\ UValue(rhs) <= UValue(lhs)
    BY <1>1, <1>6
  <2>3. PICK r \in [quotient : Wide, rest : Wide] :
           /\ r = LongDivision(lhs, rhs)
           /\ UValue(r.quotient) = UValue(lhs) \div UValue(rhs)
           /\ UValue(r.rest) = UValue(lhs) % UValue(rhs)
    BY <2>2, LongDivisionIs
  <2>. QED  BY <2>1, <2>3
<1>. QED  BY <1>4, <1>5, <1>6

\* el_i128_abs_u128: the magnitude of a number.
LEMMA Magnitude ==
    ASSUME NEW v \in Wide
    PROVE  /\ i128_abs_u128(v) \in Wide /\ IValue(v) \in Int
           /\ UValue(i128_abs_u128(v)) = Abs(IValue(v)) /\ Abs(IValue(v)) \in Nat
           /\ 2 * Abs(IValue(v)) <= WideSize
           /\ Abs(IValue(v)) = IF IValue(v) < 0 THEN -IValue(v) ELSE IValue(v)
<1>1. i128_neg(v) \in Wide
  BY NegFacts
<1>2. i128_abs_u128(v) \in Wide
  BY <1>1 DEF i128_abs_u128
<1>3. UValue(i128_abs_u128(v)) = IF IValue(v) < 0 THEN -IValue(v) ELSE IValue(v)
  BY SumsAreExact DEF SumsExact
<1>4. PICK i \in Int, w \in Nat : i = IValue(v) /\ w = WideSize /\ 2 * i >= -w /\ 2 * i < w
  BY ValueFacts, Sizes
<1>5. Abs(i) \in Nat /\ 2 * Abs(i) <= w
  BY <1>4 DEF Abs
<1>. QED  BY <1>2, <1>3, <1>4, <1>5 DEF Abs

\* The emulated signed division, of any dividend: rounded towards zero, the rest of
\* the sign of the dividend.
LEMMA SignedQuotient ==
    ASSUME NEW lhs \in Wide, NEW rhs \in Wide, UValue(rhs) # 0
    PROVE  LET q == Quotient(IValue(lhs), IValue(rhs))
           IN  /\ Holds(i128_div(lhs, rhs), q)
               /\ Holds(i128_mod(lhs, rhs), IValue(lhs) - IValue(rhs) * q)
<1>1. PICK i \in Int, n \in Int, a \in Nat, b \in Nat :
         /\ i = IValue(lhs) /\ n = IValue(rhs) /\ a = Abs(i) /\ b = Abs(n)
         /\ a = (IF i < 0 THEN -i ELSE i) /\ b = (IF n < 0 THEN -n ELSE n)
         /\ a = UValue(i128_abs_u128(lhs)) /\ b = UValue(i128_abs_u128(rhs))
         /\ 2 * a <= WideSize
         /\ i128_abs_u128(lhs) \in Wide /\ i128_abs_u128(rhs) \in Wide
  BY Magnitude
<1>2. ~ i128_eq(rhs, INT128(0)) /\ n # 0
  <2>1. rhs # INT128(0)
    BY Constants
  <2>2. ~ u128_eq(rhs, INT128(0))
    BY Constants, OrderFacts
  <2>3. i128_eq(rhs, INT128(0)) <=> u128_eq(rhs, INT128(0))
    BY DEF i128_eq, u128_eq
  <2>4. i128_eq(rhs, INT128(0)) <=> n = 0
    BY <1>1, Constants, OrderFacts
  <2>. QED  BY <2>2, <2>3, <2>4
<1>3. b # 0
  BY <1>1, <1>2
<1>4. (i128_lt(lhs, INT128(0)) <=> i < 0) /\ (i128_lt(rhs, INT128(0)) <=> n < 0)
  BY <1>1, NegativeSign
<1>. DEFINE uq == u128_div(i128_abs_u128(lhs), i128_abs_u128(rhs))
            um == u128_mod(i128_abs_u128(lhs), i128_abs_u128(rhs))
<1>5. uq \in Wide /\ um \in Wide /\ UValue(uq) = a \div b /\ UValue(um) = a % b
  BY <1>1, <1>3, UnsignedQuotient DEF Orderly
<1>6. i128_div(lhs, rhs) = IF (i < 0) # (n < 0) THEN i128_neg(uq) ELSE uq
  <2>1. i128_lt(lhs, INT128(0)) \in BOOLEAN /\ i128_lt(rhs, INT128(0)) \in BOOLEAN
    BY OrderType
  <2>2. (i128_lt(lhs, INT128(0)) # i128_lt(rhs, INT128(0))) <=> ((i < 0) # (n < 0))
    BY <1>4, <2>1
  <2>. QED  BY <1>2, <2>2 DEF i128_div
<1>7. i128_mod(lhs, rhs) = IF i < 0 /\ UValue(um) # 0 THEN i128_neg(um) ELSE um
  <2>1. u128_ne(um, UINT128(0)) <=> UValue(um) # 0
    <3>. HIDE DEF um
    <3>. QED  BY <1>5, UnsignedZero, OrderFacts DEF u128_ne
  <2>. QED  BY <1>2, <1>4, <2>1 DEF i128_mod
<1>. HIDE DEF uq, um
<1>8. PICK q \in Nat, r \in Nat : q = a \div b /\ r = a % b /\ a = q * b + r
  <2>1. b \in Nat \ {0} /\ a \in Int
    BY <1>3
  <2>2. a = (a \div b) * b + (a % b) /\ a \div b \in Int /\ a % b \in 0 .. b - 1
    BY <2>1, Divided
  <2>3. a \div b >= 0
    BY <2>1
  <2>. QED  BY <2>2, <2>3
<1>9. Quotient(i, n) = IF (i < 0) # (n < 0) THEN -q ELSE q
  BY <1>1, <1>8 DEF Quotient
<1>10. \A v \in Wide : i128_neg(v) \in Wide /\ Alike(-UValue(v), UValue(i128_neg(v)))
  BY NegFacts
<1>11. Holds(i128_div(lhs, rhs), Quotient(i, n))
  <2>1. CASE (i < 0) # (n < 0)
    <3>1. i128_div(lhs, rhs) = i128_neg(uq) /\ Quotient(i, n) = -q /\ -q \in Int
      BY <1>6, <1>9, <2>1
    <3>2. UValue(uq) = q
      BY <1>5, <1>8
    <3>3. i128_neg(uq) \in Wide /\ Alike(-q, UValue(i128_neg(uq)))
      BY <1>5, <1>10, <3>2
    <3>. QED  BY <3>1, <3>3, AlikeHolds
  <2>2. CASE ~((i < 0) # (n < 0))
    <3>1. i128_div(lhs, rhs) = uq /\ Quotient(i, n) = q /\ q \in Int
      BY <1>6, <1>9, <2>2
    <3>2. UValue(uq) = q
      BY <1>5, <1>8
    <3>. QED  BY <1>5, <3>1, <3>2, AlikeHolds, AlikeSame
  <2>. QED  BY <2>1, <2>2
<1>12. i - n * Quotient(i, n) = IF i < 0 THEN -r ELSE r
  <2>1. n * Quotient(i, n) = IF i < 0 THEN -(q * b) ELSE q * b
    <3>1. CASE i < 0 /\ n < 0
      <4>1. Quotient(i, n) = q /\ n = -b
        BY <1>1, <1>9, <3>1
      <4>2. (-b) * q = -(q * b)
        BY ONLY q \in Nat, b \in Nat
      <4>. QED  BY <3>1, <4>1, <4>2
    <3>2. CASE i < 0 /\ ~(n < 0)
      <4>1. Quotient(i, n) = -q /\ n = b
        BY <1>1, <1>9, <3>2
      <4>2. b * (-q) = -(q * b)
        BY ONLY q \in Nat, b \in Nat
      <4>. QED  BY <3>2, <4>1, <4>2
    <3>3. CASE ~(i < 0) /\ n < 0
      <4>1. Quotient(i, n) = -q /\ n = -b
        BY <1>1, <1>9, <3>3
      <4>2. (-b) * (-q) = q * b
        BY ONLY q \in Nat, b \in Nat
      <4>. QED  BY <3>3, <4>1, <4>2
    <3>4. CASE ~(i < 0) /\ ~(n < 0)
      <4>1. Quotient(i, n) = q /\ n = b
        BY <1>1, <1>9, <3>4
      <4>2. b * q = q * b
        BY ONLY q \in Nat, b \in Nat
      <4>. QED  BY <3>4, <4>1, <4>2
    <3>. QED  BY <3>1, <3>2, <3>3, <3>4
  <2>2. q * b \in Int
    BY <1>8
  <2>3. a = q * b + r /\ a = IF i < 0 THEN -i ELSE i
    BY <1>1, <1>8
  <2>. QED  BY ONLY <2>1, <2>2, <2>3, i \in Int, r \in Nat
<1>13. Holds(i128_mod(lhs, rhs), i - n * Quotient(i, n))
  <2>1. UValue(um) = r
    BY <1>5, <1>8
  <2>2. CASE i < 0 /\ r # 0
    <3>1. i128_mod(lhs, rhs) = i128_neg(um)
      BY <1>7, <2>1, <2>2
    <3>2. i128_neg(um) \in Wide /\ Alike(-r, UValue(i128_neg(um))) /\ -r \in Int
      BY <1>5, <1>10, <2>1
    <3>3. i - n * Quotient(i, n) = -r
      BY <1>12, <2>2
    <3>4. Holds(i128_neg(um), -r)
      BY <3>2, AlikeHolds
    <3>. QED  BY <3>1, <3>3, <3>4
  <2>3. CASE ~(i < 0 /\ r # 0)
    <3>1. i128_mod(lhs, rhs) = um
      BY <1>7, <2>1, <2>3
    <3>2. i - n * Quotient(i, n) = r
      BY <1>12, <2>3
    <3>3. Holds(um, r)
      BY <1>5, <2>1, AlikeHolds, AlikeSame
    <3>. QED  BY <3>1, <3>2, <3>3
  <2>. QED  BY <2>2, <2>3
<1>. QED  BY <1>1, <1>11, <1>13

-----------------------------------------------------------------------------
(* The theorems of the specification.                                      *)

\* The operands of every state are integers of two limbs.
Operands == left \in Wide /\ right \in Wide

LEMMA OperandsInvariant == Spec => []Operands
<1>1. Init => Operands
  BY UnsignedZero DEF Init, Operands, Zero
<1>2. Operands /\ [Next]_vars => Operands'
  <2>1. SUFFICES ASSUME Operands, [Next]_vars
                 PROVE  Operands'
    OBVIOUS
  <2>2. CASE SecondOperand
    BY <2>1, <2>2 DEF SecondOperand, Operands
  <2>3. CASE StartConversion
    BY <2>1, <2>3 DEF StartConversion, Returns, Operands
  <2>4. CASE ConvertChar
    BY <2>1, <2>4 DEF ConvertChar, Returns, Operands
  <2>5. CASE EndConversion
    BY <2>1, <2>5 DEF EndConversion, Returns, Operands
  <2>6. CASE StartWriting
    BY <2>1, <2>6 DEF StartWriting, Operands
  <2>7. CASE WriteDigit
    BY <2>1, <2>7 DEF WriteDigit, Operands
  <2>8. CASE EndWriting
    BY <2>1, <2>8 DEF EndWriting, Operands
  <2>9. CASE UNCHANGED vars
    BY <2>1, <2>9 DEF vars, Operands
  <2>. QED  BY <2>1, <2>2, <2>3, <2>4, <2>5, <2>6, <2>7, <2>8, <2>9 DEF Next
<1>. QED  BY <1>1, <1>2, PTL DEF Spec

\* QuotientsExact of every run: el_i128_div, el_i128_mod, el_u128_div and el_u128_mod
\* (util/int128.h), for every width of the limbs.
THEOREM QuotientsAreExact == Spec => []QuotientsExact
<1>1. Operands => QuotientsExact
  <2>1. SUFFICES ASSUME left \in Wide, right \in Wide, right # Zero
                 PROVE  LET ux == UValue(left)   uy == UValue(right)
                            ix == IValue(left)   iy == IValue(right)
                            Is(v, number) == UValue(v) = number % WideSize
                        IN  /\ 2 * ux <= WideSize => /\ UValue(u128_div(left, right)) = ux \div uy
                                                     /\ UValue(u128_mod(left, right)) = ux % uy
                            /\ Is(i128_div(left, right), Quotient(ix, iy))
                            /\ Is(i128_mod(left, right), ix - iy * Quotient(ix, iy))
    BY DEF Operands, QuotientsExact
  <2>2. UValue(right) # 0
    <3>1. ~ u128_eq(right, Zero)
      <4>1. Zero \in Wide
        BY UnsignedZero DEF Zero
      <4>. QED  BY <2>1, <4>1, ValueFacts DEF u128_eq
    <3>. QED  BY <2>1, <3>1, UnsignedZero, OrderFacts DEF Zero
  <2>3. Holds(i128_div(left, right), Quotient(IValue(left), IValue(right)))
    BY <2>1, <2>2, SignedQuotient
  <2>4. Holds(i128_mod(left, right),
              IValue(left) - IValue(right) * Quotient(IValue(left), IValue(right)))
    BY <2>1, <2>2, SignedQuotient
  <2>5. 2 * UValue(left) <= WideSize
           => /\ UValue(u128_div(left, right)) = UValue(left) \div UValue(right)
              /\ UValue(u128_mod(left, right)) = UValue(left) % UValue(right)
    BY <2>1, <2>2, UnsignedQuotient DEF Orderly
  <2>. QED  BY <2>3, <2>4, <2>5 DEF Holds
<1>. QED  BY <1>1, OperandsInvariant, PTL

\* ArithmeticExact of every run: comparisons, sums, products, bit operations and shifts
\* of the emulated integers (util/int128.h), for every width of the limbs.
THEOREM ArithmeticIsExact == Spec => []ArithmeticExact
<1>1. Operands => ArithmeticExact
  <2>1. SUFFICES ASSUME left \in Wide, right \in Wide
                 PROVE  ArithmeticExact
    BY DEF Operands
  <2>2. OrderExact(left, right) /\ SumsExact(left, right) /\ ProductsExact(left, right)
    BY <2>1, OrderIsExact, SumsAreExact, ProductsAreExact
  <2>3. /\ Holds(u128_and(left, right), BitAnd(UValue(left), UValue(right)))
        /\ Holds(u128_or(left, right), BitOr(UValue(left), UValue(right)))
        /\ Holds(u128_xor(left, right), BitXor(UValue(left), UValue(right)))
    BY <2>1, BitsAreExact
  <2>4. PICK n \in Nat : n = UValue(right)
    BY <2>1, ValueFacts, Sizes
  <2>5. Holds(u128_shl(left, n), UValue(left) * Pow2[n])
    BY <2>1, ShlIsExact
  <2>6. Holds(u128_shr(left, n), UValue(left) \div Pow2[n])
    <3>1. u128_shr(left, n) \in Wide /\ UValue(u128_shr(left, n)) = UValue(left) \div Pow2[n]
      BY <2>1, ShrIsExact
    <3>2. UValue(left) \div Pow2[n] \in Int
      <4>1. UValue(u128_shr(left, n)) \in Int
        BY <3>1, Sizes, ValueFacts
      <4>. QED  BY <3>1, <4>1
    <3>3. Alike(UValue(left) \div Pow2[n], UValue(u128_shr(left, n)))
      BY <3>1, <3>2, AlikeSame
    <3>. QED  BY <3>1, <3>2, <3>3, AlikeHolds
  <2>7. Holds(i128_shr(left, n), IValue(left) \div Pow2[n])
    BY <2>1, SignedShrIsExact
  <2>. QED  BY <2>2, <2>3, <2>4, <2>5, <2>6, <2>7 DEF ArithmeticExact
<1>. QED  BY <1>1, OperandsInvariant, PTL

-----------------------------------------------------------------------------
(* Types and residues.                                                     *)

Size(type) == Pow2[prim_int_bits(type)]

\* A type of the binder, its width and the numbers it has.
LEMMA TypeFacts ==
    ASSUME NEW type \in IntType
    PROVE  /\ type.is_signed \in BOOLEAN
           /\ prim_int_bits(type) \in {HalfBits, LimbBits, 2 * LimbBits}
           /\ prim_int_bits(type) \in Nat \ {0} /\ prim_int_bits(type) <= 2 * LimbBits
           /\ \E half \in Nat \ {0}, c \in Nat \ {0} :
                 /\ half = Pow2[prim_int_bits(type) - 1] /\ Size(type) = 2 * half
                 /\ IF prim_int_bits(type) = 2 * LimbBits THEN WideSize = 2 * half
                    ELSE WideSize = (2 * c) * (2 * half)
<1>1. type.is_signed \in BOOLEAN /\ type.width \in IntWidth
  BY DEF IntType
<1>2. prim_int_bits(type) \in {HalfBits, LimbBits, 2 * LimbBits}
  BY <1>1 DEF prim_int_bits, IntWidth
<1>3. HalfBits \in Nat \ {0} /\ LimbBits = 2 * HalfBits
  BY HalfAssumption DEF LimbBits
<1>4. PICK b \in Nat, i \in Nat, d \in Nat :
         b = prim_int_bits(type) /\ b = i + 1 /\ 2 * LimbBits = b + d
  <2>1. prim_int_bits(type) - 1 \in Nat /\ 2 * LimbBits - prim_int_bits(type) \in Nat
    BY <1>2, <1>3
  <2>2. prim_int_bits(type) = (prim_int_bits(type) - 1) + 1
        /\ 2 * LimbBits = prim_int_bits(type) + (2 * LimbBits - prim_int_bits(type))
    BY <1>2, <1>3
  <2>. QED  BY <1>2, <1>3, <2>1, <2>2
<1>5. PICK half \in Nat \ {0} : half = Pow2[i] /\ Pow2[b] = 2 * half
  BY <1>4, Powers
<1>6. i = b - 1
  BY <1>4
<1>7. WideSize = Pow2[b] * Pow2[d]
  BY <1>4, SizePowers, PowerSum
<1>8. CASE d = 0
  <2>1. WideSize = 2 * half
    BY <1>5, <1>7, <1>8, Powers
  <2>. QED  BY <1>1, <1>2, <1>3, <1>4, <1>5, <1>6, <1>8, <2>1 DEF Size
<1>9. CASE d # 0
  <2>1. d - 1 \in Nat /\ d = (d - 1) + 1
    BY <1>9
  <2>2. PICK c \in Nat \ {0} : c = Pow2[d - 1] /\ Pow2[d] = 2 * c
    BY <2>1, Powers
  <2>3. WideSize = (2 * c) * (2 * half)
    <3>1. (2 * half) * (2 * c) = (2 * c) * (2 * half)
      BY ONLY half \in Nat, c \in Nat
    <3>. QED  BY <1>5, <1>7, <2>2, <3>1, Zenon
  <2>4. prim_int_bits(type) # 2 * LimbBits
    BY <1>3, <1>4, <1>9
  <2>. QED  BY <1>1, <1>2, <1>3, <1>4, <1>5, <1>6, <2>3, <2>4 DEF Size
<1>. QED  BY <1>8, <1>9

\* Two integers of which a register of the type holds the same.
Congruent(type, m, n) == \E k \in Int : m = n + k * Size(type)

InRange(type, n) == IF type.is_signed THEN -Size(type) <= 2 * n /\ 2 * n < Size(type)
                    ELSE 0 <= n /\ n < Size(type)

LEMMA AlikeCongruent ==
    ASSUME NEW type \in IntType, NEW m \in Int, NEW n \in Int, Alike(m, n)
    PROVE  Congruent(type, m, n)
<1>1. PICK k \in Int : m = n + k * WideSize
  BY DEF Alike
<1>2. PICK s \in Nat, f \in Nat : s = Size(type) /\ WideSize = f * s
  <2>1. PICK half \in Nat \ {0}, c \in Nat \ {0} :
           /\ Size(type) = 2 * half
           /\ IF prim_int_bits(type) = 2 * LimbBits THEN WideSize = 2 * half
              ELSE WideSize = (2 * c) * (2 * half)
    BY TypeFacts
  <2>2. 2 * half = 1 * (2 * half) /\ 2 * half \in Nat /\ 2 * c \in Nat /\ 1 \in Nat
    OBVIOUS
  <2>. QED  BY <2>1, <2>2
<1>3. k * (f * s) = (k * f) * s /\ k * f \in Int
  BY ONLY <1>2, k \in Int
<1>. QED  BY <1>1, <1>2, <1>3 DEF Congruent

LEMMA CongruentSame ==
    ASSUME NEW type \in IntType, NEW n \in Int
    PROVE  Congruent(type, n, n)
BY AlikeSame, AlikeCongruent

LEMMA CongruentFacts ==
    ASSUME NEW type \in IntType, NEW a \in Int, NEW b \in Int, Congruent(type, a, b)
    PROVE  /\ Congruent(type, b, a)
           /\ \A c \in Int : Congruent(type, b, c) => Congruent(type, a, c)
<1>1. PICK s \in Nat : s = Size(type)
  BY TypeFacts
<1>2. PICK k \in Int : a = b + k * s
  BY <1>1 DEF Congruent
<1>3. b = a + (-k) * s /\ -k \in Int
  BY ONLY <1>1, <1>2, a \in Int, b \in Int
<1>4. ASSUME NEW c \in Int, Congruent(type, b, c)
      PROVE  Congruent(type, a, c)
  <2>1. PICK j \in Int : b = c + j * s
    BY <1>1, <1>4 DEF Congruent
  <2>2. a = c + (k + j) * s /\ k + j \in Int
    BY ONLY <1>1, <1>2, <2>1, c \in Int
  <2>. QED  BY <1>1, <2>2 DEF Congruent
<1>. QED  BY <1>1, <1>3, <1>4 DEF Congruent

\* The residue is in the range of the type, and is the only such number.
LEMMA ResidueFacts ==
    ASSUME NEW type \in IntType, NEW n \in Int
    PROVE  /\ Residue(type, n) \in Int /\ InRange(type, Residue(type, n))
           /\ Congruent(type, n, Residue(type, n))
<1>1. PICK s \in Nat \ {0}, half \in Nat \ {0} : s = Size(type) /\ s = 2 * half
  <2>1. PICK half \in Nat \ {0} : Size(type) = 2 * half
    BY TypeFacts
  <2>. QED  BY <2>1
<1>2. PICK q \in Int, r \in 0 .. s - 1 : q = n \div s /\ r = n % s /\ n = q * s + r
  BY <1>1, DividedIn
<1>6. n = q * s + r
  BY <1>2
<1>3. Residue(type, n) = IF type.is_signed /\ 2 * r >= s THEN r - s ELSE r
  BY <1>1, <1>2 DEF Residue, Size
<1>4. CASE type.is_signed /\ 2 * r >= s
  <2>1. n = (r - s) + (q + 1) * s /\ r - s \in Int /\ q + 1 \in Int
    BY ONLY <1>1, q \in Int, r \in 0 .. s - 1, <1>6
  <2>2. InRange(type, r - s)
    BY <1>1, <1>4 DEF InRange
  <2>. QED  BY <1>1, <1>3, <1>4, <2>1, <2>2 DEF Congruent
<1>5. CASE ~(type.is_signed /\ 2 * r >= s)
  <2>1. n = r + q * s /\ r \in Int
    BY ONLY <1>1, q \in Int, r \in 0 .. s - 1, <1>6
  <2>2. InRange(type, r)
    BY <1>1, <1>5 DEF InRange
  <2>. QED  BY <1>1, <1>3, <1>5, <2>1, <2>2 DEF Congruent
<1>. QED  BY <1>4, <1>5

LEMMA ResidueIs ==
    ASSUME NEW type \in IntType, NEW m \in Int, NEW n \in Int, Congruent(type, m, n)
    PROVE  /\ Residue(type, m) = Residue(type, n)
           /\ InRange(type, n) => Residue(type, m) = n
<1>1. PICK s \in Nat \ {0} : s = Size(type)
  <2>1. PICK half \in Nat \ {0} : Size(type) = 2 * half
    BY TypeFacts
  <2>. QED  BY <2>1
<1>2. ASSUME NEW a \in Int, NEW b \in Int, Congruent(type, a, b), InRange(type, a), InRange(type, b)
      PROVE  a = b
  <2>1. PICK k \in Int : a = b + k * s
    BY <1>1, <1>2 DEF Congruent
  <2>2. a - b < s /\ b - a < s
    BY <1>1, <1>2 DEF InRange
  <2>3. k >= 1 => k * s >= s
    BY <1>1, ProductSign
  <2>4. k <= -1 => k * s <= -s
    BY <1>1, ProductSign
  <2>5. k = 0 => k * s = 0
    BY <1>1
  <2>6. k * s \in Int
    BY <1>1
  <2>. QED  BY ONLY <1>1, <2>1, <2>2, <2>3, <2>4, <2>5, <2>6, k \in Int, a \in Int, b \in Int
<1>3. PICK x \in Int, y \in Int :
         /\ x = Residue(type, m) /\ y = Residue(type, n) /\ InRange(type, x) /\ InRange(type, y)
         /\ Congruent(type, m, x) /\ Congruent(type, n, y)
  BY ResidueFacts
<1>4. Congruent(type, x, n)
  <2>1. Congruent(type, x, m)
    BY <1>3, CongruentFacts
  <2>. QED  BY <2>1, CongruentFacts
<1>5. Congruent(type, x, y)
  BY <1>3, <1>4, CongruentFacts
<1>6. x = y
  BY <1>2, <1>3, <1>5
<1>7. InRange(type, n) => x = n
  BY <1>2, <1>3, <1>4
<1>. QED  BY <1>3, <1>6, <1>7

-----------------------------------------------------------------------------
(* Masks and the sign bit.                                                 *)

\* Two limbs hold a number that fits.
LEMMA ValueIs ==
    ASSUME NEW v \in Wide, NEW n \in 0 .. WideSize - 1, Alike(n, UValue(v))
    PROVE  UValue(v) = n
<1>1. PICK w \in Nat \ {0} : w = WideSize
  BY Sizes
<1>2. n \in Int /\ n = 0 * w + n /\ n \in 0 .. w - 1
  BY <1>1
<1>3. n % w = n
  BY <1>1, <1>2, Remainder
<1>4. Holds(v, n)
  BY <1>2, AlikeHolds
<1>. QED  BY <1>1, <1>3, <1>4 DEF Holds

LEMMA NotIs ==
    ASSUME NEW v \in Wide
    PROVE  i128_not(v) \in Wide /\ UValue(i128_not(v)) = WideSize - 1 - UValue(v)
<1>1. PICK m \in Nat \ {0} : m = LimbSize /\ WideSize = m * m
  BY Sizes
<1>2. PICK l \in 0 .. m - 1, h \in 0 .. m - 1 : l = v.lo /\ h = v.hi /\ UValue(v) = h * m + l
  BY <1>1, ValueFacts DEF Limb
<1>3. i128_not(v) = [lo |-> m - 1 - l, hi |-> m - 1 - h]
  BY <1>1, <1>2 DEF i128_not
<1>4. m - 1 - l \in 0 .. m - 1 /\ m - 1 - h \in 0 .. m - 1
  OBVIOUS
<1>5. i128_not(v) \in Wide /\ UValue(i128_not(v)) = (m - 1 - h) * m + (m - 1 - l)
  BY <1>1, <1>3, <1>4 DEF Wide, Limb, UValue
<1>6. (m - 1 - h) * m + (m - 1 - l) = m * m - 1 - (h * m + l)
  BY ONLY m \in Nat, l \in 0 .. m - 1, h \in 0 .. m - 1
<1>. QED  BY <1>1, <1>2, <1>5, <1>6

LEMMA AndZero == \A n \in Nat : BitAnd(n, 0) = 0
<1>. DEFINE S == Nat
            Stop == {0}
            after == [n \in Nat |-> n \div 2]
            measure == [n \in Nat |-> n]
            Good == {n \in Nat : BitAnd(n, 0) = 0}
<1>1. Decreases(S, Stop, after, measure)
  <2>1. \A n \in S \ Stop : after[n] \in S /\ measure[after[n]] < measure[n]
    BY Half
  <2>2. measure \in [S -> Nat]
    OBVIOUS
  <2>. HIDE DEF S, Stop, after, measure
  <2>. QED  BY <2>1, <2>2 DEF Decreases
<1>2. ASSUME NEW n \in Nat
      PROVE  BitAnd(n, 0) \in Nat /\ BitAnd(n, 0) = 2 * BitAnd(n \div 2, 0)
  <2>1. <<0, 0>> \notin AndOnes /\ 0 \in Nat
    BY NoOnesFromZeros
  <2>2. /\ BitByBit(AndOnes, n, 0) \in Nat
        /\ BitByBit(AndOnes, n, 0) = Bit(AndOnes, n, 0) + 2 * BitByBit(AndOnes, n \div 2, 0 \div 2)
    BY <2>1, BitByBitIs, Zenon
  <2>3. n \div 2 \in Nat
    BY Half
  <2>4. BitByBit(AndOnes, n \div 2, 0) \in Nat
    BY <2>1, <2>3, BitByBitIs, Zenon
  <2>5. Bit(AndOnes, n, 0) = 0 /\ 0 \div 2 = 0
    BY DEF Bit, AndOnes
  <2>. QED  BY <2>2, <2>4, <2>5 DEF BitAnd
<1>3. \A n \in S \cap Stop : n \in Good
  <2>1. BitAnd(0, 0) \in Nat /\ BitAnd(0, 0) = 2 * BitAnd(0 \div 2, 0) /\ 0 \div 2 = 0
    BY <1>2
  <2>2. BitAnd(0, 0) = 0
    BY <2>1
  <2>. QED  BY <2>2
<1>4. \A n \in S \ Stop : after[n] \in S /\ (after[n] \in Good => n \in Good)
  <2>1. TAKE n \in S \ Stop
  <2>2. n \in Nat /\ n \div 2 \in Nat /\ BitAnd(n, 0) = 2 * BitAnd(n \div 2, 0)
    BY <1>2, Half
  <2>. QED  BY <2>2
<1>5. S \in SUBSET S
  OBVIOUS
<1>6. S \subseteq Good
  <2>. HIDE DEF S, Stop, after, measure, Good
  <2>. QED  BY <1>1, <1>3, <1>4, <1>5, Induction
<1>. QED  BY <1>6

\* A mask of n ones leaves a number of n bits as it is.
LEMMA AndMask == \A n \in Nat : \A l \in 0 .. Pow2[n] - 1 : BitAnd(l, Pow2[n] - 1) = l
<1>. DEFINE Good == {n \in Nat : \A l \in 0 .. Pow2[n] - 1 : BitAnd(l, Pow2[n] - 1) = l}
<1>1. 0 \in Good
  <2>1. Pow2[0] = 1 /\ 0 \in Nat
    BY Powers
  <2>2. BitAnd(0, 0) = 0
    BY AndZero
  <2>. QED  BY <2>1, <2>2
<1>2. ASSUME NEW n \in Nat \ {0}, n - 1 \in Good
      PROVE  n \in Good
  <2>1. PICK i \in Nat : i = n - 1 /\ n = i + 1
    OBVIOUS
  <2>2. PICK m \in Nat \ {0} : m = Pow2[i] /\ Pow2[n] = 2 * m
    BY <2>1, Powers
  <2>3. SUFFICES ASSUME NEW l \in 0 .. 2 * m - 1
                 PROVE  BitAnd(l, 2 * m - 1) = l
    BY <2>2
  <2>4. PICK k \in 0 .. m - 1, b \in {0, 1} : k = l \div 2 /\ b = l % 2 /\ l = 2 * k + b
    <3>1. l \div 2 \in 0 .. m - 1 /\ l % 2 \in {0, 1} /\ l = 2 * (l \div 2) + (l % 2)
      OBVIOUS
    <3>. QED  BY <3>1
  <2>5. (2 * m - 1) % 2 = 1 /\ (2 * m - 1) \div 2 = m - 1 /\ 2 * m - 1 \in Nat /\ l \in Nat
    OBVIOUS
  <2>6. BitAnd(k, m - 1) = k
    BY <1>2, <2>1, <2>2
  <2>7. BitByBit(AndOnes, l, 2 * m - 1)
          = Bit(AndOnes, l, 2 * m - 1) + 2 * BitByBit(AndOnes, l \div 2, (2 * m - 1) \div 2)
    <3>1. <<0, 0>> \notin AndOnes
      BY NoOnesFromZeros
    <3>. QED  BY <2>5, <3>1, BitByBitIs, Zenon
  <2>8. Bit(AndOnes, l, 2 * m - 1) = b
    BY <2>4, <2>5 DEF Bit, AndOnes
  <2>. QED  BY <2>4, <2>5, <2>6, <2>7, <2>8 DEF BitAnd
<1>3. Nat \subseteq Good
  <2>. HIDE DEF Good
  <2>. QED  BY <1>1, <1>2, AllNumbers
<1>. QED  BY <1>3

\* It cuts every number to n bits.
LEMMA MaskCuts ==
    ASSUME NEW n \in Nat, NEW u \in Nat
    PROVE  BitAnd(u, Pow2[n] - 1) = u % Pow2[n]
<1>1. PICK p \in Nat \ {0} : p = Pow2[n]
  BY Powers
<1>2. PICK g \in Int, l \in 0 .. p - 1 : g = u \div p /\ l = u % p /\ u = g * p + l
  <2>1. u \in Int
    OBVIOUS
  <2>. QED  BY <2>1, DividedIn, Zenon
<1>3. g \in Nat
  <2>1. u = g * p + l
    BY <1>2
  <2>2. g <= -1 => g * p <= -p
    BY ProductSign
  <2>. QED  BY ONLY <2>1, <2>2, u \in Nat, g \in Int, l \in 0 .. p - 1, p \in Nat
<1>4. l \in Nat /\ 0 * p + (p - 1) = p - 1
  BY <1>1
<1>5. BitByBit(AndOnes, g * p + l, 0 * p + (p - 1))
        = BitByBit(AndOnes, g, 0) * p + BitByBit(AndOnes, l, p - 1)
  <2>1. <<0, 0>> \notin AndOnes
    BY NoOnesFromZeros
  <2>2. \A m \in Nat : \A a, b \in Nat : \A c, d \in 0 .. Pow2[m] - 1 :
           BitByBit(AndOnes, a * Pow2[m] + c, b * Pow2[m] + d)
             = BitByBit(AndOnes, a, b) * Pow2[m] + BitByBit(AndOnes, c, d)
    BY <2>1, BitByBitParts
  <2>3. p - 1 \in 0 .. p - 1
    BY ONLY p \in Nat \ {0}
  <2>4. l \in 0 .. Pow2[n] - 1 /\ p - 1 \in 0 .. Pow2[n] - 1 /\ 0 \in Nat
    BY <1>1, <2>3
  <2>5. BitByBit(AndOnes, g * Pow2[n] + l, 0 * Pow2[n] + (p - 1))
          = BitByBit(AndOnes, g, 0) * Pow2[n] + BitByBit(AndOnes, l, p - 1)
    <3>1. \A c, d \in 0 .. Pow2[n] - 1 :
             BitByBit(AndOnes, g * Pow2[n] + c, 0 * Pow2[n] + d)
               = BitByBit(AndOnes, g, 0) * Pow2[n] + BitByBit(AndOnes, c, d)
      <4>1. \A a, b \in Nat : \A c, d \in 0 .. Pow2[n] - 1 :
               BitByBit(AndOnes, a * Pow2[n] + c, b * Pow2[n] + d)
                 = BitByBit(AndOnes, a, b) * Pow2[n] + BitByBit(AndOnes, c, d)
        BY <2>2, ZenonT(30)
      <4>. QED  BY <1>3, <2>4, <4>1, ZenonT(30)
    <3>. QED  BY <2>4, <3>1, ZenonT(30)
  <2>. QED  BY <1>1, <2>5, Zenon
<1>6. BitByBit(AndOnes, g, 0) = 0
  BY <1>3, AndZero DEF BitAnd
<1>7. BitByBit(AndOnes, l, p - 1) = l
  BY <1>1, <1>2, AndMask DEF BitAnd
<1>8. 0 * p + l = l
  BY <1>1, <1>4
<1>9. BitByBit(AndOnes, g * p + l, p - 1) = l
  BY <1>4, <1>5, <1>6, <1>7, <1>8
<1>10. u = g * p + l
  BY <1>2
<1>11. BitByBit(AndOnes, u, p - 1) = l
  BY <1>9, <1>10, Zenon
<1>. QED  BY <1>1, <1>2, <1>11 DEF BitAnd

\* The highest of the bits alone.
LEMMA HighestBit ==
    ASSUME NEW n \in Nat, NEW u \in 0 .. 2 * Pow2[n] - 1
    PROVE  BitAnd(u, Pow2[n]) = IF u >= Pow2[n] THEN Pow2[n] ELSE 0
<1>1. PICK p \in Nat \ {0} : p = Pow2[n]
  BY Powers
<1>2. PICK t \in {0, 1}, l \in 0 .. p - 1 : u = t * p + l /\ (u >= p <=> t = 1)
  <2>1. CASE u >= p
    <3>1. u - p \in 0 .. p - 1 /\ u = 1 * p + (u - p)
      BY <1>1, <2>1
    <3>. QED  BY <2>1, <3>1
  <2>2. CASE ~(u >= p)
    <3>1. u \in 0 .. p - 1 /\ u = 0 * p + u
      BY <1>1, <2>2
    <3>. QED  BY <2>2, <3>1
  <2>. QED  BY <2>1, <2>2
<1>3. l \in Nat /\ t \in Nat /\ 1 \in Nat /\ 0 \in 0 .. p - 1 /\ 1 * p + 0 = p
  BY <1>1
<1>4. <<0, 0>> \notin AndOnes
  BY NoOnesFromZeros
<1>5. BitByBit(AndOnes, t * p + l, 1 * p + 0)
        = BitByBit(AndOnes, t, 1) * p + BitByBit(AndOnes, l, 0)
  BY <1>1, <1>3, <1>4, BitByBitParts
<1>6. BitByBit(AndOnes, l, 0) = 0
  BY <1>3, AndZero DEF BitAnd
<1>7. BitByBit(AndOnes, t, 1) = t
  <2>1. BitByBit(AndOnes, t, 1) = Bit(AndOnes, t, 1) + 2 * BitByBit(AndOnes, t \div 2, 1 \div 2)
    BY <1>3, <1>4, BitByBitIs, Zenon
  <2>2. t \div 2 = 0 /\ 1 \div 2 = 0 /\ Bit(AndOnes, t, 1) = t
    BY DEF Bit, AndOnes
  <2>3. BitByBit(AndOnes, 0, 0) = 0
    BY AndZero DEF BitAnd
  <2>. QED  BY <2>1, <2>2, <2>3
<1>8. BitByBit(AndOnes, u, p) = t * p
  BY <1>2, <1>3, <1>5, <1>6, <1>7
<1>9. t * p = IF t = 1 THEN p ELSE 0
  BY <1>1
<1>. QED  BY <1>1, <1>2, <1>8, <1>9 DEF BitAnd

\* The constants of the wrapping: a mask, and one bit.
LEMMA OneBit ==
    ASSUME NEW n \in Nat, Pow2[n] < WideSize
    PROVE  /\ u128_shl(UINT128(1), n) \in Wide /\ UValue(u128_shl(UINT128(1), n)) = Pow2[n]
           /\ u128_sub(u128_shl(UINT128(1), n), UINT128(1)) \in Wide
           /\ UValue(u128_sub(u128_shl(UINT128(1), n), UINT128(1))) = Pow2[n] - 1
<1>1. PICK p \in Nat \ {0}, w \in Nat : p = Pow2[n] /\ w = WideSize /\ p < w
  BY Powers, Sizes
<1>. DEFINE v == u128_shl(UINT128(1), n)
            r == u128_sub(v, UINT128(1))
<1>2. v \in Wide /\ Alike(1 * p, UValue(v))
  BY <1>1, UnsignedOne, ShlIsExact
<1>3. 1 * p = p /\ p \in 0 .. WideSize - 1 /\ p - 1 \in 0 .. WideSize - 1
  BY <1>1
<1>. HIDE DEF v
<1>4. UValue(v) = p
  BY <1>2, <1>3, ValueIs
<1>5. r \in Wide /\ Alike(p - 1, UValue(r))
  BY <1>2, <1>4, UnsignedOne, DifferenceFacts
<1>. HIDE DEF r
<1>6. UValue(r) = p - 1
  BY <1>3, <1>5, ValueIs
<1>. QED  BY <1>1, <1>2, <1>4, <1>5, <1>6 DEF v, r

\* The bit operators give no more than their operands have.
LEMMA BitsAre ==
    ASSUME NEW v \in Wide, NEW w \in Wide
    PROVE  /\ u128_and(v, w) \in Wide /\ UValue(u128_and(v, w)) = BitAnd(UValue(v), UValue(w))
           /\ u128_or(v, w) \in Wide /\ UValue(u128_or(v, w)) = BitOr(UValue(v), UValue(w))
           /\ u128_xor(v, w) \in Wide /\ UValue(u128_xor(v, w)) = BitXor(UValue(v), UValue(w))
<1>1. AndOnes \in {AndOnes, OrOnes, XorOnes} /\ OrOnes \in {AndOnes, OrOnes, XorOnes}
      /\ XorOnes \in {AndOnes, OrOnes, XorOnes}
  OBVIOUS
<1>2. u128_and(v, w) \in Wide /\ UValue(u128_and(v, w)) = BitAnd(UValue(v), UValue(w))
  BY <1>1, WideBits, Zenon DEF u128_and, i128_and, BitAnd
<1>3. u128_or(v, w) \in Wide /\ UValue(u128_or(v, w)) = BitOr(UValue(v), UValue(w))
  BY <1>1, WideBits, Zenon DEF u128_or, i128_or, BitOr
<1>4. u128_xor(v, w) \in Wide /\ UValue(u128_xor(v, w)) = BitXor(UValue(v), UValue(w))
  BY <1>1, WideBits, Zenon DEF u128_xor, i128_xor, BitXor
<1>. QED  BY <1>2, <1>3, <1>4

\* The signed reading of two limbs.
LEMMA SignedReading ==
    ASSUME NEW v \in Wide
    PROVE  IValue(v) = IF 2 * UValue(v) >= WideSize THEN UValue(v) - WideSize ELSE UValue(v)
<1>1. PICK w \in Nat, u \in Nat, i \in Int :
         /\ w = WideSize /\ u = UValue(v) /\ i = IValue(v) /\ u < w
         /\ i = u \/ i = u - w
         /\ 2 * i >= -w /\ 2 * i < w
  BY ValueFacts, Sizes
<1>2. i = IF 2 * u >= w THEN u - w ELSE u
  BY <1>1
<1>. QED  BY <1>1, <1>2

-----------------------------------------------------------------------------
(* Bringing a constant into a type.                                        *)

LEMMA NarrowWrapped ==
    ASSUME NEW type \in IntType, prim_int_bits(type) # 2 * LimbBits, NEW v \in Wide
    PROVE  /\ Wrapped(type, v) \in Wide
           /\ IValue(Wrapped(type, v)) = Residue(type, UValue(v))
<1>. DEFINE bits == prim_int_bits(type)
            mask == int_bit_mask(bits)
            uv   == u128_and(v, mask)
            sign == u128_shl(UINT128(1), bits - 1)
            top  == u128_and(uv, sign)
            ext  == u128_or(uv, u128_not(mask))
<1>1. PICK half \in Nat \ {0}, c \in Nat \ {0}, s \in Nat \ {0}, w \in Nat :
         /\ half = Pow2[bits - 1] /\ s = Pow2[bits] /\ w = WideSize
         /\ s = 2 * half /\ w = (2 * c) * s
  <2>1. PICK half \in Nat \ {0}, c \in Nat \ {0} :
           half = Pow2[bits - 1] /\ Size(type) = 2 * half /\ WideSize = (2 * c) * (2 * half)
    BY TypeFacts
  <2>2. 2 * half \in Nat \ {0} /\ (2 * c) * (2 * half) \in Nat
    BY <2>1
  <2>. QED  BY <2>1, <2>2 DEF Size
<1>2. bits \in Nat \ {0} /\ bits - 1 \in Nat /\ ~(bits >= 2 * LimbBits)
      /\ type.is_signed \in BOOLEAN
  <2>1. 2 * LimbBits \in Nat
    BY SizePowers
  <2>. QED  BY <2>1, TypeFacts
<1>. HIDE DEF bits
<1>3. s < w /\ half < w /\ 2 * s <= w
  <2>1. (2 * c) * s = 2 * (c * s) /\ c * s >= s /\ c * s \in Nat
    <3>1. c * s >= s
      BY ProductSign, c \in Int, c >= 1
    <3>. QED  BY ONLY <3>1, c \in Nat, s \in Nat
  <2>. QED  BY <1>1, <2>1
<1>4. mask \in Wide /\ UValue(mask) = s - 1
  BY <1>1, <1>2, <1>3, OneBit DEF int_bit_mask
<1>5. sign \in Wide /\ UValue(sign) = half
  BY <1>1, <1>2, <1>3, OneBit
<1>. HIDE DEF mask, sign
<1>6. PICK u \in Nat, r \in 0 .. s - 1 : u = UValue(v) /\ r = u % s
  <2>1. UValue(v) \in Nat
    BY ValueFacts, Sizes
  <2>2. UValue(v) % s \in 0 .. s - 1
    BY <2>1, Divided
  <2>. QED  BY <2>1, <2>2
<1>7. uv \in Wide /\ UValue(uv) = r
  <2>1. uv \in Wide /\ UValue(uv) = BitAnd(u, s - 1)
    BY <1>4, <1>6, BitsAre
  <2>2. BitAnd(u, s - 1) = u % s
    BY <1>1, <1>2, <1>6, MaskCuts
  <2>. QED  BY <1>6, <2>1, <2>2
<1>. HIDE DEF uv
<1>8. top \in Wide /\ UValue(top) = IF r >= half THEN half ELSE 0
  <2>1. top \in Wide /\ UValue(top) = BitAnd(r, half)
    BY <1>5, <1>7, BitsAre
  <2>2. r \in 0 .. 2 * half - 1
    BY <1>1
  <2>3. BitAnd(r, half) = IF r >= half THEN half ELSE 0
    BY <1>1, <1>2, <2>2, HighestBit
  <2>. QED  BY <2>1, <2>3
<1>. HIDE DEF top
<1>9. u128_ne(top, UINT128(0)) <=> r >= half
  BY <1>1, <1>8, UnsignedZero, OrderFacts DEF u128_ne
<1>10. ext \in Wide /\ UValue(ext) = w - s + r
  <2>1. u128_not(mask) \in Wide /\ UValue(u128_not(mask)) = w - 1 - (s - 1)
    BY <1>1, <1>4, NotIs DEF u128_not
  <2>2. PICK h \in Nat : h = 2 * c - 1
    BY <1>1
  <2>3. w - 1 - (s - 1) = h * s
    BY ONLY <1>1, <2>2, w \in Nat, c \in Nat, s \in Nat
  <2>4. ext \in Wide /\ UValue(ext) = BitOr(r, h * s)
    BY <1>7, <2>1, <2>3, BitsAre
  <2>5. BitOr(r, h * s) = h * s + r
    <3>1. r \in 0 .. Pow2[bits] - 1 /\ h \in Nat /\ bits \in Nat
      BY <1>1, <1>2
    <3>2. BitOr(r, h * Pow2[bits]) = h * Pow2[bits] + r
      BY <3>1, OrSum, Zenon
    <3>. QED  BY <1>1, <3>2, Zenon
  <2>6. h * s + r = w - s + r
    <3>1. h * s \in Nat
      BY <1>1, <2>2
    <3>. QED  BY <2>3, <3>1
  <2>. QED  BY <2>4, <2>5, <2>6
<1>. HIDE DEF ext
<1>11. Wrapped(type, v) = IF type.is_signed /\ u128_ne(top, UINT128(0)) THEN ext ELSE uv
  BY <1>2 DEF Wrapped, bits, mask, uv, sign, top, ext
<1>12. Residue(type, u) = IF type.is_signed /\ 2 * r >= s THEN r - s ELSE r
  BY <1>1, <1>6 DEF Residue, bits
<1>13. CASE type.is_signed /\ r >= half
  <2>1. Wrapped(type, v) = ext
    BY <1>9, <1>11, <1>13
  <2>2. IValue(ext) = r - s
    <3>1. IValue(ext) = IF 2 * (w - s + r) >= w THEN (w - s + r) - w ELSE w - s + r
      BY <1>1, <1>10, SignedReading
    <3>2. 2 * (w - s + r) >= w /\ (w - s + r) - w = r - s
      BY <1>1, <1>3, <1>13
    <3>. QED  BY <3>1, <3>2
  <2>3. 2 * r >= s
    BY <1>1, <1>13
  <2>. QED  BY <1>6, <1>10, <1>12, <1>13, <2>1, <2>2, <2>3
<1>14. CASE ~(type.is_signed /\ r >= half)
  <2>1. Wrapped(type, v) = uv
    BY <1>9, <1>11, <1>14
  <2>2. IValue(uv) = r
    <3>1. IValue(uv) = IF 2 * r >= w THEN r - w ELSE r
      BY <1>1, <1>7, SignedReading
    <3>2. ~(2 * r >= w)
      BY <1>1, <1>3
    <3>. QED  BY <3>1, <3>2
  <2>3. type.is_signed => ~(2 * r >= s)
    BY <1>1, <1>14
  <2>. QED  BY <1>6, <1>7, <1>12, <2>1, <2>2, <2>3
<1>. QED  BY <1>13, <1>14

\* The constant brought into the type stands for the number that a register of
\* the type would hold.
LEMMA WrappedIs ==
    ASSUME NEW type \in IntType, NEW v \in Wide
    PROVE  /\ Wrapped(type, v) \in Wide
           /\ Meaning(type, Wrapped(type, v)) = Residue(type, UValue(v))
<1>1. CASE prim_int_bits(type) # 2 * LimbBits
  <2>1. 2 * LimbBits \in Nat
    BY SizePowers
  <2>2. prim_int_bits(type) < 2 * LimbBits
    BY <1>1, <2>1, TypeFacts
  <2>. QED  BY <1>1, <2>2, NarrowWrapped DEF Meaning
<1>2. CASE prim_int_bits(type) = 2 * LimbBits
  <2>1. Wrapped(type, v) = v
    <3>1. 2 * LimbBits \in Nat
      BY SizePowers
    <3>. QED  BY <1>2, <3>1 DEF Wrapped
  <2>2. PICK w \in Nat : w = WideSize /\ Size(type) = w
    <3>1. Size(type) = WideSize
      BY <1>2, TypeFacts
    <3>. QED  BY <3>1, Sizes
  <2>3. /\ UValue(v) \in Int /\ IValue(v) \in Int
        /\ 0 <= UValue(v) /\ UValue(v) < w
        /\ -w <= 2 * IValue(v) /\ 2 * IValue(v) < w
    BY <2>2, ValueFacts
  <2>4. Congruent(type, UValue(v), UValue(v)) /\ Congruent(type, UValue(v), IValue(v))
    BY <2>3, CongruentSame, AlikeValues, AlikeCongruent
  <2>5. CASE type.is_signed
    <3>1. InRange(type, IValue(v))
      BY <2>2, <2>3, <2>5 DEF InRange
    <3>2. Residue(type, UValue(v)) = IValue(v)
      BY <2>3, <2>4, <3>1, ResidueIs
    <3>. QED  BY <2>1, <2>5, <3>2 DEF Meaning
  <2>6. CASE ~type.is_signed
    <3>1. InRange(type, UValue(v))
      BY <2>2, <2>3, <2>6 DEF InRange
    <3>2. Residue(type, UValue(v)) = UValue(v)
      BY <2>3, <2>4, <3>1, ResidueIs
    <3>3. ~(prim_int_bits(type) < 2 * LimbBits)
      <4>1. 2 * LimbBits \in Nat
        BY SizePowers
      <4>. QED  BY <1>2, <4>1
    <3>. QED  BY <2>1, <2>6, <3>2, <3>3 DEF Meaning
  <2>. QED  BY <2>5, <2>6
<1>. QED  BY <1>1, <1>2

-----------------------------------------------------------------------------
(* Operands and results.                                                   *)

LEMMA HoldsAlike ==
    ASSUME NEW v, NEW n \in Int, Holds(v, n)
    PROVE  v \in Wide /\ UValue(v) \in Int /\ Alike(n, UValue(v))
<1>1. PICK w \in Nat \ {0} : w = WideSize
  BY Sizes
<1>2. v \in Wide /\ UValue(v) = n % w
  BY <1>1 DEF Holds
<1>3. PICK q \in Int, r \in 0 .. w - 1 : q = n \div w /\ r = n % w /\ n = q * w + r
  BY DividedIn, Zenon
<1>4. n = r + q * w
  BY <1>3
<1>5. UValue(v) = r /\ r \in Int
  BY <1>2, <1>3
<1>6. n = UValue(v) + q * WideSize
  BY <1>1, <1>4, <1>5, Zenon
<1>. QED  BY <1>2, <1>5, <1>6 DEF Alike

\* An operand is a constant of its type: its number is one of the type, and the
\* two limbs hold it.
LEMMA OperandIs ==
    ASSUME NEW type \in IntType, NEW v \in Wide, Wrapped(type, v) = v
    PROVE  LET m == Meaning(type, v)
           IN  /\ m \in Int /\ InRange(type, m) /\ UValue(v) \in Int
               /\ Alike(m, UValue(v)) /\ Congruent(type, UValue(v), m)
               /\ m = IValue(v) \/ m = UValue(v)
<1>. DEFINE m == Meaning(type, v)
<1>1. UValue(v) \in Int /\ IValue(v) \in Int
  BY ValueFacts
<1>2. m = Residue(type, UValue(v))
  BY WrappedIs
<1>3. m = IValue(v) \/ m = UValue(v)
  BY DEF Meaning
<1>. HIDE DEF m
<1>4. m \in Int /\ InRange(type, m) /\ Congruent(type, UValue(v), m)
  BY <1>1, <1>2, ResidueFacts
<1>5. Alike(m, UValue(v))
  BY <1>1, <1>3, AlikeValues, AlikeSame
<1>. QED  BY <1>1, <1>3, <1>4, <1>5 DEF m

\* A result of which a register of the type would hold the same.
LEMMA ResultIs ==
    ASSUME NEW type \in IntType, NEW r \in Wide, NEW n \in Int, Congruent(type, UValue(r), n)
    PROVE  Meaning(type, Wrapped(type, r)) = Residue(type, n)
<1>1. UValue(r) \in Int
  BY ValueFacts
<1>2. Residue(type, UValue(r)) = Residue(type, n)
  BY <1>1, ResidueIs
<1>. QED  BY <1>2, WrappedIs

LEMMA ExactResult ==
    ASSUME NEW type \in IntType, NEW r \in Wide, NEW n \in Int, Alike(n, UValue(r))
    PROVE  Meaning(type, Wrapped(type, r)) = Residue(type, n)
<1>1. UValue(r) \in Int
  BY ValueFacts
<1>2. Alike(UValue(r), n)
  BY <1>1, AlikeFacts
<1>3. Congruent(type, UValue(r), n)
  BY <1>1, <1>2, AlikeCongruent
<1>. QED  BY <1>3, ResultIs

-----------------------------------------------------------------------------
(* The operators of arithmetic.                                            *)

LEMMA SumFolds ==
    ASSUME NEW v \in Wide, NEW w \in Wide, NEW m \in Int, NEW n \in Int,
           Alike(m, UValue(v)), Alike(n, UValue(w))
    PROVE  /\ i128_add(v, w) \in Wide /\ Alike(m + n, UValue(i128_add(v, w)))
           /\ i128_sub(v, w) \in Wide /\ Alike(m - n, UValue(i128_sub(v, w)))
           /\ i128_mul(v, w) \in Wide /\ Alike(m * n, UValue(i128_mul(v, w)))
           /\ i128_neg(v) \in Wide /\ Alike(-m, UValue(i128_neg(v)))
<1>1. /\ UValue(v) \in Int /\ IValue(v) \in Int /\ UValue(w) \in Int /\ IValue(w) \in Int
  BY ValueFacts
<1>2. Alike(UValue(v), IValue(v)) /\ Alike(UValue(w), IValue(w))
  BY AlikeValues
<1>3. Alike(m, IValue(v)) /\ Alike(n, IValue(w))
  BY <1>1, <1>2, AlikeStep
<1>4. PICK i \in Int, j \in Int : i = IValue(v) /\ j = IValue(w)
  BY <1>1
<1>5. Alike(m, i) /\ Alike(n, j)
  BY <1>3, <1>4
<1>6. Alike(-n, -j) /\ -n \in Int /\ -j \in Int
  BY <1>5, AlikeFacts
<1>7. Alike(m + n, i + j) /\ Alike(m * n, i * j) /\ Alike(-m, -i)
  BY <1>5, AlikeFacts
<1>8. Alike(m - n, i - j)
  <2>1. Alike(m + (-n), i + (-j))
    BY <1>5, <1>6, AlikeFacts
  <2>2. m + (-n) = m - n /\ i + (-j) = i - j
    OBVIOUS
  <2>. QED  BY <2>1, <2>2
<1>9. /\ Holds(i128_add(v, w), i + j) /\ Holds(i128_sub(v, w), i - j)
      /\ Holds(i128_neg(v), -i) /\ Holds(i128_mul(v, w), i * j)
  BY <1>4, SumsAreExact, ProductsAreExact DEF SumsExact, ProductsExact
<1>10. i + j \in Int /\ i - j \in Int /\ -i \in Int /\ i * j \in Int
       /\ m + n \in Int /\ m - n \in Int /\ -m \in Int /\ m * n \in Int
  OBVIOUS
<1>11. i128_add(v, w) \in Wide /\ Alike(m + n, UValue(i128_add(v, w)))
  BY <1>7, <1>9, <1>10, HoldsAlike, AlikeStep
<1>12. i128_sub(v, w) \in Wide /\ Alike(m - n, UValue(i128_sub(v, w)))
  BY <1>8, <1>9, <1>10, HoldsAlike, AlikeStep
<1>13. i128_mul(v, w) \in Wide /\ Alike(m * n, UValue(i128_mul(v, w)))
  BY <1>7, <1>9, <1>10, HoldsAlike, AlikeStep
<1>14. i128_neg(v) \in Wide /\ Alike(-m, UValue(i128_neg(v)))
  BY <1>7, <1>9, <1>10, HoldsAlike, AlikeStep
<1>. QED  BY <1>11, <1>12, <1>13, <1>14

LEMMA NotFolds ==
    ASSUME NEW v \in Wide, NEW m \in Int, Alike(m, UValue(v))
    PROVE  i128_not(v) \in Wide /\ Alike(-1 - m, UValue(i128_not(v)))
<1>1. PICK w \in Nat \ {0}, u \in Int : w = WideSize /\ u = UValue(v)
  BY Sizes, ValueFacts
<1>2. i128_not(v) \in Wide /\ UValue(i128_not(v)) = w - 1 - u
  BY <1>1, NotIs
<1>3. PICK k \in Int : m = u + k * w
  BY <1>1 DEF Alike
<1>4. -1 - m = (w - 1 - u) + (-1 - k) * w /\ -1 - k \in Int
  <2>1. (-1 - k) * w = -w - k * w /\ k * w \in Int
    BY ONLY k \in Int, w \in Nat
  <2>. QED  BY <1>3, <2>1
<1>. QED  BY <1>1, <1>2, <1>4 DEF Alike

LEMMA QuotientInt ==
    ASSUME NEW m \in Int, NEW n \in Int, n # 0
    PROVE  Quotient(m, n) \in Int /\ m - n * Quotient(m, n) \in Int
<1>1. Abs(m) \in Int /\ Abs(n) \in Nat \ {0}
  BY DEF Abs
<1>2. PICK q \in Int : q = Abs(m) \div Abs(n)
  BY <1>1, Divided
<1>3. Quotient(m, n) \in Int
  BY <1>2 DEF Quotient
<1>4. PICK p \in Int : p = Quotient(m, n)
  BY <1>3
<1>5. m - n * p \in Int
  OBVIOUS
<1>. QED  BY <1>4, <1>5

\* The count of a shift by less than the width fits the low limb.
LEMMA PowerAbove == \A k \in Nat \ {0} : 2 * k <= Pow2[k]
<1>. DEFINE Good == {k \in Nat : k + 1 <= Pow2[k]}
<1>1. 0 \in Good
  BY Powers
<1>2. ASSUME NEW k \in Nat \ {0}, k - 1 \in Good
      PROVE  k \in Good
  <2>1. PICK i \in Nat : i = k - 1 /\ k = i + 1
    OBVIOUS
  <2>2. Pow2[k] = 2 * Pow2[i] /\ Pow2[i] \in Nat
    BY <2>1, Powers
  <2>. QED  BY <1>2, <2>1, <2>2
<1>3. Nat \subseteq Good
  <2>. HIDE DEF Good
  <2>. QED  BY <1>1, <1>2, AllNumbers
<1>4. ASSUME NEW k \in Nat \ {0}
      PROVE  2 * k <= Pow2[k]
  <2>1. PICK i \in Nat : i = k - 1 /\ k = i + 1
    OBVIOUS
  <2>2. Pow2[k] = 2 * Pow2[i] /\ Pow2[i] \in Nat
    BY <2>1, Powers
  <2>3. i + 1 <= Pow2[i]
    BY <1>3
  <2>. QED  BY <2>1, <2>2, <2>3
<1>. QED  BY <1>4

LEMMA CountIs ==
    ASSUME NEW type \in IntType, NEW v \in Wide,
           Meaning(type, v) \in 0 .. prim_int_bits(type) - 1
    PROVE  ShiftCount(v) = Meaning(type, v)
<1>1. PICK n \in Nat : n = Meaning(type, v) /\ n < 2 * LimbBits
  <2>1. prim_int_bits(type) \in Nat /\ prim_int_bits(type) <= 2 * LimbBits /\ 2 * LimbBits \in Nat
    BY TypeFacts, SizePowers
  <2>. QED  BY <2>1
<1>2. PICK m \in Nat \ {0}, w \in Nat, l \in Nat, h \in Nat, u \in Nat, i \in Int :
         /\ m = LimbSize /\ w = WideSize /\ l = v.lo /\ h = v.hi /\ u = UValue(v) /\ i = IValue(v)
         /\ u = h * m + l /\ (i = u \/ i = u - w) /\ u < w /\ l < m
  <2>1. LimbSize \in Nat \ {0} /\ WideSize \in Nat
    BY Sizes
  <2>2. v.lo \in Nat /\ v.hi \in Nat /\ v.lo < LimbSize
    BY <2>1, ValueFacts DEF Limb
  <2>3. UValue(v) \in Nat /\ UValue(v) < WideSize
    BY <2>1, ValueFacts
  <2>. QED  BY <2>1, <2>2, <2>3, ValueFacts
<1>3. n = u
  <2>1. n = i \/ n = u
    BY <1>1, <1>2 DEF Meaning
  <2>. QED  BY <1>2, <2>1
<1>4. n < m
  <2>1. 2 * LimbBits <= m /\ LimbBits \in Nat
    BY <1>2, PowerAbove, SizePowers
  <2>. QED  BY <1>1, <2>1
<1>5. h = 0
  <2>1. h >= 1 => h * m >= m
    BY ProductSign
  <2>2. h * m \in Nat
    OBVIOUS
  <2>. QED  BY <1>2, <1>3, <1>4, <2>1, <2>2
<1>6. h * m = 0
  BY <1>5
<1>. QED  BY <1>1, <1>2, <1>3, <1>6 DEF ShiftCount

\* Without a misread sign the constant is read with the sign it has.
LEMMA SignRead ==
    ASSUME NEW type \in IntType, NEW op, op \in {"DIV", "MOD", "SHR"} \cup CompOp,
           ~MisreadSign(type, op), NEW v
    PROVE  Meaning(type, v) = IValue(v)
<1>1. type.is_signed \/ prim_int_bits(type) # 2 * LimbBits
  BY DEF MisreadSign
<1>2. prim_int_bits(type) # 2 * LimbBits => prim_int_bits(type) < 2 * LimbBits
  <2>1. 2 * LimbBits \in Nat
    BY SizePowers
  <2>. QED  BY <2>1, TypeFacts
<1>. QED  BY <1>1, <1>2 DEF Meaning

\* A number without sign, divided.
LEMMA NatDivided ==
    ASSUME NEW m \in Nat \ {0}, NEW n \in Nat
    PROVE  \E q \in Nat, r \in 0 .. m - 1 : r = n % m /\ n = q * m + r
<1>1. n \in Int
  OBVIOUS
<1>2. PICK q \in Int, r \in 0 .. m - 1 : q = n \div m /\ r = n % m /\ n = q * m + r
  BY <1>1, DividedIn, Zenon
<1>3. q \in Nat
  <2>1. n = q * m + r
    BY <1>2
  <2>2. q <= -1 => q * m <= -m
    BY ProductSign
  <2>. QED  BY ONLY <2>1, <2>2, n \in Nat, q \in Int, r \in 0 .. m - 1, m \in Nat
<1>. QED  BY <1>2, <1>3

-----------------------------------------------------------------------------
(* The operators on bits.                                                  *)

\* Alike numbers have the same bits within the type; those above do not reach
\* into it.
LEMMA BitsFold ==
    ASSUME NEW type \in IntType, NEW ones \in {AndOnes, OrOnes, XorOnes},
           NEW u \in Nat, NEW v \in Nat, NEW s \in Nat \ {0}, s = Size(type)
    PROVE  /\ u % s \in 0 .. s - 1 /\ v % s \in 0 .. s - 1
           /\ BitByBit(ones, u % s, v % s) \in Int
           /\ BitByBit(ones, u, v) \in Int
           /\ Congruent(type, BitByBit(ones, u, v), BitByBit(ones, u % s, v % s))
<1>. DEFINE bits == prim_int_bits(type)
<1>1. bits \in Nat /\ s = Pow2[bits]
  BY TypeFacts DEF Size
<1>. HIDE DEF bits
<1>2. <<0, 0>> \notin ones
  BY NoOnesFromZeros
<1>3. PICK g \in Nat, k \in 0 .. s - 1 : k = u % s /\ u = g * s + k
  BY NatDivided
<1>4. PICK h \in Nat, l \in 0 .. s - 1 : l = v % s /\ v = h * s + l
  BY NatDivided
<1>5. \A n \in Nat : \A a, b \in Nat : \A c, d \in 0 .. Pow2[n] - 1 :
         BitByBit(ones, a * Pow2[n] + c, b * Pow2[n] + d)
           = BitByBit(ones, a, b) * Pow2[n] + BitByBit(ones, c, d)
  BY <1>2, BitByBitParts
<1>6. \A c, d \in 0 .. Pow2[bits] - 1 :
         BitByBit(ones, g * Pow2[bits] + c, h * Pow2[bits] + d)
           = BitByBit(ones, g, h) * Pow2[bits] + BitByBit(ones, c, d)
  <2>1. \A a, b \in Nat : \A c, d \in 0 .. Pow2[bits] - 1 :
           BitByBit(ones, a * Pow2[bits] + c, b * Pow2[bits] + d)
             = BitByBit(ones, a, b) * Pow2[bits] + BitByBit(ones, c, d)
    BY <1>1, <1>5, ZenonT(30)
  <2>. QED  BY <2>1, ZenonT(30)
<1>7. k \in 0 .. Pow2[bits] - 1 /\ l \in 0 .. Pow2[bits] - 1
  BY <1>1
<1>8. BitByBit(ones, g * Pow2[bits] + k, h * Pow2[bits] + l)
        = BitByBit(ones, g, h) * Pow2[bits] + BitByBit(ones, k, l)
  BY <1>6, <1>7, Zenon
<1>9. BitByBit(ones, g * s + k, h * s + l) = BitByBit(ones, g, h) * s + BitByBit(ones, k, l)
  BY <1>1, <1>8, Zenon
<1>10. BitByBit(ones, u, v) = BitByBit(ones, g, h) * s + BitByBit(ones, k, l)
  <2>1. u = g * s + k /\ v = h * s + l
    BY <1>3, <1>4
  <2>. QED  BY <1>9, <2>1, Zenon
<1>11. k \in Nat /\ l \in Nat
  OBVIOUS
<1>12. PICK top \in Nat, low \in Nat, all \in Nat :
          /\ top = BitByBit(ones, g, h) /\ low = BitByBit(ones, k, l)
          /\ all = BitByBit(ones, u, v)
  <2>1. BitByBit(ones, g, h) \in Nat
    BY <1>2, BitByBitIs, Zenon
  <2>2. BitByBit(ones, k, l) \in Nat
    BY <1>2, <1>11, BitByBitIs, Zenon
  <2>3. BitByBit(ones, u, v) \in Nat
    BY <1>2, BitByBitIs, Zenon
  <2>. QED  BY <2>1, <2>2, <2>3
<1>13. all = low + top * s /\ top \in Int
  <2>1. all = top * s + low
    BY <1>10, <1>12, Zenon
  <2>. QED  BY <2>1
<1>14. Congruent(type, all, low)
  BY <1>13 DEF Congruent
<1>. QED  BY <1>3, <1>4, <1>12, <1>14

\* Congruent numbers have the same remainder.
LEMMA SameRest ==
    ASSUME NEW type \in IntType, NEW a \in Int, NEW b \in Int, Congruent(type, a, b),
           NEW s \in Nat \ {0}, s = Size(type)
    PROVE  a % s = b % s
<1>1. PICK k \in Int : a = b + k * s
  BY DEF Congruent
<1>2. PICK q \in Int, r \in 0 .. s - 1 : q = b \div s /\ r = b % s /\ b = q * s + r
  BY DividedIn, Zenon
<1>3. a = (q + k) * s + r /\ q + k \in Int
  <2>1. b = q * s + r
    BY <1>2
  <2>. QED  BY ONLY <1>1, <2>1, k \in Int, q \in Int, s \in Nat, r \in 0 .. s - 1
<1>4. a % s = r
  BY <1>3, Remainder
<1>. QED  BY <1>2, <1>4

LEMMA BitOpsFold ==
    ASSUME NEW type \in IntType, NEW v \in Wide, NEW w \in Wide, NEW m \in Int, NEW n \in Int,
           Congruent(type, UValue(v), m), Congruent(type, UValue(w), n),
           NEW s \in Nat \ {0}, s = Size(type)
    PROVE  /\ m % s \in 0 .. s - 1 /\ n % s \in 0 .. s - 1
           /\ BitAnd(m % s, n % s) \in Int /\ BitOr(m % s, n % s) \in Int
           /\ BitXor(m % s, n % s) \in Int
           /\ u128_and(v, w) \in Wide /\ u128_or(v, w) \in Wide /\ u128_xor(v, w) \in Wide
           /\ Congruent(type, UValue(u128_and(v, w)), BitAnd(m % s, n % s))
           /\ Congruent(type, UValue(u128_or(v, w)), BitOr(m % s, n % s))
           /\ Congruent(type, UValue(u128_xor(v, w)), BitXor(m % s, n % s))
<1>1. PICK a \in Nat, b \in Nat : a = UValue(v) /\ b = UValue(w)
  BY ValueFacts, Sizes
<1>2. a % s = m % s /\ b % s = n % s
  <2>1. Congruent(type, a, m) /\ Congruent(type, b, n) /\ a \in Int /\ b \in Int
    BY <1>1
  <2>. QED  BY <2>1, SameRest
<1>3. \A ones \in {AndOnes, OrOnes, XorOnes} :
         /\ a % s \in 0 .. s - 1 /\ b % s \in 0 .. s - 1
         /\ BitByBit(ones, a % s, b % s) \in Int
         /\ Congruent(type, BitByBit(ones, a, b), BitByBit(ones, a % s, b % s))
  BY BitsFold, Zenon
<1>4. AndOnes \in {AndOnes, OrOnes, XorOnes} /\ OrOnes \in {AndOnes, OrOnes, XorOnes}
      /\ XorOnes \in {AndOnes, OrOnes, XorOnes}
  OBVIOUS
<1>5. /\ a % s \in 0 .. s - 1 /\ b % s \in 0 .. s - 1
      /\ BitAnd(a % s, b % s) \in Int /\ Congruent(type, BitAnd(a, b), BitAnd(a % s, b % s))
  BY <1>3, <1>4, Zenon DEF BitAnd
<1>6. BitOr(a % s, b % s) \in Int /\ Congruent(type, BitOr(a, b), BitOr(a % s, b % s))
  BY <1>3, <1>4, Zenon DEF BitOr
<1>7. BitXor(a % s, b % s) \in Int /\ Congruent(type, BitXor(a, b), BitXor(a % s, b % s))
  BY <1>3, <1>4, Zenon DEF BitXor
<1>8. /\ u128_and(v, w) \in Wide /\ UValue(u128_and(v, w)) = BitAnd(a, b)
      /\ u128_or(v, w) \in Wide /\ UValue(u128_or(v, w)) = BitOr(a, b)
      /\ u128_xor(v, w) \in Wide /\ UValue(u128_xor(v, w)) = BitXor(a, b)
  BY <1>1, BitsAre
<1>. QED  BY <1>2, <1>5, <1>6, <1>7, <1>8, Zenon

\* The remainder of the complement.
LEMMA NotRest ==
    ASSUME NEW m \in Int, NEW s \in Nat \ {0}
    PROVE  (-1 - m) % s = s - 1 - (m % s)
<1>1. PICK q \in Int, r \in 0 .. s - 1 : q = m \div s /\ r = m % s /\ m = q * s + r
  BY DividedIn, Zenon
<1>2. -1 - m = (-q - 1) * s + (s - 1 - r) /\ -q - 1 \in Int /\ s - 1 - r \in 0 .. s - 1
  <2>1. (-q - 1) * s = -(q * s) - s /\ q * s \in Int
    BY ONLY q \in Int, s \in Nat
  <2>2. m = q * s + r
    BY <1>1
  <2>. QED  BY <2>1, <2>2
<1>3. (-1 - m) % s = s - 1 - r
  <2>1. -1 - m \in Int
    OBVIOUS
  <2>. QED  BY <1>2, <2>1, Remainder
<1>. QED  BY <1>1, <1>3

-----------------------------------------------------------------------------
(* Folding.                                                                *)

\* A shift of the constant is the shift of its number.
LEMMA ShiftsFold ==
    ASSUME NEW v \in Wide, NEW m \in Int, Alike(m, UValue(v)), NEW n \in Nat
    PROVE  /\ m * Pow2[n] \in Int
           /\ i128_shl(v, n) \in Wide /\ Alike(m * Pow2[n], UValue(i128_shl(v, n)))
           /\ IValue(v) \div Pow2[n] \in Int
           /\ i128_shr(v, n) \in Wide
           /\ Alike(IValue(v) \div Pow2[n], UValue(i128_shr(v, n)))
<1>1. PICK p \in Nat \ {0}, u \in Int : p = Pow2[n] /\ u = UValue(v)
  BY Powers, ValueFacts
<1>2. i128_shl(v, n) \in Wide /\ UValue(i128_shl(v, n)) \in Int
      /\ Alike(u * p, UValue(i128_shl(v, n)))
  <2>1. u128_shl(v, n) \in Wide /\ Alike(UValue(v) * Pow2[n], UValue(u128_shl(v, n)))
    BY ShlIsExact
  <2>2. Alike(u * p, UValue(u128_shl(v, n)))
    BY <1>1, <2>1, Zenon
  <2>3. UValue(u128_shl(v, n)) \in Int
    BY <2>1, ValueFacts
  <2>. QED  BY <2>1, <2>2, <2>3 DEF u128_shl
<1>3. Alike(m * p, u * p)
  <2>1. Alike(p, p) /\ Alike(m, u) /\ p \in Int
    BY <1>1, AlikeSame
  <2>. QED  BY <2>1, AlikeFacts
<1>4. m * p \in Int /\ u * p \in Int
  BY <1>1
<1>5. Alike(m * p, UValue(i128_shl(v, n)))
  BY <1>2, <1>3, <1>4, AlikeStep
<1>6. i128_shr(v, n) \in Wide /\ Alike(IValue(v) \div Pow2[n], UValue(i128_shr(v, n)))
  BY SignedShrIsExact
<1>7. IValue(v) \div p \in Int
  BY <1>1, ValueFacts, Divided
<1>. QED  BY <1>1, <1>2, <1>4, <1>5, <1>6, <1>7

LEMMA EqualsZero ==
    ASSUME NEW v \in Wide
    PROVE  i128_eq(v, INT128(0)) <=> UValue(v) = 0
<1>1. INT128(0) = [lo |-> 0, hi |-> 0]
  <2>1. ToLimb(0) = 0
    <3>1. 0 \in Limb /\ 0 \in Int
      BY Sizes DEF Limb
    <3>. QED  BY <3>1, ToLimbNear
  <2>. QED  BY <2>1 DEF INT128
<1>2. PICK m \in Nat \ {0}, l \in Nat, h \in Nat :
         l = v.lo /\ h = v.hi /\ UValue(v) = h * m + l
  BY ValueFacts, Sizes DEF Limb
<1>3. h >= 1 => h * m >= m
  BY ProductSign
<1>4. h * m \in Nat /\ (h = 0 => h * m = 0)
  OBVIOUS
<1>5. h * m + l = 0 <=> h = 0 /\ l = 0
  BY ONLY <1>3, <1>4, m \in Nat \ {0}, l \in Nat, h \in Nat
<1>. QED  BY <1>1, <1>2, <1>5 DEF i128_eq

\* A folded operation of two numbers has the number of the instruction.
LEMMA ArithFolds ==
    ASSUME NEW type \in IntType, NEW v \in Wide, NEW w \in Wide,
           Wrapped(type, v) = v, Wrapped(type, w) = w, NEW op \in ArithOp,
           NEW m, m = Meaning(type, v), NEW n, n = Meaning(type, w),
           TargetDefines(type, op, m, n), ~MisreadSign(type, op), ~DividesByZero(op, w)
    PROVE  Meaning(type, Wrapped(type, Arith(op, v, w))) = TargetArith(type, op, m, n)
<1>1. /\ m \in Int /\ UValue(v) \in Int /\ Alike(m, UValue(v)) /\ Congruent(type, UValue(v), m)
      /\ n \in Int /\ UValue(w) \in Int /\ Alike(n, UValue(w)) /\ Congruent(type, UValue(w), n)
  BY OperandIs
<1>2. PICK s \in Nat \ {0} : s = Size(type) /\ s = Pow2[prim_int_bits(type)]
  <2>1. \E half \in Nat \ {0} : Size(type) = 2 * half
    BY TypeFacts
  <2>2. Size(type) \in Nat \ {0}
    BY <2>1
  <2>. QED  BY <2>2 DEF Size
<1>3. CASE op = "ADD"
  <2>1. Arith(op, v, w) = i128_add(v, w) /\ TargetArith(type, op, m, n) = Residue(type, m + n)
    BY <1>3 DEF Arith, TargetArith
  <2>2. i128_add(v, w) \in Wide /\ Alike(m + n, UValue(i128_add(v, w)))
    BY <1>1, SumFolds, Zenon
  <2>4. m + n \in Int
    BY <1>1
  <2>3. Meaning(type, Wrapped(type, i128_add(v, w))) = Residue(type, m + n)
    BY <2>2, <2>4, ExactResult
  <2>. QED  BY <2>1, <2>3, Zenon
<1>4. CASE op = "SUB"
  <2>1. Arith(op, v, w) = i128_sub(v, w) /\ TargetArith(type, op, m, n) = Residue(type, m - n)
    BY <1>4 DEF Arith, TargetArith
  <2>2. i128_sub(v, w) \in Wide /\ Alike(m - n, UValue(i128_sub(v, w)))
    BY <1>1, SumFolds, Zenon
  <2>4. m - n \in Int
    BY <1>1
  <2>3. Meaning(type, Wrapped(type, i128_sub(v, w))) = Residue(type, m - n)
    BY <2>2, <2>4, ExactResult
  <2>. QED  BY <2>1, <2>3, Zenon
<1>5. CASE op = "MUL"
  <2>1. Arith(op, v, w) = i128_mul(v, w) /\ TargetArith(type, op, m, n) = Residue(type, m * n)
    BY <1>5 DEF Arith, TargetArith
  <2>2. i128_mul(v, w) \in Wide /\ Alike(m * n, UValue(i128_mul(v, w)))
    BY <1>1, SumFolds, Zenon
  <2>4. m * n \in Int
    BY <1>1
  <2>3. Meaning(type, Wrapped(type, i128_mul(v, w))) = Residue(type, m * n)
    BY <2>2, <2>4, ExactResult
  <2>. QED  BY <2>1, <2>3, Zenon
<1>6. CASE op \in {"DIV", "MOD"}
  <2>1. m = IValue(v) /\ n = IValue(w)
    BY <1>6, SignRead
  <2>2. n # 0 /\ UValue(w) # 0
    <3>1. UValue(w) # 0
      <4>1. ~i128_eq(w, INT128(0))
        BY <1>6 DEF DividesByZero
      <4>. QED  BY <4>1, EqualsZero
    <3>. QED  BY <1>6, <3>1 DEF TargetDefines
  <2>3. PICK q \in Int, r \in Int : q = Quotient(m, n) /\ r = m - n * Quotient(m, n)
    BY <1>1, <2>2, QuotientInt
  <2>4. Holds(i128_div(v, w), q) /\ Holds(i128_mod(v, w), r)
    BY <2>1, <2>2, <2>3, SignedQuotient
  <2>5. /\ i128_div(v, w) \in Wide /\ Alike(q, UValue(i128_div(v, w)))
        /\ i128_mod(v, w) \in Wide /\ Alike(r, UValue(i128_mod(v, w)))
    BY <2>4, HoldsAlike
  <2>6. CASE op = "DIV"
    <3>1. Arith(op, v, w) = i128_div(v, w) /\ TargetArith(type, op, m, n) = Residue(type, q)
      BY <2>3, <2>6 DEF Arith, TargetArith
    <3>. QED  BY <2>5, <3>1, ExactResult
  <2>7. CASE op = "MOD"
    <3>1. Arith(op, v, w) = i128_mod(v, w) /\ TargetArith(type, op, m, n) = Residue(type, r)
      BY <2>3, <2>7 DEF Arith, TargetArith
    <3>. QED  BY <2>5, <3>1, ExactResult
  <2>. QED  BY <1>6, <2>6, <2>7
<1>7. CASE op \in {"SHL", "SHR"}
  <2>1. n \in Nat /\ ShiftCount(w) = n
    <3>1. n \in 0 .. prim_int_bits(type) - 1
      BY <1>7 DEF TargetDefines
    <3>. QED  BY <3>1, CountIs
  <2>2. CASE op = "SHL"
    <3>1. /\ Arith(op, v, w) = i128_shl(v, n)
          /\ TargetArith(type, op, m, n) = Residue(type, m * Pow2[n])
      BY <2>1, <2>2 DEF Arith, TargetArith
    <3>. QED  BY <1>1, <2>1, <3>1, ShiftsFold, ExactResult
  <2>3. CASE op = "SHR"
    <3>1. /\ Arith(op, v, w) = i128_shr(v, n)
          /\ TargetArith(type, op, m, n) = Residue(type, m \div Pow2[n])
      BY <2>1, <2>3 DEF Arith, TargetArith
    <3>2. m = IValue(v)
      BY <2>3, SignRead
    <3>. QED  BY <1>1, <2>1, <3>1, <3>2, ShiftsFold, ExactResult
  <2>. QED  BY <1>7, <2>2, <2>3
<1>8. CASE op = "BW_AND"
  <2>1. /\ Arith(op, v, w) = u128_and(v, w)
        /\ TargetArith(type, op, m, n) = Residue(type, BitAnd(m % s, n % s))
    BY <1>2, <1>8 DEF Arith, TargetArith, u128_and
  <2>2. /\ u128_and(v, w) \in Wide /\ BitAnd(m % s, n % s) \in Int
        /\ Congruent(type, UValue(u128_and(v, w)), BitAnd(m % s, n % s))
    BY <1>1, <1>2, BitOpsFold
  <2>3. Meaning(type, Wrapped(type, u128_and(v, w))) = Residue(type, BitAnd(m % s, n % s))
    BY <2>2, ResultIs
  <2>. QED  BY <2>1, <2>3, Zenon
<1>9. CASE op = "BW_OR"
  <2>1. /\ Arith(op, v, w) = u128_or(v, w)
        /\ TargetArith(type, op, m, n) = Residue(type, BitOr(m % s, n % s))
    BY <1>2, <1>9 DEF Arith, TargetArith, u128_or
  <2>2. /\ u128_or(v, w) \in Wide /\ BitOr(m % s, n % s) \in Int
        /\ Congruent(type, UValue(u128_or(v, w)), BitOr(m % s, n % s))
    BY <1>1, <1>2, BitOpsFold
  <2>3. Meaning(type, Wrapped(type, u128_or(v, w))) = Residue(type, BitOr(m % s, n % s))
    BY <2>2, ResultIs
  <2>. QED  BY <2>1, <2>3, Zenon
<1>10. CASE op = "BW_XOR"
  <2>1. /\ Arith(op, v, w) = u128_xor(v, w)
        /\ TargetArith(type, op, m, n) = Residue(type, BitXor(m % s, n % s))
    BY <1>2, <1>10 DEF Arith, TargetArith, u128_xor
  <2>2. /\ u128_xor(v, w) \in Wide /\ BitXor(m % s, n % s) \in Int
        /\ Congruent(type, UValue(u128_xor(v, w)), BitXor(m % s, n % s))
    BY <1>1, <1>2, BitOpsFold
  <2>3. Meaning(type, Wrapped(type, u128_xor(v, w))) = Residue(type, BitXor(m % s, n % s))
    BY <2>2, ResultIs
  <2>. QED  BY <2>1, <2>3, Zenon
<1>11. CASE op = "BW_IMP"
  <2>1. PICK c \in Int : c = -1 - m
    BY <1>1
  <2>2. c % s = s - 1 - (m % s)
    BY <1>1, <2>1, NotRest
  <2>3. /\ Arith(op, v, w) = u128_or(i128_not(v), w)
        /\ TargetArith(type, op, m, n) = Residue(type, BitOr(c % s, n % s))
    BY <1>2, <1>11, <2>2 DEF Arith, TargetArith, u128_or
  <2>4. i128_not(v) \in Wide /\ Alike(c, UValue(i128_not(v))) /\ UValue(i128_not(v)) \in Int
    BY <1>1, <2>1, NotFolds, ValueFacts
  <2>5. Congruent(type, UValue(i128_not(v)), c)
    BY <2>4, AlikeFacts, AlikeCongruent
  <2>6. /\ u128_or(i128_not(v), w) \in Wide /\ BitOr(c % s, n % s) \in Int
        /\ Congruent(type, UValue(u128_or(i128_not(v), w)), BitOr(c % s, n % s))
    BY <1>1, <1>2, <2>4, <2>5, BitOpsFold
  <2>7. Meaning(type, Wrapped(type, u128_or(i128_not(v), w))) = Residue(type, BitOr(c % s, n % s))
    BY <2>6, ResultIs
  <2>. QED  BY <2>3, <2>7, Zenon
<1>. QED  BY <1>3, <1>4, <1>5, <1>6, <1>7, <1>8, <1>9, <1>10, <1>11 DEF ArithOp

LEMMA UnaryFolds ==
    ASSUME NEW type \in IntType, NEW v \in Wide, Wrapped(type, v) = v, NEW op \in UnaryOp,
           NEW m, m = Meaning(type, v)
    PROVE  Meaning(type, Wrapped(type, UnaryArith(op, v))) = TargetUnary(type, op, m)
<1>1. m \in Int /\ UValue(v) \in Int /\ Alike(m, UValue(v))
  BY OperandIs
<1>2. CASE op = "POS"
  <2>1. UnaryArith(op, v) = v /\ TargetUnary(type, op, m) = Residue(type, m)
    BY <1>2 DEF UnaryArith, TargetUnary
  <2>. QED  BY <1>1, <2>1, ExactResult
<1>3. CASE op = "NEG"
  <2>1. UnaryArith(op, v) = i128_neg(v) /\ TargetUnary(type, op, m) = Residue(type, -m)
    BY <1>3 DEF UnaryArith, TargetUnary
  <2>2. i128_neg(v) \in Wide /\ Alike(-m, UValue(i128_neg(v))) /\ -m \in Int
    <3>1. i128_neg(v) \in Wide /\ Alike(-m, UValue(i128_neg(v)))
      BY <1>1, SumFolds, Zenon
    <3>. QED  BY <1>1, <3>1
  <2>. QED  BY <2>1, <2>2, ExactResult
<1>4. CASE op = "BW_NOT"
  <2>1. UnaryArith(op, v) = i128_not(v) /\ TargetUnary(type, op, m) = Residue(type, -1 - m)
    BY <1>4 DEF UnaryArith, TargetUnary
  <2>2. i128_not(v) \in Wide /\ Alike(-1 - m, UValue(i128_not(v))) /\ -1 - m \in Int
    BY <1>1, NotFolds
  <2>. QED  BY <2>1, <2>2, ExactResult
<1>. QED  BY <1>2, <1>3, <1>4 DEF UnaryOp

LEMMA CompFolds ==
    ASSUME NEW type \in IntType, NEW v \in Wide, NEW w \in Wide, NEW op \in CompOp,
           ~MisreadSign(type, op)
    PROVE  Comp(op, v, w) = TargetComp(op, Meaning(type, v), Meaning(type, w))
<1>1. PICK i \in Int, j \in Int :
         i = IValue(v) /\ j = IValue(w) /\ Meaning(type, v) = i /\ Meaning(type, w) = j
  <2>1. op \in {"DIV", "MOD", "SHR"} \cup CompOp
    OBVIOUS
  <2>. QED  BY <2>1, ValueFacts, SignRead
<1>2. /\ i128_lt(v, w) <=> i < j
      /\ i128_gt(v, w) <=> i > j
      /\ i128_le(v, w) <=> i <= j
      /\ i128_ge(v, w) <=> i >= j
      /\ i128_eq(v, w) <=> i = j
  BY <1>1, OrderIsExact DEF OrderExact
<1>3. /\ i128_lt(v, w) \in BOOLEAN /\ i128_gt(v, w) \in BOOLEAN /\ i128_le(v, w) \in BOOLEAN
      /\ i128_ge(v, w) \in BOOLEAN /\ i128_eq(v, w) \in BOOLEAN /\ i128_ne(v, w) \in BOOLEAN
  <2>1. i128_lt(v, w) \in BOOLEAN
    BY OrderType
  <2>2. i128_gt(v, w) \in BOOLEAN
    <3>1. CASE AsSigned(v.hi) = AsSigned(w.hi)
      BY <3>1 DEF i128_gt
    <3>2. CASE AsSigned(v.hi) # AsSigned(w.hi)
      BY <3>2 DEF i128_gt
    <3>. QED  BY <3>1, <3>2
  <2>3. /\ i128_le(v, w) \in BOOLEAN /\ i128_ge(v, w) \in BOOLEAN
        /\ i128_eq(v, w) \in BOOLEAN /\ i128_ne(v, w) \in BOOLEAN
    BY DEF i128_le, i128_ge, i128_eq, i128_ne
  <2>. QED  BY <2>1, <2>2, <2>3
<1>4. i128_ne(v, w) <=> i # j
  BY <1>2 DEF i128_ne
<1>5. CASE op = "EQ"
  BY <1>1, <1>2, <1>3, <1>5 DEF Comp, TargetComp
<1>6. CASE op = "NEQ"
  BY <1>1, <1>3, <1>4, <1>6 DEF Comp, TargetComp
<1>7. CASE op = "LT"
  BY <1>1, <1>2, <1>3, <1>7 DEF Comp, TargetComp
<1>8. CASE op = "LTE"
  BY <1>1, <1>2, <1>3, <1>8 DEF Comp, TargetComp
<1>9. CASE op = "GT"
  BY <1>1, <1>2, <1>3, <1>9 DEF Comp, TargetComp
<1>10. CASE op = "GTE"
  BY <1>1, <1>2, <1>3, <1>10 DEF Comp, TargetComp
<1>. QED  BY <1>5, <1>6, <1>7, <1>8, <1>9, <1>10 DEF CompOp

-----------------------------------------------------------------------------
(* The warning.                                                            *)

\* Two limbs hold a number that fits with its sign.
LEMMA SignedIs ==
    ASSUME NEW v \in Wide, NEW n \in Int, Alike(n, UValue(v)),
           -WideSize <= 2 * n, 2 * n < WideSize
    PROVE  IValue(v) = n
<1>1. PICK w \in Nat \ {0}, u \in Nat, i \in Int :
         /\ w = WideSize /\ u = UValue(v) /\ i = IValue(v)
         /\ i = u \/ i = u - w
         /\ -w <= 2 * i /\ 2 * i < w
  BY ValueFacts, Sizes
<1>2. PICK k \in Int : n = u + k * w
  BY <1>1 DEF Alike
<1>3. PICK j \in Int : n = i + j * w
  <2>1. CASE i = u
    BY <1>2, <2>1
  <2>2. CASE i = u - w
    <3>1. n = i + (k + 1) * w /\ k + 1 \in Int
      BY ONLY <1>2, <2>2, u \in Nat, w \in Nat, k \in Int, i \in Int, n \in Int
    <3>. QED  BY <3>1
  <2>. QED  BY <1>1, <2>1, <2>2
<1>4. j >= 1 => j * w >= w
  BY ProductSign
<1>5. j <= -1 => j * w <= -w
  BY ProductSign
<1>6. j = 0 => j * w = 0
  BY <1>1
<1>7. j * w \in Int
  BY <1>1
<1>8. -w <= 2 * n /\ 2 * n < w
  BY <1>1
<1>9. i = n
  BY ONLY <1>1, <1>3, <1>4, <1>5, <1>6, <1>7, <1>8, w \in Nat, i \in Int, n \in Int, j \in Int
<1>. QED  BY <1>1, <1>9

\* A type of at most a limb.
LEMMA NarrowFacts ==
    ASSUME NEW type \in IntType, prim_int_bits(type) < 2 * LimbBits
    PROVE  /\ prim_int_bits(type) \in Nat \ {0} /\ prim_int_bits(type) - 1 \in Nat
           /\ type.is_signed \in BOOLEAN
           /\ \E half \in Nat \ {0}, c \in Nat \ {0}, s \in Nat \ {0}, l \in Nat, w \in Nat :
                 /\ half = Pow2[prim_int_bits(type) - 1] /\ s = Pow2[prim_int_bits(type)]
                 /\ s = Size(type) /\ s = 2 * half /\ w = WideSize /\ w = (2 * c) * s
                 /\ s <= l /\ w = l * l /\ 2 * s <= w
<1>1. 2 * LimbBits \in Nat /\ prim_int_bits(type) # 2 * LimbBits
  BY SizePowers, TypeFacts
<1>2. PICK half \in Nat \ {0}, c \in Nat \ {0} :
         /\ half = Pow2[prim_int_bits(type) - 1] /\ Size(type) = 2 * half
         /\ WideSize = (2 * c) * (2 * half)
  BY <1>1, TypeFacts
<1>3. PICK s \in Nat \ {0} : s = 2 * half
  BY <1>2
<1>4. PICK l \in Nat, h \in Nat : l = LimbSize /\ h = HalfSize /\ l = h * h /\ h > 0
  BY Sizes
<1>5. s <= l
  <2>1. prim_int_bits(type) \in {HalfBits, LimbBits}
    BY <1>1, TypeFacts
  <2>2. Pow2[HalfBits] = h /\ Pow2[LimbBits] = l
    BY <1>4, HalfAssumption, SizePowers
  <2>3. h <= l
    <3>1. h >= 1 => h * h >= h
      BY <1>4, ProductSign
    <3>. QED  BY <1>4, <3>1
  <2>. QED  BY <1>2, <1>3, <2>1, <2>2, <2>3 DEF Size
<1>6. WideSize = l * l
  BY <1>4, Sizes
<1>7. 2 * s <= (2 * c) * s
  <2>1. (2 * c) * s = 2 * (c * s) /\ c * s \in Nat
    BY ONLY c \in Nat, s \in Nat
  <2>2. c >= 1 => c * s >= s
    BY ProductSign
  <2>. QED  BY <2>1, <2>2
<1>8. prim_int_bits(type) \in Nat \ {0} /\ prim_int_bits(type) - 1 \in Nat
      /\ type.is_signed \in BOOLEAN
  BY TypeFacts
<1>9. WideSize = (2 * c) * s /\ WideSize \in Nat
  BY <1>2, <1>3, Sizes
<1>. QED  BY <1>2, <1>3, <1>5, <1>6, <1>7, <1>8, <1>9 DEF Size

\* What the test for the warning asks.
LEMMA OverflowIs ==
    ASSUME NEW type \in IntType, prim_int_bits(type) < 2 * LimbBits, NEW e \in Wide
    PROVE  Overflows(type, e)
             <=> IF type.is_signed
                 THEN ~(-Size(type) <= 2 * IValue(e) /\ 2 * IValue(e) < Size(type))
                 ELSE UValue(e) >= Size(type)
<1>. DEFINE bits == prim_int_bits(type)
            one  == i128_shl(INT128(1), bits - 1)
            low  == i128_neg(one)
            high == i128_sub(one, INT128(1))
<1>1. PICK half \in Nat \ {0}, s \in Nat \ {0}, w \in Nat :
         /\ half = Pow2[bits - 1] /\ s = Pow2[bits] /\ s = Size(type) /\ s = 2 * half
         /\ w = WideSize /\ 2 * s <= w
  BY NarrowFacts
<1>2. bits \in Nat \ {0} /\ bits - 1 \in Nat
  BY NarrowFacts
<1>3. INT128(1) = UINT128(1) /\ INT128(1) \in Wide /\ UValue(INT128(1)) = 1
  <2>1. 1 \div LimbSize = 0
    <3>1. PICK h \in Nat : LimbSize = 2 * h /\ h > 0
      BY Sizes
    <3>2. 1 = 0 * LimbSize + 1 /\ 1 \in 0 .. LimbSize - 1 /\ LimbSize \in Nat \ {0}
      BY <3>1
    <3>. QED  BY <3>2, Remainder
  <2>2. INT128(1) = UINT128(1)
    BY <2>1 DEF INT128, UINT128
  <2>. QED  BY <2>2, UnsignedOne
<1>4. one \in Wide /\ UValue(one) = half
  <2>1. half < WideSize
    BY <1>1
  <2>2. /\ u128_shl(UINT128(1), bits - 1) \in Wide
        /\ UValue(u128_shl(UINT128(1), bits - 1)) = half
    BY <1>1, <1>2, <2>1, OneBit
  <2>. QED  BY <1>3, <2>2 DEF u128_shl
<1>. HIDE DEF one, bits
<1>5. Alike(half, UValue(one)) /\ Alike(1, UValue(INT128(1))) /\ half \in Int /\ 1 \in Int
  BY <1>3, <1>4, AlikeSame
<1>6. low \in Wide /\ Alike(-half, UValue(low)) /\ high \in Wide /\ Alike(half - 1, UValue(high))
  BY <1>3, <1>4, <1>5, SumFolds, Zenon
<1>. HIDE DEF low, high
<1>7. IValue(low) = -half
  <2>1. -half \in Int /\ -WideSize <= 2 * (-half) /\ 2 * (-half) < WideSize
    BY <1>1
  <2>. QED  BY <1>6, <2>1, SignedIs, Zenon
<1>8. IValue(high) = half - 1
  <2>1. half - 1 \in Int /\ -WideSize <= 2 * (half - 1) /\ 2 * (half - 1) < WideSize
    BY <1>1
  <2>. QED  BY <1>6, <2>1, SignedIs, Zenon
<1>9. i128_lt(e, low) <=> IValue(e) < -half
  <2>1. i128_lt(e, low) <=> IValue(e) < IValue(low)
    BY <1>6, OrderFacts, Zenon
  <2>. QED  BY <1>7, <2>1
<1>10. i128_gt(e, high) <=> half - 1 < IValue(e)
  <2>1. i128_gt(e, high) <=> IValue(high) < IValue(e)
    BY <1>6, OrderFacts, Zenon
  <2>. QED  BY <1>8, <2>1
<1>11. PICK u \in Nat, i \in Int : u = UValue(e) /\ i = IValue(e)
  BY ValueFacts, Sizes
<1>12. u128_ne(u128_shr(e, bits), UINT128(0)) <=> u >= s
  <2>1. u128_shr(e, bits) \in Wide /\ UValue(u128_shr(e, bits)) = u \div s
    <3>1. u128_shr(e, bits) \in Wide /\ UValue(u128_shr(e, bits)) = UValue(e) \div Pow2[bits]
      BY <1>2, ShrIsExact
    <3>. QED  BY <1>1, <1>11, <3>1, Zenon
  <2>2. u128_eq(u128_shr(e, bits), UINT128(0))
          <=> UValue(u128_shr(e, bits)) = UValue(UINT128(0))
    BY <2>1, UnsignedZero, OrderFacts, Zenon
  <2>3. UValue(UINT128(0)) = 0
    BY UnsignedZero
  <2>4. PICK q \in Nat, r \in 0 .. s - 1 : q = u \div s /\ u = q * s + r
    <3>1. u \in Int
      OBVIOUS
    <3>2. PICK q \in Int, r \in 0 .. s - 1 : q = u \div s /\ r = u % s /\ u = q * s + r
      BY <3>1, DividedIn, Zenon
    <3>3. q \in Nat
      <4>1. u = q * s + r
        BY <3>2
      <4>2. q <= -1 => q * s <= -s
        BY ProductSign
      <4>. QED  BY ONLY <4>1, <4>2, u \in Nat, q \in Int, r \in 0 .. s - 1, s \in Nat
    <3>. QED  BY <3>2, <3>3
  <2>5. q = 0 <=> ~(u >= s)
    <3>1. q >= 1 => q * s >= s
      BY ProductSign
    <3>2. q * s \in Nat /\ (q = 0 => q * s = 0)
      OBVIOUS
    <3>3. u = q * s + r
      BY <2>4
    <3>. QED  BY ONLY <3>1, <3>2, <3>3, u \in Nat, q \in Nat, r \in 0 .. s - 1, s \in Nat
  <2>6. q = UValue(u128_shr(e, bits))
    BY <2>1, <2>4
  <2>. QED  BY <2>2, <2>3, <2>5, <2>6 DEF u128_ne
<1>13. Overflows(type, e) <=> IF type.is_signed THEN i128_lt(e, low) \/ i128_gt(e, high)
                              ELSE u128_ne(u128_shr(e, bits), UINT128(0))
  BY DEF Overflows, bits, one, low, high
<1>14. i < -half \/ half - 1 < i <=> ~(-s <= 2 * i /\ 2 * i < s)
  BY <1>1
<1>15. CASE type.is_signed
  <2>1. Overflows(type, e) <=> i < -half \/ half - 1 < i
    BY <1>9, <1>10, <1>11, <1>13, <1>15
  <2>. QED  BY <1>1, <1>11, <1>14, <1>15, <2>1
<1>16. CASE ~type.is_signed
  BY <1>1, <1>11, <1>12, <1>13, <1>16
<1>. QED  BY <1>15, <1>16

\* The product of two numbers within a bound.
LEMMA ProductWithin ==
    ASSUME NEW h \in Nat, NEW m \in Int, NEW n \in Int,
           -h <= m, m <= h, -h <= n, n <= h
    PROVE  -(h * h) <= m * n /\ m * n <= h * h /\ m * n \in Int /\ h * h \in Nat
<1>1. PICK a \in Nat, b \in Nat, c \in Nat, d \in Nat :
         a = h - m /\ b = h + m /\ c = h - n /\ d = h + n
  BY ONLY h \in Nat, m \in Int, n \in Int, -h <= m, m <= h, -h <= n, n <= h
<1>2. a * d >= 0 /\ b * c >= 0 /\ a * c >= 0 /\ b * d >= 0
  BY ONLY a \in Nat, b \in Nat, c \in Nat, d \in Nat
<1>3. a * d + b * c = 2 * (h * h) - 2 * (m * n)
  BY ONLY <1>1, h \in Nat, m \in Int, n \in Int
<1>4. a * c + b * d = 2 * (h * h) + 2 * (m * n)
  BY ONLY <1>1, h \in Nat, m \in Int, n \in Int
<1>5. a * d \in Int /\ b * c \in Int /\ a * c \in Int /\ b * d \in Int
      /\ m * n \in Int /\ h * h \in Nat
  BY ONLY a \in Nat, b \in Nat, c \in Nat, d \in Nat, m \in Int, n \in Int, h \in Nat
<1>. QED  BY <1>2, <1>3, <1>4, <1>5

\* The exact result of two numbers of a type of at most a limb fits two limbs.
LEMMA ExactFits ==
    ASSUME NEW type \in IntType, prim_int_bits(type) < 2 * LimbBits,
           NEW m \in Int, NEW n \in Int, InRange(type, m), InRange(type, n),
           NEW op \in {"ADD", "SUB", "MUL"}, NEW x, x = TargetExact(op, m, n)
    PROVE  /\ x \in Int
           /\ type.is_signed => -WideSize <= 2 * x /\ 2 * x < WideSize
           /\ ~type.is_signed => -Size(type) <= x /\ x < WideSize
<1>1. PICK half \in Nat \ {0}, s \in Nat \ {0}, l \in Nat, w \in Nat :
         s = Size(type) /\ s = 2 * half /\ w = WideSize /\ s <= l /\ w = l * l /\ 2 * s <= w
  BY NarrowFacts
<1>2. s * s <= w /\ s * s \in Nat
  <2>1. PICK d \in Nat : l = s + d
    <3>1. l - s \in Nat /\ l = s + (l - s)
      BY <1>1
    <3>. QED  BY <3>1
  <2>2. l * l = s * s + (2 * (s * d) + d * d)
    BY ONLY <2>1, s \in Nat, d \in Nat
  <2>3. s * s \in Nat /\ s * d \in Nat /\ d * d \in Nat
    BY ONLY s \in Nat, d \in Nat
  <2>. QED  BY <1>1, <2>2, <2>3
<1>3. CASE type.is_signed
  <2>1. -half <= m /\ m <= half - 1 /\ -half <= n /\ n <= half - 1
    BY <1>1, <1>3 DEF InRange
  <2>2. CASE op = "ADD"
    <3>1. x = m + n
      BY <2>2 DEF TargetExact
    <3>. QED  BY <1>1, <1>3, <2>1, <3>1
  <2>3. CASE op = "SUB"
    <3>1. x = m - n
      BY <2>3 DEF TargetExact
    <3>. QED  BY <1>1, <1>3, <2>1, <3>1
  <2>4. CASE op = "MUL"
    <3>1. x = m * n
      BY <2>4 DEF TargetExact
    <3>2. -(half * half) <= x /\ x <= half * half /\ x \in Int /\ half * half \in Nat
      <4>1. m <= half /\ n <= half /\ half \in Nat
        BY <2>1
      <4>. QED  BY <2>1, <3>1, <4>1, ProductWithin
    <3>3. s * s = 4 * (half * half)
      BY ONLY <1>1, half \in Nat, s \in Nat
    <3>4. w > 0
      BY <1>1
    <3>5. -w <= 2 * x /\ 2 * x < w
      BY <1>2, <3>2, <3>3, <3>4
    <3>. QED  BY <1>1, <1>3, <3>2, <3>5
  <2>. QED  BY <2>2, <2>3, <2>4
<1>4. CASE ~type.is_signed
  <2>1. 0 <= m /\ m < s /\ 0 <= n /\ n < s
    BY <1>1, <1>4 DEF InRange
  <2>2. CASE op = "ADD"
    <3>1. x = m + n
      BY <2>2 DEF TargetExact
    <3>. QED  BY <1>1, <1>4, <2>1, <3>1
  <2>3. CASE op = "SUB"
    <3>1. x = m - n
      BY <2>3 DEF TargetExact
    <3>. QED  BY <1>1, <1>4, <2>1, <3>1
  <2>4. CASE op = "MUL"
    <3>1. x = m * n
      BY <2>4 DEF TargetExact
    <3>2. x >= 0 /\ x < s * s
      <4>1. m \in 0 .. s - 1 /\ n \in 0 .. s - 1
        BY <2>1
      <4>. QED  BY <3>1, <4>1, ProductBound
    <3>3. x \in Int
      BY <3>1
    <3>4. -s <= x /\ x < w
      BY <1>2, <3>2, <3>3
    <3>. QED  BY <1>1, <1>4, <3>3, <3>4
  <2>. QED  BY <2>2, <2>3, <2>4
<1>. QED  BY <1>3, <1>4

\* The warning is given exactly when the result does not fit the type.
LEMMA WarningIs ==
    ASSUME NEW type \in IntType, prim_int_bits(type) < 2 * LimbBits,
           NEW v \in Wide, NEW w \in Wide, Wrapped(type, v) = v, Wrapped(type, w) = w,
           NEW op \in {"ADD", "SUB", "MUL"},
           NEW x, x = TargetExact(op, Meaning(type, v), Meaning(type, w))
    PROVE  Overflows(type, Arith(op, v, w)) <=> Residue(type, x) # x
<1>. DEFINE e == Arith(op, v, w)
<1>1. PICK m \in Int, n \in Int :
         /\ m = Meaning(type, v) /\ InRange(type, m) /\ Alike(m, UValue(v))
         /\ n = Meaning(type, w) /\ InRange(type, n) /\ Alike(n, UValue(w))
  BY OperandIs
<1>2. x = TargetExact(op, m, n)
  BY <1>1
<1>3. /\ x \in Int
      /\ type.is_signed => -WideSize <= 2 * x /\ 2 * x < WideSize
      /\ ~type.is_signed => -Size(type) <= x /\ x < WideSize
  BY <1>1, <1>2, ExactFits, Zenon
<1>4. e \in Wide /\ Alike(x, UValue(e))
  <2>1. /\ i128_add(v, w) \in Wide /\ Alike(m + n, UValue(i128_add(v, w)))
        /\ i128_sub(v, w) \in Wide /\ Alike(m - n, UValue(i128_sub(v, w)))
        /\ i128_mul(v, w) \in Wide /\ Alike(m * n, UValue(i128_mul(v, w)))
    BY <1>1, SumFolds, Zenon
  <2>2. CASE op = "ADD"
    <3>1. e = i128_add(v, w) /\ x = m + n
      BY <1>2, <2>2 DEF Arith, TargetExact
    <3>. QED  BY <2>1, <3>1, Zenon
  <2>3. CASE op = "SUB"
    <3>1. e = i128_sub(v, w) /\ x = m - n
      BY <1>2, <2>3 DEF Arith, TargetExact
    <3>. QED  BY <2>1, <3>1, Zenon
  <2>4. CASE op = "MUL"
    <3>1. e = i128_mul(v, w) /\ x = m * n
      BY <1>2, <2>4 DEF Arith, TargetExact
    <3>. QED  BY <2>1, <3>1, Zenon
  <2>. QED  BY <2>2, <2>3, <2>4
<1>. HIDE DEF e
<1>5. Residue(type, x) # x <=> ~InRange(type, x)
  <2>1. InRange(type, Residue(type, x))
    BY <1>3, ResidueFacts
  <2>2. InRange(type, x) => Residue(type, x) = x
    BY <1>3, CongruentSame, ResidueIs
  <2>. QED  BY <2>1, <2>2
<1>6. Overflows(type, e)
        <=> IF type.is_signed
            THEN ~(-Size(type) <= 2 * IValue(e) /\ 2 * IValue(e) < Size(type))
            ELSE UValue(e) >= Size(type)
  BY <1>4, OverflowIs
<1>7. CASE type.is_signed
  <2>1. IValue(e) = x
    BY <1>3, <1>4, <1>7, SignedIs, Zenon
  <2>. QED  BY <1>5, <1>6, <1>7, <2>1 DEF InRange, e
<1>8. CASE ~type.is_signed
  <2>1. PICK s \in Nat \ {0}, z \in Nat : s = Size(type) /\ z = WideSize /\ 2 * s <= z
    BY NarrowFacts
  <2>2. UValue(e) = IF x >= 0 THEN x ELSE x + z
    <3>1. CASE x >= 0
      <4>1. x \in 0 .. WideSize - 1
        BY <1>3, <1>8, <2>1, <3>1
      <4>2. UValue(e) = x
        BY <1>4, <4>1, ValueIs, Zenon
      <4>. QED  BY <3>1, <4>2
    <3>2. CASE ~(x >= 0)
      <4>1. x + z \in 0 .. WideSize - 1 /\ x + z \in Int
        BY <1>3, <1>8, <2>1, <3>2
      <4>2. Alike(x + z, x)
        <5>1. x + z = x + 1 * WideSize /\ 1 \in Int
          BY <1>3, <2>1
        <5>. QED  BY <5>1 DEF Alike
      <4>3. Alike(x + z, UValue(e))
        <5>1. UValue(e) \in Int
          BY <1>4, ValueFacts
        <5>. QED  BY <1>3, <1>4, <4>1, <4>2, <5>1, AlikeStep
      <4>4. UValue(e) = x + z
        BY <1>4, <4>1, <4>3, ValueIs, Zenon
      <4>. QED  BY <3>2, <4>4
    <3>. QED  BY <3>1, <3>2
  <2>3. UValue(e) >= s <=> ~(0 <= x /\ x < s)
    BY <1>3, <1>8, <2>1, <2>2
  <2>. QED  BY <1>5, <1>6, <1>8, <2>1, <2>3 DEF InRange, e
<1>. QED  BY <1>7, <1>8

-----------------------------------------------------------------------------
LEMMA FoldsAgree == Operands => FoldAgrees
<1>. SUFFICES ASSUME Operands, mode = "operands",
                     NEW type \in IntType, Wrapped(type, left) = left, Wrapped(type, right) = right
              PROVE
                LET m == Meaning(type, left)
                    n == Meaning(type, right)
                IN  /\ \A op \in ArithOp :
                          /\ TargetDefines(type, op, m, n)
                          /\ ~MisreadSign(type, op)
                          /\ ~DividesByZero(op, right)
                          => LET folded == FoldBinary(type, op, left, right)
                             IN  Meaning(type, folded.value) = TargetArith(type, op, m, n)
                    /\ \A op \in UnaryOp :
                          Meaning(type, FoldUnary(type, op, left).value) = TargetUnary(type, op, m)
                    /\ \A op \in CompOp :
                          ~MisreadSign(type, op) => Comp(op, left, right) = TargetComp(op, m, n)
                    /\ prim_int_bits(type) < 2 * LimbBits =>
                          \A op \in {"ADD", "SUB", "MUL"} :
                              FoldBinary(type, op, left, right).warned <=>
                                  Residue(type, TargetExact(op, m, n)) # TargetExact(op, m, n)
  BY Zenon DEF FoldAgrees
<1>1. left \in Wide /\ right \in Wide
  BY DEF Operands
<1>. DEFINE m == Meaning(type, left)
            n == Meaning(type, right)
<1>2. ASSUME NEW op \in ArithOp, TargetDefines(type, op, m, n), ~MisreadSign(type, op),
             ~DividesByZero(op, right)
      PROVE  Meaning(type, FoldBinary(type, op, left, right).value) = TargetArith(type, op, m, n)
  <2>1. Meaning(type, Wrapped(type, Arith(op, left, right))) = TargetArith(type, op, m, n)
    BY <1>1, <1>2, ArithFolds
  <2>2. FoldBinary(type, op, left, right).value = Wrapped(type, Arith(op, left, right))
    BY DEF FoldBinary
  <2>. QED  BY <2>1, <2>2
<1>3. ASSUME NEW op \in UnaryOp
      PROVE  Meaning(type, FoldUnary(type, op, left).value) = TargetUnary(type, op, m)
  <2>1. Meaning(type, Wrapped(type, UnaryArith(op, left))) = TargetUnary(type, op, m)
    BY <1>1, UnaryFolds
  <2>2. FoldUnary(type, op, left).value = Wrapped(type, UnaryArith(op, left))
    BY DEF FoldUnary
  <2>. QED  BY <2>1, <2>2
<1>4. ASSUME NEW op \in CompOp, ~MisreadSign(type, op)
      PROVE  Comp(op, left, right) = TargetComp(op, m, n)
  BY <1>1, <1>4, CompFolds
<1>5. ASSUME prim_int_bits(type) < 2 * LimbBits, NEW op \in {"ADD", "SUB", "MUL"}
      PROVE  FoldBinary(type, op, left, right).warned
               <=> Residue(type, TargetExact(op, m, n)) # TargetExact(op, m, n)
  <2>1. Overflows(type, Arith(op, left, right))
          <=> Residue(type, TargetExact(op, m, n)) # TargetExact(op, m, n)
    BY <1>1, <1>5, WarningIs
  <2>2. FoldBinary(type, op, left, right).warned = Overflows(type, Arith(op, left, right))
    BY DEF FoldBinary
  <2>. QED  BY <2>1, <2>2
<1>. HIDE DEF m, n
<1>6. QED
  BY <1>2, <1>3, <1>4, <1>5, Zenon DEF m, n

\* Whatever the width of a limb, the type, the operator and its operands: a
\* folded constant is what the instruction of the type leaves, where LLVM defines
\* one, and a narrower type is warned about exactly when the result is cut.
THEOREM FoldingAgrees == Spec => []FoldAgrees
<1>1. Spec => []Operands
  BY OperandsInvariant
<1>2. Operands => FoldAgrees
  BY FoldsAgree
<1>. QED  BY <1>1, <1>2, PTL

-----------------------------------------------------------------------------
(* Digits.                                                                 *)

\* Every character has a digit, a number: -1 for a separator.
LEMMA DigitFacts ==
    /\ \A c : DigitOf(c) \in Int
    /\ DigitOf("'") = -1
<1>1. \A T \in SUBSET Nat : T # {} => Min(T) \in T
  <2>1. TAKE T \in SUBSET Nat
  <2>2. HAVE T # {}
  <2>3. \E m \in T : \A n \in T : m <= n
    BY <2>2, SmallestOf
  <2>. QED  BY <2>3 DEF Min
<1>2. ASSUME NEW T \in SUBSET Nat
      PROVE  (IF T # {} THEN Min(T) ELSE 0) \in Nat
  BY <1>1
<1>3. Len(DigitChars) = 36 /\ Len(UpperChars) = 26
  BY DEF DigitChars, UpperChars
<1>4. ASSUME NEW c
      PROVE  DigitOf(c) \in Int
  <2>1. SelectInSeq(DigitChars, LAMBDA d : d = c) \in Nat
        /\ SelectInSeq(UpperChars, LAMBDA d : d = c) \in Nat
    <3>. DEFINE I == {i \in 1 .. Len(DigitChars) : DigitChars[i] = c}
                J == {i \in 1 .. Len(UpperChars) : UpperChars[i] = c}
    <3>1. Len(DigitChars) \in Nat /\ Len(UpperChars) \in Nat
      BY <1>3
    <3>2. I \in SUBSET Nat /\ J \in SUBSET Nat
      BY <3>1
    <3>3. (IF I # {} THEN Min(I) ELSE 0) \in Nat /\ (IF J # {} THEN Min(J) ELSE 0) \in Nat
      <4>. HIDE DEF I, J
      <4>. QED  BY <1>2, <3>2
    <3>. QED  BY <3>3 DEF SelectInSeq
  <2>. QED  BY <2>1 DEF DigitOf
<1>5. DigitOf("'") = -1
  <2>1. \A i \in 1 .. 36 : DigitChars[i] # "'"
    BY DEF DigitChars
  <2>2. \A i \in 1 .. 26 : UpperChars[i] # "'"
    BY DEF UpperChars
  <2>3. ~Contains(DigitChars, "'") /\ ~Contains(UpperChars, "'")
    BY <1>3, <2>1, <2>2 DEF Contains
  <2>. QED  BY <2>3 DEF DigitOf
<1>. QED  BY <1>4, <1>5

\* A literal has no sign.
LEMMA NoSigns ==
    /\ "-" \notin NumberChars /\ "+" \notin NumberChars
<1>1. Len(DigitChars) = 36 /\ Len(UpperChars) = 26
  BY DEF DigitChars, UpperChars
<1>2. \A i \in 1 .. 36 : DigitChars[i] # "-" /\ DigitChars[i] # "+"
  BY DEF DigitChars
<1>3. \A i \in 1 .. 26 : UpperChars[i] # "-" /\ UpperChars[i] # "+"
  BY DEF UpperChars
<1>4. DOMAIN DigitChars = 1 .. 36 /\ DOMAIN UpperChars = 1 .. 26
  BY DEF DigitChars, UpperChars
<1>. QED  BY <1>2, <1>3, <1>4 DEF NumberChars, Range

-----------------------------------------------------------------------------
(* The largest magnitude to which a digit may be appended.                 *)

\* A number below the width, in two limbs.
LEMMA SmallUnsigned ==
    ASSUME NEW n \in 0 .. WideSize - 1
    PROVE  /\ UINT128(n) \in Wide /\ UValue(UINT128(n)) = n
           /\ UINT128_H(n % LimbSize, n \div LimbSize) = UINT128(n)
<1>1. PICK m \in Nat \ {0} : m = LimbSize /\ WideSize = m * m
  BY Sizes
<1>2. n \in Int
  BY <1>1
<1>3. PICK q \in Int, r \in 0 .. m - 1 : q = n \div m /\ r = n % m /\ n = q * m + r
  <2>1. \E q \in Int, r \in 0 .. m - 1 : q = n \div m /\ r = n % m /\ n = q * m + r
    BY <1>1, <1>2, DividedIn, Zenon
  <2>. QED  BY ONLY <2>1, Zenon
<1>4. q \in 0 .. m - 1
  <2>1. 0 <= q * m + r /\ q * m + r < m * m
    BY <1>1, <1>3
  <2>2. CASE q <= -1
    <3>1. q * m <= -m
      BY <2>2, ProductSign
    <3>. QED  BY ONLY <2>1, <3>1, r \in 0 .. m - 1, q \in Int, m \in Nat \ {0}
  <2>3. CASE q >= m
    <3>1. PICK e \in Nat : q = m + e
      <4>1. q - m \in Nat /\ q = m + (q - m)
        BY <2>3
      <4>. QED  BY <4>1
    <3>2. (m + e) * m = m * m + e * m /\ e * m >= 0 /\ e * m \in Int
      BY ONLY m \in Nat \ {0}, e \in Nat
    <3>3. q * m = (m + e) * m
      BY <3>1, Zenon
    <3>. QED  BY ONLY <2>1, <3>2, <3>3, r \in 0 .. m - 1, m \in Nat \ {0}
  <2>. QED  BY <2>2, <2>3
<1>5. UINT128(n) = [lo |-> r, hi |-> q]
  BY <1>1, <1>3 DEF UINT128, ToLimb
<1>. QED  BY <1>1, <1>3, <1>4, <1>5 DEF Wide, Limb, UValue, UINT128, UINT128_H, ToLimb

\* The largest numbers, unsigned and signed.
LEMMA Largest ==
    /\ UINT128_MAX \in Wide /\ UValue(UINT128_MAX) = WideSize - 1
    /\ INT128_MAX \in Wide /\ 2 * UValue(INT128_MAX) = WideSize - 2
<1>1. PICK m \in Nat \ {0}, h \in Nat \ {0} : m = LimbSize /\ WideSize = m * m /\ m = 2 * h
  BY Sizes
<1>2. m - 1 \in Limb /\ h - 1 \in Limb /\ LimbSize \div 2 = h
  BY <1>1 DEF Limb
<1>3. UINT128_MAX = [lo |-> m - 1, hi |-> m - 1] /\ INT128_MAX = [lo |-> m - 1, hi |-> h - 1]
  BY <1>1, <1>2 DEF UINT128_MAX, INT128_MAX
<1>4. (m - 1) * m + (m - 1) = m * m - 1
  BY ONLY m \in Nat \ {0}
<1>5. 2 * ((h - 1) * m + (m - 1)) = m * m - 2
  <2>1. 2 * ((h - 1) * (2 * h) + (2 * h - 1)) = (2 * h) * (2 * h) - 2
    BY ONLY h \in Nat \ {0}
  <2>2. m = 2 * h
    BY <1>1
  <2>. QED  BY <2>1, <2>2, Zenon
<1>. QED  BY <1>1, <1>2, <1>3, <1>4, <1>5 DEF Wide, UValue

\* The divisions with which strconv.c bounds a number are in order in a build with a
\* 128-bit type, and for the bases that are powers of two.
LEMMA ThresholdIs ==
    ASSUME base \in 2 .. 36, native \/ base \in {2, 8, 16}, NEW d \in 0 .. base - 1
    PROVE  /\ Threshold(d) \in Wide
           /\ UValue(Threshold(d)) = (WideSize - 1 - d) \div base
<1>1. PICK w \in Nat : w = WideSize /\ 36 < w
  BY Sizes, LiteralsAssumption
<1>2. PICK b \in Nat \ {0} : b = base /\ b <= 36
  OBVIOUS
<1>3. /\ UINT128(base) \in Wide /\ UValue(UINT128(base)) = base
      /\ UINT128(d) \in Wide /\ UValue(UINT128(d)) = d
  <2>1. base \in 0 .. WideSize - 1 /\ d \in 0 .. WideSize - 1
    BY <1>1
  <2>. QED  BY <2>1, SmallUnsigned
<1>. DEFINE lhs == u128_sub(UINT128_MAX, UINT128(d))
<1>4. lhs \in Wide /\ UValue(lhs) = w - 1 - d
  <2>1. lhs \in Wide /\ Alike(UValue(UINT128_MAX) - UValue(UINT128(d)), UValue(lhs))
    BY <1>3, Largest, DifferenceFacts
  <2>2. w - 1 - d \in 0 .. WideSize - 1 /\ UValue(UINT128_MAX) - UValue(UINT128(d)) = w - 1 - d
    BY <1>1, <1>3, Largest
  <2>. HIDE DEF lhs
  <2>. QED  BY <2>1, <2>2, ValueIs
<1>5. Threshold(d) = BuiltDiv(lhs, UINT128(base))
  BY DEF Threshold
<1>. HIDE DEF lhs
<1>6. CASE native
  <2>1. PICK n \in Nat : n = w - 1 - d /\ n <= w - 1
    BY <1>1
  <2>2. PICK q \in Int, r \in 0 .. b - 1 : q = n \div b /\ n = q * b + r
    <3>1. \E q \in Int, r \in 0 .. b - 1 : q = n \div b /\ r = n % b /\ n = q * b + r
      BY DividedIn
    <3>. QED  BY ONLY <3>1, Zenon
  <2>3. q \in 0 .. w - 1
    <3>1. CASE q <= -1
      <4>1. q * b <= -b
        BY <3>1, ProductSign
      <4>. QED  BY ONLY <2>1, <2>2, <4>1, b \in Nat \ {0}
    <3>2. CASE q >= w
      <4>1. PICK e \in Nat, f \in Nat : q = w + e /\ b = 1 + f
        <5>1. q - w \in Nat /\ q = w + (q - w) /\ b - 1 \in Nat /\ b = 1 + (b - 1)
          BY <3>2
        <5>. QED  BY <5>1
      <4>2. (w + e) * (1 + f) = w + e + w * f + e * f /\ w * f >= 0 /\ e * f >= 0
            /\ w * f \in Int /\ e * f \in Int
        BY ONLY w \in Nat, e \in Nat, f \in Nat
      <4>3. q * b = (w + e) * (1 + f)
        BY <4>1, Zenon
      <4>. QED  BY ONLY <2>1, <2>2, <4>2, <4>3, w \in Nat, e \in Nat, b \in Nat \ {0}
    <3>. QED  BY <3>1, <3>2
  <2>4. UValue(lhs) \div UValue(UINT128(base)) = q
    BY <1>2, <1>3, <1>4, <2>1, <2>2
  <2>5. Threshold(d) = UINT128_H(q % LimbSize, q \div LimbSize)
    BY <1>5, <1>6, <2>4 DEF BuiltDiv
  <2>6. q \in 0 .. WideSize - 1
    BY <1>1, <2>3
  <2>7. Threshold(d) \in Wide /\ UValue(Threshold(d)) = q
    BY <2>5, <2>6, SmallUnsigned
  <2>. QED  BY <1>1, <1>2, <2>1, <2>2, <2>7
<1>7. CASE ~native
  <2>1. \E k \in Nat : base = Pow2[k]
    <3>1. Pow2[1] = 2 /\ Pow2[2] = 4 /\ Pow2[3] = 8 /\ Pow2[4] = 16
      <4>1. \A n \in Nat : Pow2[n + 1] = 2 * Pow2[n]
        BY Powers
      <4>2. Pow2[0 + 1] = 2 * Pow2[0] /\ Pow2[1 + 1] = 2 * Pow2[1]
            /\ Pow2[2 + 1] = 2 * Pow2[2] /\ Pow2[3 + 1] = 2 * Pow2[3]
        BY <4>1
      <4>3. Pow2[0] = 1 /\ 0 + 1 = 1 /\ 1 + 1 = 2 /\ 2 + 1 = 3 /\ 3 + 1 = 4
        BY Powers
      <4>. QED  BY <4>2, <4>3
    <3>2. base = 2 \/ base = 8 \/ base = 16
      BY <1>7
    <3>3. 1 \in Nat /\ 3 \in Nat /\ 4 \in Nat
      OBVIOUS
    <3>. QED  BY <3>1, <3>2, <3>3
  <2>2. Orderly(lhs, UINT128(base)) /\ UValue(UINT128(base)) # 0
    BY <1>2, <1>3, <2>1 DEF Orderly
  <2>3. /\ u128_div(lhs, UINT128(base)) \in Wide
        /\ UValue(u128_div(lhs, UINT128(base))) = UValue(lhs) \div UValue(UINT128(base))
    BY <1>3, <1>4, <2>2, UnsignedQuotient
  <2>4. Threshold(d) = u128_div(lhs, UINT128(base))
    BY <1>5, <1>7 DEF BuiltDiv
  <2>. QED  BY <1>1, <1>3, <1>4, <2>3, <2>4
<1>. QED  BY <1>6, <1>7

\* A number exceeds the threshold of a digit exactly when the digit makes it too large.
LEMMA ThresholdMeans ==
    ASSUME NEW w \in Nat, NEW b \in Nat \ {0}, NEW d \in 0 .. b - 1, b <= w, NEW u \in Nat
    PROVE  u > (w - 1 - d) \div b <=> u * b + d > w - 1
<1>1. w - 1 - d \in Int
  OBVIOUS
<1>2. PICK q \in Int, r \in 0 .. b - 1 : q = (w - 1 - d) \div b /\ w - 1 - d = q * b + r
  <2>1. \E q \in Int, r \in 0 .. b - 1 :
           q = (w - 1 - d) \div b /\ r = (w - 1 - d) % b /\ w - 1 - d = q * b + r
    BY <1>1, DividedIn, Zenon
  <2>. QED  BY ONLY <2>1, Zenon
<1>3. CASE u > q
  <2>1. PICK e \in Nat : u = q + 1 + e
    <3>1. u - q - 1 \in Nat /\ u = q + 1 + (u - q - 1)
      BY <1>3
    <3>. QED  BY <3>1
  <2>2. (q + 1 + e) * b = q * b + b + e * b /\ e * b >= 0 /\ e * b \in Int /\ q * b \in Int
    BY ONLY q \in Int, e \in Nat, b \in Nat
  <2>3. u * b = (q + 1 + e) * b
    BY <2>1, Zenon
  <2>. QED  BY <1>2, <1>3, <2>2, <2>3
<1>4. CASE u <= q
  <2>1. PICK e \in Nat : q = u + e
    <3>1. q - u \in Nat /\ q = u + (q - u)
      BY <1>4
    <3>. QED  BY <3>1
  <2>2. (u + e) * b = u * b + e * b /\ e * b >= 0 /\ e * b \in Int /\ u * b \in Int
    BY ONLY u \in Nat, e \in Nat, b \in Nat
  <2>3. q * b = (u + e) * b
    BY <2>1, Zenon
  <2>. QED  BY <1>2, <1>4, <2>2, <2>3
<1>. QED  BY <1>3, <1>4

-----------------------------------------------------------------------------
(* What a text spells.                                                     *)

LEMMA SpellingIs ==
    ASSUME NEW s, Len(s) \in Nat, NEW b \in Int
    PROVE  /\ Spelling(s, b) \in [0 .. Len(s) -> Int]
           /\ Spelling(s, b)[0] = 0
           /\ \A i \in 1 .. Len(s) :
                 Spelling(s, b)[i] = IF s[i] \in {"'", "-"} THEN Spelling(s, b)[i - 1]
                                     ELSE Spelling(s, b)[i - 1] * b + DigitOf(s[i])
<1>. DEFINE S == 0 .. Len(s)
            Stop == {0}
            after == [i \in S |-> i - 1]
            measure == [i \in S |-> i]
            ended == [i \in S |-> 0]
            part(i, n) == IF s[i] \in {"'", "-"} THEN n ELSE n * b + DigitOf(s[i])
            combine == [p \in S \X Int |-> part(p[1], p[2])]
            Loop(f) == f = [i \in S |-> IF i = 0 THEN 0
                                        ELSE IF s[i] \in {"'", "-"} THEN f[i - 1]
                                        ELSE f[i - 1] * b + DigitOf(s[i])]
<1>1. \A i \in S, n \in Int : part(i, n) \in Int
  BY DigitFacts
<1>2. Decreases(S, Stop, after, measure)
  BY DEF Decreases
<1>3. \E f : Loop(f)
  <2>. DEFINE R == Int
  <2>1. ended \in [S -> R] /\ combine \in [S \X R -> R]
    <3>1. \A p \in S \X Int : p[1] \in S /\ p[2] \in Int
      OBVIOUS
    <3>. HIDE DEF S, part
    <3>. QED  BY <1>1, <3>1
  <2>2. \E f : Solves(f, S, R, Stop, after, ended, combine)
    <3>. HIDE DEF S, R, Stop, after, measure, ended, combine
    <3>. QED  BY <1>2, <2>1, RecursionExists
  <2>3. PICK f : Solves(f, S, R, Stop, after, ended, combine)
    <3>. HIDE DEF S, R, Stop, after, ended, combine
    <3>. QED  BY <2>2
  <2>4. f \in [S -> Int]
    <3>. HIDE DEF S
    <3>. QED  BY <2>3 DEF Solves
  <2>5. ASSUME NEW i \in S
        PROVE  f[i] = IF i = 0 THEN 0 ELSE part(i, f[i - 1])
    <3>1. f[i] = IF i \in Stop THEN ended[i] ELSE combine[<<i, f[after[i]]>>]
      <4>. HIDE DEF S, R, Stop, after, ended, combine
      <4>. QED  BY <2>3 DEF Solves
    <3>2. CASE i = 0
      BY <3>1, <3>2
    <3>3. CASE i # 0
      <4>1. i - 1 \in S /\ after[i] = i - 1
        BY <3>3
      <4>2. f[i - 1] \in Int
        <5>. HIDE DEF S
        <5>. QED  BY <2>4, <4>1
      <4>3. combine[<<i, f[i - 1]>>] = part(i, f[i - 1])
        <5>. HIDE DEF S, part
        <5>. QED  BY <4>2
      <4>4. f[i] = combine[<<i, f[i - 1]>>]
        <5>. HIDE DEF S, ended, after, combine
        <5>. QED  BY <3>1, <3>3, <4>1
      <4>. HIDE DEF combine, part
      <4>. QED  BY <3>3, <4>3, <4>4
    <3>. QED  BY <3>2, <3>3
  <2>6. Loop(f)
    <3>. HIDE DEF S
    <3>. QED  BY <2>4, <2>5
  <2>. QED  BY <2>6
<1>. DEFINE go == CHOOSE f : Loop(f)
<1>4. Loop(go)
  <2>. HIDE DEF Loop
  <2>. QED  BY <1>3
<1>5. Spelling(s, b) = go
  BY DEF Spelling
<1>. HIDE DEF go
<1>6. \A i \in S : go[i] = IF i = 0 THEN 0 ELSE part(i, go[i - 1])
  <2>. HIDE DEF S
  <2>. QED  BY <1>4
<1>7. \A i \in Nat : i \in S => go[i] \in Int
  <2>. DEFINE Good == {i \in Nat : i \in S => go[i] \in Int}
  <2>1. 0 \in Good
    BY <1>6
  <2>2. ASSUME NEW i \in Nat \ {0}, i - 1 \in Good
        PROVE  i \in Good
    <3>1. SUFFICES ASSUME i \in S
                   PROVE  go[i] \in Int
      OBVIOUS
    <3>2. i - 1 \in S
      BY <3>1
    <3>3. go[i - 1] \in Int
      BY <2>2, <3>2
    <3>4. go[i] = part(i, go[i - 1])
      <4>. HIDE DEF S, part
      <4>. QED  BY <1>6, <3>1
    <3>. HIDE DEF S, part
    <3>. QED  BY <1>1, <3>1, <3>3, <3>4
  <2>3. Nat \subseteq Good
    <3>. HIDE DEF Good
    <3>. QED  BY <2>1, <2>2, AllNumbers
  <2>. QED  BY <2>3
<1>8. go \in [S -> Int]
  <2>1. S \subseteq Nat
    OBVIOUS
  <2>2. \A i \in S : go[i] \in Int
    <3>. HIDE DEF S
    <3>. QED  BY <1>7, <2>1
  <2>3. go = [i \in S |-> go[i]]
    <3>. HIDE DEF S
    <3>. QED  BY <1>4
  <2>. HIDE DEF S
  <2>. QED  BY <2>2, <2>3
<1>9. \A i \in 1 .. Len(s) : i \in S /\ i # 0
  OBVIOUS
<1>10. go[0] = 0
  BY <1>6
<1>11. \A i \in 1 .. Len(s) : go[i] = part(i, go[i - 1])
  <2>. HIDE DEF part, S
  <2>. QED  BY <1>6, <1>9
<1>. HIDE DEF go
<1>. QED  BY <1>5, <1>8, <1>10, <1>11

\* More digits spell a larger number.
LEMMA SpellingGrows ==
    ASSUME NEW s, Len(s) \in Nat, NEW b \in Nat \ {0},
           \A i \in 1 .. Len(s) : s[i] \in {"'", "-"} \/ DigitOf(s[i]) \in 0 .. b - 1
    PROVE  \A i \in 0 .. Len(s) : \A j \in 0 .. i :
              Spelling(s, b)[j] >= 0 /\ Spelling(s, b)[j] <= Spelling(s, b)[i]
<1>. DEFINE f == Spelling(s, b)
            Good == {i \in Nat : i <= Len(s) => /\ f[i] \in Nat
                                                /\ \A j \in 0 .. i : f[j] \in Nat /\ f[j] <= f[i]}
<1>1. /\ f[0] = 0
      /\ \A i \in 1 .. Len(s) :
            f[i] = IF s[i] \in {"'", "-"} THEN f[i - 1] ELSE f[i - 1] * b + DigitOf(s[i])
  BY SpellingIs
<1>. HIDE DEF f
<1>2. 0 \in Good
  BY <1>1
<1>3. ASSUME NEW i \in Nat \ {0}, i - 1 \in Good
      PROVE  i \in Good
  <2>1. SUFFICES ASSUME i <= Len(s)
                 PROVE  f[i] \in Nat /\ \A j \in 0 .. i : f[j] \in Nat /\ f[j] <= f[i]
    OBVIOUS
  <2>2. f[i - 1] \in Nat /\ \A j \in 0 .. i - 1 : f[j] \in Nat /\ f[j] <= f[i - 1]
    BY <1>3, <2>1
  <2>3. i \in 1 .. Len(s)
    BY <2>1
  <2>4. f[i] \in Nat /\ f[i - 1] <= f[i]
    <3>1. CASE s[i] \in {"'", "-"}
      <4>1. f[i] = f[i - 1]
        BY <1>1, <2>3, <3>1
      <4>. QED  BY <2>2, <4>1
    <3>2. CASE s[i] \notin {"'", "-"}
      <4>1. PICK n \in Nat, d \in Nat, c \in Nat :
               n = f[i - 1] /\ d = DigitOf(s[i]) /\ b = 1 + c
        <5>1. DigitOf(s[i]) \in 0 .. b - 1
          BY <2>3, <3>2
        <5>2. b - 1 \in Nat /\ b = 1 + (b - 1)
          OBVIOUS
        <5>. QED  BY <2>2, <5>1, <5>2
      <4>2. f[i] = n * b + d
        BY <1>1, <2>3, <3>2, <4>1
      <4>3. n * (1 + c) + d >= n /\ n * (1 + c) + d \in Nat
        <5>1. n * (1 + c) = n + n * c /\ n * c >= 0 /\ n * c \in Int
          BY ONLY n \in Nat, c \in Nat
        <5>. QED  BY <5>1
      <4>. QED  BY <4>1, <4>2, <4>3
    <3>. QED  BY <3>1, <3>2
  <2>5. ASSUME NEW j \in 0 .. i
        PROVE  f[j] \in Nat /\ f[j] <= f[i]
    <3>1. CASE j = i
      BY <2>4, <3>1
    <3>2. CASE j # i
      <4>1. j \in 0 .. i - 1
        BY <3>2
      <4>2. f[j] \in Nat /\ f[j] <= f[i - 1]
        BY <2>2, <4>1
      <4>. QED  BY <2>2, <2>4, <4>2
    <3>. QED  BY <3>1, <3>2
  <2>. QED  BY <2>4, <2>5
<1>4. Nat \subseteq Good
  <2>. HIDE DEF Good
  <2>. QED  BY <1>2, <1>3, AllNumbers
<1>5. TAKE i \in 0 .. Len(s)
<1>6. TAKE j \in 0 .. i
<1>7. f[j] \in Nat /\ f[j] <= f[i]
  <2>1. i \in Good /\ i <= Len(s)
    <3>. HIDE DEF Good
    <3>. QED  BY <1>4
  <2>. QED  BY <2>1
<1>. QED  BY <1>7 DEF f

-----------------------------------------------------------------------------
(* Literals.                                                               *)

\* Where the literal behind its prefix starts.
First(s) == IF PrefixBase(s) = 10 THEN 0 ELSE 2

\* What WriteDigit can write, and what EndWriting can hand to the conversion.
DigitsBelow(b) == {DigitChars[i] : i \in 1 .. b}
Signs(t) == IF t[1] = "-" THEN 1 ELSE 0
Written(t) ==
    /\ Len(t) \in Nat /\ Len(t) > Signs(t)
    /\ \A i \in Signs(t) + 1 .. Len(t) : t[i] \in DigitsBelow(10)

\* A literal that is being converted: what was read of it are separators and digits,
\* and the magnitude is what these spell.
Read(s) ==
    /\ base = PrefixBase(s) /\ ~BadPrefix(s)
    /\ pos \in First(s) .. Len(s)
    /\ \A i \in 1 .. pos - First(s) :
          Unprefixed(s)[i] = "'" \/ DigitOf(Unprefixed(s)[i]) \in 0 .. base - 1
    /\ ~digits => \A i \in 1 .. pos - First(s) : Unprefixed(s)[i] = "'"
    /\ native \/ base # 10 =>
          res \in Wide /\ UValue(res) = Spelling(Unprefixed(s), base)[pos - First(s)]

\* The inductive invariant: the operands, a number being written, its text being read
\* again, a literal being converted, and the end of either conversion.
Idle == mode = "operands" /\ native = FALSE /\ base = 0 /\ pos = 0 /\ digits = FALSE
Writing ==
    /\ mode = "write" /\ native = FALSE /\ pos = 0 /\ digits = FALSE
    /\ base \in 2 .. 36
    /\ rest \in Wide /\ 2 * UValue(rest) <= WideSize
    /\ lexeme \in Seq(DigitsBelow(base))
    /\ rest = Zero => lexeme # <<>>
    /\ left = Zero => rest = Zero /\ lexeme = <<"0">>
Rereading ==
    /\ mode = "convert" /\ native = FALSE
    /\ Written(lexeme)
    /\ left = Zero => lexeme = <<"0">>
    /\ \/ base = 0 /\ pos = 0 /\ digits = FALSE
       \/ base = 10 /\ pos \in Signs(lexeme) .. Len(lexeme) /\ (~digits => pos = Signs(lexeme))
Converting ==
    /\ mode = "convert" /\ native \in BOOLEAN /\ left = Zero
    /\ lexeme \in Lexemes /\ reports = 0 /\ value = Zero
    /\ \/ base = 0 /\ pos = 0 /\ digits = FALSE /\ res = Zero
       \/ Read(lexeme)
Literals ==
    /\ left \in Wide
    /\ \/ Idle \/ Writing \/ Rereading \/ Converting
       \/ mode \in {"done", "aborted"} /\ LiteralExact

\* A literal has no sign, before or behind its prefix.
LEMMA LiteralFacts ==
    ASSUME NEW s \in Seq(NumberChars)
    PROVE  /\ Len(s) \in Nat /\ Len(Unprefixed(s)) \in Nat
           /\ First(s) \in {0, 2} /\ First(s) + Len(Unprefixed(s)) = Len(s)
           /\ \A i \in 1 .. Len(Unprefixed(s)) : /\ Unprefixed(s)[i] = s[First(s) + i]
                                                 /\ Unprefixed(s)[i] \in NumberChars
           /\ ~Signed(Unprefixed(s)) /\ ~Negative(Unprefixed(s))
           /\ PrefixBase(s) \in {2, 8, 10, 16}
           /\ First(s) = IF PrefixBase(s) = 10 THEN 0 ELSE 2
<1>. DEFINE t == Unprefixed(s)
<1>1. PrefixBase(s) \in {2, 8, 10, 16} /\ (PrefixBase(s) # 10 => Len(s) > 2)
  <2>1. CASE HasPrefix(s)
    BY <2>1 DEF PrefixBase, HasPrefix
  <2>2. CASE ~HasPrefix(s)
    BY <2>2 DEF PrefixBase
  <2>. QED  BY <2>1, <2>2
<1>2. CASE PrefixBase(s) = 10
  <2>1. t = s /\ First(s) = 0
    BY <1>2 DEF Unprefixed, First
  <2>2. \A i \in 1 .. Len(s) : s[i] \in NumberChars
    OBVIOUS
  <2>3. s # <<>> => s[1] \in NumberChars
    OBVIOUS
  <2>. QED  BY <1>1, <1>2, <2>1, <2>2, <2>3, NoSigns DEF Signed, Negative
<1>3. CASE PrefixBase(s) # 10
  <2>1. t = SubSeq(s, 3, Len(s)) /\ First(s) = 2 /\ Len(s) \in Nat /\ Len(s) > 2
    BY <1>1, <1>3 DEF Unprefixed, First
  <2>2. /\ t \in Seq(NumberChars) /\ Len(t) = Len(s) - 2
        /\ \A i \in 1 .. Len(s) - 2 : t[i] = s[2 + i]
    <3>1. 3 \in 1 .. Len(s) + 1 /\ Len(s) \in 0 .. Len(s)
      BY <2>1
    <3>2. \A i \in 3 .. Len(s) : s[i] \in NumberChars
      BY <2>1
    <3>3. /\ SubSeq(s, 3, Len(s)) \in Seq(NumberChars)
          /\ Len(SubSeq(s, 3, Len(s))) = Len(s) - 3 + 1
          /\ \A i \in 1 .. Len(s) - 3 + 1 : SubSeq(s, 3, Len(s))[i] = s[3 + i - 1]
      BY <2>1
    <3>. QED  BY <2>1, <3>3
  <2>. HIDE DEF t
  <2>3. \A i \in 1 .. Len(t) : t[i] \in NumberChars
    BY <2>2
  <2>4. t # <<>> /\ t[1] \in NumberChars
    <3>1. PICK n \in Nat : n = Len(t) /\ n > 0
      BY <2>1, <2>2
    <3>2. 1 \in 1 .. Len(t)
      BY <3>1
    <3>3. t # <<>>
      BY <3>1
    <3>4. t[1] \in NumberChars
      BY <2>3, <3>2
    <3>. QED  BY <3>3, <3>4
  <2>5. ~Signed(t) /\ ~Negative(t)
    BY <2>4, NoSigns DEF Signed, Negative
  <2>6. Len(t) \in Nat /\ 2 + Len(t) = Len(s)
    BY <2>1, <2>2
  <2>. QED  BY <1>1, <1>3, <2>1, <2>2, <2>3, <2>5, <2>6 DEF t
<1>. QED  BY <1>2, <1>3

\* Decimal digits are no signs, no separators and no prefixes.
LEMMA DecimalFacts ==
    \A c \in DigitsBelow(10) : c \notin {"-", "+", "'", "x", "o", "b"}
<1>1. \A i \in 1 .. 10 : DigitChars[i] \notin {"-", "+", "'", "x", "o", "b"}
  BY DEF DigitChars
<1>. QED  BY <1>1 DEF DigitsBelow

\* A number that was written has no prefix, and no other sign than the one in front.
LEMMA WrittenFacts ==
    ASSUME NEW t, Written(t)
    PROVE  /\ PrefixBase(t) = 10 /\ Unprefixed(t) = t /\ First(t) = 0
           /\ Len(t) \in Nat /\ Signs(t) \in {0, 1} /\ Len(t) > Signs(t)
           /\ Signed(t) => Signs(t) = 1
           /\ ~Signed(t) => Signs(t) = 0
           /\ \A i \in Signs(t) + 1 .. Len(t) : t[i] # "'"
<1>1. Signs(t) \in {0, 1} /\ Len(t) \in Nat /\ Len(t) > Signs(t)
      /\ \A i \in Signs(t) + 1 .. Len(t) : t[i] \in DigitsBelow(10)
  BY DEF Signs, Written
<1>2. PrefixBase(t) = 10
  <2>1. HasPrefix(t) => t[2] \notin {"x", "o", "b"}
    <3>1. SUFFICES ASSUME HasPrefix(t)
                   PROVE  t[2] \notin {"x", "o", "b"}
      OBVIOUS
    <3>2. 2 \in Signs(t) + 1 .. Len(t)
      BY <1>1, <3>1 DEF HasPrefix, Signs
    <3>3. t[2] \in DigitsBelow(10)
      BY <1>1, <3>2
    <3>. QED  BY <3>3, DecimalFacts
  <2>. QED  BY <2>1 DEF PrefixBase
<1>3. t # <<>>
  BY <1>1
<1>4. Signs(t) = 0 => t[1] \notin {"-", "+"}
  <2>1. SUFFICES ASSUME Signs(t) = 0
                 PROVE  t[1] \notin {"-", "+"}
    OBVIOUS
  <2>2. 1 \in Signs(t) + 1 .. Len(t)
    BY <1>1, <2>1
  <2>3. t[1] \in DigitsBelow(10)
    BY <1>1, <2>2
  <2>. QED  BY <2>3, DecimalFacts
<1>5. (Signed(t) => Signs(t) = 1) /\ (~Signed(t) => Signs(t) = 0)
  BY <1>1, <1>3, <1>4 DEF Signed, Signs
<1>. QED  BY <1>1, <1>2, <1>5, DecimalFacts DEF Unprefixed, First

\* What a literal comes to.
Result(s, v, n) ==
    LET spelled == Spelled(Unprefixed(s), PrefixBase(s))
    IN  IF WellFormed(s) /\ 2 * spelled < WideSize
        THEN n = 0 /\ IValue(v) = spelled
        ELSE n = 1 /\ v = Zero

LEMMA EndsWith ==
    ASSUME Literals, mode' = "done", left' = left, lexeme' = lexeme, native' = native,
           left = Zero /\ (native \/ PrefixBase(lexeme) # 10)
              => Result(lexeme, value', reports')
    PROVE  Literals'
<1>1. LiteralExact'
  BY DEF LiteralExact, Result
<1>2. left' \in Wide
  BY DEF Literals
<1>. QED  BY <1>1, <1>2 DEF Literals

\* An error stands for the number zero.
LEMMA ErrorIsZero == INT128(0) = Zero /\ Zero \in Wide /\ UValue(Zero) = 0
BY UnsignedZero DEF Zero

\* The first character of a literal.
LEMMA StartReads ==
    ASSUME Literals, Converting, StartConversion
    PROVE  Literals'
<1>1. /\ mode = "convert" /\ native \in BOOLEAN /\ left = Zero /\ left \in Wide
      /\ lexeme \in Lexemes /\ reports = 0 /\ value = Zero
      /\ base = 0 /\ pos = 0 /\ digits = FALSE /\ res = Zero
  <2>1. base = 0
    BY DEF StartConversion
  <2>2. lexeme \in Seq(NumberChars)
    BY LiteralsAssumption DEF Converting
  <2>3. ~Read(lexeme)
    BY <2>1, <2>2, LiteralFacts, SMTT(40) DEF Read
  <2>. QED  BY <2>1, <2>3 DEF Converting, Literals
<1>2. PICK s \in Seq(NumberChars) : s = lexeme
  BY <1>1, LiteralsAssumption
<1>3. CASE BadPrefix(lexeme) /\ Returns(INT128(0), 1)
  <2>1. /\ mode' = "done" /\ left' = left /\ lexeme' = lexeme /\ native' = native
        /\ value' = Zero /\ reports' = 1
    BY <1>1, <1>3, ErrorIsZero DEF Returns
  <2>2. ~WellFormed(lexeme)
    BY <1>3 DEF WellFormed
  <2>3. Result(lexeme, value', reports')
    BY <2>1, <2>2 DEF Result
  <2>. QED  BY <2>1, <2>3, EndsWith
<1>4. CASE ~BadPrefix(lexeme)
  <2>1. /\ First(s) \in {0, 2} /\ First(s) <= Len(s) /\ Len(s) \in Nat
        /\ First(s) = IF PrefixBase(s) = 10 THEN 0 ELSE 2
        /\ Len(Unprefixed(s)) \in Nat /\ ~Signed(Unprefixed(s))
        /\ PrefixBase(s) \in {2, 8, 10, 16}
    BY LiteralFacts
  <2>2. /\ base' = PrefixBase(s) /\ pos' = First(s)
        /\ UNCHANGED <<mode, native, left, lexeme, res, digits, value, reports>>
    BY <1>2, <1>4, <2>1 DEF StartConversion
  <2>3. Spelling(Unprefixed(s), PrefixBase(s))[0] = 0
    <3>1. PrefixBase(s) \in Int
      BY <2>1
    <3>. QED  BY <2>1, <3>1, SpellingIs
  <2>4. Read(s)'
    <3>1. PrefixBase(s)' = PrefixBase(s) /\ BadPrefix(s)' = BadPrefix(s) /\ First(s)' = First(s)
          /\ Unprefixed(s)' = Unprefixed(s) /\ First(s) - First(s) = 0
      BY <2>1
    <3>2. pos' \in First(s) .. Len(s)
      BY <2>1, <2>2
    <3>3. pos' - First(s) = 0
      BY <2>1, <2>2
    <3>4. res' \in Wide /\ UValue(res') = 0
      BY <1>1, <2>2, ErrorIsZero
    <3>5. \A i \in 1 .. pos' - First(s) : FALSE
      BY <3>3
    <3>. QED  BY <1>2, <1>4, <2>2, <2>3, <3>2, <3>3, <3>4, <3>5 DEF Read
  <2>5. Read(lexeme)'
    BY <1>2, <2>2, <2>4
  <2>6. Converting'
    BY <1>1, <2>2, <2>5 DEF Converting
  <2>. QED  BY <1>1, <2>2, <2>6 DEF Literals
<1>. QED  BY <1>3, <1>4 DEF StartConversion

\* The magnitude with one more digit.
LEMMA Appended ==
    ASSUME NEW v \in Wide, NEW b \in 2 .. 36, NEW d \in 0 .. b - 1,
           NEW u \in Nat, UValue(v) = u, u * b + d < WideSize
    PROVE  LET r == u128_add(u128_mul(v, UINT128(b)), UINT128(d))
           IN  r \in Wide /\ UValue(r) = u * b + d
<1>1. PICK w \in Nat : w = WideSize /\ 36 < w
  BY Sizes, LiteralsAssumption
<1>2. /\ UINT128(b) \in Wide /\ UValue(UINT128(b)) = b
      /\ UINT128(d) \in Wide /\ UValue(UINT128(d)) = d
  <2>1. b \in 0 .. WideSize - 1 /\ d \in 0 .. WideSize - 1
    BY <1>1
  <2>. QED  BY <2>1, SmallUnsigned
<1>. DEFINE p == u128_mul(v, UINT128(b))
            r == u128_add(p, UINT128(d))
<1>3. p \in Wide /\ Alike(u * b, UValue(p))
  BY <1>2, ProductFacts
<1>. HIDE DEF p
<1>4. r \in Wide /\ Alike(UValue(p) + d, UValue(r))
  BY <1>2, <1>3, SumFacts DEF u128_add
<1>. HIDE DEF r
<1>5. u * b \in Nat /\ UValue(p) \in Int /\ UValue(r) \in Int /\ d \in Int
  <2>1. UValue(p) \in Int /\ UValue(r) \in Int
    BY <1>3, <1>4, ValueFacts, Sizes
  <2>2. u * b \in Nat
    BY ONLY u \in Nat, b \in 2 .. 36
  <2>. QED  BY <2>1, <2>2
<1>6. Alike(u * b + d, UValue(p) + d)
  <2>1. \A i, j \in Int : Alike(i, j) => Alike(i + d, j + d)
    <3>1. Alike(d, d)
      BY <1>5, AlikeSame
    <3>. QED  BY <1>5, <3>1, AlikeFacts
  <2>. QED  BY <1>3, <1>5, <2>1
<1>7. Alike(u * b + d, UValue(r))
  <2>1. u * b + d \in Int /\ UValue(p) + d \in Int
    BY <1>5
  <2>. QED  BY <1>4, <1>5, <1>6, <2>1, AlikeStep
<1>8. u * b + d \in 0 .. WideSize - 1
  BY <1>1, <1>5
<1>9. UValue(r) = u * b + d
  BY <1>4, <1>7, <1>8, ValueIs
<1>. QED  BY <1>4, <1>9 DEF r, p

\* One character of a literal.
LEMMA CharReads ==
    ASSUME Literals, Converting, ConvertChar
    PROVE  Literals'
<1>1. /\ mode = "convert" /\ native \in BOOLEAN /\ left = Zero /\ left \in Wide
      /\ lexeme \in Lexemes /\ reports = 0 /\ value = Zero
      /\ base # 0 /\ Read(lexeme) /\ pos < Len(lexeme)
  BY DEF Converting, Literals, ConvertChar
<1>2. PICK s \in Seq(NumberChars) : s = lexeme
  BY <1>1, LiteralsAssumption
<1>0. PICK t : t = Unprefixed(s)
  OBVIOUS
<1>3. PICK first \in {0, 2}, n \in Nat :
         /\ t = Unprefixed(s) /\ first = First(s) /\ n = Len(t)
         /\ Len(s) = first + n
         /\ \A i \in 1 .. n : t[i] = s[first + i] /\ t[i] \in NumberChars
         /\ PrefixBase(s) \in {2, 8, 10, 16}
  BY <1>0, LiteralFacts
<1>4. /\ base = PrefixBase(s) /\ ~BadPrefix(s)
      /\ pos \in first .. first + n
      /\ \A i \in 1 .. pos - first : t[i] = "'" \/ DigitOf(t[i]) \in 0 .. base - 1
      /\ ~digits => \A i \in 1 .. pos - first : t[i] = "'"
      /\ native \/ base # 10 => res \in Wide /\ UValue(res) = Spelling(t, base)[pos - first]
  BY <1>1, <1>2, <1>3 DEF Read
<1>5. PICK b \in {2, 8, 10, 16} : b = base
  BY <1>3, <1>4
<1>6. PICK k \in 0 .. n - 1 : k = pos - first /\ pos = first + k /\ pos + 1 = first + (k + 1)
  <2>1. pos - first \in 0 .. n - 1
    BY <1>1, <1>2, <1>3, <1>4
  <2>. QED  BY <1>4, <2>1
<1>7. k + 1 \in 1 .. n
  BY <1>6
<1>8. PICK c : c = lexeme[pos + 1] /\ c = t[k + 1] /\ c \in NumberChars
  BY <1>2, <1>3, <1>6, <1>7, ZenonT(60)
<1>9. PICK d \in Int : d = DigitOf(c)
  BY DigitFacts
<1>. DEFINE f == Spelling(t, b)
<1>10. /\ f \in [0 .. n -> Int] /\ f[0] = 0
       /\ \A i \in 1 .. n : f[i] = IF t[i] \in {"'", "-"} THEN f[i - 1]
                                   ELSE f[i - 1] * b + DigitOf(t[i])
  <2>1. Len(t) \in Nat /\ b \in Int
    BY <1>3
  <2>2. n = Len(t)
    BY <1>3
  <2>. HIDE DEF f
  <2>3. /\ f \in [0 .. Len(t) -> Int] /\ f[0] = 0
        /\ \A i \in 1 .. Len(t) : f[i] = IF t[i] \in {"'", "-"} THEN f[i - 1]
                                         ELSE f[i - 1] * b + DigitOf(t[i])
    BY <2>1, SpellingIs DEF f
  <2>. QED  BY <2>2, <2>3
<1>. HIDE DEF f
<1>11. f[k + 1] = IF c = "'" THEN f[k] ELSE f[k] * b + d
  <2>1. c # "-"
    BY <1>8, NoSigns
  <2>2. (k + 1) - 1 = k
    BY <1>6
  <2>3. f[k + 1] = IF t[k + 1] \in {"'", "-"} THEN f[(k + 1) - 1]
                   ELSE f[(k + 1) - 1] * b + DigitOf(t[k + 1])
    BY <1>7, <1>10
  <2>. QED  BY <1>8, <1>9, <2>1, <2>2, <2>3
<1>12. f[k] \in Int /\ f[n] \in Int
  BY <1>6, <1>10
<1>13. Spelled(Unprefixed(lexeme), PrefixBase(lexeme)) = f[n]
  BY <1>2, <1>3, <1>4, <1>5 DEF Spelled, f
<1>14. WellFormed(lexeme) => \A i \in 1 .. n : t[i] = "'" \/ DigitOf(t[i]) \in 0 .. b - 1
  BY <1>2, <1>3, <1>4, <1>5 DEF WellFormed
<1>15. native \/ b # 10 => /\ res \in Wide /\ UValue(res) = f[k] /\ f[k] \in Nat
                           /\ \A e \in 0 .. b - 1 :
                                 u128_gt(res, Threshold(e)) <=> f[k] * b + e > WideSize - 1
  <2>1. SUFFICES ASSUME native \/ b # 10
                 PROVE  /\ res \in Wide /\ UValue(res) = f[k] /\ f[k] \in Nat
                        /\ \A e \in 0 .. b - 1 :
                              u128_gt(res, Threshold(e)) <=> f[k] * b + e > WideSize - 1
    OBVIOUS
  <2>2. res \in Wide /\ UValue(res) = f[k]
    BY <1>4, <1>5, <1>6, <2>1 DEF f
  <2>3. UValue(res) \in Nat
    <3>1. UValue(res) \in 0 .. WideSize - 1
      BY <2>2, ValueFacts
    <3>. QED  BY <3>1, Sizes
  <2>4. ASSUME NEW e \in 0 .. b - 1
        PROVE  u128_gt(res, Threshold(e)) <=> f[k] * b + e > WideSize - 1
    <3>1. base \in 2 .. 36 /\ (native \/ base \in {2, 8, 16}) /\ e \in 0 .. base - 1
      BY <1>5, <2>1
    <3>2. Threshold(e) \in Wide /\ UValue(Threshold(e)) = (WideSize - 1 - e) \div b
      BY <1>5, <3>1, ThresholdIs
    <3>3. u128_gt(res, Threshold(e)) <=> UValue(Threshold(e)) < UValue(res)
      BY <2>2, <3>2, OrderFacts
    <3>4. WideSize \in Nat /\ b \in Nat \ {0} /\ b <= WideSize
      BY Sizes, LiteralsAssumption
    <3>5. f[k] > (WideSize - 1 - e) \div b <=> f[k] * b + e > WideSize - 1
      BY <2>2, <2>3, <3>4, ThresholdMeans
    <3>6. (WideSize - 1 - e) \div b \in Int
      BY <3>4
    <3>. QED  BY <2>2, <2>3, <3>2, <3>3, <3>5, <3>6
  <2>. QED  BY <2>2, <2>3, <2>4
<1>16. CASE d \in 0 .. base - 1 /\ u128_gt(res, Threshold(d)) /\ Returns(INT128(0), 1)
  <2>1. /\ mode' = "done" /\ left' = left /\ lexeme' = lexeme /\ native' = native
        /\ value' = Zero /\ reports' = 1
    BY <1>1, <1>16, ErrorIsZero DEF Returns
  <2>2. ASSUME native \/ PrefixBase(lexeme) # 10, WellFormed(lexeme)
        PROVE  ~(2 * f[n] < WideSize)
    <3>1. f[k] * b + d > WideSize - 1 /\ f[k] \in Nat
      BY <1>2, <1>4, <1>5, <1>15, <1>16, <2>2
    <3>2. c # "'"
      BY <1>5, <1>9, <1>16, DigitFacts
    <3>3. f[k + 1] > WideSize - 1
      BY <1>11, <3>1, <3>2
    <3>4. f[k + 1] <= f[n] /\ f[k + 1] >= 0
      <4>1. \A i \in 1 .. Len(t) : t[i] = "'" \/ DigitOf(t[i]) \in 0 .. b - 1
        BY <1>3, <1>14, <2>2
      <4>2. Len(t) \in Nat /\ b \in Nat \ {0}
        BY <1>3
      <4>3. \A i \in 0 .. Len(t) : \A j \in 0 .. i :
               Spelling(t, b)[j] >= 0 /\ Spelling(t, b)[j] <= Spelling(t, b)[i]
        BY <4>1, <4>2, SpellingGrows
      <4>4. n \in 0 .. Len(t) /\ k + 1 \in 0 .. n
        BY <1>3, <1>7
      <4>. QED  BY <4>3, <4>4 DEF f
    <3>5. WideSize \in Nat
      BY Sizes
    <3>6. f[k + 1] \in Int
      BY <1>7, <1>10
    <3>. QED  BY <1>12, <3>3, <3>4, <3>5, <3>6, SMTT(40)
  <2>3. native \/ PrefixBase(lexeme) # 10 => Result(lexeme, value', reports')
    BY <1>13, <2>1, <2>2 DEF Result
  <2>. QED  BY <2>1, <2>3, EndsWith
<1>17. CASE d \notin 0 .. base - 1 /\ c # "'" /\ Returns(INT128(0), 1)
  <2>1. /\ mode' = "done" /\ left' = left /\ lexeme' = lexeme /\ native' = native
        /\ value' = Zero /\ reports' = 1
    BY <1>1, <1>17, ErrorIsZero DEF Returns
  <2>2. ~WellFormed(lexeme)
    BY <1>5, <1>7, <1>8, <1>9, <1>14, <1>17
  <2>3. Result(lexeme, value', reports')
    BY <2>1, <2>2 DEF Result
  <2>. QED  BY <2>1, <2>3, EndsWith
<1>18. ASSUME pos' = pos + 1, UNCHANGED <<mode, native, left, lexeme, base, value, reports>>,
              c = "'" \/ d \in 0 .. base - 1,
              ~digits' => ~digits /\ c = "'",
              native \/ b # 10 => res' \in Wide /\ UValue(res') = f[k + 1]
       PROVE  Literals'
  <2>1. /\ PrefixBase(s)' = PrefixBase(s) /\ BadPrefix(s)' = BadPrefix(s) /\ First(s)' = first
        /\ Unprefixed(s)' = t
    BY <1>3
  <2>2. pos' - first = k + 1 /\ pos' \in first .. Len(s)
    <3>1. pos' = pos + 1
      BY <1>18
    <3>2. pos' = first + (k + 1)
      BY <1>6, <3>1
    <3>3. first \in Int /\ n \in Int /\ Len(s) = first + n
      BY <1>3
    <3>. QED  BY ONLY <1>7, <3>2, <3>3
  <2>3. \A i \in 1 .. k + 1 : i \in 1 .. k \/ i = k + 1
    BY <1>6
  <2>4. \A i \in 1 .. k + 1 : t[i] = "'" \/ DigitOf(t[i]) \in 0 .. base - 1
    BY <1>4, <1>6, <1>8, <1>9, <1>18, <2>3
  <2>5. ~digits' => \A i \in 1 .. k + 1 : t[i] = "'"
    BY <1>4, <1>6, <1>8, <1>18, <2>3
  <2>6. native' \/ base' # 10 => res' \in Wide /\ UValue(res') = Spelling(t, base')[k + 1]
    BY <1>5, <1>18 DEF f
  <2>7. Read(s)'
    BY <1>3, <1>4, <1>18, <2>2, <2>4, <2>5, <2>6 DEF Read
  <2>8. Converting'
    BY <1>1, <1>2, <1>18, <2>7 DEF Converting
  <2>. QED  BY <1>1, <1>18, <2>8 DEF Literals
<1>19. CASE /\ d \in 0 .. base - 1
            /\ ~u128_gt(res, Threshold(d))
            /\ res' = u128_add(u128_mul(res, UINT128(base)), UINT128(d))
            /\ digits' = TRUE
            /\ pos' = pos + 1
            /\ UNCHANGED <<mode, native, left, right, rest, lexeme, base, value, reports>>
  <2>1. ASSUME native \/ b # 10
        PROVE  res' \in Wide /\ UValue(res') = f[k + 1]
    <3>1. c # "'"
      BY <1>5, <1>9, <1>19, DigitFacts
    <3>2. f[k + 1] = f[k] * b + d
      BY <1>11, <3>1
    <3>3. f[k] * b + d < WideSize
      <4>1. d \in 0 .. b - 1
        BY <1>5, <1>19
      <4>2. ~(f[k] * b + d > WideSize - 1) /\ f[k] \in Nat
        BY <1>15, <1>19, <2>1, <4>1
      <4>3. f[k] * b + d \in Int /\ WideSize \in Int
        BY <4>2, Sizes
      <4>. QED  BY <4>2, <4>3, SMTT(40)
    <3>4. res \in Wide /\ UValue(res) = f[k] /\ f[k] \in Nat
      BY <1>15, <2>1
    <3>5. b \in 2 .. 36 /\ d \in 0 .. b - 1
      BY <1>5, <1>19
    <3>6. /\ u128_add(u128_mul(res, UINT128(b)), UINT128(d)) \in Wide
          /\ UValue(u128_add(u128_mul(res, UINT128(b)), UINT128(d))) = f[k] * b + d
      BY <3>3, <3>4, <3>5, Appended
    <3>7. res' = u128_add(u128_mul(res, UINT128(b)), UINT128(d))
      BY <1>5, <1>19
    <3>. QED  BY <3>2, <3>6, <3>7
  <2>. QED  BY <1>18, <1>19, <2>1
<1>20. CASE /\ d \notin 0 .. base - 1
            /\ c = "'"
            /\ pos' = pos + 1
            /\ UNCHANGED <<mode, native, left, right, rest, lexeme, base, res, digits,
                           value, reports>>
  <2>1. native \/ b # 10 => res' \in Wide /\ UValue(res') = f[k + 1]
    BY <1>11, <1>15, <1>20
  <2>. QED  BY <1>18, <1>20, <2>1
<1>. QED  BY <1>8, <1>9, <1>16, <1>17, <1>19, <1>20 DEF ConvertChar

\* The end of a literal.
LEMMA EndReads ==
    ASSUME Literals, Converting, EndConversion
    PROVE  Literals'
<1>1. /\ mode = "convert" /\ native \in BOOLEAN /\ left = Zero /\ left \in Wide
      /\ lexeme \in Lexemes /\ reports = 0 /\ value = Zero
      /\ base # 0 /\ Read(lexeme) /\ pos = Len(lexeme)
  BY DEF Converting, Literals, EndConversion
<1>2. PICK s \in Seq(NumberChars) : s = lexeme
  BY <1>1, LiteralsAssumption
<1>0. PICK t : t = Unprefixed(s)
  OBVIOUS
<1>3. PICK n \in Nat :
         /\ t = Unprefixed(s) /\ n = Len(t) /\ n = pos - First(s)
         /\ ~Signed(t) /\ ~Negative(t) /\ PrefixBase(s) \in {2, 8, 10, 16}
  <2>1. /\ Len(Unprefixed(s)) \in Nat /\ First(s) \in {0, 2}
        /\ First(s) + Len(Unprefixed(s)) = Len(s)
        /\ ~Signed(Unprefixed(s)) /\ ~Negative(Unprefixed(s))
        /\ PrefixBase(s) \in {2, 8, 10, 16}
    BY LiteralFacts
  <2>2. Len(Unprefixed(s)) = pos - First(s)
    BY <1>1, <1>2, <2>1
  <2>. QED  BY <1>0, <2>1, <2>2
<1>4. /\ base = PrefixBase(s) /\ ~BadPrefix(s)
      /\ \A i \in 1 .. n : t[i] = "'" \/ DigitOf(t[i]) \in 0 .. base - 1
      /\ ~digits => \A i \in 1 .. n : t[i] = "'"
      /\ native \/ base # 10 => res \in Wide /\ UValue(res) = Spelling(t, base)[n]
  BY <1>1, <1>2, <1>3 DEF Read
<1>5. WellFormed(lexeme)
  BY <1>2, <1>3, <1>4 DEF WellFormed
<1>6. CASE ~digits /\ mode' = "aborted"
           /\ UNCHANGED <<native, left, right, rest, lexeme, pos, base, res, digits, value, reports>>
  <2>1. LiteralExact'
    BY <1>2, <1>3, <1>4, <1>5, <1>6 DEF LiteralExact, WellFormed
  <2>. QED  BY <1>1, <1>6, <2>1 DEF Literals
<1>7. Spelled(Unprefixed(lexeme), PrefixBase(lexeme)) = Spelling(t, base)[n]
  BY <1>2, <1>3, <1>4 DEF Spelled
<1>8. /\ INT128_MAX \in Wide /\ 2 * UValue(INT128_MAX) = WideSize - 2
      /\ UValue(INT128_MAX) \in Int /\ WideSize \in Nat
  BY Largest, ValueFacts, Sizes
<1>9. LargestMagnitude(Negative(Unprefixed(lexeme))) = INT128_MAX
  BY <1>2, <1>3 DEF LargestMagnitude
<1>10. ASSUME native \/ PrefixBase(lexeme) # 10
       PROVE  /\ res \in Wide /\ UValue(res) = Spelling(t, base)[n] /\ UValue(res) \in Nat
              /\ u128_gt(res, INT128_MAX) <=> 2 * UValue(res) >= WideSize
              /\ ~u128_gt(res, INT128_MAX) => IValue(res) = UValue(res)
  <2>1. res \in Wide /\ UValue(res) = Spelling(t, base)[n]
    BY <1>2, <1>4, <1>10
  <2>2. UValue(res) \in Nat
    <3>1. UValue(res) \in 0 .. WideSize - 1
      BY <2>1, ValueFacts
    <3>. QED  BY <1>8, <3>1
  <2>3. u128_gt(res, INT128_MAX) <=> UValue(INT128_MAX) < UValue(res)
    BY <1>8, <2>1, OrderFacts
  <2>4. u128_gt(res, INT128_MAX) <=> 2 * UValue(res) >= WideSize
    BY <1>8, <2>2, <2>3
  <2>5. IValue(res) = IF 2 * UValue(res) >= WideSize THEN UValue(res) - WideSize ELSE UValue(res)
    BY <2>1, SignedReading
  <2>. QED  BY <2>1, <2>2, <2>4, <2>5
<1>11. CASE digits /\ u128_gt(res, INT128_MAX) /\ Returns(INT128(0), 1)
  <2>1. /\ mode' = "done" /\ left' = left /\ lexeme' = lexeme /\ native' = native
        /\ value' = Zero /\ reports' = 1
    BY <1>1, <1>11, ErrorIsZero DEF Returns
  <2>2. ASSUME native \/ PrefixBase(lexeme) # 10
        PROVE  Result(lexeme, value', reports')
    <3>1. 2 * UValue(res) >= WideSize /\ UValue(res) = Spelling(t, base)[n] /\ UValue(res) \in Nat
      BY <1>10, <1>11, <2>2
    <3>. QED  BY <1>7, <1>8, <2>1, <3>1, SMTT(40) DEF Result
  <2>. QED  BY <2>1, <2>2, EndsWith
<1>12. CASE digits /\ ~u128_gt(res, INT128_MAX) /\ Returns(res, 0)
  <2>1. /\ mode' = "done" /\ left' = left /\ lexeme' = lexeme /\ native' = native
        /\ value' = res /\ reports' = 0
    BY <1>1, <1>12 DEF Returns
  <2>2. ASSUME native \/ PrefixBase(lexeme) # 10
        PROVE  Result(lexeme, value', reports')
    <3>1. /\ ~(2 * UValue(res) >= WideSize) /\ UValue(res) = Spelling(t, base)[n]
          /\ UValue(res) \in Nat /\ IValue(res) = UValue(res)
      BY <1>10, <1>12, <2>2
    <3>2. 2 * UValue(res) < WideSize
      BY <1>8, <3>1, SMTT(40)
    <3>. QED  BY <1>5, <1>7, <2>1, <3>1, <3>2 DEF Result
  <2>. QED  BY <2>1, <2>2, EndsWith
<1>13. ~Negative(Unprefixed(lexeme))
  BY <1>2, <1>3
<1>. QED  BY <1>6, <1>9, <1>11, <1>12, <1>13 DEF EndConversion

\* A number that was written is read with its digits.
LEMMA Rereads ==
    ASSUME Literals, Rereading, StartConversion \/ ConvertChar \/ EndConversion
    PROVE  Literals'
<1>1. /\ PrefixBase(lexeme) = 10 /\ Unprefixed(lexeme) = lexeme
      /\ Len(lexeme) \in Nat /\ Signs(lexeme) \in {0, 1} /\ Len(lexeme) > Signs(lexeme)
      /\ Signed(lexeme) => Signs(lexeme) = 1
      /\ ~Signed(lexeme) => Signs(lexeme) = 0
      /\ \A i \in Signs(lexeme) + 1 .. Len(lexeme) : lexeme[i] # "'"
  BY WrittenFacts DEF Rereading
<1>2. mode = "convert" /\ native = FALSE /\ Written(lexeme) /\ (left = Zero => lexeme = <<"0">>)
      /\ left \in Wide
  BY DEF Rereading, Literals
<1>3. ASSUME NEW v, NEW e, Returns(v, e)
      PROVE  Literals'
  <2>1. mode' = "done" /\ left' = left /\ lexeme' = lexeme /\ native' = native
    BY <1>3 DEF Returns
  <2>. QED  BY <1>1, <1>2, <2>1, EndsWith
<1>4. ASSUME UNCHANGED <<mode, native, left, lexeme>>, base' = 10,
             pos' \in Signs(lexeme) .. Len(lexeme), ~digits' => pos' = Signs(lexeme)
      PROVE  Literals'
  <2>1. Signs(lexeme)' = Signs(lexeme) /\ Written(lexeme)' /\ Len(lexeme)' = Len(lexeme)
    BY <1>2, <1>4 DEF Signs, Written
  <2>2. Rereading'
    BY <1>2, <1>4, <2>1 DEF Rereading
  <2>. QED  BY <1>2, <1>4, <2>2 DEF Literals
<1>5. CASE StartConversion
  <2>1. pos = 0 /\ digits = FALSE
    BY <1>5 DEF StartConversion, Rereading
  <2>2. CASE \E v, e : Returns(v, e)
    BY <1>3, <2>2
  <2>3. CASE /\ base' = PrefixBase(lexeme)
             /\ pos' = IF Signed(lexeme) THEN 0 + 1 ELSE 0
             /\ UNCHANGED <<mode, native, left, right, rest, lexeme, res, digits, value, reports>>
    <3>1. pos' = Signs(lexeme) /\ base' = 10
      BY <1>1, <2>3
    <3>. QED  BY <1>1, <1>4, <2>3, <3>1
  <2>. QED  BY <1>1, <1>5, <2>2, <2>3 DEF StartConversion
<1>6. CASE ConvertChar
  <2>1. base = 10 /\ pos \in Signs(lexeme) .. Len(lexeme) /\ pos < Len(lexeme)
    BY <1>6 DEF ConvertChar, Rereading
  <2>2. lexeme[pos + 1] # "'"
    BY <1>1, <2>1
  <2>3. CASE \E v, e : Returns(v, e)
    BY <1>3, <2>3
  <2>4. CASE digits' = TRUE /\ pos' = pos + 1 /\ UNCHANGED <<mode, native, left, lexeme, base>>
    <3>1. pos' \in Signs(lexeme) .. Len(lexeme)
      BY <1>1, <2>1, <2>4
    <3>. QED  BY <1>4, <2>1, <2>4, <3>1
  <2>. QED  BY <1>6, <2>2, <2>3, <2>4 DEF ConvertChar
<1>7. CASE EndConversion
  <2>1. base # 0 /\ pos = Len(lexeme)
    BY <1>7 DEF EndConversion
  <2>2. digits
    BY <1>1, <2>1 DEF Rereading
  <2>3. \E v, e : Returns(v, e)
    BY <1>7, <2>2, Zenon DEF EndConversion
  <2>. QED  BY <1>3, <2>3
<1>. QED  BY <1>5, <1>6, <1>7

-----------------------------------------------------------------------------
(* Numbers that are written.                                               *)

\* Only the number zero is the value zero.
LEMMA ZeroIs ==
    ASSUME NEW v \in Wide
    PROVE  /\ v = Zero <=> UValue(v) = 0
           /\ v = Zero <=> IValue(v) = 0
           /\ u128_eq(v, Zero) <=> v = Zero
           /\ u128_ne(v, Zero) <=> v # Zero
<1>1. u128_eq(v, Zero) <=> UValue(v) = 0
  BY ErrorIsZero, OrderFacts
<1>2. u128_eq(v, Zero) <=> v = Zero
  <2>1. Zero \in Wide
    BY ErrorIsZero
  <2>. QED  BY <2>1, ValueFacts DEF u128_eq
<1>3. IValue(v) = 0 <=> UValue(v) = 0
  <2>1. IValue(v) = IF 2 * UValue(v) >= WideSize THEN UValue(v) - WideSize ELSE UValue(v)
    BY SignedReading
  <2>2. UValue(v) \in 0 .. WideSize - 1 /\ WideSize \in Nat \ {0}
    BY ValueFacts, Sizes
  <2>. QED  BY <2>1, <2>2
<1>. QED  BY <1>1, <1>2, <1>3 DEF u128_ne

\* The last digit of a number and what is left of it.
LEMMA DigitTaken ==
    ASSUME NEW v \in Wide, 2 * UValue(v) <= WideSize, NEW b \in 2 .. 36
    PROVE  LET q == u128_div(v, UINT128(b))
               r == u128_mod(v, UINT128(b))
           IN  /\ q \in Wide /\ UValue(q) = UValue(v) \div b /\ 2 * UValue(q) <= WideSize
               /\ r \in Wide /\ UValue(r) = UValue(v) % b /\ r.lo \in 0 .. b - 1
<1>1. PICK w \in Nat : w = WideSize /\ 36 < w
  BY Sizes, LiteralsAssumption
<1>2. UINT128(b) \in Wide /\ UValue(UINT128(b)) = b
  <2>1. b \in 0 .. WideSize - 1
    BY <1>1
  <2>. QED  BY <2>1, SmallUnsigned
<1>3. UValue(UINT128(b)) # 0 /\ Orderly(v, UINT128(b))
  BY <1>2 DEF Orderly
<1>. DEFINE q == u128_div(v, UINT128(b))
            r == u128_mod(v, UINT128(b))
<1>4. q \in Wide /\ r \in Wide /\ UValue(q) = UValue(v) \div b /\ UValue(r) = UValue(v) % b
  BY <1>2, <1>3, UnsignedQuotient
<1>. HIDE DEF q, r
<1>5. PICK u \in Nat : u = UValue(v)
  <2>1. UValue(v) \in 0 .. WideSize - 1
    BY ValueFacts
  <2>. QED  BY <1>1, <2>1
<1>6. PICK k \in Int, d \in 0 .. b - 1 : k = u \div b /\ d = u % b /\ u = k * b + d
  <2>1. b \in Nat \ {0} /\ u \in Int
    OBVIOUS
  <2>2. \E i \in Int, j \in 0 .. b - 1 : i = u \div b /\ j = u % b /\ u = i * b + j
    BY <2>1, DividedIn, Zenon
  <2>. QED  BY ONLY <2>2, Zenon
<1>7. k >= 0 /\ k <= u
  <2>1. PICK c \in Nat : b = 1 + c
    <3>1. b - 1 \in Nat /\ b = 1 + (b - 1)
      OBVIOUS
    <3>. QED  BY <3>1
  <2>2. CASE k <= -1
    <3>1. k * b <= -b
      BY <2>2, ProductSign
    <3>. QED  BY ONLY <1>6, <3>1, u \in Nat, k \in Int, d \in 0 .. b - 1, b \in 2 .. 36
  <2>3. CASE k >= 0
    <3>1. k * (1 + c) = k + k * c /\ k * c >= 0 /\ k * c \in Int
      BY ONLY <2>3, k \in Int, c \in Nat
    <3>2. k * b = k * (1 + c)
      BY <2>1
    <3>. QED  BY ONLY <1>6, <2>3, <3>1, <3>2, u \in Nat, k \in Int, d \in 0 .. b - 1, b \in 2 .. 36
  <2>. QED  BY <2>2, <2>3
<1>8. 2 * UValue(q) <= WideSize
  BY <1>1, <1>4, <1>5, <1>6, <1>7
<1>9. r.lo \in 0 .. b - 1
  <2>1. PICK m \in Nat \ {0}, h \in Nat, l \in Nat :
           m = LimbSize /\ h = r.hi /\ l = r.lo /\ UValue(r) = h * m + l
    <3>1. /\ LimbSize \in Nat \ {0} /\ r.hi \in Nat /\ r.lo \in Nat
          /\ UValue(r) = r.hi * LimbSize + r.lo
      BY <1>4, ValueFacts, Sizes DEF Limb
    <3>. QED  BY <3>1
  <2>2. h * m >= 0 /\ h * m \in Int
    BY ONLY m \in Nat \ {0}, h \in Nat
  <2>3. h * m + l = d
    BY <1>4, <1>5, <1>6, <2>1
  <2>. QED  BY <2>1, <2>2, <2>3
<1>. QED  BY <1>4, <1>8, <1>9 DEF q, r

LEMMA DecimalDigits ==
    \A b \in 2 .. 36 : \A d \in 0 .. b - 1 : DigitChars[d + 1] \in DigitsBelow(b)
<1>1. \A b \in 2 .. 36 : \A d \in 0 .. b - 1 : d + 1 \in 1 .. b
  OBVIOUS
<1>. QED  BY <1>1 DEF DigitsBelow

LEMMA Writes ==
    ASSUME Literals, StartWriting \/ WriteDigit \/ EndWriting
    PROVE  Literals'
<1>1. CASE StartWriting
  <2>1. mode = "operands" /\ left \in Wide /\ native = FALSE /\ pos = 0 /\ digits = FALSE
    <3>1. mode = "operands"
      BY <1>1 DEF StartWriting
    <3>. QED  BY <3>1 DEF Literals, Idle, Writing, Rereading, Converting
  <2>2. /\ mode' = "write" /\ base' \in OutputBases /\ rest' = i128_abs_u128(left)
        /\ lexeme' = IF u128_eq(left, Zero) THEN <<"0">> ELSE <<>>
        /\ UNCHANGED <<native, left, pos, digits>>
    BY <1>1 DEF StartWriting
  <2>3. base' \in 2 .. 36
    BY <2>2, LiteralsAssumption
  <2>4. /\ rest' \in Wide /\ 2 * UValue(rest') <= WideSize /\ (left = Zero <=> rest' = Zero)
    <3>1. /\ i128_abs_u128(left) \in Wide /\ IValue(left) \in Int
          /\ UValue(i128_abs_u128(left)) = Abs(IValue(left)) /\ 2 * Abs(IValue(left)) <= WideSize
          /\ Abs(IValue(left)) = IF IValue(left) < 0 THEN -IValue(left) ELSE IValue(left)
      BY <2>1, Magnitude
    <3>2. left = Zero <=> IValue(left) = 0
      BY <2>1, ZeroIs
    <3>3. rest' = Zero <=> UValue(rest') = 0
      BY <2>2, <3>1, ZeroIs
    <3>. QED  BY <2>2, <3>1, <3>2, <3>3
  <2>5. u128_eq(left, Zero) <=> left = Zero
    BY <2>1, ZeroIs
  <2>6. "0" \in DigitsBelow(base')
    <3>1. DigitChars[1] = "0" /\ 1 \in 1 .. base'
      BY <2>3 DEF DigitChars
    <3>. QED  BY <3>1 DEF DigitsBelow
  <2>7. lexeme' \in Seq(DigitsBelow(base')) /\ (rest' = Zero => lexeme' # <<>>)
        /\ (left' = Zero => rest' = Zero /\ lexeme' = <<"0">>)
    BY <2>2, <2>4, <2>5, <2>6
  <2>8. Writing'
    BY <2>1, <2>2, <2>3, <2>4, <2>7, ErrorIsZero DEF Writing, Zero
  <2>. QED  BY <2>1, <2>2, <2>8 DEF Literals
<1>2. CASE WriteDigit
  <2>1. Writing /\ left \in Wide
    <3>1. mode = "write"
      BY <1>2 DEF WriteDigit
    <3>. QED  BY <3>1 DEF Literals, Idle, Rereading, Converting
  <2>. DEFINE q == u128_div(rest, UINT128(base))
              d == u128_mod(rest, UINT128(base)).lo
  <2>2. /\ u128_ne(rest, Zero)
        /\ lexeme' = <<DigitChars[d + 1]>> \o lexeme
        /\ rest' = q
        /\ UNCHANGED <<mode, native, left, pos, base, digits>>
    BY <1>2 DEF WriteDigit
  <2>3. rest # Zero
    BY <2>1, <2>2, ZeroIs DEF Writing
  <2>4. q \in Wide /\ 2 * UValue(q) <= WideSize /\ d \in 0 .. base - 1
    BY <2>1, DigitTaken DEF Writing
  <2>. HIDE DEF q, d
  <2>5. DigitChars[d + 1] \in DigitsBelow(base)
    BY <2>1, <2>4, DecimalDigits DEF Writing
  <2>6. lexeme' \in Seq(DigitsBelow(base)) /\ lexeme' # <<>>
    BY <2>1, <2>2, <2>5 DEF Writing
  <2>7. Writing'
    BY <2>1, <2>2, <2>3, <2>4, <2>6 DEF Writing, Zero
  <2>. QED  BY <2>1, <2>2, <2>7 DEF Literals
<1>3. CASE EndWriting
  <2>1. Writing /\ left \in Wide
    <3>1. mode = "write"
      BY <1>3 DEF EndWriting
    <3>. QED  BY <3>1 DEF Literals, Idle, Rereading, Converting
  <2>2. /\ u128_eq(rest, Zero)
        /\ lexeme' = IF i128_lt(left, INT128(0)) THEN <<"-">> \o lexeme ELSE lexeme
        /\ mode' = IF base = 10 THEN "convert" ELSE "done"
        /\ base' = IF base = 10 THEN 0 ELSE base
        /\ UNCHANGED <<native, left, pos, digits>>
    BY <1>3 DEF EndWriting
  <2>3. rest = Zero /\ lexeme # <<>>
    BY <2>1, <2>2, ZeroIs DEF Writing
  <2>4. left = Zero => lexeme' = <<"0">>
    <3>1. i128_lt(left, INT128(0)) <=> IValue(left) < 0
      BY <2>1, NegativeSign
    <3>2. left = Zero => IValue(left) = 0
      BY <2>1, ZeroIs
    <3>. QED  BY <2>1, <2>2, <3>1, <3>2 DEF Writing
  <2>5. native' = FALSE /\ pos' = 0 /\ digits' = FALSE /\ left' = left
    BY <2>1, <2>2 DEF Writing
  <2>6. CASE base = 10
    <3>1. lexeme \in Seq(DigitsBelow(10)) /\ lexeme # <<>>
      BY <2>1, <2>3, <2>6 DEF Writing
    <3>2. /\ Len(lexeme) \in Nat /\ Len(lexeme) > 0
          /\ \A i \in 1 .. Len(lexeme) : lexeme[i] \in DigitsBelow(10)
      BY <3>1
    <3>3. lexeme[1] # "-"
      <4>1. lexeme[1] \in DigitsBelow(10)
        BY <3>2
      <4>. QED  BY <4>1, DecimalFacts
    <3>4. Written(lexeme)
      <4>1. Signs(lexeme) = 0
        BY <3>3 DEF Signs
      <4>. QED  BY <3>2, <4>1 DEF Written
    <3>5. Written(<<"-">> \o lexeme)
      <4>. DEFINE t == <<"-">> \o lexeme
      <4>1. /\ Len(t) = Len(lexeme) + 1 /\ t[1] = "-"
            /\ \A i \in 2 .. Len(lexeme) + 1 : t[i] = lexeme[i - 1]
        BY <3>1
      <4>. HIDE DEF t
      <4>2. Signs(t) = 1
        BY <4>1 DEF Signs
      <4>3. \A i \in 2 .. Len(lexeme) + 1 : i - 1 \in 1 .. Len(lexeme)
        BY <3>2
      <4>4. \A i \in Signs(t) + 1 .. Len(t) : t[i] \in DigitsBelow(10)
        BY <3>2, <4>1, <4>2, <4>3
      <4>5. Len(t) \in Nat /\ Len(t) > Signs(t)
        BY <3>2, <4>1, <4>2
      <4>. QED  BY <4>4, <4>5 DEF Written, t
    <3>6. Written(lexeme')
      BY <2>2, <3>4, <3>5
    <3>7. Written(lexeme)'
      BY <3>6 DEF Written, Signs
    <3>8. Rereading'
      BY <2>2, <2>4, <2>5, <2>6, <3>7 DEF Rereading, Zero
    <3>. QED  BY <2>1, <2>5, <3>8 DEF Literals
  <2>7. CASE base # 10
    <3>1. PrefixBase(<<"0">>) = 10
      BY DEF PrefixBase, HasPrefix
    <3>2. left' = Zero => PrefixBase(lexeme') = 10 /\ native' = FALSE
      BY <2>4, <2>5, <3>1
    <3>3. mode' = "done"
      BY <2>2, <2>7
    <3>4. LiteralExact'
      BY <3>2, <3>3 DEF LiteralExact, Zero
    <3>. QED  BY <2>1, <2>5, <3>3, <3>4 DEF Literals
  <2>. QED  BY <2>6, <2>7
<1>. QED  BY <1>1, <1>2, <1>3

-----------------------------------------------------------------------------
LEMMA LiteralsStart == Init => Literals
<1>1. SUFFICES ASSUME Init
               PROVE  Literals
  OBVIOUS
<1>2. Zero \in Wide
  BY ErrorIsZero
<1>3. CASE mode = "operands"
  BY <1>1, <1>3 DEF Init, Literals, Idle
<1>4. CASE mode = "convert"
  BY <1>1, <1>2, <1>4 DEF Init, Literals, Converting
<1>. QED  BY <1>1, <1>3, <1>4 DEF Init

LEMMA LiteralsStep == Literals /\ [Next]_vars => Literals'
<1>1. SUFFICES ASSUME Literals, [Next]_vars
               PROVE  Literals'
  OBVIOUS
<1>2. CASE SecondOperand
  BY <1>1, <1>2 DEF SecondOperand, Literals, Idle, Writing, Rereading, Converting
<1>3. CASE StartConversion \/ ConvertChar \/ EndConversion
  <2>1. mode = "convert"
    BY <1>3 DEF StartConversion, ConvertChar, EndConversion
  <2>2. Rereading \/ Converting
    BY <1>1, <2>1 DEF Literals, Idle, Writing
  <2>. QED  BY <1>1, <1>3, <2>2, Rereads, StartReads, CharReads, EndReads
<1>4. CASE StartWriting \/ WriteDigit \/ EndWriting
  BY <1>1, <1>4, Writes
<1>5. CASE UNCHANGED vars
  BY <1>1, <1>5 DEF vars, Literals, Idle, Writing, Rereading, Converting, Read, Written, Signs,
                    LiteralExact, WellFormed, Zero
<1>. QED  BY <1>1, <1>2, <1>3, <1>4, <1>5 DEF Next

\* Whatever the width of a limb and whatever the literals: one gets the number it
\* spells or one error.
THEOREM LiteralsAreExact == Spec => []LiteralExact
<1>1. Init => Literals
  BY LiteralsStart
<1>2. Literals /\ [Next]_vars => Literals'
  BY LiteralsStep
<1>3. Literals => LiteralExact
  BY DEF Literals, Idle, Writing, Rereading, Converting, LiteralExact
<1>. QED  BY <1>1, <1>2, <1>3, PTL DEF Spec

-----------------------------------------------------------------------------
(* Numbers that are written and read again.                                *)

\* In base 10 the emulated division that bounds a number loses the top bit of its
\* divisor and goes on with a power of two.
LEMMA DoubledTen ==
    ASSUME NEW lhs \in Wide, UValue(lhs) >= WideSize - 10
    PROVE  LET top == Doubled(lhs, UINT128(10))
           IN  /\ top \in [divisor : Wide, current : Wide]
               /\ \E j \in Nat : /\ UValue(top.current) = Pow2[j]
                                 /\ UValue(top.divisor) = 2 * Pow2[j]
                                 /\ UValue(lhs) < 2 * (2 * Pow2[j])
<1>1. PICK w \in Nat, ul \in Int :
         w = WideSize /\ ul = UValue(lhs) /\ ul >= w - 10 /\ ul < w /\ 36 < w
  <2>1. PICK w \in Nat : w = WideSize /\ 36 < w
    BY Sizes, LiteralsAssumption
  <2>2. UValue(lhs) \in 0 .. w - 1 /\ UValue(lhs) >= w - 10
    BY <2>1, ValueFacts
  <2>. QED  BY <2>1, <2>2
<1>2. UINT128(10) \in Wide /\ UValue(UINT128(10)) = 10
  <2>1. 10 \in 0 .. WideSize - 1
    BY <1>1
  <2>. QED  BY <2>1, SmallUnsigned
<1>. DEFINE At(s, k) == /\ UValue(s.current) = Pow2[k]
                        /\ UValue(s.divisor) = 10 * Pow2[k] \/ UValue(s.divisor) = 2 * Pow2[k]
            Top(s) == \E j \in Nat : /\ UValue(s.current) = Pow2[j]
                                     /\ UValue(s.divisor) = 2 * Pow2[j]
                                     /\ ul < 2 * (2 * Pow2[j])
            J == {s \in Doubling : \E k \in Nat : At(s, k)}
            Good == {s \in Doubling : Top(s)}
<1>3. ASSUME NEW s \in Doubling, NEW k \in Nat, At(s, k)
      PROVE  IF UValue(s.divisor) > ul THEN Down(s) \in Good
             ELSE IF UValue(Up(s).divisor) = 0 \/ UValue(Up(s).current) = 0 THEN s \in Good
             ELSE Up(s) \in J
  <2>1. PICK p \in Nat \ {0}, d \in Int :
           /\ p = Pow2[k] /\ UValue(s.current) = p /\ UValue(s.divisor) = d /\ d < w
           /\ d = 10 * p \/ d = 2 * p
           /\ Pow2[k + 1] = 2 * p
    <3>1. Pow2[k] \in Nat \ {0} /\ Pow2[k + 1] = 2 * Pow2[k]
      BY Powers
    <3>2. UValue(s.divisor) \in 0 .. w - 1
      BY <1>1, OnePass
    <3>. QED  BY <1>1, <1>3, <3>1, <3>2
  <2>2. /\ Up(s) \in Doubling
        /\ UValue(Up(s).divisor) = IF 2 * d < w THEN 2 * d ELSE 2 * d - w
        /\ UValue(Up(s).current) = IF 2 * p < w THEN 2 * p ELSE 2 * p - w
    BY <1>1, <2>1, OnePass
  <2>3. /\ 2 * p < w => 4 * p <= w
        /\ 4 * p < w => 8 * p <= w
        /\ 8 * p < w => 16 * p <= w
        /\ 16 * p < w => 32 * p <= w
    <3>1. w = Pow2[2 * LimbBits] /\ 2 * LimbBits \in Nat
      BY <1>1, SizePowers
    <3>2. \A i \in Nat : Pow2[i] < w => 2 * Pow2[i] <= w
      BY <3>1, PowerOrder
    <3>3. /\ Pow2[(k + 1) + 1] = 2 * Pow2[k + 1]
          /\ Pow2[((k + 1) + 1) + 1] = 2 * Pow2[(k + 1) + 1]
          /\ Pow2[(((k + 1) + 1) + 1) + 1] = 2 * Pow2[((k + 1) + 1) + 1]
          /\ k + 1 \in Nat /\ (k + 1) + 1 \in Nat /\ ((k + 1) + 1) + 1 \in Nat
          /\ (((k + 1) + 1) + 1) + 1 \in Nat
      BY Powers
    <3>4. /\ Pow2[(k + 1) + 1] = 4 * p
          /\ Pow2[((k + 1) + 1) + 1] = 8 * p
          /\ Pow2[(((k + 1) + 1) + 1) + 1] = 16 * p
      BY <2>1, <3>3
    <3>5. /\ 2 * p < w => 2 * (2 * p) <= w
          /\ 4 * p < w => 2 * (4 * p) <= w
          /\ 8 * p < w => 2 * (8 * p) <= w
          /\ 16 * p < w => 2 * (16 * p) <= w
      BY <2>1, <3>2, <3>3, <3>4
    <3>. QED  BY ONLY <3>5, <1>1, p \in Nat
  <2>4. \A a \in Doubling : UValue(a.current) = 2 * p
                            /\ (UValue(a.divisor) = 10 * (2 * p) \/ UValue(a.divisor) = 2 * (2 * p))
                               => a \in J
    BY <2>1
  <2>5. CASE d = 10 * p
    <3>1. 16 * p <= w /\ d <= ul /\ 2 * p < w
      BY ONLY <1>1, <2>1, <2>3, <2>5
    <3>2. UValue(Up(s).current) = 2 * p
      BY <2>2, <3>1
    <3>3. UValue(Up(s).divisor) = 10 * (2 * p) \/ UValue(Up(s).divisor) = 2 * (2 * p)
      <4>1. CASE 2 * d < w
        BY <2>2, <2>5, <4>1
      <4>2. CASE ~(2 * d < w)
        <5>1. w = 16 * p
          BY ONLY <1>1, <2>1, <2>3, <2>5, <3>1, <4>2
        <5>2. 2 * d - w = 2 * (2 * p)
          BY ONLY <2>1, <2>5, <5>1
        <5>. QED  BY <2>2, <4>2, <5>2
      <4>. QED  BY <4>1, <4>2
    <3>4. UValue(Up(s).divisor) # 0 /\ UValue(Up(s).current) # 0
      BY ONLY <2>1, <3>2, <3>3
    <3>5. Up(s) \in J
      BY <2>2, <2>4, <3>2, <3>3
    <3>6. ~(UValue(s.divisor) > ul)
      BY ONLY <1>1, <2>1, <3>1
    <3>. QED  BY <3>4, <3>5, <3>6
  <2>6. CASE d = 2 * p
    <3>1. 4 * p <= w /\ d <= ul /\ 2 * p < w
      BY ONLY <1>1, <2>1, <2>3, <2>6
    <3>2. UValue(Up(s).current) = 2 * p /\ ~(UValue(s.divisor) > ul)
      BY <1>1, <2>1, <2>2, <3>1
    <3>3. CASE 4 * p < w
      <4>1. UValue(Up(s).divisor) = 2 * (2 * p)
        BY <1>1, <2>1, <2>2, <2>6, <3>3
      <4>2. UValue(Up(s).divisor) # 0 /\ UValue(Up(s).current) # 0
        BY ONLY <2>1, <3>2, <4>1
      <4>3. Up(s) \in J
        BY <2>2, <2>4, <3>2, <4>1
      <4>. QED  BY <3>2, <4>2, <4>3
    <3>4. CASE 4 * p = w
      <4>1. UValue(Up(s).divisor) = 0
        BY <1>1, <2>1, <2>2, <2>6, <3>4
      <4>2. ul < 2 * (2 * p)
        BY ONLY <1>1, <2>1, <3>4
      <4>3. s \in Good
        BY <2>1, <2>6, <4>2
      <4>. QED  BY <3>2, <4>1, <4>3
    <3>5. 4 * p < w \/ 4 * p = w
      BY <1>1, <2>1, <3>1
    <3>. QED  BY <3>3, <3>4, <3>5
  <2>. QED  BY <2>1, <2>5, <2>6
<1>4. [divisor |-> UINT128(10), current |-> UINT128(1)] \in J
  <2>. DEFINE s == [divisor |-> UINT128(10), current |-> UINT128(1)]
  <2>1. s \in Doubling /\ s.divisor = UINT128(10) /\ s.current = UINT128(1)
    BY <1>2, UnsignedOne DEF Doubling
  <2>2. At(s, 0)
    BY <1>2, <2>1, Powers, UnsignedOne
  <2>. QED  BY <2>1, <2>2
<1>5. Doubled(lhs, UINT128(10)) \in Good
  <2>1. J \in SUBSET Doubling /\ Good \in SUBSET Doubling
    OBVIOUS
  <2>2. \A s \in J : s \in Doubling /\ \E k \in Nat : At(s, k)
    OBVIOUS
  <2>. HIDE DEF At, J, Good
  <2>3. \A s \in J :
           IF UValue(s.divisor) > UValue(lhs) THEN Down(s) \in Good
           ELSE IF UValue(Up(s).divisor) = 0 \/ UValue(Up(s).current) = 0 THEN s \in Good
           ELSE Up(s) \in J
    BY <1>1, <1>3, <2>2
  <2>. QED  BY <1>2, <1>4, <2>1, <2>3, DoubledEnds
<1>. QED  BY <1>1, <1>5 DEF Doubling

\* So the bound in base 10 is half of the largest number: more than it should be, and
\* more than what a number that was written can reach.
LEMMA ThresholdTen ==
    ASSUME ~native, base = 10, NEW d \in 0 .. 9
    PROVE  Threshold(d) \in Wide /\ 2 * UValue(Threshold(d)) >= WideSize - 2 - d
<1>1. PICK w \in Nat : w = WideSize /\ 36 < w
  BY Sizes, LiteralsAssumption
<1>2. /\ UINT128(10) \in Wide /\ UValue(UINT128(10)) = 10
      /\ UINT128(d) \in Wide /\ UValue(UINT128(d)) = d
  <2>1. 10 \in 0 .. WideSize - 1 /\ d \in 0 .. WideSize - 1
    BY <1>1
  <2>. QED  BY <2>1, SmallUnsigned
<1>. DEFINE lhs == u128_sub(UINT128_MAX, UINT128(d))
<1>3. lhs \in Wide /\ UValue(lhs) = w - 1 - d
  <2>1. lhs \in Wide /\ Alike(UValue(UINT128_MAX) - UValue(UINT128(d)), UValue(lhs))
    BY <1>2, Largest, DifferenceFacts
  <2>2. w - 1 - d \in 0 .. WideSize - 1 /\ UValue(UINT128_MAX) - UValue(UINT128(d)) = w - 1 - d
    BY <1>1, <1>2, Largest
  <2>. HIDE DEF lhs
  <2>. QED  BY <2>1, <2>2, ValueIs
<1>4. Threshold(d) = u128_div(lhs, UINT128(10))
  BY DEF Threshold, BuiltDiv
<1>. HIDE DEF lhs
<1>5. u128_div(lhs, UINT128(10)) = LongDivision(lhs, UINT128(10)).quotient
  <2>1. ~u128_eq(UINT128(10), UINT128(0))
    BY <1>2, UnsignedZero, OrderFacts
  <2>2. ~u128_gt(UINT128(10), lhs)
    <3>1. u128_gt(UINT128(10), lhs) <=> UValue(lhs) < 10
      BY <1>2, <1>3, OrderFacts
    <3>. QED  BY <1>1, <1>3, <3>1
  <2>3. ~u128_eq(lhs, UINT128(10))
    <3>1. u128_eq(lhs, UINT128(10)) <=> UValue(lhs) = 10
      BY <1>2, <1>3, OrderFacts
    <3>. QED  BY <1>1, <1>3, <3>1
  <2>. QED  BY <2>1, <2>2, <2>3 DEF u128_div
<1>6. UValue(lhs) >= WideSize - 10
  BY <1>1, <1>3
<1>7. PICK top \in [divisor : Wide, current : Wide], j \in Nat :
         /\ top = Doubled(lhs, UINT128(10))
         /\ UValue(top.current) = Pow2[j] /\ UValue(top.divisor) = 2 * Pow2[j]
         /\ UValue(lhs) < 2 * (2 * Pow2[j])
  BY <1>3, <1>6, DoubledTen
<1>8. PICK r \in [quotient : Wide, rest : Wide] :
         /\ r = Subtracted(lhs, top)
         /\ UValue(r.quotient) * 2 + UValue(r.rest) = UValue(lhs)
         /\ UValue(r.rest) < 2
  <2>1. 2 \in Nat /\ 2 > 0
    OBVIOUS
  <2>. QED  BY <1>3, <1>7, <2>1, SubtractedIs
<1>9. Threshold(d) = r.quotient
  BY <1>4, <1>5, <1>7, <1>8 DEF LongDivision
<1>10. UValue(r.quotient) \in Int /\ UValue(r.rest) \in Int
  BY Sizes, ValueFacts
<1>. QED  BY <1>1, <1>3, <1>8, <1>9, <1>10

\* The digits a number is written with are read as what they were.
LEMMA DigitsRead ==
    \A k \in 1 .. 36 : DigitOf(DigitChars[k]) = k - 1 /\ DigitChars[k] \notin {"'", "-", "+"}
<1>1. \A i, j \in 1 .. 36 : DigitChars[i] = DigitChars[j] => i = j
  BY DEF DigitChars
<1>2. Len(DigitChars) = 36
  BY DEF DigitChars
<1>3. \A k \in 1 .. 36 : DigitChars[k] \notin {"'", "-", "+"}
  BY DEF DigitChars
<1>4. ASSUME NEW k \in 1 .. 36
      PROVE  DigitOf(DigitChars[k]) = k - 1
  <2>. DEFINE I == {i \in 1 .. Len(DigitChars) : DigitChars[i] = DigitChars[k]}
  <2>1. I = {k}
    BY <1>1, <1>2
  <2>2. Min({k}) = k
    BY DEF Min
  <2>3. SelectInSeq(DigitChars, LAMBDA d : d = DigitChars[k]) = k
    BY <2>1, <2>2 DEF SelectInSeq
  <2>4. Contains(DigitChars, DigitChars[k])
    BY <1>2 DEF Contains
  <2>. QED  BY <2>3, <2>4 DEF DigitOf
<1>. QED  BY <1>3, <1>4

\* f holds what a text spells up to each character, behind a number n.
Spells(f, s, b, n) ==
    /\ f \in [0 .. Len(s) -> Int]
    /\ f[0] = n
    /\ \A i \in 1 .. Len(s) :
          f[i] = IF s[i] \in {"'", "-"} THEN f[i - 1] ELSE f[i - 1] * b + DigitOf(s[i])

LEMMA SpellsIs ==
    ASSUME NEW s, Len(s) \in Nat, NEW b \in Int, NEW f, Spells(f, s, b, 0)
    PROVE  \A i \in 0 .. Len(s) : Spelling(s, b)[i] = f[i]
<1>. DEFINE g == Spelling(s, b)
            Good == {i \in Nat : i <= Len(s) => g[i] = f[i]}
<1>1. /\ g[0] = 0
      /\ \A i \in 1 .. Len(s) :
            g[i] = IF s[i] \in {"'", "-"} THEN g[i - 1] ELSE g[i - 1] * b + DigitOf(s[i])
  BY SpellingIs
<1>2. /\ f[0] = 0
      /\ \A i \in 1 .. Len(s) :
            f[i] = IF s[i] \in {"'", "-"} THEN f[i - 1] ELSE f[i - 1] * b + DigitOf(s[i])
  BY DEF Spells
<1>. HIDE DEF g
<1>3. 0 \in Good
  BY <1>1, <1>2
<1>4. ASSUME NEW i \in Nat \ {0}, i - 1 \in Good
      PROVE  i \in Good
  <2>1. SUFFICES ASSUME i <= Len(s)
                 PROVE  g[i] = f[i]
    OBVIOUS
  <2>2. i \in 1 .. Len(s) /\ g[i - 1] = f[i - 1]
    BY <1>4, <2>1
  <2>. QED  BY <1>1, <1>2, <2>2
<1>5. Nat \subseteq Good
  <2>. HIDE DEF Good
  <2>. QED  BY <1>3, <1>4, AllNumbers
<1>6. \A i \in 0 .. Len(s) : g[i] = f[i]
  BY <1>5
<1>. QED  BY <1>6 DEF g

\* A character in front of a text: a digit takes what it stands for off the number
\* before it.
LEMMA Prepended ==
    ASSUME NEW S, NEW s \in Seq(S), NEW c \in S, NEW b \in Int, NEW f,
           NEW m \in Int, NEW n \in Int, Spells(f, s, b, n),
           n = IF c \in {"'", "-"} THEN m ELSE m * b + DigitOf(c)
    PROVE  \E g : /\ Spells(g, <<c>> \o s, b, m)
                  /\ g[Len(<<c>> \o s)] = f[Len(s)]
<1>. DEFINE t == <<c>> \o s
            l == Len(s)
<1>1. /\ l \in Nat /\ Len(t) = l + 1 /\ t[1] = c
      /\ \A i \in 2 .. l + 1 : t[i] = s[i - 1]
  OBVIOUS
<1>. HIDE DEF t
<1>2. /\ \A i \in 0 .. l : f[i] \in Int
      /\ f[0] = n
      /\ \A i \in 1 .. l :
            f[i] = IF s[i] \in {"'", "-"} THEN f[i - 1] ELSE f[i - 1] * b + DigitOf(s[i])
  BY <1>1 DEF Spells
<1>. HIDE DEF l
<1>. DEFINE g == [i \in 0 .. l + 1 |-> IF i = 0 THEN m ELSE f[i - 1]]
<1>3. \A i \in 1 .. l + 1 : i - 1 \in 0 .. l /\ g[i] = f[i - 1]
  BY <1>1
<1>4. g \in [0 .. l + 1 -> Int] /\ g[0] = m
  <2>1. ASSUME NEW i \in 0 .. l + 1
        PROVE  (IF i = 0 THEN m ELSE f[i - 1]) \in Int
    <3>1. i # 0 => i - 1 \in 0 .. l
      BY <1>1
    <3>. QED  BY <1>2, <3>1
  <2>. QED  BY <1>1, <2>1
<1>. HIDE DEF g
<1>5. ASSUME NEW i \in 1 .. l + 1
      PROVE  g[i] = IF t[i] \in {"'", "-"} THEN g[i - 1] ELSE g[i - 1] * b + DigitOf(t[i])
  <2>1. CASE i = 1
    <3>1. g[1] = n /\ g[1 - 1] = m
      BY <1>1, <1>2, <1>3, <1>4
    <3>. QED  BY <1>1, <2>1, <3>1
  <2>2. CASE i # 1
    <3>1. i \in 2 .. l + 1 /\ i - 1 \in 1 .. l /\ i - 1 \in 1 .. l + 1
      BY <1>1, <2>2
    <3>2. g[i] = f[i - 1] /\ g[i - 1] = f[(i - 1) - 1] /\ t[i] = s[i - 1]
      BY <1>1, <1>3, <3>1
    <3>3. f[i - 1] = IF s[i - 1] \in {"'", "-"} THEN f[(i - 1) - 1]
                     ELSE f[(i - 1) - 1] * b + DigitOf(s[i - 1])
      BY <1>2, <3>1
    <3>. QED  BY <3>2, <3>3
  <2>. QED  BY <2>1, <2>2
<1>6. Spells(g, t, b, m)
  BY <1>1, <1>4, <1>5 DEF Spells
<1>7. g[Len(t)] = f[l]
  <2>1. l + 1 \in 1 .. l + 1 /\ (l + 1) - 1 = l
    BY <1>1
  <2>. QED  BY <1>1, <1>3, <2>1
<1>. QED  BY <1>6, <1>7 DEF t, l

\* The low limb of a number below the size of one.
LEMMA LowLimb ==
    ASSUME NEW v \in Wide, UValue(v) < LimbSize
    PROVE  v.lo = UValue(v)
<1>1. PICK m \in Nat \ {0}, h \in Nat, l \in Nat :
         m = LimbSize /\ h = v.hi /\ l = v.lo /\ UValue(v) = h * m + l
  <2>1. /\ LimbSize \in Nat \ {0} /\ v.hi \in Nat /\ v.lo \in Nat
        /\ UValue(v) = v.hi * LimbSize + v.lo
    BY ValueFacts, Sizes DEF Limb
  <2>. QED  BY <2>1
<1>2. h = 0
  <2>1. CASE h # 0
    <3>1. PICK e \in Nat : h = 1 + e
      <4>1. h - 1 \in Nat /\ h = 1 + (h - 1)
        BY <2>1
      <4>. QED  BY <4>1
    <3>2. (1 + e) * m = m + e * m /\ e * m >= 0 /\ e * m \in Int
      BY ONLY m \in Nat \ {0}, e \in Nat
    <3>3. h * m = (1 + e) * m
      BY <3>1, Zenon
    <3>. QED  BY <1>1, <3>2, <3>3
  <2>. QED  BY <2>1
<1>3. 0 * m = 0
  BY ONLY m \in Nat \ {0}
<1>. QED  BY <1>1, <1>2, <1>3

\* Limbs are told apart by what they stand for.
LEMMA SameNumber ==
    ASSUME NEW x \in Wide, NEW y \in Wide
    PROVE  /\ UValue(x) = UValue(y) => x = y
           /\ IValue(x) = IValue(y) => x = y
<1>1. x = [lo |-> x.lo, hi |-> x.hi] /\ y = [lo |-> y.lo, hi |-> y.hi]
  BY ValueFacts
<1>2. u128_eq(x, y) => x = y
  BY <1>1, Zenon DEF u128_eq
<1>3. i128_eq(x, y) => x = y
  BY <1>1, Zenon DEF i128_eq
<1>. QED  BY <1>2, <1>3, OrderFacts

\* The smallest number and its magnitude.
LEMMA Smallest ==
    /\ INT128_MIN \in Wide /\ 2 * IValue(INT128_MIN) = -WideSize
    /\ i128_abs_u128(INT128_MIN) \in Wide
    /\ 2 * UValue(i128_abs_u128(INT128_MIN)) = WideSize
<1>1. PICK m \in Nat \ {0}, h \in Nat \ {0} : m = LimbSize /\ WideSize = m * m /\ m = 2 * h
  BY Sizes
<1>2. 0 \in Limb /\ h \in Limb /\ LimbSize \div 2 = h
  BY <1>1 DEF Limb
<1>3. INT128_MIN = [lo |-> 0, hi |-> h]
  BY <1>2 DEF INT128_MIN
<1>4. INT128_MIN \in Wide /\ INT128_MIN.lo = 0 /\ INT128_MIN.hi = h
  BY <1>2, <1>3 DEF Wide
<1>5. PICK u \in Int, i \in Int, w \in Nat :
         u = UValue(INT128_MIN) /\ i = IValue(INT128_MIN) /\ w = WideSize
  BY <1>4, ValueFacts, Sizes
<1>6. 2 * u = w
  <2>1. u = h * m + 0
    BY <1>1, <1>4, <1>5, ValueFacts
  <2>2. 2 * (h * (2 * h) + 0) = (2 * h) * (2 * h)
    BY ONLY h \in Nat \ {0}
  <2>. QED  BY <1>1, <1>5, <2>1, <2>2
<1>7. 2 * i = -w
  <2>1. i = IF 2 * u >= w THEN u - w ELSE u
    BY <1>4, <1>5, SignedReading
  <2>. QED  BY <1>5, <1>6, <2>1
<1>8. i < 0
  <2>1. w > 0
    BY <1>5, Sizes
  <2>. QED  BY <1>5, <1>7, <2>1
<1>9. i128_abs_u128(INT128_MIN) \in Wide
      /\ UValue(i128_abs_u128(INT128_MIN)) = -i
  BY <1>4, <1>5, <1>8, Magnitude
<1>. QED  BY <1>4, <1>5, <1>7, <1>9

\* What has been written of a number and what is left of it make the number; what has
\* been read of its text is what that spells.
Carried ==
    /\ mode = "operands" => res = Zero /\ reports = 0
    /\ mode = "write" =>
          /\ res = Zero /\ reports = 0 /\ base \in OutputBases
          /\ left # Zero => \E f : /\ Spells(f, lexeme, base, UValue(rest))
                                   /\ f[Len(lexeme)] = Abs(IValue(left))
    /\ mode = "convert" /\ left # Zero =>
          /\ Spelled(lexeme, 10) = Abs(IValue(left))
          /\ Negative(lexeme) <=> IValue(left) < 0
          /\ reports = 0
          /\ base = 0 => res = Zero
          /\ base = 10 => res \in Wide /\ UValue(res) = Spelling(lexeme, 10)[pos]
    /\ RoundTrip

\* While a number is written no text is finished yet.
LEMMA StartCarries ==
    ASSUME Literals, Carried, StartWriting
    PROVE  Carried'
<1>1. /\ mode = "operands" /\ mode' = "write" /\ base' \in OutputBases
      /\ rest' = i128_abs_u128(left)
      /\ lexeme' = IF u128_eq(left, Zero) THEN <<"0">> ELSE <<>>
      /\ UNCHANGED <<left, res, reports>>
  BY DEF StartWriting
<1>2. left \in Wide /\ res = Zero /\ reports = 0
  BY <1>1 DEF Literals, Carried
<1>3. ASSUME left # Zero
      PROVE  \E f : Spells(f, lexeme', base', UValue(rest')) /\ f[Len(lexeme')] = Abs(IValue(left))
  <2>1. lexeme' = <<>>
    BY <1>1, <1>2, <1>3, ZeroIs
  <2>2. PICK a \in Nat : a = UValue(rest') /\ a = Abs(IValue(left))
    BY <1>1, <1>2, Magnitude
  <2>. DEFINE f == [i \in 0 .. 0 |-> a]
  <2>3. Len(<<>>) = 0 /\ f \in [0 .. 0 -> Int] /\ f[0] = a
    OBVIOUS
  <2>. HIDE DEF f
  <2>4. Spells(f, <<>>, base', a)
    BY <2>3 DEF Spells
  <2>. QED  BY <2>1, <2>2, <2>3, <2>4
<1>. QED  BY <1>1, <1>2, <1>3 DEF Carried, RoundTrip, Zero

LEMMA DigitCarries ==
    ASSUME Literals, Carried, WriteDigit
    PROVE  Carried'
<1>. DEFINE d == u128_mod(rest, UINT128(base)).lo
            c == DigitChars[d + 1]
<1>1. /\ mode = "write" /\ u128_ne(rest, Zero)
      /\ lexeme' = <<c>> \o lexeme
      /\ rest' = u128_div(rest, UINT128(base))
      /\ UNCHANGED <<mode, left, base, res, reports>>
  BY DEF WriteDigit
<1>2. /\ rest \in Wide /\ 2 * UValue(rest) <= WideSize /\ base \in 2 .. 36
      /\ lexeme \in Seq(DigitsBelow(base))
  BY <1>1 DEF Literals, Writing, Idle, Rereading, Converting
<1>3. res = Zero /\ reports = 0 /\ base \in OutputBases /\ base <= LimbSize
  BY <1>1, LiteralsAssumption DEF Carried
<1>4. /\ UValue(rest') = UValue(rest) \div base
      /\ UValue(u128_mod(rest, UINT128(base))) = UValue(rest) % base
      /\ u128_mod(rest, UINT128(base)) \in Wide /\ d \in 0 .. base - 1
  BY <1>1, <1>2, DigitTaken
<1>5. PICK u \in Nat : u = UValue(rest)
  <2>1. UValue(rest) \in 0 .. WideSize - 1 /\ WideSize \in Nat
    BY <1>2, ValueFacts, Sizes
  <2>. QED  BY <2>1
<1>6. PICK q \in Int, r \in 0 .. base - 1 : q = u \div base /\ r = u % base /\ u = q * base + r
  <2>1. base \in Nat \ {0} /\ u \in Int
    BY <1>2
  <2>2. \E i \in Int, j \in 0 .. base - 1 : i = u \div base /\ j = u % base /\ u = i * base + j
    BY <2>1, DividedIn, Zenon
  <2>. QED  BY ONLY <2>2, Zenon
<1>7. d = r
  <2>1. UValue(u128_mod(rest, UINT128(base))) = r
    BY <1>4, <1>5, <1>6
  <2>2. r < LimbSize
    <3>1. LimbSize \in Nat
      BY Sizes
    <3>. QED  BY <1>2, <1>3, <1>6, <3>1
  <2>. QED  BY <1>4, <2>1, <2>2, LowLimb
<1>8. DigitOf(c) = r /\ c \notin {"'", "-"} /\ c \in DigitsBelow(base)
  <2>1. d + 1 \in 1 .. 36 /\ (d + 1) - 1 = r
    BY <1>2, <1>4, <1>7
  <2>. QED  BY <1>2, <1>4, <2>1, DigitsRead, DecimalDigits
<1>. HIDE DEF d, c
<1>9. ASSUME left # Zero
      PROVE  \E f : Spells(f, lexeme', base', UValue(rest')) /\ f[Len(lexeme')] = Abs(IValue(left))
  <2>1. PICK f : Spells(f, lexeme, base, u) /\ f[Len(lexeme)] = Abs(IValue(left))
    BY <1>1, <1>5, <1>9 DEF Carried
  <2>2. base \in Int /\ u \in Int /\ u = IF c \in {"'", "-"} THEN q ELSE q * base + DigitOf(c)
    BY <1>2, <1>6, <1>8
  <2>3. \E g : Spells(g, <<c>> \o lexeme, base, q) /\ g[Len(<<c>> \o lexeme)] = f[Len(lexeme)]
    <3>1. lexeme \in Seq(DigitsBelow(base)) /\ c \in DigitsBelow(base) /\ q \in Int
      BY <1>2, <1>6, <1>8
    <3>2. Spells(f, lexeme, base, u)
      BY <2>1
    <3>. QED  BY <2>2, <3>1, <3>2, Prepended
  <2>4. UValue(rest') = q
    BY <1>4, <1>5, <1>6
  <2>. QED  BY <1>1, <2>1, <2>3, <2>4
<1>. QED  BY <1>1, <1>3, <1>9 DEF Carried, RoundTrip, Zero

\* The finished text spells the number.
LEMMA EndCarries ==
    ASSUME Literals, Carried, EndWriting
    PROVE  Carried'
<1>1. /\ mode = "write" /\ u128_eq(rest, Zero)
      /\ lexeme' = IF i128_lt(left, INT128(0)) THEN <<"-">> \o lexeme ELSE lexeme
      /\ mode' = IF base = 10 THEN "convert" ELSE "done"
      /\ base' = IF base = 10 THEN 0 ELSE base
      /\ UNCHANGED <<left, res, reports>>
  BY DEF EndWriting
<1>2. /\ left \in Wide /\ rest \in Wide /\ base \in 2 .. 36
      /\ lexeme \in Seq(DigitsBelow(base)) /\ res = Zero /\ reports = 0
  BY <1>1 DEF Literals, Writing, Idle, Rereading, Converting, Carried
<1>3. UValue(rest) = 0
  BY <1>1, <1>2, ZeroIs
<1>4. i128_lt(left, INT128(0)) <=> IValue(left) < 0
  BY <1>2, NegativeSign
<1>5. \A x \in DigitsBelow(base) : x # "-"
  <2>1. \A i \in 1 .. base : DigitChars[i] # "-"
    <3>1. \A i \in 1 .. base : i \in 1 .. 36
      BY <1>2
    <3>. QED  BY <3>1, DigitsRead
  <2>. QED  BY <2>1 DEF DigitsBelow
<1>6. ASSUME left # Zero
      PROVE  Spelled(lexeme', base) = Abs(IValue(left)) /\ (Negative(lexeme') <=> IValue(left) < 0)
  <2>1. PICK f : Spells(f, lexeme, base, 0) /\ f[Len(lexeme)] = Abs(IValue(left))
    BY <1>1, <1>3, <1>6 DEF Carried
  <2>2. base \in Int /\ 0 \in Int /\ Len(lexeme) \in Nat
    BY <1>2
  <2>3. CASE IValue(left) < 0
    <3>. DEFINE S == DigitsBelow(base) \cup {"-"}
                t == <<"-">> \o lexeme
    <3>1. lexeme \in Seq(S) /\ "-" \in S
      BY <1>2
    <3>2. t = lexeme' /\ t[1] = "-" /\ t # <<>> /\ Len(t) \in Nat
      BY <1>1, <1>2, <1>4, <2>3
    <3>3. PICK g : Spells(g, t, base, 0) /\ g[Len(t)] = f[Len(lexeme)]
      <4>1. 0 = IF "-" \in {"'", "-"} THEN 0 ELSE 0 * base + DigitOf("-")
        OBVIOUS
      <4>. HIDE DEF S
      <4>. QED  BY <2>1, <2>2, <3>1, <4>1, Prepended
    <3>. HIDE DEF t
    <3>4. Len(t) \in 0 .. Len(t)
      BY <3>2
    <3>5. Spelling(t, base)[Len(t)] = g[Len(t)]
      BY <2>2, <3>2, <3>3, <3>4, SpellsIs
    <3>. QED  BY <2>1, <2>3, <3>2, <3>3, <3>5 DEF Spelled, Negative
  <2>4. CASE ~(IValue(left) < 0)
    <3>1. lexeme' = lexeme
      BY <1>1, <1>4, <2>4
    <3>2. Len(lexeme) \in 0 .. Len(lexeme)
      BY <2>2
    <3>3. Spelling(lexeme, base)[Len(lexeme)] = f[Len(lexeme)]
      BY <2>1, <2>2, <3>2, SpellsIs
    <3>4. ~Negative(lexeme)
      <4>1. lexeme # <<>> => lexeme[1] \in DigitsBelow(base)
        BY <1>2
      <4>. QED  BY <1>5, <4>1 DEF Negative
    <3>. QED  BY <2>1, <2>4, <3>1, <3>3, <3>4 DEF Spelled
  <2>. QED  BY <2>3, <2>4
<1>7. CASE base = 10
  <2>1. mode' = "convert" /\ base' = 0 /\ left' = left /\ res' = Zero /\ reports' = 0
    BY <1>1, <1>2, <1>7
  <2>2. left # Zero => /\ Spelled(lexeme', 10) = Abs(IValue(left))
                       /\ Negative(lexeme') <=> IValue(left) < 0
    BY <1>6, <1>7
  <2>. QED  BY <2>1, <2>2 DEF Carried, RoundTrip, Zero
<1>8. CASE base # 10
  <2>1. mode' = "done" /\ base' = base /\ left' = left
    BY <1>1, <1>8
  <2>. QED  BY <1>6, <1>8, <2>1 DEF Carried, RoundTrip, Zero
<1>. QED  BY <1>7, <1>8

\* A number that was written and is being read.
Reread ==
    /\ Literals /\ Carried /\ mode = "convert" /\ left # Zero

LEMMA RereadFacts ==
    ASSUME Reread
    PROVE  /\ Rereading /\ Written(lexeme) /\ ~native /\ left \in Wide
           /\ Spelled(lexeme, 10) = Abs(IValue(left))
           /\ Negative(lexeme) <=> IValue(left) < 0
           /\ reports = 0
           /\ base = 0 => res = Zero
           /\ base = 10 => res \in Wide /\ UValue(res) = Spelling(lexeme, 10)[pos]
<1>1. Rereading /\ left \in Wide
  BY DEF Reread, Literals, Idle, Writing, Converting
<1>. QED  BY <1>1 DEF Reread, Rereading, Carried

\* The digits of the text.
LEMMA WrittenDigits ==
    ASSUME NEW t, Written(t)
    PROVE  /\ \A i \in Signs(t) + 1 .. Len(t) : DigitOf(t[i]) \in 0 .. 9 /\ t[i] \notin {"'", "-", "+"}
           /\ \A i \in 1 .. Len(t) : t[i] \in {"'", "-"} \/ DigitOf(t[i]) \in 0 .. 9
<1>1. \A c \in DigitsBelow(10) : DigitOf(c) \in 0 .. 9 /\ c \notin {"'", "-", "+"}
  <2>1. \A k \in 1 .. 10 : k \in 1 .. 36 /\ k - 1 \in 0 .. 9
    OBVIOUS
  <2>. QED  BY <2>1, DigitsRead DEF DigitsBelow
<1>2. \A i \in Signs(t) + 1 .. Len(t) : DigitOf(t[i]) \in 0 .. 9 /\ t[i] \notin {"'", "-", "+"}
  BY <1>1 DEF Written
<1>3. ASSUME NEW i \in 1 .. Len(t)
      PROVE  t[i] \in {"'", "-"} \/ DigitOf(t[i]) \in 0 .. 9
  <2>1. Len(t) \in Nat
    BY DEF Written
  <2>2. CASE t[1] = "-" /\ i = 1
    BY <2>2
  <2>3. CASE ~(t[1] = "-" /\ i = 1)
    <3>1. i \in Signs(t) + 1 .. Len(t)
      BY <2>1, <2>3 DEF Signs
    <3>. QED  BY <1>2, <3>1
  <2>. QED  BY <2>2, <2>3
<1>. QED  BY <1>2, <1>3

LEMMA StartRereads ==
    ASSUME Reread, StartConversion
    PROVE  Carried'
<1>1. /\ Rereading /\ Written(lexeme) /\ ~native /\ left \in Wide
      /\ Spelled(lexeme, 10) = Abs(IValue(left))
      /\ Negative(lexeme) <=> IValue(left) < 0
      /\ reports = 0
      /\ base = 0 => res = Zero
  BY RereadFacts
<1>2. /\ PrefixBase(lexeme) = 10 /\ Unprefixed(lexeme) = lexeme
      /\ Len(lexeme) \in Nat /\ Signs(lexeme) \in {0, 1} /\ Len(lexeme) > Signs(lexeme)
      /\ Signed(lexeme) => Signs(lexeme) = 1
      /\ ~Signed(lexeme) => Signs(lexeme) = 0
  BY <1>1, WrittenFacts
<1>3. base = 0 /\ mode = "convert" /\ res = Zero
  BY <1>1 DEF StartConversion
<1>4. ~BadPrefix(lexeme)
  <2>1. SUFFICES ASSUME HasPrefix(lexeme)
                 PROVE  DigitOf(lexeme[2]) \in 0 .. 9
    BY DEF BadPrefix
  <2>2. 2 \in Signs(lexeme) + 1 .. Len(lexeme)
    BY <1>2, <2>1 DEF HasPrefix
  <2>. QED  BY <1>1, <2>2, WrittenDigits
<1>5. ~(Signed(lexeme) /\ Len(lexeme) = 1)
  <2>1. SUFFICES ASSUME Signed(lexeme), Len(lexeme) = 1
                 PROVE  FALSE
    OBVIOUS
  <2>2. Signs(lexeme) = 1 /\ Len(lexeme) > Signs(lexeme)
    BY <1>2, <2>1
  <2>. QED  BY <2>1, <2>2
<1>6. /\ base' = 10 /\ pos' = IF Signed(lexeme) THEN 0 + 1 ELSE 0
      /\ UNCHANGED <<mode, left, lexeme, res, reports>>
  BY <1>2, <1>4, <1>5 DEF StartConversion
<1>7. Spelling(lexeme, 10)[pos'] = 0
  <2>1. /\ Spelling(lexeme, 10)[0] = 0
        /\ \A i \in 1 .. Len(lexeme) :
              Spelling(lexeme, 10)[i] = IF lexeme[i] \in {"'", "-"} THEN Spelling(lexeme, 10)[i - 1]
                                        ELSE Spelling(lexeme, 10)[i - 1] * 10 + DigitOf(lexeme[i])
    BY <1>2, SpellingIs
  <2>2. CASE Signed(lexeme)
    <3>1. Signs(lexeme) = 1
      BY <1>2, <2>2
    <3>2. lexeme[1] = "-"
      BY <3>1 DEF Signs
    <3>3. 1 \in 1 .. Len(lexeme) /\ 1 - 1 = 0
      BY <1>2, <3>1
    <3>. QED  BY <1>6, <2>1, <2>2, <3>2, <3>3
  <2>3. CASE ~Signed(lexeme)
    BY <1>6, <2>1, <2>3
  <2>. QED  BY <2>2, <2>3
<1>8. res' = Zero /\ UValue(Zero) = 0 /\ Zero \in Wide
  BY <1>3, <1>6, ErrorIsZero
<1>. QED  BY <1>1, <1>3, <1>6, <1>7, <1>8 DEF Carried, RoundTrip, Zero

LEMMA CharRereads ==
    ASSUME Reread, ConvertChar
    PROVE  Carried'
<1>1. /\ Rereading /\ Written(lexeme) /\ ~native /\ left \in Wide
      /\ Spelled(lexeme, 10) = Abs(IValue(left))
      /\ Negative(lexeme) <=> IValue(left) < 0
      /\ reports = 0
      /\ base = 10 => res \in Wide /\ UValue(res) = Spelling(lexeme, 10)[pos]
  BY RereadFacts
<1>2. Len(lexeme) \in Nat /\ Signs(lexeme) \in {0, 1}
  BY <1>1, WrittenFacts
<1>3. base = 10 /\ pos \in Signs(lexeme) .. Len(lexeme) /\ pos < Len(lexeme) /\ mode = "convert"
  BY <1>1 DEF ConvertChar, Rereading
<1>4. pos + 1 \in Signs(lexeme) + 1 .. Len(lexeme) /\ pos + 1 \in 1 .. Len(lexeme)
      /\ (pos + 1) - 1 = pos
  BY <1>2, <1>3
<1>5. PICK d \in 0 .. 9 : d = DigitOf(lexeme[pos + 1])
  BY <1>1, <1>4, WrittenDigits
<1>6. lexeme[pos + 1] \notin {"'", "-"}
  BY <1>1, <1>4, WrittenDigits
<1>7. PICK w \in Nat, a \in Nat, u \in Nat :
         /\ w = WideSize /\ 36 < w /\ a = Abs(IValue(left)) /\ 2 * a <= w
         /\ u = UValue(res) /\ u = Spelling(lexeme, 10)[pos]
  <2>1. Abs(IValue(left)) \in Nat /\ 2 * Abs(IValue(left)) <= WideSize
    BY <1>1, Magnitude
  <2>2. UValue(res) \in 0 .. WideSize - 1
    BY <1>1, <1>3, ValueFacts
  <2>3. WideSize \in Nat /\ 36 < WideSize
    BY Sizes, LiteralsAssumption
  <2>4. UValue(res) \in Nat
    BY <2>2, <2>3
  <2>. QED  BY <1>1, <1>3, <2>1, <2>3, <2>4, Zenon
<1>8. u * 10 + d = Spelling(lexeme, 10)[pos + 1]
  <2>1. \A i \in 1 .. Len(lexeme) :
           Spelling(lexeme, 10)[i] = IF lexeme[i] \in {"'", "-"} THEN Spelling(lexeme, 10)[i - 1]
                                     ELSE Spelling(lexeme, 10)[i - 1] * 10 + DigitOf(lexeme[i])
    BY <1>2, SpellingIs
  <2>. QED  BY <1>4, <1>5, <1>6, <1>7, <2>1
<1>9. u * 10 + d <= a
  <2>1. PICK b \in Nat \ {0} : b = 10
    OBVIOUS
  <2>2. \A i \in 0 .. Len(lexeme) : \A j \in 0 .. i :
           Spelling(lexeme, 10)[j] >= 0 /\ Spelling(lexeme, 10)[j] <= Spelling(lexeme, 10)[i]
    <3>1. \A i \in 1 .. Len(lexeme) : lexeme[i] \in {"'", "-"} \/ DigitOf(lexeme[i]) \in 0 .. 9
      BY <1>1, WrittenDigits
    <3>2. \A i \in 1 .. Len(lexeme) : lexeme[i] \in {"'", "-"} \/ DigitOf(lexeme[i]) \in 0 .. b - 1
      BY <2>1, <3>1
    <3>3. \A i \in 0 .. Len(lexeme) : \A j \in 0 .. i :
             Spelling(lexeme, b)[j] >= 0 /\ Spelling(lexeme, b)[j] <= Spelling(lexeme, b)[i]
      BY <1>2, <3>2, SpellingGrows
    <3>. QED  BY <2>1, <3>3
  <2>3. Len(lexeme) \in 0 .. Len(lexeme) /\ pos + 1 \in 0 .. Len(lexeme)
    BY <1>2, <1>4
  <2>4. Spelling(lexeme, 10)[Len(lexeme)] = a
    BY <1>1, <1>7 DEF Spelled
  <2>. QED  BY <1>8, <2>2, <2>3, <2>4
<1>10. ~u128_gt(res, Threshold(d))
  <2>1. Threshold(d) \in Wide /\ 2 * UValue(Threshold(d)) >= WideSize - 2 - d
    BY <1>1, <1>3, ThresholdTen
  <2>2. u128_gt(res, Threshold(d)) <=> UValue(Threshold(d)) < UValue(res)
    BY <1>1, <1>3, <2>1, OrderFacts
  <2>3. UValue(Threshold(d)) \in Int
    BY <2>1, ValueFacts, Sizes
  <2>. QED  BY <1>7, <1>9, <2>1, <2>2, <2>3
<1>11. /\ res' = u128_add(u128_mul(res, UINT128(10)), UINT128(d))
       /\ pos' = pos + 1
       /\ UNCHANGED <<mode, left, lexeme, base, reports>>
  BY <1>3, <1>5, <1>10 DEF ConvertChar
<1>12. res' \in Wide /\ UValue(res') = u * 10 + d
  <2>1. u * 10 + d < WideSize
    BY <1>7, <1>9
  <2>2. 10 \in 2 .. 36 /\ d \in 0 .. 10 - 1
    OBVIOUS
  <2>3. res \in Wide /\ UValue(res) = u
    BY <1>1, <1>3, <1>7
  <2>. QED  BY <1>11, <2>1, <2>2, <2>3, Appended
<1>. QED  BY <1>1, <1>3, <1>8, <1>11, <1>12 DEF Carried, RoundTrip, Zero

LEMMA EndRereads ==
    ASSUME Reread, EndConversion
    PROVE  Carried'
<1>1. /\ Rereading /\ Written(lexeme) /\ ~native /\ left \in Wide
      /\ Spelled(lexeme, 10) = Abs(IValue(left))
      /\ Negative(lexeme) <=> IValue(left) < 0
      /\ reports = 0
      /\ base = 10 => res \in Wide /\ UValue(res) = Spelling(lexeme, 10)[pos]
  BY RereadFacts
<1>2. /\ Unprefixed(lexeme) = lexeme
      /\ Len(lexeme) \in Nat /\ Signs(lexeme) \in {0, 1} /\ Len(lexeme) > Signs(lexeme)
  BY <1>1, WrittenFacts
<1>3. base = 10 /\ pos = Len(lexeme) /\ digits
  BY <1>1, <1>2 DEF EndConversion, Rereading
<1>4. PICK w \in Nat, a \in Nat, n \in Int :
         /\ w = WideSize /\ n = IValue(left) /\ a = Abs(n) /\ 2 * a <= w
         /\ a = IF n < 0 THEN -n ELSE n
         /\ 2 * n >= -w /\ 2 * n < w
  <2>1. /\ IValue(left) \in Int /\ Abs(IValue(left)) \in Nat /\ 2 * Abs(IValue(left)) <= WideSize
        /\ Abs(IValue(left)) = IF IValue(left) < 0 THEN -IValue(left) ELSE IValue(left)
        /\ 2 * IValue(left) >= -WideSize /\ 2 * IValue(left) < WideSize
    BY <1>1, Magnitude, ValueFacts
  <2>. QED  BY <2>1, Sizes
<1>5. res \in Wide /\ UValue(res) = a
  BY <1>1, <1>3, <1>4 DEF Spelled
<1>6. Negative(lexeme) <=> n < 0
  BY <1>1, <1>4
<1>. DEFINE largest == LargestMagnitude(Negative(lexeme))
            result == IF ~Negative(lexeme) THEN res
                      ELSE IF u128_eq(res, i128_abs_u128(INT128_MIN)) THEN INT128_MIN
                      ELSE i128_neg(res)
<1>7. ~u128_gt(res, largest)
  <2>1. largest \in Wide /\ 2 * UValue(largest) = IF n < 0 THEN w ELSE w - 2
    BY <1>4, <1>6, Smallest, Largest DEF LargestMagnitude
  <2>. HIDE DEF largest
  <2>2. u128_gt(res, largest) <=> UValue(largest) < a
    BY <1>5, <2>1, OrderFacts
  <2>3. UValue(largest) \in Int
    BY <2>1, ValueFacts, Sizes
  <2>. QED  BY <1>4, <2>1, <2>2, <2>3
<1>8. result = left
  <2>1. PICK u \in 0 .. w - 1 : u = UValue(left) /\ n = IF 2 * u >= w THEN u - w ELSE u
    BY <1>1, <1>4, ValueFacts, SignedReading
  <2>2. CASE ~(n < 0)
    <3>1. UValue(res) = UValue(left)
      BY <1>4, <1>5, <2>1, <2>2
    <3>2. res = left
      BY <1>1, <1>5, <3>1, SameNumber
    <3>. QED  BY <1>6, <2>2, <3>2
  <2>3. CASE n < 0 /\ 2 * a = w
    <3>1. u128_eq(res, i128_abs_u128(INT128_MIN))
      <4>1. UValue(i128_abs_u128(INT128_MIN)) \in Int
        BY Smallest, ValueFacts, Sizes
      <4>2. UValue(res) = UValue(i128_abs_u128(INT128_MIN))
        BY <1>4, <1>5, <2>3, <4>1, Smallest
      <4>. QED  BY <1>5, <4>2, Smallest, OrderFacts
    <3>2. IValue(INT128_MIN) = IValue(left)
      <4>1. IValue(INT128_MIN) \in Int
        BY Smallest, ValueFacts
      <4>. QED  BY <1>4, <2>3, <4>1, Smallest
    <3>3. INT128_MIN = left
      BY <1>1, <3>2, Smallest, SameNumber
    <3>. QED  BY <1>6, <2>3, <3>1, <3>3
  <2>4. CASE n < 0 /\ 2 * a # w
    <3>1. ~u128_eq(res, i128_abs_u128(INT128_MIN))
      <4>1. UValue(res) # UValue(i128_abs_u128(INT128_MIN))
        BY <1>4, <1>5, <2>4, Smallest
      <4>. QED  BY <1>5, <4>1, Smallest, OrderFacts
    <3>2. i128_neg(res) \in Wide /\ Alike(-a, UValue(i128_neg(res)))
      BY <1>5, NegFacts
    <3>3. Alike(u, -a)
      <4>1. u = -a + 1 * WideSize
        BY <1>4, <2>1, <2>4
      <4>2. 1 \in Int
        OBVIOUS
      <4>. QED  BY <4>1, <4>2, Zenon DEF Alike
    <3>4. UValue(i128_neg(res)) \in Int /\ u \in Int /\ -a \in Int
      BY <3>2, ValueFacts, Sizes
    <3>5. Alike(u, UValue(i128_neg(res)))
      BY <3>2, <3>3, <3>4, AlikeStep
    <3>6. UValue(i128_neg(res)) = u
      BY <1>4, <3>2, <3>5, ValueIs
    <3>7. i128_neg(res) = left
      BY <1>1, <2>1, <3>2, <3>6, SameNumber
    <3>. QED  BY <1>6, <2>4, <3>1, <3>7
  <2>. QED  BY <2>2, <2>3, <2>4
<1>9. Returns(result, 0)
  BY <1>2, <1>3, <1>7, Zenon DEF EndConversion
<1>. HIDE DEF result
<1>10. /\ mode' = "done" /\ value' = left /\ reports' = 0 + 0
       /\ UNCHANGED <<left, lexeme, base>>
  BY <1>1, <1>8, <1>9 DEF Returns
<1>. QED  BY <1>1, <1>3, <1>10 DEF Carried, RoundTrip, Zero

-----------------------------------------------------------------------------
LEMMA CarriedStart == Init => Carried
BY DEF Init, Carried, RoundTrip

LEMMA CarriedStep == Literals /\ Carried /\ [Next]_vars => Carried'
<1>1. SUFFICES ASSUME Literals, Carried, [Next]_vars
               PROVE  Carried'
  OBVIOUS
<1>2. CASE SecondOperand
  BY <1>1, <1>2 DEF SecondOperand, Carried, RoundTrip, Zero
<1>3. CASE StartConversion \/ ConvertChar \/ EndConversion
  <2>1. mode = "convert" /\ left' = left
    BY <1>3 DEF StartConversion, ConvertChar, EndConversion, Returns
  <2>2. CASE left # Zero
    <3>1. Reread
      BY <1>1, <2>1, <2>2 DEF Reread
    <3>. QED  BY <1>3, <3>1, StartRereads, CharRereads, EndRereads
  <2>3. CASE left = Zero
    <3>1. mode' \in {"convert", "done", "aborted"}
      BY <1>3, <2>1 DEF StartConversion, ConvertChar, EndConversion, Returns
    <3>. QED  BY <2>1, <2>3, <3>1 DEF Carried, RoundTrip, Zero
  <2>. QED  BY <2>2, <2>3
<1>4. CASE StartWriting \/ WriteDigit \/ EndWriting
  BY <1>1, <1>4, StartCarries, DigitCarries, EndCarries
<1>5. CASE UNCHANGED vars
  BY <1>1, <1>5 DEF vars, Carried, RoundTrip, Zero
<1>. QED  BY <1>1, <1>2, <1>3, <1>4, <1>5 DEF Next

\* Whatever the width of a limb: a number that is written in a base and read again, by
\* the emulated conversion with its wrong bound, is the number.
THEOREM NumbersSurvive == Spec => []RoundTrip
<1>1. Init => Literals /\ Carried
  BY LiteralsStart, CarriedStart
<1>2. Literals /\ Carried /\ [Next]_vars => (Literals /\ Carried)'
  BY LiteralsStep, CarriedStep
<1>3. Literals /\ Carried => RoundTrip
  BY DEF Carried
<1>. QED  BY <1>1, <1>2, <1>3, PTL DEF Spec
=============================================================================
