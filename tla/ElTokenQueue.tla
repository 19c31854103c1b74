---------------------------- MODULE ElTokenQueue ----------------------------
(***************************************************************************)
(* The token queue (src/src/elash/lexer/tokque.c): a ring buffer that       *)
(* doubles when it is full.  The preprocessor keeps the tokens #emit        *)
(* produced in one, the parser its lookahead.                               *)
(*                                                                         *)
(* A slot nobody wrote since its array was allocated holds Junk, and one    *)
(* that was popped keeps its token, as in the C array.  An allocation does  *)
(* not fail (el_alloc aborts).                                              *)
(***************************************************************************)
EXTENDS Naturals, Sequences

CONSTANTS
    Handles,        \* the queues of a program
    Tokens,
    Junk,           \* what an uninitialised slot holds
    DefaultCap,     \* EL_TKQUE_DEFAULT_CAP
    MaxCap          \* bound: no queue is made to grow beyond it

ASSUME QueueAssumption ==
    /\ DefaultCap \in Nat \ {0} /\ MaxCap \in Nat
    /\ Junk \notin Tokens

VARIABLES
    queue,          \* the ElTokenQueue under each handle
    got             \* history: the token the last successful read stored

queueVars == <<queue, got>>

Slots == Tokens \cup {Junk}

Fresh(cap) == [i \in 0 .. cap - 1 |-> Junk]

\* A queue that was never initialised, was destroyed or moved away (memset 0)
Zeroed == [data |-> Fresh(0), cap |-> 0, head |-> 0, tail |-> 0, len |-> 0]

Initialised(cap) == [Zeroed EXCEPT !.data = Fresh(cap), !.cap = cap]

\* Mutant: the wrapped half is not moved behind the first one.
RepackStraight(q, cap) ==
    [k \in 0 .. cap - 1 |->
        IF k < q.len /\ q.head + k < q.cap THEN q.data[q.head + k] ELSE Junk]

\* el_tkque_repack into a new array: one piece, or the piece up to the end of
\* the array and the wrapped one
Repack(q, cap) ==
    LET first == q.cap - q.head
        size  == IF q.head < q.tail THEN q.len
                 ELSE IF q.len = 0 THEN 0 ELSE first + q.tail
    IN  [k \in 0 .. cap - 1 |->
            IF k >= size THEN Junk
            ELSE IF q.head < q.tail \/ k < first THEN q.data[q.head + k]
            ELSE q.data[k - first]]

\* The end of el_tkque_grow and el_tkque_reserve
Resized(q, cap) ==
    [data |-> Repack(q, cap), cap |-> cap, head |-> 0, tail |-> q.len, len |-> q.len]

\* Mutant: the queue is taken for full one token too late.
RoomyLate(q) ==
    IF q.cap = 0 \/ q.len > q.cap THEN Resized(q, IF q.cap = 0 THEN DefaultCap ELSE 2 * q.cap)
    ELSE q

\* el_tkque_grow when full
Roomy(q) ==
    IF q.len = q.cap THEN Resized(q, IF q.cap = 0 THEN DefaultCap ELSE 2 * q.cap) ELSE q

Pushed(r, t) ==
    [r EXCEPT !.data = [@ EXCEPT ![r.tail] = t],
              !.tail = (r.tail + 1) % r.cap,
              !.len  = r.len + 1]

PushedFront(r, t) ==
    LET head == (r.head + r.cap - 1) % r.cap
    IN  [r EXCEPT !.data = [@ EXCEPT ![head] = t], !.head = head, !.len = r.len + 1]

At(q, i) == q.data[(q.head + i) % q.cap]

-----------------------------------------------------------------------------
Store(h, q) == queue' = [queue EXCEPT ![h] = q]

MayGrow(q) == q.len = q.cap => 2 * q.cap <= MaxCap /\ DefaultCap <= MaxCap

InitWithCap(h, cap) ==
    /\ queue[h] = Zeroed
    /\ Store(h, Initialised(IF cap = 0 THEN DefaultCap ELSE cap))
    /\ UNCHANGED got

Destroy(h) == Store(h, Zeroed) /\ UNCHANGED got

Push(h) ==
    /\ MayGrow(queue[h])
    /\ \E t \in Tokens : Store(h, Pushed(Roomy(queue[h]), t))
    /\ UNCHANGED got

PushFront(h) ==
    /\ MayGrow(queue[h])
    /\ \E t \in Tokens : Store(h, PushedFront(Roomy(queue[h]), t))
    /\ UNCHANGED got

\* A queue without tokens is left alone.
Pop(h) ==
    LET q == queue[h] IN
    /\ q.len # 0
    /\ got' = At(q, 0)
    /\ Store(h, [q EXCEPT !.head = (q.head + 1) % q.cap, !.len = q.len - 1])

\* el_tkque_peek (i = 0) and el_tkque_at; an index that is out of range fails
ReadAt(h, i) ==
    /\ i < queue[h].len
    /\ got' = At(queue[h], i)
    /\ UNCHANGED queue

Clear(h) ==
    /\ Store(h, [queue[h] EXCEPT !.head = 0, !.tail = 0, !.len = 0])
    /\ UNCHANGED got

\* The first doubling of start that is enough
Doubled(start, min, cap) ==
    /\ \E k \in 0 .. MaxCap : cap = start * 2^k
    /\ cap = start \/ cap < 2 * min

\* el_tkque_reserve does nothing when the capacity is enough.
Reserve(h, min) ==
    LET q == queue[h] IN
    /\ q.cap < min
    /\ \E cap \in min .. MaxCap :
          /\ Doubled(IF q.cap = 0 THEN DefaultCap ELSE q.cap, min, cap)
          /\ Store(h, Resized(q, cap))
    /\ UNCHANGED got

\* el_tkque_move; what the destination held is overwritten
Move(h, to) ==
    /\ h # to
    /\ queue' = [queue EXCEPT ![to] = queue[h], ![h] = Zeroed]
    /\ UNCHANGED got

QueueInit == queue = [h \in Handles |-> Zeroed] /\ got = Junk

QueueNext ==
    \/ \E h \in Handles :
          \/ Destroy(h) \/ Push(h) \/ PushFront(h) \/ Pop(h) \/ Clear(h)
          \/ \E cap \in 0 .. MaxCap : InitWithCap(h, cap) \/ Reserve(h, cap) \/ ReadAt(h, cap)
    \/ \E h, to \in Handles : Move(h, to)

QueueSpec == QueueInit /\ [][QueueNext]_queueVars

-----------------------------------------------------------------------------
(* Properties *)

\* A ring of its capacity: tail is where the next token goes, and head and
\* tail agree with len, also when the queue is full and when it is wrapped.
IsRing(q) ==
    /\ q \in [data : [0 .. q.cap - 1 -> Slots], cap : Nat, head : Nat, tail : Nat, len : Nat]
    /\ IF q.cap = 0 THEN q.head = 0 /\ q.tail = 0 /\ q.len = 0
       ELSE /\ q.head < q.cap /\ q.len <= q.cap
            /\ q.tail = (q.head + q.len) % q.cap

\* Every queue stays a ring through growth, wrapping and moves.
RingShape ==
    /\ queue = [h \in Handles |-> queue[h]]
    /\ \A h \in Handles : IsRing(queue[h])

\* The tokens from head to tail, in order
Contents(q) == [i \in 1 .. q.len |-> At(q, i - 1)]

Held == [h \in Handles |-> Contents(queue[h])]

Deque == INSTANCE TokenDeque WITH Nothing <- Junk, out <- got, contents <- Held

\* The queue behaves as a sequence of tokens read and written at both ends,
\* whatever it did to its array in between.
IsDeque == Deque!DequeSpec
=============================================================================
