------------------------ MODULE ElPreproc_nest_proofs ------------------------
(***************************************************************************)
(* Proofs about the nesting of frames, blocks and calls in ElPreproc, as   *)
(* long as every file closes the blocks it opens and no other, and every   *)
(* function ends with #return (~ragged): no assertion of the code fails,   *)
(* a capture is always under way when the flags say so, a running function *)
(* touches neither the frames nor the blocks of its callers, and no        *)
(* definition is overwritten.                                              *)
(***************************************************************************)
EXTENDS ElPreproc_proofs

-----------------------------------------------------------------------------
(* The inductive invariant *)

CondDirs == {"while", "again"}
Caller   == IF calls = <<>> THEN 0 ELSE Top(calls).caller
Body(f)  == f.type = "FRAME_LOOP_BODY"

\* The condition of a loop is being evaluated; a loop is between two iterations;
\* a handler has failed, or a call is being cleaned up.
InCond   == pc \in Evaluating /\ line.dir \in CondDirs
Looping  == pc \in {"enter", "exhausted"} \/ (pc \in Evaluating /\ line.dir = "again")
Failing  == pc \in {"fail", "cleanup"}

\* The condition of a loop is evaluated in a frame of its own.
Own(l) == IF l.dir \in CondDirs THEN 1 ELSE 0

\* Every call has frames of its own above those of its caller, and a call from
\* the condition of a loop returns to the frame of the condition.
CallsNested ==
    /\ \A c \in DOMAIN calls :
          /\ ~calls[c].gone
          /\ calls[c].caller > Own(calls[c].line)
          /\ \A d \in 1 .. c - 1 : calls[c].caller > calls[d].caller + Own(calls[c].line)
          /\ calls[c].line.dir = "again" => calls[c].skip = 0
    /\ Len(frames) >= Caller
    /\ calls # <<>> /\ pc # "cleanup" => Len(frames) > Caller
    /\ InCond => Len(frames) > Caller + 1

\* A frame begins with the blocks open that those below it leave, the body of a
\* loop with the block of the loop besides.
BasesNested ==
    /\ \A j \in DOMAIN frames : frames[j].file => frames[j].rest = <<>>
    /\ \A j \in DOMAIN frames : \A i \in 1 .. j - 1 :
          /\ frames[i].base <= frames[j].base
          /\ Body(frames[j]) => frames[i].base < frames[j].base

\* What a call has saved lies between its frames and those of its caller.
CallBases ==
    \A c \in DOMAIN calls : \A j \in DOMAIN frames :
       /\ j <= calls[c].caller => frames[j].base <= calls[c].base
       /\ j = calls[c].caller + 1 => frames[j].base = calls[c].base /\ ~Body(frames[j])
       /\ calls[c].line.dir \in CondDirs /\ j = calls[c].caller =>
             frames[j].base = calls[c].base /\ ~Body(frames[j]) /\ frames[j].rest = <<>>
       /\ calls[c].line.dir = "again" /\ j < calls[c].caller => frames[j].base < calls[c].base

\* The block of the loop whose body a frame replays.
BodyOpen(f) ==
    Body(f) => /\ f.base \in 1 .. Len(blocks)
               /\ blocks[f.base].kind \in LoopKinds /\ ~blocks[f.base].capturing

\* The blocks a frame began with are still open, until it is dropped.
FramesOpen ==
    /\ \A j \in DOMAIN frames : (pc = "cleanup" => j <= Caller) =>
          /\ pc # "leave" => frames[j].base <= Len(blocks)
          /\ BodyOpen(frames[j])
    /\ InCond => /\ Top(frames).base = Len(blocks) /\ ~Body(Top(frames))
                 /\ Top(frames).rest = <<>>

\* What is skipped is part of a block opened after the innermost loop body, and
\* a loop between two iterations is the innermost block of all frames.
SkipsOwn ==
    /\ skipDepth > 0 /\ ~Failing =>
          HasBlock /\ \A j \in DOMAIN frames : Body(frames[j]) => frames[j].base < Len(blocks)
    /\ Looping =>
          /\ skipDepth = 0 /\ TopKind \in LoopKinds /\ ~Top(blocks).capturing
          /\ \A j \in DOMAIN frames : (InCond => j < Len(frames)) => frames[j].base < Len(blocks)

\* Every loop has a frame that replays its body, but for the innermost one while
\* it is skipped, between two iterations, or in the hands of a failed handler,
\* and the loop whose condition has called a function.
LoopsRun ==
    \A k \in DOMAIN blocks : blocks[k].kind \in LoopKinds /\ ~blocks[k].capturing =>
       \/ \E j \in DOMAIN frames : Body(frames[j]) /\ frames[j].base = k
       \/ k = Len(blocks) /\ HasBlock /\ (skipDepth > 0 \/ Looping \/ Failing)
       \/ \E c \in DOMAIN calls : calls[c].base = k /\ calls[c].line.dir = "again"

\* Only the innermost block is being captured, and skipCapture tells.
CapturesTop ==
    /\ \A k \in DOMAIN blocks : Collects(blocks[k]) => k = Len(blocks) /\ HasBlock /\ skipCapture
    /\ skipCapture => HasBlock /\ Collects(Top(blocks))
    /\ skipCapture /\ ~Failing => skipDepth > 0

Nested == /\ CallsNested /\ BasesNested /\ CallBases /\ FramesOpen
          /\ SkipsOwn /\ LoopsRun /\ CapturesTop
          /\ pc \notin {"assert", "crash"}

\* The #end under way, if any, closes a block of the frame it is read from.
ClosesOwn ==
    pc = "line" /\ line.dir = "end" /\ skipDepth < 2 /\ ~Top(frames).file
        => Len(blocks) > Top(frames).base

-----------------------------------------------------------------------------
(* Frames and calls of a state *)

LEMMA NestTypes ==
    ASSUME IInv
    PROVE  /\ frames \in Seq(Frames) /\ Len(frames) \in Nat /\ DOMAIN frames = 1 .. Len(frames)
           /\ \A j \in 1 .. Len(frames) : /\ frames[j].base \in Nat
                                          /\ frames[j].rest \in Seq(Line)
                                          /\ frames[j].file \in BOOLEAN
           /\ blocks \in Seq(Blocks) /\ Len(blocks) \in Nat /\ DOMAIN blocks = 1 .. Len(blocks)
           /\ calls \in Seq(CallFrames) /\ Len(calls) \in Nat /\ DOMAIN calls = 1 .. Len(calls)
           /\ \A c \in 1 .. Len(calls) : /\ calls[c].caller \in Nat /\ calls[c].base \in Nat
                                         /\ calls[c].skip \in Nat /\ calls[c].gone \in BOOLEAN
           /\ BlockBase \in Nat /\ BlockBase <= Len(blocks) /\ skipDepth \in Nat
<1>1. TypeOK /\ CallShape
  BY DEF IInv
<1>2. /\ frames \in Seq(Frames) /\ Len(frames) \in Nat /\ DOMAIN frames = 1 .. Len(frames)
      /\ \A j \in 1 .. Len(frames) : frames[j] \in Frames
  BY <1>1, LenProperties, ElementOfSeq DEF TypeOK
<1>3. /\ blocks \in Seq(Blocks) /\ Len(blocks) \in Nat /\ DOMAIN blocks = 1 .. Len(blocks)
      /\ BlockBase \in Nat /\ BlockBase <= Len(blocks) /\ skipDepth \in Nat
  BY <1>1, BaseFacts DEF TypeOK
<1>4. /\ calls \in Seq(CallFrames) /\ Len(calls) \in Nat /\ DOMAIN calls = 1 .. Len(calls)
      /\ \A c \in 1 .. Len(calls) : calls[c] \in CallFrames
  BY <1>1, LenProperties, ElementOfSeq DEF TypeOK
<1>. QED  BY <1>2, <1>3, <1>4 DEF Frames, CallFrames

\* The frames of the running call lie above those of every caller.
LEMMA CallerFacts ==
    ASSUME IInv, CallsNested
    PROVE  /\ Caller \in Nat
           /\ \A c \in 1 .. Len(calls) : calls[c].caller <= Caller /\ calls[c].caller >= 1
           /\ \A c \in 1 .. Len(calls) : c < Len(calls) => calls[c].caller < Caller
           /\ calls = <<>> => Caller = 0 /\ BlockBase = 0
           /\ calls # <<>> => /\ Len(calls) \in 1 .. Len(calls) /\ Caller >= 1
                              /\ Caller = calls[Len(calls)].caller
                              /\ BlockBase = calls[Len(calls)].base
<1>1. /\ Len(calls) \in Nat /\ DOMAIN calls = 1 .. Len(calls) /\ calls \in Seq(CallFrames)
      /\ \A c \in 1 .. Len(calls) : calls[c].caller \in Nat
  BY NestTypes
<1>2. calls = <<>> => Caller = 0 /\ BlockBase = 0
  BY DEF Caller, BlockBase
<1>3. calls # <<>> => Len(calls) \in 1 .. Len(calls)
  BY <1>1, EmptySeq
<1>4. calls # <<>> => Caller = calls[Len(calls)].caller /\ BlockBase = calls[Len(calls)].base
  BY DEF Caller, BlockBase, Top
<1>5. Caller \in Nat
  BY <1>1, <1>2, <1>3, <1>4
<1>6. \A c \in 1 .. Len(calls) :
         calls[c].caller >= 1 /\ \A d \in 1 .. c - 1 : calls[c].caller > calls[d].caller
  <2>1. \A c \in 1 .. Len(calls) : \A d \in 1 .. c - 1 : d \in 1 .. Len(calls)
    BY <1>1
  <2>2. \A l : Own(l) \in {0, 1}
    BY DEF Own
  <2>3. \A c \in 1 .. Len(calls) :
           /\ calls[c].caller > Own(calls[c].line)
           /\ \A d \in 1 .. c - 1 : calls[c].caller > calls[d].caller + Own(calls[c].line)
    BY <1>1 DEF CallsNested
  <2>. QED  BY <1>1, <2>1, <2>2, <2>3
<1>7. \A c \in 1 .. Len(calls) : c < Len(calls) => calls[c].caller < Caller
  <2>1. \A c \in 1 .. Len(calls) : calls # <<>> /\ Len(calls) \in 1 .. Len(calls)
    BY <1>1, EmptySeq
  <2>2. \A c \in 1 .. Len(calls) : c < Len(calls) => c \in 1 .. Len(calls) - 1
    BY <1>1
  <2>. QED  BY <1>1, <1>4, <1>6, <2>1, <2>2
<1>8. \A c \in 1 .. Len(calls) : calls[c].caller <= Caller
  <2>0. Len(calls) \in Nat
    BY <1>1
  <2>1. \A c \in 1 .. Len(calls) : c = Len(calls) \/ c < Len(calls)
    BY <2>0
  <2>2. \A c \in 1 .. Len(calls) : calls # <<>>
    BY <1>1, EmptySeq
  <2>3. ASSUME NEW c \in 1 .. Len(calls)
        PROVE  calls[c].caller <= Caller
    <3>1. calls[c].caller = Caller \/ calls[c].caller < Caller
      BY <1>4, <1>7, <2>1, <2>2, <2>3
    <3>. QED  BY <1>1, <1>5, <2>3, <3>1
  <2>. QED  BY <2>3
<1>9. calls # <<>> => Caller >= 1
  BY <1>3, <1>4, <1>6
<1>. QED  BY <1>2, <1>3, <1>4, <1>5, <1>6, <1>7, <1>8, <1>9

LEMMA LastOr ==
    ASSUME NEW n \in Nat, NEW j \in 1 .. n
    PROVE  /\ j \in Nat /\ j >= 1 /\ j <= n
           /\ j = n \/ (j < n /\ j \in 1 .. n - 1 /\ j + 1 \in 1 .. n)
OBVIOUS

LEMMA BelowTop ==
    ASSUME NEW n \in Nat
    PROVE  /\ \A k \in 1 .. n - 1 : k \in 1 .. n /\ k # n /\ k < n
           /\ \A k \in 1 .. n : k < n \/ k # n => k \in 1 .. n - 1
           /\ \A k \in Nat : k < n => k <= n - 1
OBVIOUS

LEMMA LargestOf ==
    ASSUME NEW n \in Nat, NEW T \in SUBSET (1 .. n), T # {}
    PROVE  \E m \in T : \A k \in T : k <= m
<1>. DEFINE U == {i \in 0 .. n : n - i \in T}
<1>1. U # {}
  <2>1. PICK k \in T : TRUE
    OBVIOUS
  <2>2. n - k \in 0 .. n /\ n - (n - k) = k
    BY <2>1
  <2>3. n - k \in U
    BY <2>1, <2>2
  <2>. QED  BY <2>3
<1>2. PICK i \in U : \A h \in U : i <= h
  <2>1. U \in SUBSET Nat
    OBVIOUS
  <2>. QED  BY <1>1, <2>1, SmallestOf
<1>3. ASSUME NEW k \in T
      PROVE  k <= n - i
  <2>1. k \in 1 .. n /\ n - k \in 0 .. n /\ n - (n - k) = k
    BY <1>3
  <2>2. n - k \in U
    BY <1>3, <2>1
  <2>3. i <= n - k /\ i \in 0 .. n
    BY <1>2, <2>2
  <2>. QED  BY <2>1, <2>3
<1>. QED  BY <1>2, <1>3

\* A loop of the running call that is neither skipped nor between iterations
\* has a frame that replays its body, above the first frame of the call.
LEMMA LoopFrame ==
    ASSUME IInv, Nested, NEW k \in BlockBase + 1 .. Len(blocks),
           blocks[k].kind \in LoopKinds, skipDepth = 0, ~Looping, ~Failing
    PROVE  \E j \in 1 .. Len(frames) : Body(frames[j]) /\ frames[j].base = k
<1>1. /\ DOMAIN frames = 1 .. Len(frames) /\ DOMAIN blocks = 1 .. Len(blocks)
      /\ DOMAIN calls = 1 .. Len(calls) /\ BlockBase \in Nat /\ Len(blocks) \in Nat
      /\ \A c \in DOMAIN calls : calls[c].base \in Nat /\ calls[c].base <= BlockBase
  BY NestTypes, BaseFacts DEF IInv
<1>2. k \in DOMAIN blocks /\ k > BlockBase
  BY <1>1
<1>3. ~blocks[k].capturing
  <2>1. ~skipCapture
    BY DEF Nested, CapturesTop
  <2>. QED  BY <1>2, <2>1 DEF Nested, CapturesTop, Collects
<1>4. \A c \in DOMAIN calls : calls[c].base # k
  BY <1>1, <1>2
<1>. QED  BY <1>1, <1>2, <1>3, <1>4 DEF Nested, LoopsRun

\* Frames that began with more blocks than the call belong to the call.
LEMMA OwnFrame ==
    ASSUME IInv, CallsNested, CallBases, NEW j \in 1 .. Len(frames),
           frames[j].base > BlockBase, calls # <<>>
    PROVE  j > Caller + 1
<1>1. /\ Caller \in Nat /\ Len(calls) \in DOMAIN calls
      /\ Caller = calls[Len(calls)].caller /\ BlockBase = calls[Len(calls)].base
      /\ DOMAIN frames = 1 .. Len(frames) /\ Len(frames) \in Nat
      /\ frames[j].base \in Nat /\ BlockBase \in Nat
  BY CallerFacts, NestTypes
<1>2. /\ j <= Caller => frames[j].base <= BlockBase
      /\ j = Caller + 1 => frames[j].base = BlockBase
  BY <1>1 DEF CallBases
<1>. QED  BY <1>1, <1>2

\* #break and #continue find the frame of the body they leave.
LEMMA LeaveFacts ==
    ASSUME IInv, SkipInv, Nested, pc = "leave"
    PROVE  \E j \in 1 .. Len(frames) :
              /\ Body(frames[j]) /\ frames[j].base > BlockBase
              /\ \A i \in 1 .. Len(frames) : Body(frames[i]) => i <= j
              /\ calls # <<>> => j > Caller + 1
              /\ TopKind \in LoopKinds => frames[j].base = Len(blocks)
<1>1. /\ DOMAIN frames = 1 .. Len(frames) /\ Len(frames) \in Nat
      /\ \A j \in 1 .. Len(frames) : frames[j].base \in Nat
      /\ BlockBase \in Nat /\ Len(blocks) \in Nat
  BY NestTypes
<1>2. skipDepth = 0 /\ InsideLoop /\ ~Looping /\ ~Failing
  BY DEF SkipInv, HandlerSkip, Looping, Failing, Evaluating
<1>3. PICK k \in BlockBase + 1 .. Len(blocks) : blocks[k].kind \in LoopKinds
  BY <1>2 DEF InsideLoop
<1>4. PICK h \in 1 .. Len(frames) : Body(frames[h]) /\ frames[h].base = k
  BY <1>2, <1>3, LoopFrame
<1>. DEFINE T == {i \in 1 .. Len(frames) : Body(frames[i])}
<1>5. PICK j \in T : \A i \in T : i <= j
  <2>1. T # {} /\ T \in SUBSET (1 .. Len(frames))
    BY <1>4
  <2>. QED  BY <1>1, <2>1, LargestOf
<1>6. ASSUME NEW i \in 1 .. Len(frames), Body(frames[i])
      PROVE  i <= j /\ frames[i].base <= frames[j].base
  <2>1. i <= j /\ j \in 1 .. Len(frames)
    BY <1>5, <1>6
  <2>2. i = j \/ i \in 1 .. j - 1
    <3>1. Len(frames) \in Nat
      BY <1>1
    <3>. QED  BY <2>1, <3>1
  <2>3. frames[i].base <= frames[j].base
    <3>1. CASE i = j
      BY <1>1, <1>6, <3>1
    <3>2. CASE i \in 1 .. j - 1
      BY <1>1, <2>1, <3>2 DEF Nested, BasesNested
    <3>. QED  BY <2>2, <3>1, <3>2
  <2>. QED  BY <2>1, <2>3
<1>7. frames[j].base > BlockBase
  <2>1. frames[h].base <= frames[j].base /\ k > BlockBase
    BY <1>1, <1>3, <1>4, <1>6
  <2>2. frames[j].base \in Nat /\ k \in Nat /\ BlockBase \in Nat
    BY <1>1, <1>3, <1>5
  <2>. QED  BY <1>4, <2>1, <2>2
<1>8. calls # <<>> => j > Caller + 1
  BY <1>5, <1>7, OwnFrame DEF Nested
<1>9. ASSUME TopKind \in LoopKinds
      PROVE  frames[j].base = Len(blocks)
  <2>1. Len(blocks) \in BlockBase + 1 .. Len(blocks) /\ blocks[Len(blocks)].kind \in LoopKinds
    BY <1>1, <1>9 DEF TopKind, HasBlock, Top, LoopKinds
  <2>2. PICK i \in 1 .. Len(frames) : Body(frames[i]) /\ frames[i].base = Len(blocks)
    BY <1>2, <2>1, LoopFrame
  <2>3. frames[i].base <= frames[j].base
    BY <1>6, <2>2
  <2>4. frames[j].base \in 1 .. Len(blocks)
    BY <1>1, <1>5 DEF Nested, FramesOpen, BodyOpen
  <2>. QED  BY <1>1, <2>2, <2>3, <2>4
<1>. QED  BY <1>5, <1>6, <1>7, <1>8, <1>9

\* No other frame began with more blocks than the top one.
LEMMA TopBase ==
    ASSUME IInv, BasesNested, NEW j \in 1 .. Len(frames)
    PROVE  frames[j].base <= Top(frames).base /\ Top(frames) = frames[Len(frames)]
<1>1. DOMAIN frames = 1 .. Len(frames) /\ Len(frames) \in Nat /\ frames[j].base \in Nat
  BY NestTypes
<1>2. j = Len(frames) \/ j \in 1 .. Len(frames) - 1
  <2>1. Len(frames) \in Nat
    BY <1>1
  <2>. QED  BY <2>1, LastOr
<1>3. Len(frames) \in DOMAIN frames
  <2>1. Len(frames) \in Nat
    BY <1>1
  <2>2. Len(frames) \in 1 .. Len(frames)
    BY <2>1
  <2>. QED  BY <1>1, <2>2
<1>4. Top(frames) = frames[Len(frames)]
  BY DEF Top
<1>5. frames[j].base <= frames[Len(frames)].base
  <2>1. CASE j = Len(frames)
    BY <1>1, <2>1
  <2>2. CASE j \in 1 .. Len(frames) - 1
    BY <1>3, <2>2 DEF BasesNested
  <2>. QED  BY <1>2, <2>1, <2>2
<1>. QED  BY <1>4, <1>5

\* An #end closes a block that no frame began with.
LEMMA EndFacts ==
    ASSUME IInv, Nested, ClosesOwn, ~ragged', SkipEnd \/ (HandleEnd /\ TopKind # "none")
    PROVE  /\ HasBlock
           /\ \A j \in 1 .. Len(frames) : frames[j].base < Len(blocks)
<1>1. /\ pc = "line" /\ line.dir = "end" /\ skipDepth < 2 /\ ClosingRest
  BY DEF SkipEnd, HandleEnd, Skipping, Active
<1>2. frames # <<>> /\ Len(frames) \in 1 .. Len(frames) /\ Len(blocks) \in Nat
      /\ \A j \in 1 .. Len(frames) : frames[j].base \in Nat
      /\ Top(frames) = frames[Len(frames)]
  BY <1>1, NestTypes, EmptySeq DEF IInv, PcShape, Top
<1>3. Top(frames).base < Len(blocks)
  <2>1. CASE Top(frames).file
    <3>1. ~(Len(blocks) <= Top(frames).base)
      BY <1>1, <2>1 DEF ClosingRest
    <3>2. Top(frames).base \in Nat /\ Len(blocks) \in Nat
      BY <1>2
    <3>. QED  BY <3>1, <3>2
  <2>2. CASE ~Top(frames).file
    BY <1>1, <1>2, <2>2 DEF ClosesOwn
  <2>. QED  BY <2>1, <2>2
<1>4. \A j \in 1 .. Len(frames) : frames[j].base < Len(blocks)
  <2>1. \A j \in 1 .. Len(frames) : frames[j].base <= Top(frames).base
    BY TopBase DEF Nested
  <2>. QED  BY <1>2, <1>3, <2>1
<1>5. HasBlock
  <2>1. CASE SkipEnd
    BY <2>1 DEF SkipEnd, Skipping, Nested, SkipsOwn, Failing
  <2>2. CASE TopKind # "none"
    BY <2>2 DEF TopKind
  <2>. QED  BY <2>1, <2>2
<1>. QED  BY <1>4, <1>5

\* No #end read while nothing is skipped meets a loop or a function.
LEMMA EndKinds ==
    ASSUME IInv, Nested, ClosesOwn, ~ragged', HandleEnd, TopKind # "none"
    PROVE  TopKind = "if"
<1>1. pc = "line" /\ skipDepth = 0 /\ ~Looping /\ ~Failing
  BY DEF HandleEnd, Active, Looping, Failing, Evaluating
<1>2. HasBlock /\ \A j \in 1 .. Len(frames) : frames[j].base < Len(blocks)
  BY EndFacts
<1>3. /\ Len(blocks) \in BlockBase + 1 .. Len(blocks) /\ TopKind = blocks[Len(blocks)].kind
      /\ Len(blocks) \in DOMAIN blocks /\ Top(blocks) \in Blocks /\ Len(blocks) \in Nat
  BY <1>2, NestTypes, BaseFacts DEF HasBlock, TopKind, Top, IInv
<1>4. TopKind \notin LoopKinds
  <2>1. ASSUME TopKind \in LoopKinds
        PROVE  FALSE
    <3>1. PICK j \in 1 .. Len(frames) : frames[j].base = Len(blocks)
      BY <1>1, <1>3, <2>1, LoopFrame
    <3>. QED  BY <1>2, <1>3, <3>1
  <2>. QED  BY <2>1
<1>5. TopKind # "func"
  BY <1>1, <1>3 DEF Nested, CapturesTop, Collects
<1>6. TopKind \in BlockKinds
  BY <1>2, <1>3 DEF Blocks, TopKind
<1>. QED  BY <1>4, <1>5, <1>6 DEF BlockKinds, LoopKinds

-----------------------------------------------------------------------------
(* What a step does to the frames *)

Pushed(f) ==
    /\ frames' = Append(frames, f) /\ f \in Frames
    /\ f.base = Len(blocks) /\ (f.file => f.rest = <<>>)
    /\ Body(f) => pc = "enter"
    /\ pc \in {"line", "eval", "enter", "exhausted"}

\* A popped frame belongs to the running call, and is its last one only when
\* the call is cleaned up.
Popped ==
    /\ frames # <<>> /\ frames' = Under(frames) /\ Len(frames) > Caller
    /\ calls # <<>> /\ pc' # "cleanup" => Len(frames) > Caller + 1

FrameMove == frames' = frames \/ FetchLine \/ (\E f : Pushed(f)) \/ Popped

LEMMA PushedNew ==
    ASSUME IInv, NEW type \in {"FRAME_CALL", "FRAME_LOOP_BODY"}, NEW file \in BOOLEAN,
           NEW rest \in Seq(Line), file => rest = <<>>,
           type = "FRAME_LOOP_BODY" => pc = "enter",
           pc \in {"line", "eval", "enter", "exhausted"},
           frames' = Append(frames, NewFrame(type, file, rest))
    PROVE  Pushed(NewFrame(type, file, rest))
<1>1. Len(blocks) \in Nat
  BY NestTypes
<1>. QED  BY <1>1 DEF Pushed, NewFrame, Frames, FrameTypes, Body

LEMMA CondPops ==
    ASSUME IInv, CallsNested, InCond, frames' = Under(frames)
    PROVE  Popped
<1>1. Len(frames) > Caller + 1 /\ Len(frames) \in Nat /\ Caller \in Nat
      /\ frames \in Seq(Frames)
  BY NestTypes, CallerFacts DEF CallsNested
<1>2. frames # <<>>
  BY <1>1, EmptySeq
<1>. QED  BY <1>1, <1>2 DEF Popped

LEMMA FrameMoves ==
    ASSUME IInv, SkipInv, Nested, Next, ~ragged'
    PROVE  FrameMove
<1>1. /\ Len(frames) \in Nat /\ frames \in Seq(Frames) /\ Caller \in Nat
      /\ CallsNested /\ PcShape /\ TypeOK /\ <<>> \in Seq(Line)
  BY NestTypes, CallerFacts, EmptySeq DEF Nested, IInv
<1>2. ReportAndFail => FrameMove
  BY DEF ReportAndFail, FrameMove
<1>3. CASE Fetch
  <2>1. CASE FrameExhausted
    <3>1. frames # <<>> /\ frames' = Under(frames)
      BY <2>1 DEF FrameExhausted, PopFrame
    <3>2. Len(frames) > Caller /\ (calls # <<>> => Len(frames) > Caller + 1)
      <4>1. CASE calls = <<>>
        BY <1>1, <3>1, <4>1, EmptySeq DEF Caller
      <4>2. CASE calls # <<>>
        <5>1. ~(Len(frames) <= Top(calls).caller + 1)
          BY <2>1, <4>2 DEF FrameExhausted
        <5>2. ~(Len(frames) <= Caller + 1)
          BY <4>2, <5>1 DEF Caller
        <5>3. Len(frames) \in Nat /\ Caller \in Nat
          BY <1>1
        <5>. QED  BY <5>2, <5>3
      <4>. QED  BY <4>1, <4>2
    <3>. QED  BY <3>1, <3>2 DEF FrameMove, Popped
  <2>2. CASE ~FrameExhausted
    BY <1>3, <2>2 DEF Fetch, FetchPending, EndOfInput, UnterminatedBlock, PlainToken, FrameMove
  <2>. QED  BY <2>1, <2>2
<1>4. ASSUME NEW type \in {"FRAME_CALL", "FRAME_LOOP_BODY"}, NEW file \in BOOLEAN,
             NEW rest \in Seq(Line), file => rest = <<>>,
             type = "FRAME_LOOP_BODY" => pc = "enter",
             pc \in {"line", "eval", "enter", "exhausted"},
             frames' = Append(frames, NewFrame(type, file, rest))
      PROVE  FrameMove
  BY <1>4, PushedNew DEF FrameMove
<1>5. CASE Handle
  <2>1. CASE HandleWhile \/ HandleInclude
    <3>1. CASE ReportAndFail \/ frames' = frames
      BY <1>2, <3>1 DEF FrameMove
    <3>2. CASE ~(ReportAndFail \/ frames' = frames)
      <4>1. PICK file \in BOOLEAN : frames' = Append(frames, NewFrame("FRAME_CALL", file, <<>>))
        BY <2>1, <3>2 DEF HandleWhile, HandleInclude, PushCondFrame
      <4>2. pc = "line"
        BY <2>1 DEF HandleWhile, HandleInclude, Active
      <4>. QED  BY <1>1, <1>4, <4>1, <4>2
    <3>. QED  BY <3>1, <3>2
  <2>2. CASE ~HandleWhile /\ ~HandleInclude
    BY <1>5, <1>2, <2>2 DEF Handle, OpLimitExceeded, HandleOperand, HandleStrayReturn,
       HandleUnknown, HandleElse, HandleElif, HandleEnd, HandleFunc, HandleLeave, HandleEmit,
       HandleVar, HandleSet, FrameMove
  <2>. QED  BY <2>1, <2>2
<1>6. CASE Evaluate
  <2>1. CASE EvalCall
    <3>1. Lookup("f").body \in Seq(Line)
      BY <1>1, <2>1, VisibleBody DEF EvalCall, Names
    <3>2. pc = "eval" /\ frames' = Append(frames, NewFrame("FRAME_CALL", FALSE, Lookup("f").body))
      BY <2>1 DEF EvalCall
    <3>. QED  BY <1>4, <3>1, <3>2
  <2>2. CASE EvalFailed
    <3>1. CASE frames' = frames
      BY <3>1 DEF FrameMove
    <3>2. CASE frames' # frames
      <4>1. pc = "evalfail" /\ line.dir \in {"while", "again"} /\ frames' = Under(frames)
        BY <2>2, <3>2 DEF EvalFailed, PopFrame
      <4>. QED  BY <1>1, <4>1, CondPops DEF InCond, Evaluating, CondDirs, FrameMove
    <3>. QED  BY <3>1, <3>2
  <2>3. CASE DirectiveCond
    <3>1. CASE frames' = frames
      BY <3>1 DEF FrameMove
    <3>2. CASE frames' # frames
      <4>1. ValueOf({"while"}) /\ frames' = Under(frames)
        BY <2>3, <3>2 DEF DirectiveCond, IfBranch, WhileFirst, ForItems, PopFrame
      <4>. QED  BY <1>1, <4>1, CondPops DEF InCond, Evaluating, CondDirs, FrameMove, ValueOf
    <3>. QED  BY <3>1, <3>2
  <2>4. CASE ~EvalCall /\ ~EvalFailed /\ ~DirectiveCond
    BY <1>2, <1>6, <2>4 DEF Evaluate, EvalRejected, CondFrameGone, ReturnValue,
       DirectiveValue, ErrorDirective, ElifCond, FrameMove
  <2>. QED  BY <2>1, <2>2, <2>3, <2>4
<1>7. CASE Calls
  <2>1. CASE CleanupFrame
    <3>1. /\ frames # <<>> /\ frames' = Under(frames) /\ pc = "cleanup" /\ pc' = "cleanup"
          /\ (Top(calls).gone \/ Len(frames) # Top(calls).caller)
      BY <2>1 DEF CleanupFrame, AtCaller, PopFrame
    <3>2. calls # <<>> /\ Caller = Top(calls).caller /\ ~Top(calls).gone
      <4>1. calls # <<>>
        BY <1>1, <3>1 DEF PcShape
      <4>2. Len(calls) \in DOMAIN calls
        BY <4>1, NestTypes, CallerFacts DEF Nested
      <4>. QED  BY <1>1, <4>1, <4>2 DEF Caller, Top, CallsNested
    <3>3. Len(frames) > Caller
      <4>1. Len(frames) # Caller /\ Len(frames) >= Caller
        BY <1>1, <3>1, <3>2 DEF CallsNested
      <4>2. Len(frames) \in Nat /\ Caller \in Nat
        BY <1>1
      <4>. QED  BY <4>1, <4>2
    <3>. QED  BY <3>1, <3>3 DEF Popped, FrameMove
  <2>2. CASE ~CleanupFrame
    BY <1>7, <2>2 DEF Calls, CleanupBlock, FinishCall, HandlerFailed, FrameMove
  <2>. QED  BY <2>1, <2>2
<1>8. CASE Loops
  <2>1. CASE EnterLoopBody
    <3>1. CASE ReportAndFail
      BY <1>2, <3>1
    <3>2. CASE ~ReportAndFail
      <4>1. /\ pc = "enter"
            /\ frames' = Append(frames, NewFrame("FRAME_LOOP_BODY", FALSE, Top(blocks).body))
        BY <2>1, <3>2 DEF EnterLoopBody
      <4>2. Top(blocks).body \in Seq(Line)
        <5>1. HasBlock
          BY <1>1, <4>1 DEF PcShape, TopKind, LoopKinds
        <5>. QED  BY <5>1, TopFields DEF Blocks
      <4>. QED  BY <1>4, <4>1, <4>2
    <3>. QED  BY <3>1, <3>2
  <2>2. CASE LoopBodyExhausted
    <3>1. CASE frames' = frames
      BY <3>1 DEF FrameMove
    <3>2. CASE frames' # frames
      <4>1. pc = "exhausted" /\ frames' = Append(frames, NewFrame("FRAME_CALL", FALSE, <<>>))
        <5>1. TopKind \notin LoopKinds \/ TopKind = "for" \/ TopKind = "while"
          BY DEF LoopKinds
        <5>2. CASE TopKind \notin LoopKinds
          BY <2>2, <3>2, <5>2 DEF LoopBodyExhausted, AssertFails, LoopKinds
        <5>3. CASE TopKind = "for"
          BY <2>2, <3>2, <5>3 DEF LoopBodyExhausted, LoopKinds
        <5>4. CASE TopKind = "while"
          BY <2>2, <5>4 DEF LoopBodyExhausted, PushCondFrame, LoopKinds
        <5>. QED  BY <5>1, <5>2, <5>3, <5>4
      <4>. QED  BY <1>1, <1>4, <4>1
    <3>. QED  BY <3>1, <3>2
  <2>3. CASE WhileAgain
    <3>1. ValueOf({"again"}) /\ frames' = Under(frames)
      BY <2>3 DEF WhileAgain, PopFrame
    <3>. QED  BY <1>1, <3>1, CondPops DEF InCond, Evaluating, CondDirs, FrameMove, ValueOf
  <2>4. CASE LeaveIfBlock
    BY <2>4 DEF LeaveIfBlock, AssertFails, FrameMove
  <2>5. CASE LeaveFrame
    <3>1. pc = "leave"
      BY <2>5 DEF LeaveFrame
    <3>2. PICK j \in 1 .. Len(frames) : calls # <<>> => j > Caller + 1
      BY <3>1, LeaveFacts
    <3>3. frames # <<>>
      BY <1>1, <3>2, EmptySeq
    <3>4. frames' = Under(frames)
      BY <2>5, <3>3 DEF LeaveFrame, PopFrame
    <3>5. calls = <<>> => Caller = 0
      BY DEF Caller
    <3>6. Len(frames) > Caller /\ (calls # <<>> => Len(frames) > Caller + 1)
      <4>1. Len(frames) \in Nat /\ Caller \in Nat
        BY <1>1
      <4>. QED  BY <3>2, <3>5, <4>1
    <3>. QED  BY <3>3, <3>4, <3>6 DEF FrameMove, Popped
  <2>. QED  BY <1>8, <2>1, <2>2, <2>3, <2>4, <2>5 DEF Loops
<1>9. CASE Skip
  BY <1>9 DEF Skip, SkipFails, SkipLine, SkipOpen, SkipUnknown, SkipInner, SkipElse, SkipElif,
     SkipInnerEnd, SkipEnd, FrameMove
<1>10. CASE Ended
  BY <1>10 DEF Ended, vars, FrameMove
<1>. QED  BY <1>3, <1>5, <1>6, <1>7, <1>8, <1>9, <1>10 DEF Next

\* What FrameMove says of the frames one by one.
Stays ==
    /\ Len(frames') = Len(frames)
    /\ \A j \in 1 .. Len(frames) :
          /\ frames'[j].type = frames[j].type /\ frames'[j].base = frames[j].base
          /\ frames'[j].file = frames[j].file
          /\ frames[j].file \/ j < Len(frames) => frames'[j] = frames[j]
    /\ frames' = frames \/ FetchLine

Grows(f) ==
    /\ Pushed(f) /\ Len(frames') = Len(frames) + 1
    /\ frames'[Len(frames) + 1] = f
    /\ \A j \in 1 .. Len(frames) : frames'[j] = frames[j]

Shrinks ==
    /\ Popped /\ Len(frames') = Len(frames) - 1
    /\ \A j \in 1 .. Len(frames) - 1 : frames'[j] = frames[j]

LEMMA FrameMoved ==
    ASSUME IInv, FrameMove
    PROVE  /\ Stays \/ (\E f : Grows(f)) \/ Shrinks
           /\ DOMAIN frames' = 1 .. Len(frames')
<1>1. frames \in Seq(Frames) /\ Len(frames) \in Nat
  BY NestTypes
<1>2. CASE frames' = frames
  <2>1. DOMAIN frames' = 1 .. Len(frames')
    BY <1>1, <1>2, LenProperties
  <2>. QED  BY <1>2, <2>1 DEF Stays
<1>3. CASE FetchLine /\ frames' # frames
  <2>1. /\ ~Top(frames).file /\ frames # <<>>
        /\ frames' = [frames EXCEPT ![Len(frames)].rest = Tail(@)]
    BY <1>3 DEF FetchLine
  <2>2. DOMAIN frames = 1 .. Len(frames) /\ \A j \in 1 .. Len(frames) : frames[j] \in Frames
    BY <1>1, LenProperties, ElementOfSeq
  <2>3. Len(frames) \in 1 .. Len(frames)
    BY <1>1, <2>1, EmptySeq
  <2>. DEFINE new == [frames[Len(frames)] EXCEPT !.rest = Tail(@)]
  <2>4. frames' = [frames EXCEPT ![Len(frames)] = new]
    BY <2>1
  <2>5. new.type = frames[Len(frames)].type /\ new.base = frames[Len(frames)].base
        /\ new.file = frames[Len(frames)].file
    BY <2>2, <2>3 DEF Frames
  <2>6. frames[Len(frames)].rest \in Seq(Line) /\ frames[Len(frames)].rest # <<>>
    BY <1>3, <2>1, <2>2, <2>3 DEF FetchLine, Frames, Top
  <2>7. new \in Frames
    BY <2>2, <2>3, <2>6, HeadTailProperties DEF Frames
  <2>. HIDE DEF new
  <2>8. frames' \in Seq(Frames) /\ Len(frames') = Len(frames)
    BY <1>1, <2>3, <2>4, <2>7, ExceptSeq
  <2>9. DOMAIN frames' = 1 .. Len(frames')
    BY <2>8, LenProperties
  <2>10. ASSUME NEW j \in 1 .. Len(frames)
         PROVE  /\ frames'[j].type = frames[j].type /\ frames'[j].base = frames[j].base
                /\ frames'[j].file = frames[j].file
                /\ frames[j].file \/ j < Len(frames) => frames'[j] = frames[j]
    <3>1. CASE j = Len(frames)
      <4>1. frames'[j] = new /\ ~frames[j].file
        BY <2>1, <2>2, <2>3, <2>4, <3>1 DEF Top
      <4>. QED  BY <1>1, <2>5, <3>1, <4>1
    <3>2. CASE j # Len(frames)
      BY <2>2, <2>4, <3>2
    <3>. QED  BY <3>1, <3>2
  <2>. QED  BY <1>3, <2>8, <2>9, <2>10 DEF Stays
<1>4. ASSUME NEW f, Pushed(f)
      PROVE  Grows(f) /\ DOMAIN frames' = 1 .. Len(frames')
  <2>1. frames' = Append(frames, f) /\ f \in Frames
    BY <1>4 DEF Pushed
  <2>2. /\ frames' \in Seq(Frames) /\ Len(frames') = Len(frames) + 1
        /\ frames'[Len(frames) + 1] = f
        /\ \A j \in 1 .. Len(frames) : frames'[j] = frames[j]
    BY <1>1, <2>1, AppendProperties
  <2>. QED  BY <1>4, <2>2, LenProperties DEF Grows
<1>5. CASE Popped
  <2>1. frames # <<>> /\ frames' = Under(frames)
    BY <1>5 DEF Popped
  <2>2. Len(frames) > 0
    BY <1>1, <2>1, EmptySeq
  <2>3. /\ frames' \in Seq(Frames) /\ Len(frames') = Len(frames) - 1
        /\ \A j \in 1 .. Len(frames) - 1 : frames'[j] = frames[j]
    BY <1>1, <2>1, <2>2, UnderType
  <2>. QED  BY <1>5, <2>3, LenProperties DEF Shrinks
<1>. QED  BY <1>2, <1>3, <1>4, <1>5 DEF FrameMove

LEMMA MovedOnce ==
    ASSUME IInv, FrameMove, frames # <<>>, frames' = Under(frames)
    PROVE  Popped
<1>1. Len(frames) \in Nat /\ frames \in Seq(Frames)
  BY NestTypes
<1>2. Len(frames') = Len(frames) - 1
  <2>1. Len(frames) > 0
    BY <1>1, EmptySeq
  <2>. QED  BY <1>1, <2>1, UnderType
<1>3. CASE Stays
  BY <1>1, <1>2, <1>3 DEF Stays
<1>4. ASSUME NEW f, Grows(f)
      PROVE  FALSE
  BY <1>1, <1>2, <1>4 DEF Grows
<1>5. CASE Shrinks
  BY <1>5 DEF Shrinks
<1>. QED  BY <1>3, <1>4, <1>5, FrameMoved

-----------------------------------------------------------------------------
(* What a step does to the calls *)

\* Calls under way, and what they have saved; no frame they return to is gone.
CallBones ==
    /\ Len(calls') = Len(calls) /\ DOMAIN calls' = 1 .. Len(calls)
    /\ \A c \in 1 .. Len(calls) :
          /\ calls'[c].line = calls[c].line /\ calls'[c].base = calls[c].base
          /\ calls'[c].skip = calls[c].skip /\ calls'[c].caller = calls[c].caller
          /\ ~calls'[c].gone
    /\ (calls' = <<>> <=> calls = <<>>)
    /\ BlockBase' = BlockBase /\ Caller' = Caller

LEMMA CallsStay ==
    ASSUME IInv, Nested, FrameMove, Steady \/ ReturnValue
    PROVE  CallBones
<1>1. /\ DOMAIN calls = 1 .. Len(calls) /\ Len(calls) \in Nat /\ calls \in Seq(CallFrames)
      /\ \A c \in 1 .. Len(calls) : calls[c].caller \in Nat
      /\ Len(frames) \in Nat
  BY NestTypes
<1>2. CallsNested
  BY DEF Nested
<1>3. ASSUME calls' \in Seq(CallFrames), Len(calls') = Len(calls),
             \A c \in 1 .. Len(calls) :
                /\ calls'[c].line = calls[c].line /\ calls'[c].base = calls[c].base
                /\ calls'[c].skip = calls[c].skip /\ calls'[c].caller = calls[c].caller
                /\ ~calls'[c].gone
      PROVE  CallBones
  <2>1. DOMAIN calls' = 1 .. Len(calls)
    BY <1>3, LenProperties
  <2>2. calls' = <<>> <=> calls = <<>>
    BY <1>1, <1>3, EmptySeq
  <2>3. calls # <<>> => Len(calls) \in 1 .. Len(calls)
    BY <1>1, EmptySeq
  <2>4. BlockBase' = BlockBase /\ Caller' = Caller
    BY <1>3, <2>2, <2>3 DEF BlockBase, Caller, Top
  <2>. QED  BY <1>3, <2>1, <2>2, <2>4 DEF CallBones
<1>4. CASE Steady
  <2>1. ASSUME NEW c \in 1 .. Len(calls), calls'[c].gone
        PROVE  FALSE
    <3>1. ~calls[c].gone
      BY <1>1, <1>2 DEF CallsNested
    <3>2. frames # <<>> /\ frames' = Under(frames) /\ calls[c].caller >= Len(frames)
      BY <1>4, <2>1, <3>1 DEF Steady
    <3>3. Len(frames) > Caller
      BY <3>2, MovedOnce DEF Popped
    <3>4. calls[c].caller <= Caller /\ Caller \in Nat
      BY <1>2, CallerFacts
    <3>5. calls[c].caller \in Nat /\ Len(frames) \in Nat
      BY <1>1
    <3>. QED  BY <3>2, <3>3, <3>4, <3>5
  <2>. QED  BY <1>3, <1>4, <2>1 DEF Steady
<1>5. CASE ReturnValue
  <2>1. calls' = [calls EXCEPT ![Len(calls)].returned = TRUE] /\ calls # <<>>
    BY <1>5 DEF ReturnValue, ValueOf, IInv, PcShape, Evaluating
  <2>. DEFINE new == [calls[Len(calls)] EXCEPT !.returned = TRUE]
  <2>2. calls' = [calls EXCEPT ![Len(calls)] = new] /\ Len(calls) \in 1 .. Len(calls)
    BY <1>1, <2>1, EmptySeq
  <2>3. \A c \in 1 .. Len(calls) : calls[c] \in CallFrames
    BY <1>1, ElementOfSeq
  <2>4. /\ new \in CallFrames /\ new.line = calls[Len(calls)].line
        /\ new.base = calls[Len(calls)].base /\ new.skip = calls[Len(calls)].skip
        /\ new.caller = calls[Len(calls)].caller /\ new.gone = calls[Len(calls)].gone
    BY <2>2, <2>3 DEF CallFrames
  <2>. HIDE DEF new
  <2>5. calls' \in Seq(CallFrames) /\ Len(calls') = Len(calls)
    BY <1>1, <2>2, <2>4, ExceptSeq
  <2>6. \A c \in 1 .. Len(calls) : ~calls[c].gone
    BY <1>1, <1>2 DEF CallsNested
  <2>7. ASSUME NEW c \in 1 .. Len(calls)
        PROVE  /\ calls'[c].line = calls[c].line /\ calls'[c].base = calls[c].base
               /\ calls'[c].skip = calls[c].skip /\ calls'[c].caller = calls[c].caller
               /\ ~calls'[c].gone
    <3>1. CASE c = Len(calls)
      BY <1>1, <2>2, <2>4, <2>6, <3>1
    <3>2. CASE c # Len(calls)
      BY <1>1, <2>2, <2>6, <3>2
    <3>. QED  BY <3>1, <3>2
  <2>. QED  BY <1>3, <2>5, <2>7
<1>. QED  BY <1>4, <1>5

\* The condition of a loop starts in the frame pushed for it; it goes on, once
\* started, where it is.
StartsCond == /\ HandleWhile \/ LoopBodyExhausted
              /\ frames' = Append(frames, NewFrame("FRAME_CALL", FALSE, <<>>))
              /\ blocks' = blocks

LEMMA CondSteps ==
    ASSUME Next, ~EvalCall, ~FinishCall, InCond'
    PROVE  \/ StartsCond
           \/ /\ EvalRejected /\ InCond
              /\ UNCHANGED <<frames, blocks, line, skipDepth, skipCapture>>
<1>1. pc' \in Evaluating /\ line'.dir \in CondDirs
  BY DEF InCond
<1>2. ~Fetch
  BY <1>1 DEF Fetch, FetchPending, FetchLine, FrameExhausted, EndOfInput, UnterminatedBlock,
     PlainToken, YieldToken, Evaluating
<1>3. CASE Handle
  <2>1. CASE HandleOperand \/ HandleStrayReturn \/ HandleUnknown \/ OpLimitExceeded
    BY <1>1, <2>1 DEF HandleOperand, HandleStrayReturn, HandleUnknown, OpLimitExceeded,
       ReportAndFail, Fail, Active, BeginEval, Evaluating, CondDirs
  <2>2. CASE HandleElse \/ HandleElif \/ HandleEnd \/ HandleFunc \/ HandleLeave \/ HandleInclude
    BY <1>1, <2>2 DEF HandleElse, HandleElif, HandleEnd, HandleFunc, HandleLeave, HandleInclude,
       ReportAndFail, Fail, Evaluating
  <2>3. CASE HandleEmit \/ HandleVar \/ HandleSet
    BY <1>1, <2>3 DEF HandleEmit, HandleVar, HandleSet, ReportAndFail, Fail, Active, BeginEval,
       Evaluating, CondDirs
  <2>4. CASE HandleWhile
    BY <1>1, <2>4 DEF HandleWhile, PushCondFrame, ReportAndFail, Fail, Evaluating, StartsCond
  <2>. QED  BY <1>3, <2>1, <2>2, <2>3, <2>4 DEF Handle
<1>4. CASE Evaluate
  <2>1. CASE EvalRejected
    BY <1>1, <2>1 DEF EvalRejected, InCond, Evaluating
  <2>2. ~EvalFailed /\ ~CondFrameGone /\ ~ReturnValue
    BY <1>1 DEF EvalFailed, CondFrameGone, ReturnValue, Fail, Evaluating
  <2>3. ~DirectiveCond /\ ~DirectiveValue /\ ~ErrorDirective /\ ~ElifCond
    BY <1>1 DEF DirectiveCond, DirectiveValue, ErrorDirective, ElifCond, IfBranch, WhileFirst,
       ForItems, BeginLoop, ReportAndFail, Fail, Evaluating
  <2>. QED  BY <1>4, <2>1, <2>2, <2>3 DEF Evaluate
<1>5. ~CleanupBlock /\ ~CleanupFrame /\ ~HandlerFailed
  BY <1>1 DEF CleanupBlock, CleanupFrame, HandlerFailed, Evaluating
<1>6. CASE Loops
  <2>1. CASE LoopBodyExhausted
    <3>1. TopKind \notin LoopKinds \/ TopKind = "for" \/ TopKind = "while"
      BY DEF LoopKinds
    <3>2. TopKind \in LoopKinds
      BY <1>1, <2>1 DEF LoopBodyExhausted, AssertFails, Evaluating, LoopKinds
    <3>3. TopKind # "for"
      BY <1>1, <2>1 DEF LoopBodyExhausted, Evaluating, LoopKinds
    <3>4. TopKind = "while"
      BY <3>1, <3>2, <3>3
    <3>. QED  BY <2>1, <3>4 DEF LoopBodyExhausted, PushCondFrame, StartsCond, LoopKinds
  <2>2. ~EnterLoopBody /\ ~WhileAgain /\ ~LeaveIfBlock /\ ~LeaveFrame
    BY <1>1 DEF EnterLoopBody, WhileAgain, LeaveIfBlock, LeaveFrame, AssertFails,
       ReportAndFail, Fail, Evaluating
  <2>. QED  BY <1>6, <2>1, <2>2 DEF Loops
<1>7. ~Skip
  BY <1>1 DEF Skip, SkipFails, SkipLine, SkipOpen, SkipUnknown, SkipInner, SkipElse, SkipElif,
     SkipInnerEnd, SkipEnd, Skipping, Fail, FinishPendingFunc, FinishLoop, Evaluating, CondDirs
<1>8. ~Ended
  BY <1>1 DEF Ended, vars, Final, Evaluating
<1>. QED  BY <1>2, <1>3, <1>4, <1>5, <1>6, <1>7, <1>8 DEF Next, Calls

-----------------------------------------------------------------------------
(* Frames and calls stay nested *)

\* A step that neither calls nor returns from a function.
Local ==
    /\ IInv /\ SkipInv /\ BodyInv /\ Nested /\ ClosesOwn /\ Next /\ ~ragged'
    /\ ~EvalCall /\ ~FinishCall

LEMMA LocalFacts ==
    ASSUME Local
    PROVE  /\ FrameMove /\ CallBones
           /\ pc = "cleanup" => pc' = "cleanup"
           /\ pc' = "cleanup" /\ pc # "cleanup" => frames' = frames
           /\ calls # <<>> /\ pc # "cleanup" => Len(frames) > Caller
<1>1. FrameMove
  BY FrameMoves DEF Local
<1>2. CallBones
  <2>1. Steady \/ ReturnValue
    BY CallMove DEF Local
  <2>. QED  BY <1>1, <2>1, CallsStay DEF Local
<1>3. pc = "cleanup" => CleanupBlock \/ CleanupFrame
  BY DEF Local, Next, Fetch, Handle, Evaluate, Calls, Loops, Skip, FetchPending, FetchLine,
     FrameExhausted, EndOfInput, UnterminatedBlock, PlainToken, OpLimitExceeded, HandleOperand,
     HandleStrayReturn, HandleUnknown, HandleElse, HandleElif, HandleEnd, HandleFunc, HandleWhile,
     HandleLeave, HandleInclude, HandleEmit, HandleVar, HandleSet, Active, EvalRejected,
     EvalFailed, CondFrameGone, ReturnValue, DirectiveCond, DirectiveValue, ErrorDirective,
     ElifCond, ValueOf, HandlerFailed, EnterLoopBody, LoopBodyExhausted, WhileAgain,
     LeaveIfBlock, LeaveFrame, SkipFails, SkipLine, SkipOpen, SkipUnknown, SkipInner, SkipElse,
     SkipElif, SkipInnerEnd, SkipEnd, Skipping, Ended, Final
<1>4. pc = "cleanup" => pc' = "cleanup"
  BY <1>3 DEF CleanupBlock, CleanupFrame
<1>5. calls # <<>> /\ pc # "cleanup" => Len(frames) > Caller
  BY DEF Local, Nested, CallsNested
<1>6. ASSUME pc' = "cleanup", pc # "cleanup"
      PROVE  frames' = frames
  <2>1. FetchPending \/ PlainToken \/ EndOfInput \/ UnterminatedBlock \/ ReturnValue \/ HandlerFailed
    BY <1>6 DEF Local, Next, Fetch, Handle, Evaluate, Calls, Loops, Skip, FetchLine,
     FrameExhausted, OpLimitExceeded, HandleOperand, ReportAndFail, Fail, BeginEval,
     HandleStrayReturn, HandleUnknown, HandleElse, HandleElif, HandleEnd, HandleFunc, HandleWhile,
     HandleLeave, HandleInclude, HandleEmit, HandleVar, HandleSet, Active, EvalRejected,
     EvalFailed, CondFrameGone, DirectiveCond, DirectiveValue, ErrorDirective, IfBranch,
     WhileFirst, ForItems, BeginLoop, CleanupBlock, CleanupFrame,
     ElifCond, ValueOf, EnterLoopBody, LoopBodyExhausted, WhileAgain, AssertFails, LoopKinds,
     LeaveIfBlock, LeaveFrame, SkipFails, SkipLine, SkipOpen, SkipUnknown, SkipInner, SkipElse,
     SkipElif, SkipInnerEnd, SkipEnd, FinishPendingFunc, FinishLoop, Skipping, Ended, Final, vars
  <2>. QED  BY <2>1 DEF FetchPending, PlainToken, EndOfInput, UnterminatedBlock, ReturnValue,
       HandlerFailed
<1>. QED  BY <1>1, <1>2, <1>4, <1>5, <1>6

LEMMA CallsNestedLocal ==
    ASSUME Local
    PROVE  CallsNested'
<1>1. /\ IInv /\ CallsNested /\ Next /\ ~EvalCall /\ ~FinishCall /\ PcShape
      /\ DOMAIN calls = 1 .. Len(calls) /\ Len(calls) \in Nat
      /\ Len(frames) \in Nat /\ Caller \in Nat /\ frames \in Seq(Frames)
  BY NestTypes, CallerFacts DEF Local, Nested, IInv
<1>2. CallBones /\ FrameMove
  BY LocalFacts
<1>3. \A c \in DOMAIN calls' :
         /\ ~calls'[c].gone
         /\ calls'[c].caller > Own(calls'[c].line)
         /\ \A d \in 1 .. c - 1 : calls'[c].caller > calls'[d].caller + Own(calls'[c].line)
         /\ calls'[c].line.dir = "again" => calls'[c].skip = 0
  <2>1. \A c \in 1 .. Len(calls) : \A d \in 1 .. c - 1 : d \in 1 .. Len(calls)
    BY <1>1
  <2>. QED  BY <1>1, <1>2, <2>1 DEF CallBones, CallsNested
<1>4. /\ Len(frames') >= Caller
      /\ calls # <<>> /\ pc' # "cleanup" => Len(frames') > Caller
      /\ InCond' => Len(frames') > Caller + 1
  <2>1. CASE Stays
    <3>1. Len(frames') = Len(frames)
      BY <2>1 DEF Stays
    <3>2. InCond' => InCond
      <4>1. ~StartsCond
        <5>1. StartsCond => Len(frames') = Len(frames) + 1
          <6>1. NewFrame("FRAME_CALL", FALSE, <<>>) \in Frames
            BY NestTypes, EmptySeq, <1>1 DEF NewFrame, Frames, FrameTypes
          <6>. QED  BY <1>1, <6>1, AppendProperties DEF StartsCond
        <5>. QED  BY <1>1, <3>1, <5>1
      <4>. QED  BY <1>1, <4>1, CondSteps
    <3>3. Len(frames) >= Caller /\ (InCond => Len(frames) > Caller + 1)
      BY <1>1 DEF CallsNested
    <3>4. calls # <<>> /\ pc' # "cleanup" => Len(frames) > Caller
      BY LocalFacts
    <3>. QED  BY <3>1, <3>2, <3>3, <3>4
  <2>2. CASE \E f : Grows(f)
    <3>1. /\ Len(frames') = Len(frames) + 1
          /\ pc \in {"line", "eval", "enter", "exhausted"}
      BY <2>2 DEF Grows, Pushed
    <3>2. Len(frames) > Caller
      <4>1. calls # <<>> => Len(frames) > Caller
        BY <3>1, LocalFacts
      <4>2. frames # <<>>
        BY <1>1, <3>1 DEF PcShape
      <4>3. calls = <<>> => Caller = 0
        BY DEF Caller
      <4>. QED  BY <1>1, <4>1, <4>2, <4>3, EmptySeq
    <3>3. Len(frames) + 1 > Caller + 1
      BY <1>1, <3>2
    <3>. QED  BY <1>1, <3>1, <3>2, <3>3
  <2>3. CASE Shrinks
    <3>1. /\ Len(frames') = Len(frames) - 1 /\ Len(frames) > Caller
          /\ calls # <<>> /\ pc' # "cleanup" => Len(frames) > Caller + 1
      BY <2>3 DEF Shrinks, Popped
    <3>2. ~InCond'
      <4>1. NewFrame("FRAME_CALL", FALSE, <<>>) \in Frames
        BY NestTypes, EmptySeq, <1>1 DEF NewFrame, Frames, FrameTypes
      <4>2. StartsCond => Len(frames') = Len(frames) + 1
        BY <1>1, <4>1, AppendProperties DEF StartsCond
      <4>3. frames' # frames
        BY <1>1, <3>1
      <4>. QED  BY <1>1, <3>1, <4>2, <4>3, CondSteps
    <3>. QED  BY <1>1, <3>1, <3>2
  <2>. QED  BY <1>1, <1>2, <2>1, <2>2, <2>3, FrameMoved
<1>. QED  BY <1>2, <1>3, <1>4 DEF CallsNested, CallBones

\* Every frame began with no more blocks than there are, unless its blocks are
\* being dropped.
LEMMA BasesOpen ==
    ASSUME IInv, Nested, pc \in {"line", "eval", "enter", "exhausted"}, NEW j \in 1 .. Len(frames)
    PROVE  /\ frames[j].base <= Len(blocks)
           /\ pc = "enter" => frames[j].base < Len(blocks)
<1>1. DOMAIN frames = 1 .. Len(frames)
  BY NestTypes
<1>2. frames[j].base <= Len(blocks)
  BY <1>1 DEF Nested, FramesOpen
<1>3. pc = "enter" => frames[j].base < Len(blocks)
  BY <1>1 DEF Nested, SkipsOwn, Looping, InCond, Evaluating
<1>. QED  BY <1>2, <1>3

LEMMA BasesNestedGrow ==
    ASSUME IInv, Nested, NEW f, Grows(f)
    PROVE  BasesNested'
<1>1. /\ DOMAIN frames = 1 .. Len(frames) /\ Len(frames) \in Nat /\ Pushed(f)
      /\ Len(frames') = Len(frames) + 1 /\ frames'[Len(frames) + 1] = f
      /\ \A j \in 1 .. Len(frames) : frames'[j] = frames[j]
      /\ DOMAIN frames' = 1 .. Len(frames')
  BY NestTypes, FrameMoved DEF Grows, FrameMove
<1>2. ASSUME NEW j \in 1 .. Len(frames) + 1
      PROVE  /\ frames'[j].file => frames'[j].rest = <<>>
             /\ \A i \in 1 .. j - 1 : /\ frames'[i].base <= frames'[j].base
                                      /\ Body(frames'[j]) => frames'[i].base < frames'[j].base
  <2>1. CASE j \in 1 .. Len(frames)
    <3>1. \A i \in 1 .. j - 1 : i \in 1 .. Len(frames)
      BY <1>1, <2>1
    <3>. QED  BY <1>1, <2>1, <3>1 DEF Nested, BasesNested
  <2>2. CASE j = Len(frames) + 1
    <3>1. frames'[j] = f /\ \A i \in 1 .. j - 1 : i \in 1 .. Len(frames) /\ frames'[i] = frames[i]
      BY <1>1, <2>2
    <3>2. /\ f.base = Len(blocks) /\ (f.file => f.rest = <<>>) /\ (Body(f) => pc = "enter")
          /\ pc \in {"line", "eval", "enter", "exhausted"}
      BY <1>1 DEF Pushed
    <3>. QED  BY <3>1, <3>2, BasesOpen
  <2>. QED  BY <1>1, <2>1, <2>2
<1>. QED  BY <1>1, <1>2 DEF BasesNested

LEMMA BasesNestedLocal ==
    ASSUME Local
    PROVE  BasesNested'
<1>1. /\ IInv /\ Nested /\ BasesNested /\ DOMAIN frames = 1 .. Len(frames) /\ Len(frames) \in Nat
      /\ FrameMove /\ DOMAIN frames' = 1 .. Len(frames')
  BY NestTypes, LocalFacts, FrameMoved DEF Local, Nested
<1>2. CASE Stays
  <2>1. \A j \in 1 .. Len(frames) : \A i \in 1 .. j - 1 : i \in 1 .. Len(frames)
    BY <1>1
  <2>. QED  BY <1>1, <1>2, <2>1 DEF Stays, BasesNested, Body
<1>3. CASE \E f : Grows(f)
  BY <1>1, <1>3, BasesNestedGrow
<1>4. CASE Shrinks
  <2>1. /\ Len(frames') = Len(frames) - 1
        /\ \A j \in 1 .. Len(frames) - 1 : frames'[j] = frames[j]
    BY <1>4 DEF Shrinks
  <2>2. \A j \in 1 .. Len(frames) - 1 : j \in 1 .. Len(frames)
           /\ \A i \in 1 .. j - 1 : i \in 1 .. Len(frames) - 1
    BY <1>1
  <2>. QED  BY <1>1, <2>1, <2>2 DEF BasesNested
<1>. QED  BY <1>1, <1>2, <1>3, <1>4, FrameMoved

LEMMA CallBasesLocal ==
    ASSUME Local
    PROVE  CallBases'
<1>1. /\ IInv /\ Nested /\ CallBases /\ DOMAIN frames = 1 .. Len(frames) /\ Len(frames) \in Nat
      /\ DOMAIN calls = 1 .. Len(calls) /\ Len(calls) \in Nat
      /\ \A c \in 1 .. Len(calls) : calls[c].caller \in Nat
      /\ FrameMove /\ CallBones /\ DOMAIN frames' = 1 .. Len(frames') /\ CallsNested
  BY NestTypes, LocalFacts, FrameMoved DEF Local, Nested
<1>2. \A c \in 1 .. Len(calls) : calls[c].caller <= Caller /\ Caller \in Nat /\ calls # <<>>
  BY <1>1, CallerFacts, EmptySeq
<1>3. CASE Stays
  <2>1. ASSUME NEW c \in 1 .. Len(calls), NEW j \in 1 .. Len(frames), j = calls[c].caller
        PROVE  frames'[j] = frames[j]
    <3>1. CASE frames' = frames
      BY <3>1
    <3>2. CASE FetchLine
      <4>1. Len(frames) > Caller
        BY <1>2, <3>2, LocalFacts DEF FetchLine
      <4>2. j < Len(frames)
        BY <1>1, <1>2, <2>1, <4>1
      <4>. QED  BY <1>3, <4>2 DEF Stays
    <3>. QED  BY <1>3, <3>1, <3>2 DEF Stays
  <2>2. Len(frames') = Len(frames)
        /\ \A j \in 1 .. Len(frames) :
              frames'[j].type = frames[j].type /\ frames'[j].base = frames[j].base
    BY <1>3 DEF Stays
  <2>3. /\ DOMAIN calls' = 1 .. Len(calls)
        /\ \A c \in 1 .. Len(calls) :
             /\ calls'[c].line = calls[c].line /\ calls'[c].base = calls[c].base
             /\ calls'[c].caller = calls[c].caller
    BY <1>1 DEF CallBones
  <2>. QED  BY <1>1, <2>1, <2>2, <2>3 DEF CallBases, Body
<1>4. ASSUME NEW n \in Nat, n <= Len(frames), Len(frames') = n \/ (Len(frames') = n + 1 /\ n = Len(frames) /\ pc # "cleanup"),
             \A j \in 1 .. n : frames'[j] = frames[j]
      PROVE  CallBases'
  <2>1. /\ DOMAIN calls' = 1 .. Len(calls)
        /\ \A c \in 1 .. Len(calls) :
             /\ calls'[c].line = calls[c].line /\ calls'[c].base = calls[c].base
             /\ calls'[c].caller = calls[c].caller
    BY <1>1 DEF CallBones
  <2>2. ASSUME NEW c \in 1 .. Len(calls), NEW j \in 1 .. Len(frames')
        PROVE  (j \in 1 .. Len(frames) /\ frames'[j] = frames[j]) \/ j > calls[c].caller + 1
    <3>. n \in Nat /\ n <= Len(frames) /\ Len(frames) \in Nat
         /\ (Len(frames') = n \/ (Len(frames') = n + 1 /\ n = Len(frames) /\ pc # "cleanup"))
      BY <1>1, <1>4
    <3>0. j \in Nat /\ j >= 1 /\ j <= Len(frames')
      OBVIOUS
    <3>1. CASE j <= n
      <4>1. j \in 1 .. n /\ j \in 1 .. Len(frames)
        BY <3>0, <3>1
      <4>. QED  BY <1>4, <4>1
    <3>2. CASE ~(j <= n)
      <4>1. j = Len(frames) + 1 /\ pc # "cleanup"
        BY <3>0, <3>2
      <4>2. Len(frames) > Caller
        BY <1>2, <4>1, LocalFacts
      <4>3. calls[c].caller \in Nat /\ calls[c].caller <= Caller /\ Caller \in Nat
        BY <1>1, <1>2
      <4>. QED  BY <3>0, <4>1, <4>2, <4>3
    <3>. QED  BY <3>1, <3>2
  <2>3. ASSUME NEW c \in 1 .. Len(calls), NEW j \in 1 .. Len(frames')
        PROVE  /\ j <= calls[c].caller => frames'[j].base <= calls[c].base
               /\ j = calls[c].caller + 1 => frames'[j].base = calls[c].base /\ ~Body(frames'[j])
               /\ calls[c].line.dir \in CondDirs /\ j = calls[c].caller =>
                    frames'[j].base = calls[c].base /\ ~Body(frames'[j]) /\ frames'[j].rest = <<>>
               /\ calls[c].line.dir = "again" /\ j < calls[c].caller =>
                    frames'[j].base < calls[c].base
    <3>1. CASE j \in 1 .. Len(frames) /\ frames'[j] = frames[j]
      BY <1>1, <3>1 DEF CallBases
    <3>2. CASE j > calls[c].caller + 1
      <4>1. ~(j <= calls[c].caller) /\ j # calls[c].caller + 1 /\ j # calls[c].caller /\ ~(j < calls[c].caller)
        <5>1. j \in Nat /\ calls[c].caller \in Nat
          BY <1>1
        <5>. QED  BY <3>2, <5>1
      <4>. QED  BY <4>1
    <3>. QED  BY <2>2, <3>1, <3>2
  <2>. QED  BY <1>1, <2>1, <2>3 DEF CallBases
<1>5. CASE \E f : Grows(f)
  <2>1. /\ Len(frames') = Len(frames) + 1 /\ pc # "cleanup"
        /\ \A j \in 1 .. Len(frames) : frames'[j] = frames[j]
    BY <1>5 DEF Grows, Pushed
  <2>2. Len(frames) <= Len(frames)
    BY <1>1
  <2>. QED  BY <1>1, <1>4, <2>1, <2>2
<1>6. CASE Shrinks
  <2>1. /\ Len(frames') = Len(frames) - 1 /\ Len(frames) > Caller
        /\ \A j \in 1 .. Len(frames) - 1 : frames'[j] = frames[j]
    BY <1>6 DEF Shrinks, Popped
  <2>2. Caller \in Nat
    BY <1>1, CallerFacts
  <2>3. Len(frames) - 1 \in Nat /\ Len(frames) - 1 <= Len(frames)
    BY <1>1, <2>1, <2>2
  <2>. QED  BY <1>4, <2>1, <2>3
<1>. QED  BY <1>1, <1>3, <1>5, <1>6, FrameMoved

-----------------------------------------------------------------------------
(* Frames, loops and captures share the open blocks *)

OpenBlocks == FramesOpen /\ SkipsOwn /\ LoopsRun /\ CapturesTop

\* The blocks of a step that changes neither their number nor their kinds.
Bones ==
    /\ blocks' \in Seq(Blocks) /\ Len(blocks') = Len(blocks)
    /\ \A k \in 1 .. Len(blocks) : /\ blocks'[k].kind = blocks[k].kind
                                   /\ blocks'[k].capturing = blocks[k].capturing

LEMMA BonesTop ==
    ASSUME IInv, CallBones, Bones
    PROVE  /\ DOMAIN blocks' = 1 .. Len(blocks) /\ Len(blocks') = Len(blocks)
           /\ HasBlock' <=> HasBlock
           /\ TopKind' = TopKind
           /\ HasBlock => /\ Top(blocks').capturing = Top(blocks).capturing
                          /\ Top(blocks').kind = Top(blocks).kind
           /\ \A k \in 1 .. Len(blocks) : Collects(blocks'[k]) <=> Collects(blocks[k])
           /\ \A j \in DOMAIN frames, i \in DOMAIN frames' :
                 frames'[i].type = frames[j].type /\ frames'[i].base = frames[j].base /\ BodyOpen(frames[j])
                    => BodyOpen(frames[i])'
<1>1. /\ Len(blocks) \in Nat /\ Len(blocks') = Len(blocks) /\ BlockBase \in Nat
      /\ BlockBase' = BlockBase
      /\ \A k \in 1 .. Len(blocks) : /\ blocks'[k].kind = blocks[k].kind
                                     /\ blocks'[k].capturing = blocks[k].capturing
  BY NestTypes DEF Bones, CallBones
<1>2. DOMAIN blocks' = 1 .. Len(blocks)
  BY <1>1, LenProperties DEF Bones
<1>3. HasBlock' <=> HasBlock
  BY <1>1 DEF HasBlock
<1>4. HasBlock => Len(blocks) \in 1 .. Len(blocks)
  BY <1>1 DEF HasBlock
<1>5. HasBlock => /\ Top(blocks').capturing = Top(blocks).capturing
                  /\ Top(blocks').kind = Top(blocks).kind
  BY <1>1, <1>4 DEF Top
<1>6. TopKind' = TopKind
  BY <1>3, <1>5 DEF TopKind
<1>7. \A k \in 1 .. Len(blocks) : Collects(blocks'[k]) <=> Collects(blocks[k])
  BY <1>1 DEF Collects
<1>8. \A j \in DOMAIN frames, i \in DOMAIN frames' :
         frames'[i].type = frames[j].type /\ frames'[i].base = frames[j].base /\ BodyOpen(frames[j])
            => BodyOpen(frames[i])'
  BY <1>1 DEF BodyOpen, Body
<1>. QED  BY <1>1, <1>2, <1>3, <1>5, <1>6, <1>7, <1>8

LEMMA CapturesLoops ==
    ASSUME IInv, BodyInv, TopKind = "if"
    PROVE  HasBlock /\ Len(blocks) \in DOMAIN blocks /\ blocks[Len(blocks)].kind = "if"
           /\ Top(blocks) = blocks[Len(blocks)] /\ ~Collects(Top(blocks))
<1>1. HasBlock
  BY DEF TopKind
<1>2. /\ Len(blocks) \in DOMAIN blocks /\ Top(blocks).kind = "if"
      /\ Top(blocks) = blocks[Len(blocks)]
  BY <1>1, TopFields
<1>3. ~Top(blocks).capturing
  BY <1>2 DEF BodyInv, BlocksReplayable, Replayable, LoopKinds
<1>. QED  BY <1>1, <1>2, <1>3 DEF Collects

\* A step that moves neither frames nor blocks.
QuietMove ==
    /\ Stays /\ Bones /\ pc \notin {"cleanup", "leave"}
    /\ skipCapture' = skipCapture
    /\ InCond' => InCond /\ frames' = frames
    /\ Looping' => Looping /\ skipDepth' = skipDepth /\ (InCond => InCond')
    /\ Failing => Failing'
    /\ Looping => Looping' \/ Failing'
    /\ skipDepth > 0 => skipDepth' > 0 \/ Failing' \/ TopKind = "if"
    /\ skipDepth' > 0 => (skipDepth > 0 /\ ~Failing) \/ Failing' \/ TopKind = "if"

LEMMA QuietMoved ==
    ASSUME IInv, BodyInv, Nested, CallBones, QuietMove
    PROVE  OpenBlocks'
<1>1. /\ DOMAIN frames = 1 .. Len(frames) /\ DOMAIN blocks = 1 .. Len(blocks)
      /\ Len(blocks) \in Nat /\ skipDepth \in Nat /\ BlockBase \in Nat
      /\ DOMAIN frames' = 1 .. Len(frames) /\ DOMAIN calls = 1 .. Len(calls)
      /\ \A j \in 1 .. Len(frames) : frames[j].base \in Nat
  <2>1. Stays => FrameMove
    BY DEF Stays, FrameMove
  <2>. QED  BY <2>1, NestTypes, FrameMoved DEF QuietMove, Stays
<1>2. /\ Len(frames') = Len(frames)
      /\ \A j \in 1 .. Len(frames) :
            frames'[j].type = frames[j].type /\ frames'[j].base = frames[j].base
  BY DEF QuietMove, Stays
<1>3. /\ DOMAIN blocks' = 1 .. Len(blocks) /\ Len(blocks') = Len(blocks)
      /\ HasBlock' <=> HasBlock
      /\ TopKind' = TopKind
      /\ HasBlock => /\ Top(blocks').capturing = Top(blocks).capturing
                     /\ Top(blocks').kind = Top(blocks).kind
      /\ \A k \in 1 .. Len(blocks) : Collects(blocks'[k]) <=> Collects(blocks[k])
      /\ \A j \in 1 .. Len(frames) : BodyOpen(frames[j]) => BodyOpen(frames[j])'
  BY <1>1, <1>2, BonesTop DEF QuietMove
<1>4. \A j \in 1 .. Len(frames) : frames[j].base <= Len(blocks) /\ BodyOpen(frames[j])
  BY <1>1 DEF QuietMove, Nested, FramesOpen
<1>5. FramesOpen'
  <2>1. \A j \in 1 .. Len(frames) : frames'[j].base <= Len(blocks') /\ BodyOpen(frames[j])'
    BY <1>2, <1>3, <1>4
  <2>2. InCond' => /\ Top(frames').base = Len(blocks') /\ ~Body(Top(frames'))
                   /\ Top(frames').rest = <<>>
    BY <1>3 DEF QuietMove, Nested, FramesOpen
  <2>. QED  BY <1>1, <2>1, <2>2 DEF FramesOpen, BodyOpen
<1>6. TopKind = "if" => HasBlock /\ \A j \in 1 .. Len(frames) : Body(frames[j]) => frames[j].base < Len(blocks)
  <2>1. ASSUME TopKind = "if", NEW j \in 1 .. Len(frames), Body(frames[j])
        PROVE  frames[j].base < Len(blocks)
    <3>1. frames[j].base \in 1 .. Len(blocks) /\ blocks[frames[j].base].kind \in LoopKinds
      BY <1>4, <2>1 DEF BodyOpen
    <3>2. blocks[Len(blocks)].kind \notin LoopKinds
      BY <2>1, CapturesLoops DEF LoopKinds
    <3>. QED  BY <1>1, <3>1, <3>2
  <2>. QED  BY <2>1, CapturesLoops
<1>7. SkipsOwn'
  <2>1. ASSUME skipDepth' > 0, ~Failing'
        PROVE  HasBlock /\ \A j \in 1 .. Len(frames) : Body(frames[j]) => frames[j].base < Len(blocks)
    <3>1. CASE TopKind = "if"
      BY <1>6, <3>1
    <3>2. CASE skipDepth > 0 /\ ~Failing
      BY <1>1, <3>2 DEF Nested, SkipsOwn
    <3>. QED  BY <2>1, <3>1, <3>2 DEF QuietMove
  <2>2. Looping' => /\ skipDepth' = 0 /\ TopKind' \in LoopKinds /\ ~Top(blocks').capturing
                    /\ \A j \in 1 .. Len(frames) :
                          (InCond' => j < Len(frames)) => frames[j].base < Len(blocks)
    <3>1. Looping' => Looping /\ skipDepth' = skipDepth /\ (InCond => InCond')
      BY DEF QuietMove
    <3>2. Looping => HasBlock
      BY DEF Nested, SkipsOwn, TopKind, LoopKinds
    <3>. QED  BY <1>1, <1>3, <3>1, <3>2 DEF Nested, SkipsOwn
  <2>. QED  BY <1>1, <1>2, <1>3, <2>1, <2>2 DEF SkipsOwn, Body
<1>8. LoopsRun'
  <2>1. ASSUME NEW k \in 1 .. Len(blocks), blocks'[k].kind \in LoopKinds, ~blocks'[k].capturing
        PROVE  \/ \E j \in 1 .. Len(frames) : Body(frames[j]) /\ frames[j].base = k
               \/ k = Len(blocks) /\ HasBlock /\ (skipDepth' > 0 \/ Looping' \/ Failing')
               \/ \E c \in DOMAIN calls : calls[c].base = k /\ calls[c].line.dir = "again"
    <3>1. blocks[k].kind \in LoopKinds /\ ~blocks[k].capturing
      BY <2>1 DEF QuietMove, Bones
    <3>2. \/ \E j \in 1 .. Len(frames) : Body(frames[j]) /\ frames[j].base = k
          \/ k = Len(blocks) /\ HasBlock /\ (skipDepth > 0 \/ Looping \/ Failing)
          \/ \E c \in DOMAIN calls : calls[c].base = k /\ calls[c].line.dir = "again"
      BY <1>1, <3>1 DEF Nested, LoopsRun
    <3>3. k = Len(blocks) => TopKind # "if"
      BY <3>1, CapturesLoops DEF LoopKinds
    <3>. QED  BY <3>2, <3>3 DEF QuietMove
  <2>2. \A k \in 1 .. Len(blocks) : \A j \in 1 .. Len(frames) :
           Body(frames[j]) /\ frames[j].base = k => Body(frames'[j]) /\ frames'[j].base = k
    BY <1>2 DEF Body
  <2>3. \A k \in 1 .. Len(blocks) : \A c \in DOMAIN calls :
           /\ calls[c].base = k /\ calls[c].line.dir = "again"
           => c \in DOMAIN calls' /\ calls'[c].base = k /\ calls'[c].line.dir = "again"
    BY <1>1 DEF CallBones
  <2>4. \A k \in 1 .. Len(blocks) : blocks'[k].kind \in LoopKinds /\ ~blocks'[k].capturing =>
           \/ \E j \in DOMAIN frames' : Body(frames'[j]) /\ frames'[j].base = k
           \/ k = Len(blocks') /\ HasBlock' /\ (skipDepth' > 0 \/ Looping' \/ Failing')
           \/ \E c \in DOMAIN calls' : calls'[c].base = k /\ calls'[c].line.dir = "again"
    BY <1>1, <1>3, <2>1, <2>2, <2>3, ZenonT(60)
  <2>. QED  BY <1>3, <2>4 DEF LoopsRun
<1>9. CapturesTop'
  <2>1. skipCapture => HasBlock /\ Collects(Top(blocks))
    BY DEF Nested, CapturesTop
  <2>2. skipCapture' /\ ~Failing' => skipDepth' > 0
    <3>1. skipCapture => TopKind # "if"
      BY <2>1, CapturesLoops
    <3>. QED  BY <3>1 DEF QuietMove, Nested, CapturesTop
  <2>3. skipCapture' => HasBlock' /\ Collects(Top(blocks'))
    BY <1>3, <2>1 DEF QuietMove, Collects
  <2>4. \A k \in 1 .. Len(blocks) : Collects(blocks'[k]) => k = Len(blocks) /\ HasBlock /\ skipCapture'
    BY <1>1, <1>3 DEF QuietMove, Nested, CapturesTop
  <2>. QED  BY <1>3, <2>2, <2>3, <2>4 DEF CapturesTop, Collects
<1>. QED  BY <1>5, <1>7, <1>8, <1>9 DEF OpenBlocks

\* Loops that keep what runs them.
LEMMA LoopsKept ==
    ASSUME IInv, LoopsRun, CallBones, NEW n \in 0 .. Len(blocks),
           \A k \in 1 .. n : /\ blocks'[k].kind = blocks[k].kind
                             /\ blocks'[k].capturing = blocks[k].capturing,
           NEW k \in 1 .. n, blocks'[k].kind \in LoopKinds, ~blocks'[k].capturing,
           \A j \in DOMAIN frames : Body(frames[j]) /\ frames[j].base = k =>
              \E i \in DOMAIN frames' : Body(frames'[i]) /\ frames'[i].base = k
    PROVE  \/ \E j \in DOMAIN frames' : Body(frames'[j]) /\ frames'[j].base = k
           \/ k = Len(blocks) /\ HasBlock /\ (skipDepth > 0 \/ Looping \/ Failing)
           \/ \E c \in DOMAIN calls' : calls'[c].base = k /\ calls'[c].line.dir = "again"
<1>1. /\ DOMAIN calls = 1 .. Len(calls) /\ DOMAIN blocks = 1 .. Len(blocks) /\ Len(blocks) \in Nat
  BY NestTypes
<1>2. k \in DOMAIN blocks /\ blocks[k].kind \in LoopKinds /\ ~blocks[k].capturing
  BY <1>1
<1>3. \/ \E j \in DOMAIN frames : Body(frames[j]) /\ frames[j].base = k
      \/ k = Len(blocks) /\ HasBlock /\ (skipDepth > 0 \/ Looping \/ Failing)
      \/ \E c \in DOMAIN calls : calls[c].base = k /\ calls[c].line.dir = "again"
  BY <1>2 DEF LoopsRun
<1>4. \A c \in DOMAIN calls : calls[c].base = k /\ calls[c].line.dir = "again" =>
         c \in DOMAIN calls' /\ calls'[c].base = k /\ calls'[c].line.dir = "again"
  BY <1>1 DEF CallBones
<1>. QED  BY <1>3, <1>4

\* A frame is pushed: for a file, for the condition of a loop, or for its body.
GrowMove(f) ==
    /\ Grows(f) /\ Bones /\ pc \in {"line", "enter", "exhausted"} /\ pc' \in {"run", "eval"}
    /\ skipCapture' = skipCapture /\ skipDepth = 0 /\ skipDepth' = 0
    /\ Body(f) => Looping
    /\ Looping => Body(f) \/ Looping'
    /\ Looping' => Looping
    /\ pc' = "eval" => InCond' /\ ~Body(f) /\ f.rest = <<>>

LEMMA GrowMoved ==
    ASSUME IInv, Nested, CallBones, NEW f, GrowMove(f)
    PROVE  OpenBlocks'
<1>1. /\ DOMAIN frames = 1 .. Len(frames) /\ DOMAIN blocks = 1 .. Len(blocks) /\ Len(frames) \in Nat
      /\ Len(blocks) \in Nat /\ BlockBase \in Nat
      /\ DOMAIN frames' = 1 .. Len(frames) + 1 /\ DOMAIN calls = 1 .. Len(calls)
      /\ \A j \in 1 .. Len(frames) : frames[j].base \in Nat
      /\ Len(frames') = Len(frames) + 1
  <2>1. FrameMove
    BY DEF GrowMove, Grows, FrameMove
  <2>. QED  BY <2>1, NestTypes, FrameMoved DEF GrowMove, Grows
<1>2. /\ frames'[Len(frames) + 1] = f /\ f.base = Len(blocks) /\ f \in Frames
      /\ \A j \in 1 .. Len(frames) : frames'[j] = frames[j]
      /\ Top(frames') = f
  BY <1>1 DEF GrowMove, Grows, Pushed, Top
<1>3. /\ DOMAIN blocks' = 1 .. Len(blocks) /\ Len(blocks') = Len(blocks)
      /\ HasBlock' <=> HasBlock
      /\ TopKind' = TopKind
      /\ HasBlock => /\ Top(blocks').capturing = Top(blocks).capturing
                     /\ Top(blocks').kind = Top(blocks).kind
      /\ \A k \in 1 .. Len(blocks) : Collects(blocks'[k]) <=> Collects(blocks[k])
  BY BonesTop DEF GrowMove
<1>4. /\ ~Failing /\ ~Failing' /\ ~InCond /\ pc \notin {"cleanup", "leave"}
      /\ pc' \notin {"cleanup", "leave"} /\ (pc' = "eval" <=> InCond')
  BY DEF GrowMove, Failing, InCond, Evaluating
<1>5. Looping => /\ HasBlock /\ Top(blocks).kind \in LoopKinds /\ ~Top(blocks).capturing
                 /\ TopKind \in LoopKinds /\ Top(blocks) = blocks[Len(blocks)]
                 /\ Len(blocks) \in 1 .. Len(blocks)
                 /\ \A j \in 1 .. Len(frames) : frames[j].base < Len(blocks)
  <2>1. Looping => HasBlock
    BY DEF Nested, SkipsOwn, TopKind, LoopKinds
  <2>. QED  BY <1>1, <1>4, <2>1, TopFields DEF Nested, SkipsOwn
<1>6. FramesOpen'
  <2>1. ASSUME NEW j \in 1 .. Len(frames) + 1
        PROVE  /\ frames'[j].base <= Len(blocks)
               /\ Body(frames'[j]) => /\ frames'[j].base \in 1 .. Len(blocks)
                                      /\ blocks'[frames'[j].base].kind \in LoopKinds
                                      /\ ~blocks'[frames'[j].base].capturing
    <3>1. CASE j \in 1 .. Len(frames)
      <4>1. frames'[j] = frames[j] /\ frames[j].base <= Len(blocks) /\ BodyOpen(frames[j])
        BY <1>1, <1>2, <1>4, <3>1 DEF Nested, FramesOpen
      <4>. QED  BY <4>1 DEF BodyOpen, GrowMove, Bones
    <3>2. CASE j = Len(frames) + 1
      <4>1. frames'[j] = f /\ f.base = Len(blocks) /\ f.base <= Len(blocks)
        BY <1>1, <1>2, <3>2
      <4>. QED  BY <1>5, <4>1 DEF GrowMove, Bones
    <3>. QED  BY <1>1, <3>1, <3>2
  <2>2. InCond' => Top(frames').base = Len(blocks') /\ ~Body(Top(frames')) /\ Top(frames').rest = <<>>
    BY <1>2, <1>3, <1>4 DEF GrowMove
  <2>. QED  BY <1>1, <1>3, <2>1, <2>2 DEF FramesOpen, BodyOpen
<1>7. SkipsOwn'
  <2>1. skipDepth' = 0
    BY DEF GrowMove
  <2>2. Looping' => pc' = "eval"
    BY DEF GrowMove, Looping, Evaluating
  <2>3. Looping' => /\ TopKind' \in LoopKinds /\ ~Top(blocks').capturing
                    /\ \A j \in 1 .. Len(frames) + 1 :
                          (InCond' => j < Len(frames')) => frames'[j].base < Len(blocks')
    <3>1. ASSUME Looping', NEW j \in 1 .. Len(frames) + 1, InCond' => j < Len(frames')
          PROVE  j \in 1 .. Len(frames)
      BY <1>1, <1>4, <2>2, <3>1
    <3>2. Looping' => Looping
      BY DEF GrowMove
    <3>. QED  BY <1>2, <1>3, <1>5, <3>1, <3>2
  <2>. QED  BY <1>1, <2>1, <2>3 DEF SkipsOwn
<1>8. LoopsRun'
  <2>1. \A k \in 1 .. Len(blocks) : \A j \in DOMAIN frames : Body(frames[j]) /\ frames[j].base = k =>
           \E i \in DOMAIN frames' : Body(frames'[i]) /\ frames'[i].base = k
    <3>1. \A j \in DOMAIN frames : j \in DOMAIN frames' /\ frames'[j] = frames[j]
      BY <1>1, <1>2
    <3>. QED  BY <3>1
  <2>2. ASSUME NEW k \in 1 .. Len(blocks), blocks'[k].kind \in LoopKinds, ~blocks'[k].capturing
        PROVE  \/ \E j \in DOMAIN frames' : Body(frames'[j]) /\ frames'[j].base = k
               \/ k = Len(blocks) /\ HasBlock /\ (skipDepth > 0 \/ Looping \/ Failing)
               \/ \E c \in DOMAIN calls' : calls'[c].base = k /\ calls'[c].line.dir = "again"
    <3>1. /\ Len(blocks) \in 0 .. Len(blocks)
          /\ \A i \in 1 .. Len(blocks) : /\ blocks'[i].kind = blocks[i].kind
                                        /\ blocks'[i].capturing = blocks[i].capturing
      BY <1>1 DEF GrowMove, Bones
    <3>2. LoopsRun
      BY DEF Nested
    <3>. QED  BY <2>1, <2>2, <3>1, <3>2, LoopsKept
  <2>3. Len(frames) + 1 \in DOMAIN frames'
    BY <1>1
  <2>4. ASSUME NEW k \in 1 .. Len(blocks), k = Len(blocks), skipDepth > 0 \/ Looping \/ Failing
        PROVE  \/ \E j \in DOMAIN frames' : Body(frames'[j]) /\ frames'[j].base = k
               \/ Looping'
    BY <1>2, <1>4, <2>3, <2>4 DEF GrowMove
  <2>. QED  BY <1>3, <2>2, <2>4 DEF LoopsRun
<1>9. CapturesTop'
  <2>1. ~skipCapture /\ ~skipCapture'
    BY <1>4 DEF GrowMove, Nested, CapturesTop
  <2>2. \A k \in 1 .. Len(blocks) : ~Collects(blocks[k])
    BY <1>1, <2>1 DEF Nested, CapturesTop
  <2>. QED  BY <1>3, <2>1, <2>2 DEF CapturesTop
<1>. QED  BY <1>6, <1>7, <1>8, <1>9 DEF OpenBlocks

\* A block is pushed, after the frame of its condition has been popped.
PushMove(b) ==
    /\ b \in Blocks /\ blocks' = Append(blocks, b) /\ pc' = "run"
    /\ skipDepth = 0 /\ ~Looping /\ ~Failing /\ pc # "leave"
    /\ frames' = frames \/ (Shrinks /\ InCond)
    /\ b.kind \in LoopKinds \/ Collects(b) => skipDepth' > 0
    /\ skipCapture' = (skipCapture \/ Collects(b))

LEMMA PushMoved ==
    ASSUME IInv, Nested, CallBones, NEW b, PushMove(b)
    PROVE  OpenBlocks'
<1>1. /\ DOMAIN frames = 1 .. Len(frames) /\ DOMAIN blocks = 1 .. Len(blocks) /\ Len(frames) \in Nat
      /\ Len(blocks) \in Nat /\ BlockBase \in Nat /\ BlockBase <= Len(blocks)
      /\ DOMAIN calls = 1 .. Len(calls) /\ \A j \in 1 .. Len(frames) : frames[j].base \in Nat
  BY NestTypes
<1>2. /\ Len(blocks') = Len(blocks) + 1 /\ blocks'[Len(blocks) + 1] = b
      /\ \A k \in 1 .. Len(blocks) : blocks'[k] = blocks[k]
      /\ blocks' \in Seq(Blocks)
  BY PushBelow DEF PushMove, BlocksBelow
<1>3. DOMAIN blocks' = 1 .. Len(blocks) + 1 /\ Top(blocks') = b
  BY <1>2, LenProperties DEF Top
<1>4. HasBlock'
  BY <1>1, <1>2 DEF HasBlock, CallBones
<1>5. \A j \in DOMAIN frames' : j \in DOMAIN frames /\ frames'[j] = frames[j]
  <2>1. CASE frames' = frames
    BY <2>1
  <2>2. CASE Shrinks
    <3>1. DOMAIN frames' = 1 .. Len(frames')
      BY <2>2, FrameMoved DEF FrameMove, Shrinks
    <3>2. \A j \in 1 .. Len(frames) - 1 : j \in 1 .. Len(frames)
      BY <1>1
    <3>. QED  BY <1>1, <2>2, <3>1, <3>2 DEF Shrinks
  <2>. QED  BY <2>1, <2>2 DEF PushMove
<1>6. pc \notin {"cleanup", "leave"} /\ ~Failing' /\ ~Looping' /\ ~InCond'
  BY DEF PushMove, Failing, Looping, InCond, Evaluating
<1>7. \A j \in DOMAIN frames : frames[j].base <= Len(blocks) /\ BodyOpen(frames[j])
  BY <1>1, <1>6 DEF Nested, FramesOpen
<1>8. FramesOpen'
  <2>1. \A j \in DOMAIN frames' :
           /\ frames'[j].base <= Len(blocks')
           /\ Body(frames'[j]) => /\ frames'[j].base \in 1 .. Len(blocks')
                                  /\ blocks'[frames'[j].base].kind \in LoopKinds
                                  /\ ~blocks'[frames'[j].base].capturing
    BY <1>1, <1>2, <1>5, <1>7 DEF BodyOpen
  <2>. QED  BY <1>6, <2>1 DEF FramesOpen, BodyOpen
<1>9. SkipsOwn'
  <2>1. \A j \in DOMAIN frames' : frames'[j].base < Len(blocks')
    BY <1>1, <1>2, <1>5, <1>7
  <2>. QED  BY <1>4, <1>6, <2>1 DEF SkipsOwn
<1>10. LoopsRun'
  <2>1. ASSUME NEW k \in 1 .. Len(blocks), NEW j \in DOMAIN frames, Body(frames[j]), frames[j].base = k
        PROVE  \E i \in DOMAIN frames' : Body(frames'[i]) /\ frames'[i].base = k
    <3>1. CASE frames' = frames
      BY <2>1, <3>1
    <3>2. CASE Shrinks /\ InCond
      <4>1. ~Body(frames[Len(frames)])
        BY <3>2 DEF Nested, FramesOpen, Top
      <4>2. j # Len(frames) /\ j \in 1 .. Len(frames)
        BY <1>1, <2>1, <4>1
      <4>3. j \in 1 .. Len(frames) - 1
        BY <1>1, <4>2
      <4>4. DOMAIN frames' = 1 .. Len(frames) - 1
        BY <3>2, FrameMoved DEF FrameMove, Shrinks
      <4>. QED  BY <2>1, <3>2, <4>3, <4>4 DEF Shrinks
    <3>. QED  BY <3>1, <3>2 DEF PushMove
  <2>2. ASSUME NEW k \in 1 .. Len(blocks), blocks'[k].kind \in LoopKinds, ~blocks'[k].capturing
        PROVE  \/ \E j \in DOMAIN frames' : Body(frames'[j]) /\ frames'[j].base = k
               \/ k = Len(blocks) /\ HasBlock /\ (skipDepth > 0 \/ Looping \/ Failing)
               \/ \E c \in DOMAIN calls' : calls'[c].base = k /\ calls'[c].line.dir = "again"
    <3>1. Len(blocks) \in 0 .. Len(blocks)
      BY <1>1
    <3>. QED  BY <1>2, <2>1, <2>2, <3>1, LoopsKept DEF Nested
  <2>3. ~(skipDepth > 0 \/ Looping \/ Failing)
    BY DEF PushMove
  <2>4. ASSUME NEW k \in 1 .. Len(blocks) + 1, blocks'[k].kind \in LoopKinds, ~blocks'[k].capturing
        PROVE  \/ \E j \in DOMAIN frames' : Body(frames'[j]) /\ frames'[j].base = k
               \/ k = Len(blocks') /\ HasBlock' /\ skipDepth' > 0
               \/ \E c \in DOMAIN calls' : calls'[c].base = k /\ calls'[c].line.dir = "again"
    <3>1. CASE k \in 1 .. Len(blocks)
      BY <2>2, <2>3, <2>4, <3>1
    <3>2. CASE k = Len(blocks) + 1
      BY <1>2, <1>4, <2>4, <3>2 DEF PushMove
    <3>. QED  BY <1>1, <3>1, <3>2
  <2>. QED  BY <1>3, <2>4 DEF LoopsRun
<1>11. CapturesTop'
  <2>1. ~skipCapture
    BY DEF PushMove, Nested, CapturesTop
  <2>2. \A k \in 1 .. Len(blocks) : ~Collects(blocks[k])
    BY <1>1, <2>1 DEF Nested, CapturesTop
  <2>3. skipCapture' <=> Collects(b)
    BY <2>1 DEF PushMove, Collects
  <2>4. \A k \in 1 .. Len(blocks) + 1 : Collects(blocks'[k]) => k = Len(blocks) + 1 /\ skipCapture'
    <3>1. \A k \in 1 .. Len(blocks) + 1 : k \in 1 .. Len(blocks) \/ k = Len(blocks) + 1
      BY <1>1
    <3>. QED  BY <1>2, <2>2, <2>3, <3>1
  <2>5. skipCapture' => skipDepth' > 0
    BY <2>3 DEF PushMove
  <2>. QED  BY <1>2, <1>3, <1>4, <2>3, <2>4, <2>5 DEF CapturesTop
<1>. QED  BY <1>8, <1>9, <1>10, <1>11 DEF OpenBlocks

\* The top block is closed, no frame having begun with it; the frame of its
\* condition or of its body goes with it.
CloseMove ==
    /\ HasBlock /\ blocks' = Under(blocks) /\ pc' = "run" /\ skipDepth' = 0 /\ ~skipCapture'
    /\ frames' = frames \/ (Shrinks /\ (Body(Top(frames)) => Top(frames).base = Len(blocks)))
    /\ pc # "cleanup"
    /\ \A j \in DOMAIN frames' : frames[j].base < Len(blocks)

LEMMA CloseMoved ==
    ASSUME IInv, Nested, CallBones, CloseMove
    PROVE  OpenBlocks'
<1>1. /\ DOMAIN frames = 1 .. Len(frames) /\ DOMAIN blocks = 1 .. Len(blocks) /\ Len(frames) \in Nat
      /\ Len(blocks) \in Nat /\ BlockBase \in Nat /\ BlockBase < Len(blocks)
      /\ DOMAIN calls = 1 .. Len(calls) /\ \A j \in 1 .. Len(frames) : frames[j].base \in Nat
  BY NestTypes DEF CloseMove, HasBlock
<1>2. /\ Len(blocks') = Len(blocks) - 1 /\ blocks' \in Seq(Blocks)
      /\ \A k \in 1 .. Len(blocks) - 1 : blocks'[k] = blocks[k]
  BY PopBelow DEF CloseMove, BlocksBelow
<1>3. DOMAIN blocks' = 1 .. Len(blocks) - 1
  BY <1>2, LenProperties
<1>5. \A j \in DOMAIN frames' : j \in DOMAIN frames /\ frames'[j] = frames[j]
  <2>1. CASE frames' = frames
    BY <2>1
  <2>2. CASE Shrinks
    <3>1. DOMAIN frames' = 1 .. Len(frames')
      BY <2>2, FrameMoved DEF FrameMove, Shrinks
    <3>2. \A j \in 1 .. Len(frames) - 1 : j \in 1 .. Len(frames)
      BY <1>1
    <3>. QED  BY <1>1, <2>2, <3>1, <3>2 DEF Shrinks
  <2>. QED  BY <2>1, <2>2 DEF CloseMove
<1>6. ~Failing' /\ ~Looping' /\ ~InCond' /\ skipDepth' = 0 /\ ~skipCapture'
  BY DEF CloseMove, Failing, Looping, InCond, Evaluating
<1>7. FramesOpen'
  <2>1. ASSUME NEW j \in DOMAIN frames'
        PROVE  /\ frames'[j].base <= Len(blocks')
               /\ Body(frames'[j]) => /\ frames'[j].base \in 1 .. Len(blocks')
                                      /\ blocks'[frames'[j].base].kind \in LoopKinds
                                      /\ ~blocks'[frames'[j].base].capturing
    <3>1. j \in DOMAIN frames /\ frames'[j] = frames[j] /\ frames[j].base < Len(blocks)
      BY <1>5 DEF CloseMove
    <3>2. BodyOpen(frames[j])
      BY <3>1 DEF Nested, FramesOpen, CloseMove
    <3>3. frames[j].base <= Len(blocks) - 1
      BY <1>1, <3>1, BelowTop
    <3>4. Body(frames[j]) => /\ frames[j].base \in 1 .. Len(blocks) - 1
                             /\ blocks[frames[j].base].kind \in LoopKinds
                             /\ ~blocks[frames[j].base].capturing
      BY <1>1, <3>1, <3>2, BelowTop DEF BodyOpen
    <3>. QED  BY <1>2, <3>1, <3>3, <3>4
  <2>. QED  BY <1>6, <2>1 DEF FramesOpen, BodyOpen
<1>8. SkipsOwn'
  BY <1>6 DEF SkipsOwn
<1>9. LoopsRun'
  <2>1. ASSUME NEW k \in 1 .. Len(blocks) - 1, NEW j \in DOMAIN frames, Body(frames[j]), frames[j].base = k
        PROVE  \E i \in DOMAIN frames' : Body(frames'[i]) /\ frames'[i].base = k
    <3>1. CASE frames' = frames
      BY <2>1, <3>1
    <3>2. CASE Shrinks /\ (Body(Top(frames)) => Top(frames).base = Len(blocks))
      <4>1. Body(frames[Len(frames)]) => frames[Len(frames)].base = Len(blocks)
        BY <3>2 DEF Top
      <4>2. j # Len(frames) /\ j \in 1 .. Len(frames)
        BY <1>1, <2>1, <4>1
      <4>3. j \in 1 .. Len(frames) - 1
        BY <1>1, <4>2
      <4>4. DOMAIN frames' = 1 .. Len(frames) - 1
        BY <3>2, FrameMoved DEF FrameMove, Shrinks
      <4>. QED  BY <2>1, <3>2, <4>3, <4>4 DEF Shrinks
    <3>. QED  BY <3>1, <3>2 DEF CloseMove
  <2>2. ASSUME NEW k \in 1 .. Len(blocks) - 1, blocks'[k].kind \in LoopKinds, ~blocks'[k].capturing
        PROVE  \/ \E j \in DOMAIN frames' : Body(frames'[j]) /\ frames'[j].base = k
               \/ k = Len(blocks) /\ HasBlock /\ (skipDepth > 0 \/ Looping \/ Failing)
               \/ \E c \in DOMAIN calls' : calls'[c].base = k /\ calls'[c].line.dir = "again"
    <3>1. Len(blocks) - 1 \in 0 .. Len(blocks)
      BY <1>1
    <3>. QED  BY <1>2, <2>1, <2>2, <3>1, LoopsKept DEF Nested
  <2>3. \A k \in 1 .. Len(blocks) - 1 : k # Len(blocks)
    BY <1>1, BelowTop
  <2>. QED  BY <1>3, <2>2, <2>3 DEF LoopsRun
<1>10. CapturesTop'
  <2>1. \A k \in 1 .. Len(blocks) - 1 : k # Len(blocks) /\ k \in 1 .. Len(blocks)
    BY <1>1, BelowTop
  <2>2. \A k \in 1 .. Len(blocks) - 1 : ~Collects(blocks'[k])
    BY <1>1, <1>2, <2>1 DEF Nested, CapturesTop
  <2>. QED  BY <1>3, <1>6, <2>2 DEF CapturesTop
<1>. QED  BY <1>7, <1>8, <1>9, <1>10 DEF OpenBlocks

LEMMA ShrinkFacts ==
    ASSUME IInv, Shrinks
    PROVE  /\ Len(frames) \in Nat /\ Len(frames) \in DOMAIN frames
           /\ DOMAIN frames = 1 .. Len(frames) /\ DOMAIN frames' = 1 .. Len(frames) - 1
           /\ \A j \in DOMAIN frames' : j \in DOMAIN frames /\ j < Len(frames) /\ frames'[j] = frames[j]
           /\ \A j \in DOMAIN frames : j # Len(frames) => j \in DOMAIN frames' /\ frames'[j] = frames[j]
           /\ Top(frames) = frames[Len(frames)]
<1>1. /\ DOMAIN frames = 1 .. Len(frames) /\ Len(frames) \in Nat /\ frames \in Seq(Frames)
      /\ DOMAIN frames' = 1 .. Len(frames')
  BY NestTypes, FrameMoved DEF FrameMove, Shrinks
<1>2. /\ Len(frames') = Len(frames) - 1 /\ frames # <<>>
      /\ \A j \in 1 .. Len(frames) - 1 : frames'[j] = frames[j]
  BY DEF Shrinks, Popped
<1>3. Len(frames) \in DOMAIN frames
  BY <1>1, <1>2, EmptySeq
<1>. QED  BY <1>1, <1>2, <1>3, BelowTop DEF Top

LEMMA LoopsShrink ==
    ASSUME IInv, Nested, CallBones, Shrinks, blocks' = blocks, NEW k \in DOMAIN blocks,
           blocks[k].kind \in LoopKinds, ~blocks[k].capturing,
           Body(Top(frames)) => Top(frames).base # k
    PROVE  \/ \E j \in DOMAIN frames' : Body(frames'[j]) /\ frames'[j].base = k
           \/ k = Len(blocks) /\ HasBlock /\ (skipDepth > 0 \/ Looping \/ Failing)
           \/ \E c \in DOMAIN calls' : calls'[c].base = k /\ calls'[c].line.dir = "again"
<1>1. Len(blocks) \in Nat /\ DOMAIN blocks = 1 .. Len(blocks)
  BY NestTypes
<1>2. Len(blocks) \in 0 .. Len(blocks)
  BY <1>1
<1>3. \A j \in DOMAIN frames : Body(frames[j]) /\ frames[j].base = k =>
         \E i \in DOMAIN frames' : Body(frames'[i]) /\ frames'[i].base = k
  BY ShrinkFacts
<1>. QED  BY <1>1, <1>2, <1>3, LoopsKept, ZenonT(60) DEF Nested

\* A frame that is no loop body is popped.
DropMove ==
    /\ Shrinks /\ UNCHANGED <<blocks, skipDepth, skipCapture>> /\ ~Body(Top(frames))
    /\ pc # "cleanup" /\ pc' # "cleanup" /\ ~InCond'
    /\ pc = "leave" => pc' = "leave"
    /\ Looping' => Looping /\ InCond
    /\ Looping => Looping' \/ Failing'
    /\ Failing => Failing'

LEMMA DropMoved ==
    ASSUME IInv, Nested, CallBones, DropMove
    PROVE  OpenBlocks'
<1>1. /\ DOMAIN blocks = 1 .. Len(blocks) /\ Len(blocks) \in Nat /\ blocks' = blocks
      /\ skipDepth' = skipDepth /\ skipCapture' = skipCapture
      /\ BlockBase' = BlockBase
  BY NestTypes DEF DropMove, CallBones
<1>2. /\ \A j \in DOMAIN frames' : j \in DOMAIN frames /\ j < Len(frames) /\ frames'[j] = frames[j]
  BY ShrinkFacts DEF DropMove
<1>3. (HasBlock' <=> HasBlock) /\ TopKind' = TopKind
  BY <1>1 DEF HasBlock, TopKind
<1>4. FramesOpen'
  <2>1. \A j \in DOMAIN frames' : /\ pc' # "leave" => frames'[j].base <= Len(blocks)
                                  /\ BodyOpen(frames[j])
    BY <1>2 DEF DropMove, Nested, FramesOpen
  <2>. QED  BY <1>1, <1>2, <2>1 DEF FramesOpen, BodyOpen, DropMove
<1>5. SkipsOwn'
  <2>1. skipDepth > 0 /\ ~Failing' =>
          HasBlock /\ \A j \in DOMAIN frames : Body(frames[j]) => frames[j].base < Len(blocks)
    BY DEF Nested, SkipsOwn, DropMove
  <2>2. Looping' => /\ skipDepth = 0 /\ TopKind \in LoopKinds /\ ~Top(blocks).capturing
                    /\ \A j \in DOMAIN frames : j < Len(frames) => frames[j].base < Len(blocks)
    BY DEF Nested, SkipsOwn, DropMove
  <2>. QED  BY <1>1, <1>2, <1>3, <2>1, <2>2 DEF SkipsOwn
<1>6. LoopsRun'
  <2>1. ASSUME NEW k \in DOMAIN blocks, blocks[k].kind \in LoopKinds, ~blocks[k].capturing
        PROVE  \/ \E j \in DOMAIN frames' : Body(frames'[j]) /\ frames'[j].base = k
               \/ k = Len(blocks) /\ HasBlock /\ (skipDepth > 0 \/ Looping \/ Failing)
               \/ \E c \in DOMAIN calls' : calls'[c].base = k /\ calls'[c].line.dir = "again"
    BY <1>1, <2>1, LoopsShrink DEF DropMove
  <2>2. skipDepth > 0 \/ Looping \/ Failing => skipDepth' > 0 \/ Looping' \/ Failing'
    BY <1>1 DEF DropMove
  <2>. QED  BY <1>1, <1>3, <2>1, <2>2 DEF LoopsRun
<1>7. CapturesTop'
  <2>1. skipCapture' /\ ~Failing' => skipDepth' > 0
    BY <1>1 DEF DropMove, Nested, CapturesTop
  <2>2. /\ \A k \in DOMAIN blocks : Collects(blocks[k]) => k = Len(blocks) /\ HasBlock /\ skipCapture
        /\ skipCapture => HasBlock /\ Collects(Top(blocks))
    BY DEF Nested, CapturesTop
  <2>. QED  BY <1>1, <1>3, <2>1, <2>2 DEF CapturesTop
<1>. QED  BY <1>4, <1>5, <1>6, <1>7 DEF OpenBlocks

\* The body of the innermost block, a loop, has been replayed or left.
BodyMove ==
    /\ Shrinks /\ UNCHANGED <<blocks, skipDepth, skipCapture>> /\ Body(Top(frames))
    /\ Top(frames).base = Len(blocks) /\ pc # "cleanup" /\ pc' = "exhausted" /\ skipDepth = 0
    /\ ~Failing

LEMMA BodyMoved ==
    ASSUME IInv, Nested, CallBones, BodyMove
    PROVE  OpenBlocks'
<1>1. /\ DOMAIN blocks = 1 .. Len(blocks) /\ Len(blocks) \in Nat /\ blocks' = blocks
      /\ skipDepth' = skipDepth /\ skipCapture' = skipCapture
      /\ BlockBase' = BlockBase /\ BlockBase \in Nat
  BY NestTypes DEF BodyMove, CallBones
<1>2. /\ \A j \in DOMAIN frames' : j \in DOMAIN frames /\ j < Len(frames) /\ frames'[j] = frames[j]
      /\ Top(frames) = frames[Len(frames)] /\ Len(frames) \in DOMAIN frames /\ Len(frames) \in Nat
      /\ DOMAIN frames = 1 .. Len(frames)
  BY ShrinkFacts DEF BodyMove
<1>3. (HasBlock' <=> HasBlock) /\ TopKind' = TopKind
  BY <1>1 DEF HasBlock, TopKind
<1>4. BodyOpen(frames[Len(frames)])
  BY <1>2 DEF BodyMove, Nested, FramesOpen
<1>5. Len(blocks) \in DOMAIN blocks /\ blocks[Len(blocks)].kind \in LoopKinds
      /\ ~blocks[Len(blocks)].capturing
  BY <1>1, <1>2, <1>4 DEF BodyOpen, BodyMove
<1>6. \A j \in DOMAIN frames' : frames[j].base < Len(blocks)
  <2>1. \A j \in DOMAIN frames' : j \in 1 .. Len(frames) - 1
    BY <1>2, BelowTop
  <2>. QED  BY <1>2, <2>1 DEF BodyMove, Nested, BasesNested
<1>7. HasBlock /\ Top(blocks) = blocks[Len(blocks)] /\ TopKind \in LoopKinds
  <2>1. Len(blocks) > BlockBase
    <3>1. CASE calls = <<>>
      BY <1>1, <1>5, <3>1 DEF BlockBase
    <3>2. CASE calls # <<>>
      <4>1. /\ Caller \in Nat /\ Len(calls) \in DOMAIN calls
            /\ Caller = calls[Len(calls)].caller /\ BlockBase = calls[Len(calls)].base
        BY <3>2, CallerFacts, NestTypes DEF Nested
      <4>2. Len(frames) > Caller + 1
        BY <3>2 DEF BodyMove, Shrinks, Popped
      <4>3. Caller + 1 \in DOMAIN frames /\ Caller + 1 \in 1 .. Len(frames) - 1
        BY <1>2, <4>1, <4>2
      <4>4. frames[Caller + 1].base = BlockBase
        BY <4>1, <4>3 DEF Nested, CallBases
      <4>5. frames[Caller + 1].base < frames[Len(frames)].base
        BY <1>2, <4>3 DEF BodyMove, Nested, BasesNested
      <4>. QED  BY <1>1, <1>2, <4>4, <4>5 DEF BodyMove
    <3>. QED  BY <3>1, <3>2
  <2>. QED  BY <1>1, <1>5, <2>1 DEF HasBlock, Top, TopKind
<1>8. ~Failing' /\ ~InCond' /\ Looping'
  BY DEF BodyMove, Failing, InCond, Looping, Evaluating
<1>9. FramesOpen'
  <2>1. \A j \in DOMAIN frames' : BodyOpen(frames[j])
    BY <1>2 DEF BodyMove, Nested, FramesOpen
  <2>2. \A j \in DOMAIN frames' : frames[j].base <= Len(blocks)
    <3>1. \A j \in DOMAIN frames' : frames[j].base \in Nat
      BY <1>2, NestTypes
    <3>. QED  BY <1>1, <1>6, <3>1
  <2>. QED  BY <1>1, <1>2, <1>8, <2>1, <2>2 DEF FramesOpen, BodyOpen
<1>10. SkipsOwn'
  BY <1>1, <1>2, <1>3, <1>5, <1>6, <1>7 DEF SkipsOwn, BodyMove
<1>11. LoopsRun'
  <2>1. ASSUME NEW k \in DOMAIN blocks, blocks[k].kind \in LoopKinds, ~blocks[k].capturing, k # Len(blocks)
        PROVE  \/ \E j \in DOMAIN frames' : Body(frames'[j]) /\ frames'[j].base = k
               \/ \E c \in DOMAIN calls' : calls'[c].base = k /\ calls'[c].line.dir = "again"
    BY <1>1, <2>1, LoopsShrink DEF BodyMove
  <2>. QED  BY <1>1, <1>3, <1>7, <1>8, <2>1 DEF LoopsRun
<1>12. CapturesTop'
  <2>1. ~skipCapture
    BY DEF BodyMove, Nested, CapturesTop
  <2>2. /\ \A k \in DOMAIN blocks : ~Collects(blocks[k])
    BY <2>1 DEF Nested, CapturesTop
  <2>. QED  BY <1>1, <1>3, <2>1, <2>2 DEF CapturesTop
<1>. QED  BY <1>9, <1>10, <1>11, <1>12 DEF OpenBlocks

\* A frame of a finished call is dropped.
LEMMA CleanupFrameMoved ==
    ASSUME IInv, Nested, CallBones, CleanupFrame, Shrinks
    PROVE  OpenBlocks'
<1>1. /\ DOMAIN blocks = 1 .. Len(blocks) /\ Len(blocks) \in Nat /\ blocks' = blocks
      /\ skipDepth' = skipDepth /\ skipCapture' = skipCapture
      /\ BlockBase' = BlockBase /\ BlockBase \in Nat /\ Caller' = Caller
      /\ pc = "cleanup" /\ pc' = "cleanup" /\ ~HasBlock /\ calls # <<>>
  BY NestTypes DEF CleanupFrame, CallBones, IInv, PcShape
<1>2. /\ \A j \in DOMAIN frames' : j \in DOMAIN frames /\ j < Len(frames) /\ frames'[j] = frames[j]
      /\ Top(frames) = frames[Len(frames)] /\ Len(frames) \in DOMAIN frames /\ Len(frames) \in Nat
      /\ DOMAIN frames = 1 .. Len(frames) /\ Len(frames) > Caller
  BY ShrinkFacts DEF Shrinks, Popped
<1>3. (HasBlock' <=> HasBlock) /\ TopKind' = TopKind
  BY <1>1 DEF HasBlock, TopKind
<1>4. Failing' /\ ~InCond' /\ ~Looping'
  BY <1>1 DEF Failing, InCond, Looping, Evaluating
<1>5. FramesOpen'
  <2>1. \A j \in DOMAIN frames' : j <= Caller => /\ frames'[j].base <= Len(blocks)
                                                 /\ BodyOpen(frames[j])
    BY <1>1, <1>2 DEF Nested, FramesOpen
  <2>. QED  BY <1>1, <1>2, <1>4, <2>1 DEF FramesOpen, BodyOpen
<1>6. SkipsOwn'
  BY <1>4 DEF SkipsOwn
<1>7. LoopsRun'
  <2>1. ASSUME NEW k \in DOMAIN blocks, Body(Top(frames)), Top(frames).base = k
        PROVE  FALSE
    <3>1. k <= BlockBase
      BY <1>1 DEF HasBlock
    <3>2. /\ Caller \in Nat /\ Len(calls) \in DOMAIN calls
          /\ Caller = calls[Len(calls)].caller /\ BlockBase = calls[Len(calls)].base
      BY <1>1, CallerFacts, NestTypes DEF Nested
    <3>3. Caller + 1 \in DOMAIN frames
      BY <1>2, <3>2
    <3>4. frames[Caller + 1].base = BlockBase /\ ~Body(frames[Caller + 1])
      BY <3>2, <3>3 DEF Nested, CallBases
    <3>5. Caller + 1 # Len(frames)
      BY <1>2, <2>1, <3>4
    <3>6. Caller + 1 \in 1 .. Len(frames) - 1
      BY <1>2, <3>3, <3>5, BelowTop
    <3>7. frames[Caller + 1].base < frames[Len(frames)].base
      BY <1>2, <2>1, <3>6 DEF Nested, BasesNested
    <3>. QED  BY <1>1, <1>2, <2>1, <3>1, <3>4, <3>7
  <2>2. ASSUME NEW k \in DOMAIN blocks, blocks[k].kind \in LoopKinds, ~blocks[k].capturing
        PROVE  \/ \E j \in DOMAIN frames' : Body(frames'[j]) /\ frames'[j].base = k
               \/ k = Len(blocks) /\ HasBlock /\ (skipDepth > 0 \/ Looping \/ Failing)
               \/ \E c \in DOMAIN calls' : calls'[c].base = k /\ calls'[c].line.dir = "again"
    BY <1>1, <2>1, <2>2, LoopsShrink
  <2>. QED  BY <1>1, <1>3, <1>4, <2>2 DEF LoopsRun
<1>8. CapturesTop'
  BY <1>1, <1>3, <1>4 DEF CapturesTop, Nested
<1>. QED  BY <1>5, <1>6, <1>7, <1>8 DEF OpenBlocks

\* A block is dropped, of a finished call or around #break and #continue.
UnwindMove ==
    /\ HasBlock /\ blocks' = Under(blocks) /\ frames' = frames
    /\ \/ pc = "cleanup" /\ pc' = "cleanup"
       \/ pc = "leave" /\ pc' = "leave" /\ TopKind = "if" /\ skipDepth' = 0
    /\ ~skipCapture'

LEMMA UnwindMoved ==
    ASSUME IInv, BodyInv, Nested, CallBones, UnwindMove
    PROVE  OpenBlocks'
<1>1. /\ DOMAIN frames = 1 .. Len(frames) /\ DOMAIN blocks = 1 .. Len(blocks) /\ Len(frames) \in Nat
      /\ Len(blocks) \in Nat /\ BlockBase \in Nat /\ BlockBase < Len(blocks)
      /\ DOMAIN calls = 1 .. Len(calls) /\ \A j \in 1 .. Len(frames) : frames[j].base \in Nat
      /\ frames' = frames /\ Caller' = Caller
  BY NestTypes DEF UnwindMove, HasBlock, CallBones
<1>2. /\ Len(blocks') = Len(blocks) - 1 /\ blocks' \in Seq(Blocks)
      /\ \A k \in 1 .. Len(blocks) - 1 : blocks'[k] = blocks[k]
  BY PopBelow DEF UnwindMove, BlocksBelow
<1>3. DOMAIN blocks' = 1 .. Len(blocks) - 1
  BY <1>2, LenProperties
<1>4. ~Looping' /\ ~InCond' /\ ~skipCapture' /\ (skipDepth' > 0 => Failing') /\ ~Looping
  BY DEF UnwindMove, Failing, Looping, InCond, Evaluating
<1>5. ASSUME NEW j \in DOMAIN frames, pc' = "cleanup" => j <= Caller
      PROVE  /\ pc' # "leave" => frames[j].base <= Len(blocks) - 1
             /\ BodyOpen(frames[j])'
  <2>1. BodyOpen(frames[j])
    BY <1>5 DEF UnwindMove, Nested, FramesOpen
  <2>2. CASE pc = "cleanup"
    <3>1. calls # <<>>
      BY <2>2 DEF IInv, PcShape
    <3>2. /\ Caller \in Nat /\ Len(calls) \in DOMAIN calls
          /\ Caller = calls[Len(calls)].caller /\ BlockBase = calls[Len(calls)].base
      BY <3>1, CallerFacts, NestTypes DEF Nested
    <3>3. frames[j].base <= BlockBase
      BY <1>5, <2>2, <3>2 DEF UnwindMove, Nested, CallBases
    <3>4. frames[j].base < Len(blocks) /\ frames[j].base \in Nat
      BY <1>1, <3>3
    <3>5. frames[j].base <= Len(blocks) - 1
      BY <1>1, <3>4, BelowTop
    <3>6. Body(frames[j]) => /\ frames[j].base \in 1 .. Len(blocks) - 1
                             /\ blocks[frames[j].base].kind \in LoopKinds
                             /\ ~blocks[frames[j].base].capturing
      BY <1>1, <2>1, <3>4, BelowTop DEF BodyOpen
    <3>. QED  BY <1>1, <1>2, <3>5, <3>6 DEF BodyOpen
  <2>3. CASE pc = "leave" /\ TopKind = "if"
    <3>1. pc' = "leave"
      BY <2>3 DEF UnwindMove
    <3>2. Body(frames[j]) => frames[j].base # Len(blocks)
      BY <2>1, <2>3, CapturesLoops DEF BodyOpen, LoopKinds
    <3>3. Body(frames[j]) => /\ frames[j].base \in 1 .. Len(blocks) - 1
                             /\ blocks[frames[j].base].kind \in LoopKinds
                             /\ ~blocks[frames[j].base].capturing
      BY <1>1, <2>1, <3>2, BelowTop DEF BodyOpen
    <3>. QED  BY <1>1, <1>2, <3>1, <3>3 DEF BodyOpen
  <2>. QED  BY <2>2, <2>3 DEF UnwindMove
<1>6. FramesOpen'
  BY <1>1, <1>2, <1>4, <1>5 DEF FramesOpen
<1>7. SkipsOwn'
  BY <1>4 DEF SkipsOwn
<1>8. LoopsRun'
  <2>1. ASSUME NEW k \in 1 .. Len(blocks) - 1, blocks'[k].kind \in LoopKinds, ~blocks'[k].capturing
        PROVE  \/ \E j \in DOMAIN frames' : Body(frames'[j]) /\ frames'[j].base = k
               \/ k = Len(blocks) /\ HasBlock /\ (skipDepth > 0 \/ Looping \/ Failing)
               \/ \E c \in DOMAIN calls' : calls'[c].base = k /\ calls'[c].line.dir = "again"
    <3>1. Len(blocks) - 1 \in 0 .. Len(blocks)
      BY <1>1
    <3>2. \A j \in DOMAIN frames : Body(frames[j]) /\ frames[j].base = k =>
             \E i \in DOMAIN frames' : Body(frames'[i]) /\ frames'[i].base = k
      BY <1>1
    <3>. QED  BY <1>2, <2>1, <3>1, <3>2, LoopsKept DEF Nested
  <2>2. \A k \in 1 .. Len(blocks) - 1 : k # Len(blocks)
    BY <1>1, BelowTop
  <2>. QED  BY <1>3, <2>1, <2>2 DEF LoopsRun
<1>9. CapturesTop'
  <2>1. \A k \in 1 .. Len(blocks) - 1 : k # Len(blocks) /\ k \in 1 .. Len(blocks)
    BY <1>1, BelowTop
  <2>2. \A k \in 1 .. Len(blocks) - 1 : ~Collects(blocks'[k])
    BY <1>1, <1>2, <2>1 DEF Nested, CapturesTop
  <2>. QED  BY <1>3, <1>4, <2>2 DEF CapturesTop
<1>. QED  BY <1>6, <1>7, <1>8, <1>9 DEF OpenBlocks

\* The body of a loop has been captured: its first iteration follows.
CapturedMove ==
    /\ HasBlock /\ TopKind \in LoopKinds /\ frames' = frames
    /\ blocks' = SetTop([Top(blocks) EXCEPT !.body = captureBuf, !.capturing = FALSE])
    /\ pc = "line" /\ pc' = "enter" /\ skipDepth' = 0 /\ ~skipCapture'
    /\ \A j \in DOMAIN frames : frames[j].base < Len(blocks)

LEMMA CapturedMoved ==
    ASSUME IInv, BodyInv, Nested, CallBones, CapturedMove
    PROVE  OpenBlocks'
<1>. DEFINE b == [Top(blocks) EXCEPT !.body = captureBuf, !.capturing = FALSE]
<1>1. /\ DOMAIN frames = 1 .. Len(frames) /\ DOMAIN blocks = 1 .. Len(blocks) /\ Len(frames) \in Nat
      /\ Len(blocks) \in Nat /\ BlockBase \in Nat /\ BlockBase < Len(blocks)
      /\ DOMAIN calls = 1 .. Len(calls) /\ \A j \in 1 .. Len(frames) : frames[j].base \in Nat
      /\ frames' = frames /\ BlockBase' = BlockBase
  BY NestTypes DEF CapturedMove, HasBlock, CallBones
<1>2. /\ b \in Blocks /\ b.kind = Top(blocks).kind /\ ~b.capturing /\ Top(blocks).kind = TopKind
      /\ Top(blocks) = blocks[Len(blocks)]
  BY TopFields DEF CapturedMove, Blocks
<1>. HIDE DEF b
<1>3. /\ Len(blocks') = Len(blocks) /\ blocks'[Len(blocks)] = b /\ blocks' \in Seq(Blocks)
      /\ \A k \in 1 .. Len(blocks) - 1 : blocks'[k] = blocks[k]
  BY <1>2, SetBelow DEF CapturedMove, BlocksBelow, b
<1>4. /\ DOMAIN blocks' = 1 .. Len(blocks) /\ Top(blocks') = b /\ HasBlock' /\ TopKind' = TopKind
      /\ \A k \in 1 .. Len(blocks) : k = Len(blocks) \/ k \in 1 .. Len(blocks) - 1
  BY <1>1, <1>2, <1>3, BelowTop, LenProperties DEF Top, HasBlock, TopKind
<1>5. Looping' /\ ~InCond' /\ ~Failing'
  BY DEF CapturedMove, Looping, InCond, Failing, Evaluating
<1>6. FramesOpen'
  <2>1. ASSUME NEW j \in DOMAIN frames
        PROVE  frames[j].base <= Len(blocks') /\ BodyOpen(frames[j])'
    <3>1. frames[j].base < Len(blocks) /\ frames[j].base \in Nat
      BY <1>1 DEF CapturedMove
    <3>2. BodyOpen(frames[j])
      BY DEF CapturedMove, Nested, FramesOpen
    <3>3. Body(frames[j]) => /\ frames[j].base \in 1 .. Len(blocks) - 1
                             /\ frames[j].base \in 1 .. Len(blocks)
                             /\ blocks[frames[j].base].kind \in LoopKinds
                             /\ ~blocks[frames[j].base].capturing
      BY <1>1, <3>1, <3>2, BelowTop DEF BodyOpen
    <3>4. frames[j].base <= Len(blocks)
      BY <1>1, <3>1
    <3>. QED  BY <1>1, <1>3, <3>3, <3>4 DEF BodyOpen
  <2>. QED  BY <1>1, <1>5, <2>1 DEF FramesOpen
<1>7. SkipsOwn'
  BY <1>1, <1>2, <1>3, <1>4, <1>5 DEF SkipsOwn, CapturedMove
<1>8. LoopsRun'
  <2>1. ASSUME NEW k \in 1 .. Len(blocks) - 1, blocks'[k].kind \in LoopKinds, ~blocks'[k].capturing
        PROVE  \/ \E j \in DOMAIN frames' : Body(frames'[j]) /\ frames'[j].base = k
               \/ k = Len(blocks) /\ HasBlock /\ (skipDepth > 0 \/ Looping \/ Failing)
               \/ \E c \in DOMAIN calls' : calls'[c].base = k /\ calls'[c].line.dir = "again"
    <3>1. Len(blocks) - 1 \in 0 .. Len(blocks)
      BY <1>1
    <3>2. \A j \in DOMAIN frames : Body(frames[j]) /\ frames[j].base = k =>
             \E i \in DOMAIN frames' : Body(frames'[i]) /\ frames'[i].base = k
      BY <1>1
    <3>. QED  BY <1>3, <2>1, <3>1, <3>2, LoopsKept DEF Nested
  <2>2. \A k \in 1 .. Len(blocks) - 1 : k # Len(blocks)
    BY <1>1, BelowTop
  <2>. QED  BY <1>3, <1>4, <1>5, <2>1, <2>2 DEF LoopsRun
<1>9. CapturesTop'
  <2>1. \A k \in 1 .. Len(blocks) - 1 : k # Len(blocks) /\ k \in 1 .. Len(blocks)
    BY <1>1, BelowTop
  <2>2. \A k \in 1 .. Len(blocks) - 1 : ~Collects(blocks'[k])
    BY <1>1, <1>3, <2>1 DEF Nested, CapturesTop
  <2>3. ~Collects(b)
    BY <1>2 DEF Collects, CapturedMove, LoopKinds
  <2>. QED  BY <1>3, <1>4, <2>2, <2>3 DEF CapturesTop, CapturedMove
<1>. QED  BY <1>6, <1>7, <1>8, <1>9 DEF OpenBlocks

-----------------------------------------------------------------------------
(* Calls and returns *)

\* The call record and the frame that EvalCall adds.
CallAdds ==
    /\ Len(calls') = Len(calls) + 1 /\ DOMAIN calls' = 1 .. Len(calls) + 1 /\ calls' # <<>>
    /\ \A c \in 1 .. Len(calls) : calls'[c] = calls[c]
    /\ LET call == calls'[Len(calls) + 1]
       IN  /\ call.line = line /\ call.base = Len(blocks) /\ call.skip = skipDepth
           /\ call.caller = Len(frames) /\ ~call.gone
    /\ Caller' = Len(frames) /\ BlockBase' = Len(blocks)
    /\ Len(frames') = Len(frames) + 1 /\ DOMAIN frames' = 1 .. Len(frames) + 1
    /\ \A j \in 1 .. Len(frames) : frames'[j] = frames[j]
    /\ LET frame == frames'[Len(frames) + 1]
       IN  /\ frame.base = Len(blocks) /\ ~Body(frame) /\ ~frame.file
           /\ frame.rest = Lookup("f").body
    /\ pc = "eval" /\ pc' = "run" /\ blocks' = blocks /\ skipDepth' = 0
    /\ skipCapture' = skipCapture
    /\ Len(frames) > Caller /\ frames # <<>>

LEMMA CallAdded ==
    ASSUME IInv, Nested, EvalCall
    PROVE  CallAdds
<1>1. /\ frames \in Seq(Frames) /\ Len(frames) \in Nat /\ calls \in Seq(CallFrames)
      /\ Len(calls) \in Nat /\ Len(blocks) \in Nat
  BY NestTypes
<1>. DEFINE call == [line |-> line, base |-> Len(blocks), skip |-> skipDepth,
                     caller |-> Len(frames), gone |-> FALSE, returned |-> FALSE,
                     clean |-> TRUE]
            f == NewFrame("FRAME_CALL", FALSE, Lookup("f").body)
<1>2. /\ calls' = Append(calls, call) /\ frames' = Append(frames, f)
      /\ pc = "eval" /\ pc' = "run" /\ blocks' = blocks /\ skipDepth' = 0
      /\ skipCapture' = skipCapture
  BY DEF EvalCall
<1>3. f.base = Len(blocks) /\ ~Body(f) /\ ~f.file /\ f.rest = Lookup("f").body
  BY DEF NewFrame, Body
<1>4. call.line = line /\ call.base = Len(blocks) /\ call.skip = skipDepth
      /\ call.caller = Len(frames) /\ ~call.gone
  OBVIOUS
<1>5. call \in CallFrames /\ f \in Frames
  <2>1. Lookup("f").body \in Seq(Line)
    BY VisibleBody DEF EvalCall, Names, IInv
  <2>. QED  BY <1>1, <2>1, NestTypes DEF NewFrame, Frames, FrameTypes, CallFrames, IInv, TypeOK
<1>. HIDE DEF call, f
<1>6. /\ Len(calls') = Len(calls) + 1 /\ calls'[Len(calls) + 1] = call /\ calls' \in Seq(CallFrames)
      /\ \A c \in 1 .. Len(calls) : calls'[c] = calls[c]
      /\ Len(frames') = Len(frames) + 1 /\ frames'[Len(frames) + 1] = f /\ frames' \in Seq(Frames)
      /\ \A j \in 1 .. Len(frames) : frames'[j] = frames[j]
  BY <1>1, <1>2, <1>5, AppendProperties
<1>7. DOMAIN calls' = 1 .. Len(calls) + 1 /\ DOMAIN frames' = 1 .. Len(frames) + 1
  BY <1>6, LenProperties
<1>8. calls' # <<>>
  BY <1>1, <1>6, EmptySeq
<1>9. Caller' = Len(frames) /\ BlockBase' = Len(blocks)
  BY <1>4, <1>6, <1>8 DEF Caller, BlockBase, Top
<1>10. frames # <<>> /\ Len(frames) > Caller
  <2>1. frames # <<>>
    BY <1>2 DEF IInv, PcShape
  <2>2. calls # <<>> => Len(frames) > Caller
    BY <1>2 DEF Nested, CallsNested
  <2>3. calls = <<>> => Caller = 0
    BY DEF Caller
  <2>. QED  BY <1>1, <2>1, <2>2, <2>3, EmptySeq
<1>. QED  BY <1>2, <1>3, <1>4, <1>6, <1>7, <1>8, <1>9, <1>10 DEF CallAdds

LEMMA CallNests ==
    ASSUME IInv, SkipInv, BodyInv, Nested, EvalCall
    PROVE  CallsNested' /\ BasesNested' /\ CallBases'
<1>1. /\ DOMAIN frames = 1 .. Len(frames) /\ Len(frames) \in Nat
      /\ DOMAIN calls = 1 .. Len(calls) /\ Len(calls) \in Nat /\ Len(blocks) \in Nat
      /\ \A c \in 1 .. Len(calls) : calls[c].caller \in Nat /\ calls[c].caller <= Caller
      /\ Caller \in Nat /\ CallsNested /\ BasesNested /\ CallBases
  BY NestTypes, CallerFacts DEF Nested
<1>2. CallAdds
  BY CallAdded
<1>3. Own(line) \in {0, 1} /\ (Own(line) = 1 <=> InCond)
  BY <1>2 DEF Own, InCond, Evaluating, CallAdds
<1>4. CallsNested'
  <2>1. Len(frames) > Caller + Own(line)
    <3>1. InCond => Len(frames) > Caller + 1
      BY <1>1 DEF CallsNested
    <3>. QED  BY <1>1, <1>2, <1>3, <3>1 DEF CallAdds
  <2>2. line.dir = "again" => skipDepth = 0
    BY <1>2 DEF CallAdds, Nested, SkipsOwn, Looping, Evaluating
  <2>3. ASSUME NEW c \in 1 .. Len(calls) + 1
        PROVE  /\ ~calls'[c].gone
               /\ calls'[c].caller > Own(calls'[c].line)
               /\ \A d \in 1 .. c - 1 : calls'[c].caller > calls'[d].caller + Own(calls'[c].line)
               /\ calls'[c].line.dir = "again" => calls'[c].skip = 0
    <3>1. CASE c \in 1 .. Len(calls)
      <4>1. \A d \in 1 .. c - 1 : d \in 1 .. Len(calls)
        BY <1>1, <3>1
      <4>. QED  BY <1>1, <1>2, <3>1, <4>1 DEF CallAdds, CallsNested
    <3>2. CASE c = Len(calls) + 1
      <4>1. \A d \in 1 .. c - 1 : d \in 1 .. Len(calls)
        BY <1>1, <3>2
      <4>2. calls'[c].line = line /\ calls'[c].caller = Len(frames)
            /\ calls'[c].skip = skipDepth /\ ~calls'[c].gone
        BY <1>2, <3>2 DEF CallAdds
      <4>3. \A d \in 1 .. c - 1 : Len(frames) > calls'[d].caller + Own(line)
        <5>1. \A d \in 1 .. Len(calls) : Len(frames) > calls[d].caller + Own(line)
          BY <1>1, <1>3, <2>1
        <5>. QED  BY <1>2, <4>1, <5>1 DEF CallAdds
      <4>4. Len(frames) > Own(line)
        BY <1>1, <1>3, <2>1
      <4>. QED  BY <2>2, <4>2, <4>3, <4>4
    <3>. QED  BY <1>1, <3>1, <3>2
  <2>4. ~InCond' /\ Len(frames') > Caller' /\ Len(frames') >= Caller'
    BY <1>1, <1>2 DEF CallAdds, InCond, Evaluating
  <2>. QED  BY <1>2, <2>3, <2>4 DEF CallsNested, CallAdds
<1>5. \A j \in 1 .. Len(frames) : frames[j].base <= Len(blocks)
  BY <1>2, BasesOpen DEF CallAdds
<1>6. BasesNested'
  <2>1. ASSUME NEW j \in 1 .. Len(frames) + 1
        PROVE  /\ frames'[j].file => frames'[j].rest = <<>>
               /\ \A i \in 1 .. j - 1 : /\ frames'[i].base <= frames'[j].base
                                        /\ Body(frames'[j]) => frames'[i].base < frames'[j].base
    <3>1. CASE j \in 1 .. Len(frames)
      <4>1. \A i \in 1 .. j - 1 : i \in 1 .. Len(frames)
        BY <1>1, <3>1
      <4>. QED  BY <1>1, <1>2, <3>1, <4>1 DEF CallAdds, BasesNested
    <3>2. CASE j = Len(frames) + 1
      <4>1. \A i \in 1 .. j - 1 : i \in 1 .. Len(frames)
        BY <1>1, <3>2
      <4>2. frames'[j].base = Len(blocks) /\ ~Body(frames'[j]) /\ ~frames'[j].file
        BY <1>2, <3>2 DEF CallAdds
      <4>3. \A i \in 1 .. j - 1 : frames'[i] = frames[i]
        BY <1>2, <4>1 DEF CallAdds
      <4>. QED  BY <1>5, <4>1, <4>2, <4>3
    <3>. QED  BY <1>1, <3>1, <3>2
  <2>. QED  BY <1>2, <2>1 DEF BasesNested, CallAdds
<1>7. CallBases'
  <2>1. ASSUME NEW c \in 1 .. Len(calls) + 1, NEW j \in 1 .. Len(frames) + 1
        PROVE  /\ j <= calls'[c].caller => frames'[j].base <= calls'[c].base
               /\ j = calls'[c].caller + 1 => frames'[j].base = calls'[c].base /\ ~Body(frames'[j])
               /\ calls'[c].line.dir \in CondDirs /\ j = calls'[c].caller =>
                    frames'[j].base = calls'[c].base /\ ~Body(frames'[j]) /\ frames'[j].rest = <<>>
               /\ calls'[c].line.dir = "again" /\ j < calls'[c].caller =>
                    frames'[j].base < calls'[c].base
    <3>1. CASE c \in 1 .. Len(calls)
      <4>1. calls'[c] = calls[c] /\ calls[c].caller \in Nat /\ calls[c].caller < Len(frames)
        BY <1>1, <1>2, <3>1 DEF CallAdds
      <4>2. CASE j \in 1 .. Len(frames)
        <5>1. c \in DOMAIN calls /\ j \in DOMAIN frames /\ frames'[j] = frames[j]
          BY <1>1, <1>2, <3>1, <4>2 DEF CallAdds
        <5>. QED  BY <4>1, <5>1 DEF Nested, CallBases
      <4>3. CASE j = Len(frames) + 1
        <5>1. Len(frames) \in Nat /\ calls[c].caller \in Nat /\ calls[c].caller < Len(frames)
          BY <1>1, <4>1
        <5>2. ~(j <= calls[c].caller) /\ j # calls[c].caller + 1 /\ j # calls[c].caller /\ ~(j < calls[c].caller)
          BY <4>3, <5>1
        <5>. QED  BY <4>1, <5>2
      <4>. QED  BY <1>1, <4>2, <4>3
    <3>2. CASE c = Len(calls) + 1
      <4>1. calls'[c].line = line /\ calls'[c].caller = Len(frames) /\ calls'[c].base = Len(blocks)
        BY <1>2, <3>2 DEF CallAdds
      <4>2. CASE j \in 1 .. Len(frames)
        <5>1. frames'[j] = frames[j] /\ j # Len(frames) + 1
          BY <1>1, <1>2, <4>2 DEF CallAdds
        <5>2. InCond /\ j = Len(frames) =>
                frames[j].base = Len(blocks) /\ ~Body(frames[j]) /\ frames[j].rest = <<>>
          BY DEF Nested, FramesOpen, Top
        <5>3. line.dir = "again" /\ j < Len(frames) => frames[j].base < Len(blocks)
          BY <1>1, <1>2, <4>2 DEF Nested, SkipsOwn, Looping, InCond, CondDirs, Evaluating, CallAdds
        <5>4. line.dir \in CondDirs <=> InCond
          BY <1>2 DEF CallAdds, InCond, Evaluating
        <5>. QED  BY <1>5, <4>1, <4>2, <5>1, <5>2, <5>3, <5>4
      <4>3. CASE j = Len(frames) + 1
        <5>1. frames'[j].base = Len(blocks) /\ ~Body(frames'[j])
          BY <1>2, <4>3 DEF CallAdds
        <5>2. ~(j <= Len(frames)) /\ j # Len(frames) /\ ~(j < Len(frames))
          <6>1. Len(frames) \in Nat
            BY <1>1
          <6>. QED  BY <4>3, <6>1
        <5>. QED  BY <4>1, <5>1, <5>2
      <4>. QED  BY <1>1, <4>2, <4>3
    <3>. QED  BY <1>1, <3>1, <3>2
  <2>. QED  BY <1>2, <2>1 DEF CallBases, CallAdds
<1>. QED  BY <1>4, <1>6, <1>7

LEMMA CallOpens ==
    ASSUME IInv, SkipInv, BodyInv, Nested, EvalCall
    PROVE  OpenBlocks'
<1>1. /\ DOMAIN frames = 1 .. Len(frames) /\ Len(frames) \in Nat
      /\ DOMAIN blocks = 1 .. Len(blocks) /\ Len(blocks) \in Nat
      /\ DOMAIN calls = 1 .. Len(calls) /\ Len(calls) \in Nat /\ skipDepth \in Nat
  BY NestTypes
<1>2. CallAdds
  BY CallAdded
<1>3. ~HasBlock' /\ ~InCond' /\ ~Looping' /\ ~Failing' /\ ~Failing /\ blocks' = blocks
  BY <1>1, <1>2 DEF CallAdds, HasBlock, InCond, Looping, Failing, Evaluating
<1>4. skipDepth > 0 => TopKind = "if"
  <2>1. skipDepth > 0 => line.dir \in {"elif", "again"}
    BY <1>1, <1>2 DEF CallAdds, SkipInv, HandlerSkip, Evaluating
  <2>2. line.dir = "again" => skipDepth = 0
    BY <1>2 DEF CallAdds, Nested, SkipsOwn, Looping, Evaluating
  <2>. QED  BY <1>1, <1>2, <2>1, <2>2 DEF CallAdds, IInv, PcShape, Evaluating
<1>5. ~skipCapture /\ \A k \in DOMAIN blocks : ~Collects(blocks[k])
  <2>1. ~skipCapture
    <3>1. skipCapture => skipDepth > 0 /\ Collects(Top(blocks))
      BY <1>3 DEF Nested, CapturesTop
    <3>. QED  BY <1>4, <3>1, CapturesLoops
  <2>. QED  BY <2>1 DEF Nested, CapturesTop
<1>6. FramesOpen'
  <2>1. ASSUME NEW j \in 1 .. Len(frames) + 1
        PROVE  frames'[j].base <= Len(blocks') /\ BodyOpen(frames[j])'
    <3>1. CASE j \in 1 .. Len(frames)
      BY <1>1, <1>2, <1>3, <3>1 DEF CallAdds, Nested, FramesOpen, BodyOpen
    <3>2. CASE j = Len(frames) + 1
      BY <1>1, <1>2, <1>3, <3>2 DEF CallAdds, BodyOpen
    <3>. QED  BY <1>1, <3>1, <3>2
  <2>. QED  BY <1>2, <1>3, <2>1 DEF FramesOpen, CallAdds
<1>7. SkipsOwn'
  BY <1>2, <1>3 DEF SkipsOwn, CallAdds
<1>8. LoopsRun'
  <2>1. ASSUME NEW k \in DOMAIN blocks, blocks[k].kind \in LoopKinds, ~blocks[k].capturing
        PROVE  \/ \E j \in DOMAIN frames' : Body(frames'[j]) /\ frames'[j].base = k
               \/ \E c \in DOMAIN calls' : calls'[c].base = k /\ calls'[c].line.dir = "again"
    <3>1. CASE \E j \in DOMAIN frames : Body(frames[j]) /\ frames[j].base = k
      <4>1. \A j \in DOMAIN frames : j \in DOMAIN frames' /\ frames'[j] = frames[j]
        BY <1>1, <1>2 DEF CallAdds
      <4>. QED  BY <3>1, <4>1
    <3>2. CASE k = Len(blocks) /\ HasBlock /\ (skipDepth > 0 \/ Looping \/ Failing)
      <4>1. TopKind # "if"
        BY <2>1, <3>2, CapturesLoops DEF LoopKinds
      <4>2. line.dir = "again"
        BY <1>2, <1>3, <1>4, <3>2, <4>1 DEF Looping, CallAdds
      <4>3. Len(calls) + 1 \in DOMAIN calls'
        BY <1>1, <1>2 DEF CallAdds
      <4>. QED  BY <1>2, <3>2, <4>2, <4>3 DEF CallAdds
    <3>3. CASE \E c \in DOMAIN calls : calls[c].base = k /\ calls[c].line.dir = "again"
      <4>1. \A c \in DOMAIN calls : c \in DOMAIN calls' /\ calls'[c] = calls[c]
        BY <1>1, <1>2 DEF CallAdds
      <4>. QED  BY <3>3, <4>1
    <3>. QED  BY <2>1, <3>1, <3>2, <3>3 DEF Nested, LoopsRun
  <2>. QED  BY <1>3, <2>1 DEF LoopsRun
<1>9. CapturesTop'
  BY <1>2, <1>3, <1>5 DEF CapturesTop, CallAdds
<1>. QED  BY <1>6, <1>7, <1>8, <1>9 DEF OpenBlocks

\* The call record that FinishCall removes.
CallDrops ==
    /\ Len(calls) \in DOMAIN calls /\ DOMAIN calls' = 1 .. Len(calls) - 1
    /\ Len(calls') = Len(calls) - 1
    /\ \A c \in 1 .. Len(calls) - 1 :
          /\ c \in DOMAIN calls
          /\ calls'[c].line = calls[c].line /\ calls'[c].base = calls[c].base
          /\ calls'[c].skip = calls[c].skip /\ calls'[c].caller = calls[c].caller
          /\ ~calls'[c].gone
    /\ LET call == calls[Len(calls)]
       IN  /\ line' = call.line /\ skipDepth' = call.skip
           /\ Len(blocks) = call.base /\ Len(frames) = call.caller
    /\ Caller' = IF Len(calls) = 1 THEN 0 ELSE calls[Len(calls) - 1].caller
    /\ BlockBase' = IF Len(calls) = 1 THEN 0 ELSE calls[Len(calls) - 1].base
    /\ Len(frames) = Caller /\ Len(blocks) = BlockBase /\ ~HasBlock
    /\ UNCHANGED <<frames, blocks, skipCapture>>
    /\ pc = "cleanup" /\ pc' \in {"value", "evalfail"}

LEMMA CallDropped ==
    ASSUME IInv, Nested, FinishCall
    PROVE  CallDrops
<1>1. /\ frames \in Seq(Frames) /\ Len(frames) \in Nat /\ calls \in Seq(CallFrames)
      /\ Len(calls) \in Nat /\ DOMAIN calls = 1 .. Len(calls) /\ Caller \in Nat
      /\ CallsNested
  BY NestTypes, CallerFacts DEF Nested
<1>2. /\ pc = "cleanup" /\ ~HasBlock /\ AtCaller /\ UNCHANGED <<frames, blocks, skipCapture>>
      /\ pc' \in {"value", "evalfail"}
  BY DEF FinishCall
<1>3. calls # <<>> /\ Len(calls) \in DOMAIN calls /\ Caller = calls[Len(calls)].caller
      /\ Caller >= 1
  BY <1>1, <1>2, CallerFacts DEF IInv, PcShape
<1>4. Len(frames) = Caller
  <2>1. CASE frames = <<>>
    <3>1. Len(frames) = 0 /\ Len(frames) >= Caller
      BY <1>1, <2>1, EmptySeq DEF CallsNested
    <3>2. Caller \in Nat /\ Caller >= 1
      BY <1>1, <1>3
    <3>. QED  BY <3>1, <3>2
  <2>2. CASE frames # <<>>
    BY <1>2, <1>3, <2>2 DEF AtCaller, Top
  <2>. QED  BY <2>1, <2>2
<1>5. /\ Len(calls') = Len(calls) - 1 /\ DOMAIN calls' = 1 .. Len(calls) - 1
      /\ calls' \in Seq(CallFrames)
      /\ \A c \in 1 .. Len(calls) - 1 :
           /\ calls'[c].line = calls[c].line /\ calls'[c].base = calls[c].base
           /\ calls'[c].skip = calls[c].skip /\ calls'[c].caller = calls[c].caller
           /\ calls'[c].gone = calls[c].gone
      /\ Len(calls) = 1 => BlockBase' = 0
      /\ Len(calls) > 1 => BlockBase' = calls[Len(calls) - 1].base
      /\ Len(blocks) = BlockBase /\ BlockBase = calls[Len(calls)].base
      /\ line' = calls[Len(calls)].line /\ skipDepth' = calls[Len(calls)].skip
  BY FinishFacts
<1>6. \A c \in 1 .. Len(calls) - 1 : c \in DOMAIN calls /\ ~calls[c].gone
  <2>1. \A c \in 1 .. Len(calls) - 1 : c \in DOMAIN calls
    BY <1>1
  <2>. QED  BY <1>1, <2>1 DEF CallsNested
<1>7. Len(calls) = 1 \/ (Len(calls) > 1 /\ Len(calls) - 1 \in 1 .. Len(calls) - 1)
  BY <1>1, <1>3
<1>8. Caller' = IF Len(calls) = 1 THEN 0 ELSE calls[Len(calls) - 1].caller
  <2>1. CASE Len(calls) = 1
    <3>1. calls' = <<>>
      BY <1>5, <2>1, EmptySeq
    <3>. QED  BY <2>1, <3>1 DEF Caller
  <2>2. CASE Len(calls) # 1
    <3>1. Len(calls) - 1 \in 1 .. Len(calls) - 1 /\ Len(calls) - 1 # 0
      BY <1>1, <1>7, <2>2
    <3>2. calls' # <<>>
      BY <1>5, <3>1, EmptySeq
    <3>. QED  BY <1>5, <2>2, <3>1, <3>2 DEF Caller, Top
  <2>. QED  BY <2>1, <2>2
<1>. QED  BY <1>2, <1>3, <1>4, <1>5, <1>6, <1>7, <1>8 DEF CallDrops

LEMMA ReturnNests ==
    ASSUME IInv, Nested, FinishCall
    PROVE  CallsNested' /\ BasesNested' /\ CallBases'
<1>1. /\ CallDrops /\ Len(frames) \in Nat /\ DOMAIN frames = 1 .. Len(frames)
      /\ Len(calls) \in Nat /\ DOMAIN calls = 1 .. Len(calls)
      /\ \A c \in 1 .. Len(calls) : calls[c].caller \in Nat
      /\ CallsNested /\ Caller \in Nat
  BY CallDropped, NestTypes, CallerFacts DEF Nested
<1>2. \A c \in 1 .. Len(calls) - 1 : \A d \in 1 .. c - 1 : d \in 1 .. Len(calls) - 1
  BY <1>1
<1>3. \A c \in DOMAIN calls' :
         /\ ~calls'[c].gone
         /\ calls'[c].caller > Own(calls'[c].line)
         /\ \A d \in 1 .. c - 1 : calls'[c].caller > calls'[d].caller + Own(calls'[c].line)
         /\ calls'[c].line.dir = "again" => calls'[c].skip = 0
  BY <1>1, <1>2 DEF CallDrops, CallsNested
<1>. DEFINE n == Len(calls)
<1>4. /\ n \in DOMAIN calls /\ calls[n].caller = Len(frames) /\ line' = calls[n].line
      /\ calls[n].caller > Own(calls[n].line)
      /\ \A d \in 1 .. n - 1 : calls[n].caller > calls[d].caller + Own(calls[n].line)
  BY <1>1 DEF CallDrops, CallsNested
<1>5. InCond' => Own(calls[n].line) = 1
  BY <1>4 DEF InCond, Own
<1>6. Len(frames) > Caller' + Own(calls[n].line) /\ Caller' \in Nat
  <2>1. CASE n = 1
    <3>1. Caller' = 0
      BY <1>1, <2>1 DEF CallDrops
    <3>2. Own(calls[n].line) \in Nat
      BY DEF Own
    <3>. QED  BY <1>4, <3>1, <3>2
  <2>2. CASE n # 1
    <3>1. n - 1 \in 1 .. n - 1 /\ n - 1 \in 1 .. n
      BY <1>1, <1>4, <2>2
    <3>2. Caller' = calls[n - 1].caller
      BY <1>1, <2>2 DEF CallDrops
    <3>. QED  BY <1>1, <1>4, <3>1, <3>2
  <2>. QED  BY <2>1, <2>2
<1>7. /\ Len(frames) > Caller'
      /\ InCond' => Len(frames) > Caller' + 1
  <2>1. Own(calls[n].line) \in {0, 1}
    BY DEF Own
  <2>2. Len(frames) \in Nat /\ Caller' \in Nat
    BY <1>1, <1>6
  <2>. QED  BY <1>5, <1>6, <2>1, <2>2
<1>8. frames' = frames
  BY <1>1 DEF CallDrops
<1>9. CallsNested'
  <2>1. Len(frames') >= Caller'
    <3>1. Len(frames) \in Nat /\ Caller' \in Nat
      BY <1>1, <1>6
    <3>. QED  BY <1>7, <1>8, <3>1
  <2>. QED  BY <1>3, <1>7, <1>8, <2>1 DEF CallsNested
<1>10. BasesNested'
  BY <1>8 DEF Nested, BasesNested
<1>11. CallBases'
  <2>1. \A c \in DOMAIN calls' :
           /\ c \in DOMAIN calls /\ calls'[c].line = calls[c].line
           /\ calls'[c].base = calls[c].base /\ calls'[c].caller = calls[c].caller
    BY <1>1 DEF CallDrops
  <2>2. CallBases
    BY DEF Nested
  <2>. QED  BY <1>8, <2>1, <2>2 DEF CallBases
<1>. QED  BY <1>9, <1>10, <1>11

LEMMA ReturnOpens ==
    ASSUME IInv, SkipInv, Nested, FinishCall
    PROVE  OpenBlocks'
<1>1. /\ CallDrops /\ Len(frames) \in Nat /\ DOMAIN frames = 1 .. Len(frames)
      /\ DOMAIN blocks = 1 .. Len(blocks) /\ Len(blocks) \in Nat
      /\ Len(calls) \in Nat /\ DOMAIN calls = 1 .. Len(calls)
      /\ \A c \in 1 .. Len(calls) : calls[c].base \in Nat /\ calls[c].skip \in Nat
      /\ Caller \in Nat /\ frames # <<>>
  <2>1. calls # <<>> /\ CallDrops
    BY CallDropped DEF FinishCall, IInv, PcShape
  <2>2. Len(frames) = Caller /\ Caller >= 1
    BY <2>1, CallerFacts DEF CallDrops, Nested
  <2>3. frames # <<>>
    <3>1. Len(frames) # 0
      <4>1. Caller \in Nat
        BY CallerFacts DEF Nested
      <4>. QED  BY <2>2, <4>1
    <3>. QED  BY <3>1, NestTypes, EmptySeq
  <2>4. Caller \in Nat
    BY CallerFacts DEF Nested
  <2>. QED  BY <2>1, <2>3, <2>4, NestTypes
<1>. DEFINE n == Len(calls)
<1>2. /\ n \in DOMAIN calls /\ calls[n].caller = Len(frames) /\ line' = calls[n].line
      /\ Len(blocks) = calls[n].base /\ skipDepth' = calls[n].skip /\ ~HasBlock
      /\ UNCHANGED <<frames, blocks, skipCapture>> /\ pc = "cleanup"
      /\ pc' \in {"value", "evalfail"} /\ Len(frames) = Caller
  BY <1>1 DEF CallDrops
<1>3. ~skipCapture /\ \A k \in DOMAIN blocks : ~Collects(blocks[k])
  BY <1>2 DEF Nested, CapturesTop
<1>4. CapturesTop'
  BY <1>2, <1>3 DEF CapturesTop
<1>5. \A j \in DOMAIN frames : j <= Caller
  <2>1. Len(frames) \in Nat
    BY <1>1
  <2>. QED  BY <1>1, <1>2, <2>1
<1>6. \A j \in DOMAIN frames : frames[j].base <= Len(blocks) /\ BodyOpen(frames[j])
  BY <1>2, <1>5 DEF Nested, FramesOpen
<1>7. InCond' => /\ Top(frames).base = Len(blocks) /\ ~Body(Top(frames))
                 /\ Top(frames).rest = <<>>
  <2>1. InCond' => calls[n].line.dir \in CondDirs
    BY <1>2 DEF InCond
  <2>2. Len(frames) \in DOMAIN frames
    <3>1. Len(frames) > 0
      BY <1>1, NestTypes, EmptySeq
    <3>. QED  BY <1>1, <3>1
  <2>. QED  BY <1>2, <2>1, <2>2 DEF Nested, CallBases, Top
<1>8. FramesOpen'
  <2>1. \A j \in DOMAIN frames : BodyOpen(frames[j])'
    BY <1>2, <1>6 DEF BodyOpen
  <2>. QED  BY <1>2, <1>6, <1>7, <2>1 DEF FramesOpen
<1>9. ASSUME calls[n].line.dir \in {"again", "elif"}
      PROVE  HasBlock' /\ TopKind' = blocks[Len(blocks)].kind
             /\ blocks[Len(blocks)].kind = IF calls[n].line.dir = "again" THEN "while" ELSE "if"
  <2>1. /\ calls[n].base > 0 /\ (n > 1 => calls[n].base > calls[n - 1].base)
        /\ blocks[calls[n].base].kind = IF calls[n].line.dir = "again" THEN "while" ELSE "if"
    BY <1>2, <1>9 DEF IInv, CallShape
  <2>2. HasBlock'
    <3>1. CASE n = 1
      <4>1. BlockBase' = 0
        BY <1>1, <3>1 DEF CallDrops
      <4>. QED  BY <1>2, <2>1, <4>1 DEF HasBlock
    <3>2. CASE n # 1
      <4>1. BlockBase' = calls[n - 1].base
        BY <1>1, <3>2 DEF CallDrops
      <4>2. n > 1
        BY <1>1, <1>2, <3>2
      <4>. QED  BY <1>2, <2>1, <4>1, <4>2 DEF HasBlock
    <3>. QED  BY <3>1, <3>2
  <2>. QED  BY <1>2, <2>1, <2>2 DEF TopKind, Top
<1>10. /\ calls[n].line.dir = "again" => skipDepth' = 0
       /\ skipDepth' > 0 => calls[n].line.dir = "elif"
  <2>1. calls[n].line.dir = "again" => calls[n].skip = 0
    BY <1>2 DEF Nested, CallsNested
  <2>2. calls[n].line.dir \notin {"elif", "again"} => calls[n].skip = 0
    BY <1>2 DEF SkipInv, CallerSkip
  <2>3. calls[n].skip > 0 => calls[n].skip # 0
    BY <1>1, <1>2
  <2>. QED  BY <1>2, <2>1, <2>2, <2>3
<1>11. Looping' <=> calls[n].line.dir = "again"
  BY <1>2 DEF Looping, Evaluating
<1>12. SkipsOwn'
  <2>1. ASSUME skipDepth' > 0
        PROVE  HasBlock' /\ \A j \in DOMAIN frames : Body(frames[j]) => frames[j].base < Len(blocks)
    <3>1. HasBlock' /\ blocks[Len(blocks)].kind = "if"
      BY <1>9, <1>10, <2>1
    <3>2. \A j \in DOMAIN frames : Body(frames[j]) => frames[j].base # Len(blocks)
      BY <1>6, <3>1 DEF BodyOpen, LoopKinds
    <3>3. \A j \in DOMAIN frames : frames[j].base \in Nat /\ frames[j].base <= Len(blocks)
      BY <1>6, NestTypes
    <3>. QED  BY <1>1, <3>1, <3>2, <3>3
  <2>2. ASSUME Looping'
        PROVE  /\ skipDepth' = 0 /\ TopKind' \in LoopKinds /\ ~Top(blocks).capturing /\ InCond'
               /\ \A j \in DOMAIN frames : j < Len(frames) => frames[j].base < Len(blocks)
    <3>1. calls[n].line.dir = "again"
      BY <1>11, <2>2
    <3>2. HasBlock' /\ TopKind' = "while"
      BY <1>9, <3>1
    <3>3. Len(blocks) \in DOMAIN blocks
      BY <1>1, <1>2, <3>1 DEF IInv, CallShape
    <3>4. ~Top(blocks).capturing
      BY <1>3, <3>3 DEF Collects, Top
    <3>5. \A j \in DOMAIN frames : j < Len(frames) => frames[j].base < Len(blocks)
      BY <1>2, <3>1 DEF Nested, CallBases
    <3>6. InCond'
      BY <1>2, <3>1 DEF InCond, Evaluating, CondDirs
    <3>. QED  BY <1>10, <3>1, <3>2, <3>4, <3>5, <3>6 DEF LoopKinds
  <2>. QED  BY <1>2, <2>1, <2>2 DEF SkipsOwn
<1>13. LoopsRun'
  <2>1. ASSUME NEW k \in DOMAIN blocks, blocks[k].kind \in LoopKinds, ~blocks[k].capturing
        PROVE  \/ \E j \in DOMAIN frames : Body(frames[j]) /\ frames[j].base = k
               \/ k = Len(blocks) /\ HasBlock' /\ Looping'
               \/ \E c \in DOMAIN calls' : calls'[c].base = k /\ calls'[c].line.dir = "again"
    <3>1. CASE \E j \in DOMAIN frames : Body(frames[j]) /\ frames[j].base = k
      BY <3>1
    <3>2. CASE \E c \in DOMAIN calls : calls[c].base = k /\ calls[c].line.dir = "again"
      <4>1. PICK c \in DOMAIN calls : calls[c].base = k /\ calls[c].line.dir = "again"
        BY <3>2
      <4>2. CASE c = n
        BY <1>2, <1>9, <1>11, <4>1, <4>2
      <4>3. CASE c # n
        <5>1. c \in 1 .. n - 1
          <6>1. n \in Nat /\ c \in 1 .. n
            BY <1>1, <4>1
          <6>. QED  BY <4>3, <6>1
        <5>2. c \in DOMAIN calls' /\ calls'[c].base = k /\ calls'[c].line.dir = "again"
          BY <1>1, <4>1, <5>1 DEF CallDrops
        <5>. QED  BY <5>2
      <4>. QED  BY <4>2, <4>3
    <3>. QED  BY <1>2, <2>1, <3>1, <3>2 DEF Nested, LoopsRun
  <2>. QED  BY <1>2, <2>1 DEF LoopsRun
<1>. QED  BY <1>4, <1>8, <1>12, <1>13 DEF OpenBlocks

\* A step that pops a frame only shrinks the stack; FetchLine moves no frame.
LEMMA ShrinksWhen ==
    ASSUME Local, frames # <<>>, frames' = Under(frames)
    PROVE  Shrinks
<1>1. IInv /\ FrameMove /\ frames \in Seq(Frames) /\ Len(frames) \in Nat
  BY LocalFacts, NestTypes DEF Local
<1>2. Popped
  BY <1>1, MovedOnce
<1>3. Len(frames) > 0
  BY <1>1, EmptySeq
<1>4. Len(frames') = Len(frames) - 1
      /\ \A j \in 1 .. Len(frames) - 1 : frames'[j] = frames[j]
  BY <1>1, <1>3, UnderType
<1>. QED  BY <1>2, <1>4 DEF Shrinks

LEMMA NotMoved ==
    ASSUME IInv, FetchLine
    PROVE  ~(\E f : Grows(f)) /\ ~Shrinks
<1>1. Len(frames) \in Nat /\ frames \in Seq(Frames)
  BY NestTypes
<1>2. Len(frames') = Len(frames)
  <2>1. CASE frames' = frames
    BY <2>1
  <2>2. CASE frames' # frames
    <3>1. frames' = [frames EXCEPT ![Len(frames)].rest = Tail(@)]
      BY <2>2 DEF FetchLine
    <3>2. DOMAIN frames' = DOMAIN frames
      BY <3>1
    <3>. QED  BY <1>1, <3>1, <3>2, LenProperties
  <2>. QED  BY <2>1, <2>2
<1>. QED  BY <1>1, <1>2 DEF Grows, Shrinks

-----------------------------------------------------------------------------
(* Every step is one of the moves *)

Sound == pc' \in {"eof", "failed"} \/ (OpenBlocks' /\ pc' \notin {"assert", "crash"})

LEMMA MovesSound ==
    ASSUME Local, pc' \notin {"assert", "crash"},
           \/ QuietMove
           \/ \E f : GrowMove(f)
           \/ \E b : PushMove(b)
           \/ CloseMove \/ DropMove \/ BodyMove \/ UnwindMove \/ CapturedMove
    PROVE  Sound
<1>1. IInv /\ BodyInv /\ Nested /\ CallBones
  BY LocalFacts DEF Local
<1>2. CASE QuietMove
  BY <1>1, <1>2, QuietMoved DEF Sound
<1>3. CASE \E f : GrowMove(f)
  BY <1>1, <1>3, GrowMoved DEF Sound
<1>4. CASE \E b : PushMove(b)
  BY <1>1, <1>4, PushMoved DEF Sound
<1>5. CASE CloseMove
  BY <1>1, <1>5, CloseMoved DEF Sound
<1>6. CASE DropMove
  BY <1>1, <1>6, DropMoved DEF Sound
<1>7. CASE BodyMove
  BY <1>1, <1>7, BodyMoved DEF Sound
<1>8. CASE UnwindMove
  BY <1>1, <1>8, UnwindMoved DEF Sound
<1>9. CASE CapturedMove
  BY <1>1, <1>9, CapturedMoved DEF Sound
<1>. QED  BY <1>2, <1>3, <1>4, <1>5, <1>6, <1>7, <1>8, <1>9

LEMMA SameBones ==
    ASSUME IInv
    PROVE  /\ blocks' = blocks => Bones
           /\ frames' = frames => Stays
<1>1. blocks \in Seq(Blocks)
  BY NestTypes
<1>2. blocks' = blocks => Bones
  BY <1>1 DEF Bones
<1>3. frames' = frames => Stays
  BY DEF Stays
<1>. QED  BY <1>2, <1>3

\* The top block is replaced by one of its kind.
LEMMA TopBones ==
    ASSUME IInv, HasBlock, NEW b \in Blocks, b.kind = Top(blocks).kind,
           b.capturing = Top(blocks).capturing, blocks' = SetTop(b)
    PROVE  Bones
<1>1. blocks \in Seq(Blocks) /\ Len(blocks) \in Nat /\ DOMAIN blocks = 1 .. Len(blocks)
      /\ Len(blocks) \in DOMAIN blocks /\ Top(blocks) = blocks[Len(blocks)]
  BY NestTypes, TopFields
<1>2. blocks' = [blocks EXCEPT ![Len(blocks)] = b]
  BY DEF SetTop
<1>3. blocks' \in Seq(Blocks) /\ Len(blocks') = Len(blocks)
  BY <1>1, <1>2, ExceptSeq
<1>4. \A k \in 1 .. Len(blocks) : blocks'[k] = IF k = Len(blocks) THEN b ELSE blocks[k]
  BY <1>1, <1>2
<1>. QED  BY <1>1, <1>3, <1>4 DEF Bones

\* A step that leaves frames and blocks where they are, and neither starts nor
\* ends the condition of a loop.
LEMMA QuietSound ==
    ASSUME Local, UNCHANGED <<frames, skipCapture>>, Bones, pc \notin {"cleanup", "leave"},
           pc' \notin {"assert", "crash"},
           \/ pc' \in {"fail", "cleanup"} /\ skipDepth' = skipDepth
           \/ /\ ~Looping /\ ~Failing /\ ~Looping' /\ ~InCond'
              /\ \/ skipDepth' = skipDepth
                 \/ TopKind = "if"
                 \/ skipDepth > 0 /\ skipDepth' > 0
    PROVE  Sound
<1>1. Stays
  BY SameBones DEF Local
<1>2. pc' \in {"fail", "cleanup"} => Failing' /\ ~Looping' /\ ~InCond'
  BY DEF Failing, Looping, InCond, Evaluating
<1>3. QuietMove
  BY <1>1, <1>2 DEF QuietMove
<1>. QED  BY <1>3, MovesSound

LEMMA FailSound ==
    ASSUME Local, pc' = "fail", UNCHANGED <<frames, blocks, skipDepth, skipCapture>>,
           pc \notin {"cleanup", "leave"}
    PROVE  Sound
<1>1. Bones
  BY SameBones DEF Local
<1>. QED  BY <1>1, QuietSound

LEMMA PlainSound ==
    ASSUME Local, UNCHANGED <<frames, blocks, skipDepth, skipCapture>>,
           pc \in {"run", "line", "eval", "value"}, ~Looping,
           pc' \in {"run", "leave", "eval", "cleanup"},
           pc' = "eval" => line'.dir \notin CondDirs
    PROVE  Sound
<1>1. Bones
  BY SameBones DEF Local
<1>2. ~Failing /\ ~Looping' /\ ~InCond'
  BY DEF Failing, Looping, InCond, Evaluating, CondDirs
<1>. QED  BY <1>1, <1>2, QuietSound

LEMMA FetchSound ==
    ASSUME Local, Fetch
    PROVE  Sound
<1>0. IInv /\ SkipInv /\ Nested /\ pc \in {"run", "line"} /\ ~Looping /\ ~Failing /\ ~InCond
  BY DEF Local, Fetch, FetchPending, FetchLine, FrameExhausted, EndOfInput, UnterminatedBlock,
     PlainToken, Looping, Failing, InCond, Evaluating
<1>1. CASE FetchPending \/ PlainToken
  BY <1>0, <1>1, PlainSound DEF FetchPending, PlainToken, YieldToken
<1>2. CASE FetchLine
  <2>1. Stays /\ Bones
    <3>1. FrameMove
      BY LocalFacts
    <3>2. Stays
      <4>1. ~(\E f : Grows(f)) /\ ~Shrinks
        BY <1>0, <1>2, NotMoved
      <4>. QED  BY <1>0, <3>1, <4>1, FrameMoved
    <3>. QED  BY <1>0, <1>2, <3>2, SameBones DEF FetchLine
  <2>2. pc' = "line" /\ UNCHANGED <<skipDepth, skipCapture>>
    BY <1>2 DEF FetchLine
  <2>3. QuietMove
    BY <1>0, <2>1, <2>2 DEF QuietMove, Failing, Looping, InCond, Evaluating
  <2>. QED  BY <2>2, <2>3, MovesSound
<1>3. CASE EndOfInput \/ UnterminatedBlock
  <2>1. calls = <<>>
    <3>1. frames = <<>> /\ pc # "cleanup"
      BY <1>3 DEF EndOfInput, UnterminatedBlock
    <3>2. Len(frames) = 0 /\ Caller \in Nat
      BY <1>0, <3>1, CallerFacts, EmptySeq DEF Nested
    <3>. QED  BY <1>0, <3>1, <3>2 DEF Nested, CallsNested
  <2>. QED  BY <1>3, <2>1 DEF EndOfInput, UnterminatedBlock, Sound
<1>4. CASE FrameExhausted
  <2>1. Shrinks
    BY <1>0, <1>4, ShrinksWhen DEF FrameExhausted, PopFrame
  <2>2. /\ UNCHANGED <<blocks, skipDepth, skipCapture>>
        /\ Top(frames).base = Len(blocks)
        /\ pc = "run" /\ pc' = IF Body(Top(frames)) THEN "exhausted" ELSE "run"
    BY <1>4 DEF FrameExhausted, Local, Body
  <2>3. CASE Body(Top(frames))
    <3>1. skipDepth = 0
      <4>1. Len(frames) \in DOMAIN frames /\ Top(frames) = frames[Len(frames)]
        BY <1>0, <2>1, ShrinkFacts
      <4>2. Body(frames[Len(frames)]) /\ frames[Len(frames)].base = Len(blocks)
        BY <2>2, <2>3, <4>1
      <4>3. skipDepth > 0 => frames[Len(frames)].base < Len(blocks)
        BY <1>0, <4>1, <4>2 DEF Nested, SkipsOwn
      <4>4. skipDepth \in Nat /\ Len(blocks) \in Nat
        BY <1>0, NestTypes
      <4>. QED  BY <4>2, <4>3, <4>4
    <3>2. BodyMove
      BY <1>0, <2>1, <2>2, <2>3, <3>1 DEF BodyMove
    <3>. QED  BY <2>2, <2>3, <3>2, MovesSound
  <2>4. CASE ~Body(Top(frames))
    <3>1. DropMove
      BY <1>0, <2>1, <2>2, <2>4 DEF DropMove, Failing, Looping, InCond, Evaluating
    <3>. QED  BY <2>2, <2>4, <3>1, MovesSound
  <2>. QED  BY <2>3, <2>4
<1>. QED  BY <1>1, <1>2, <1>3, <1>4 DEF Fetch

LEMMA GrowsWhen ==
    ASSUME IInv, NEW f, Pushed(f)
    PROVE  Grows(f)
<1>1. frames \in Seq(Frames) /\ Len(frames) \in Nat /\ f \in Frames
      /\ frames' = Append(frames, f)
  BY NestTypes DEF Pushed
<1>. QED  BY <1>1, AppendProperties DEF Grows

LEMMA NewLoop ==
    /\ \A cond \in BOOLEAN :
         LET b == [NewBlock("if") EXCEPT !.taken = cond, !.hasScope = cond]
         IN  b \in Blocks /\ b.kind = "if" /\ ~Collects(b)
    /\ \A p \in BOOLEAN :
         LET b == [NewBlock("func") EXCEPT !.public = p]
         IN  b \in Blocks /\ b.kind = "func" /\ Collects(b)
    /\ \A n \in Nat :
         LET b == [NewBlock("for") EXCEPT !.capturing = n # 0, !.left = n]
         IN  b \in Blocks /\ b.kind = "for" /\ (Collects(b) <=> b.capturing)
    /\ \A c \in BOOLEAN : \A e \in Exprs :
         LET b == [NewBlock("while") EXCEPT !.capturing = c, !.cond = e]
         IN  b \in Blocks /\ b.kind = "while" /\ (Collects(b) <=> b.capturing)
<1>1. \A cond \in BOOLEAN : [NewBlock("if") EXCEPT !.taken = cond, !.hasScope = cond].kind = "if"
  BY DEF NewBlock
<1>2. \A b : b.kind = "func" => Collects(b)
  BY DEF Collects
<1>3. ASSUME NEW n \in Nat
      PROVE  LET b == [NewBlock("for") EXCEPT !.capturing = n # 0, !.left = n]
             IN  b \in Blocks /\ b.kind = "for" /\ (Collects(b) <=> b.capturing)
  <2>. DEFINE b == [NewBlock("for") EXCEPT !.capturing = n # 0, !.left = n]
  <2>1. b \in Blocks /\ b.kind = "for"
    BY NewBlockFacts
  <2>2. Collects(b) <=> b.capturing
    BY NewReplayable
  <2>. QED  BY <2>1, <2>2
<1>4. \A cond \in BOOLEAN :
         LET b == [NewBlock("if") EXCEPT !.taken = cond, !.hasScope = cond]
         IN  b \in Blocks /\ b.kind = "if" /\ ~Collects(b)
  BY <1>1, NewBlockFacts, NewReplayable
<1>5. \A p \in BOOLEAN :
         LET b == [NewBlock("func") EXCEPT !.public = p]
         IN  b \in Blocks /\ b.kind = "func" /\ Collects(b)
  BY <1>2, NewBlockFacts
<1>6. ASSUME NEW c \in BOOLEAN, NEW e \in Exprs
      PROVE  LET b == [NewBlock("while") EXCEPT !.capturing = c, !.cond = e]
             IN  b \in Blocks /\ b.kind = "while" /\ (Collects(b) <=> b.capturing)
  <2>. DEFINE b == [NewBlock("while") EXCEPT !.capturing = c, !.cond = e]
  <2>1. b \in Blocks /\ b.kind = "while"
    BY NewBlockFacts
  <2>2. Collects(b) <=> b.capturing
    BY NewReplayable
  <2>. QED  BY <2>1, <2>2
<1>. QED  BY <1>3, <1>4, <1>5, <1>6

\* A directive that opens a block.
LEMMA PushSound ==
    ASSUME Local, NEW b \in Blocks, blocks' = Append(blocks, b), pc' = "run",
           skipDepth = 0, pc \in {"line", "eval", "value"}, ~Looping,
           frames' = frames \/ (frames # <<>> /\ frames' = Under(frames) /\ InCond),
           b.kind \in LoopKinds \/ Collects(b) => skipDepth' > 0,
           skipCapture' = (skipCapture \/ Collects(b))
    PROVE  Sound
<1>1. frames' = frames \/ (Shrinks /\ InCond)
  BY ShrinksWhen
<1>2. PushMove(b)
  BY <1>1 DEF PushMove, Failing
<1>. QED  BY <1>2, MovesSound

\* Pops the top block, with the frame of its condition or of its body.
LEMMA CloseSound ==
    ASSUME Local, HasBlock, blocks' = Under(blocks), pc' = "run", skipDepth' = 0, ~skipCapture',
           frames' = frames, pc # "cleanup",
           \A j \in 1 .. Len(frames) : frames[j].base < Len(blocks)
    PROVE  Sound
<1>1. DOMAIN frames' = 1 .. Len(frames)
  BY NestTypes DEF Local
<1>2. CloseMove
  BY <1>1 DEF CloseMove
<1>. QED  BY <1>2, MovesSound

LEMMA HandleSound ==
    ASSUME Local, Handle
    PROVE  Sound
<1>1. /\ IInv /\ SkipInv /\ Nested /\ ClosesOwn /\ ~ragged' /\ skipDepth \in Nat
      /\ pc = "line" /\ skipDepth = 0
  BY NestTypes DEF Local, Handle, OpLimitExceeded, HandleOperand, HandleStrayReturn,
     HandleUnknown, HandleElse, HandleElif, HandleEnd, HandleFunc, HandleWhile, HandleLeave,
     HandleInclude, HandleEmit, HandleVar, HandleSet, Active
<1>2. ~Looping /\ ~Failing /\ ~InCond /\ ~skipCapture
  BY <1>1 DEF Looping, Failing, InCond, Evaluating, Nested, CapturesTop
<1>3. ReportAndFail => Sound
  BY <1>1, FailSound DEF ReportAndFail, Fail
<1>4. CASE \/ OpLimitExceeded \/ HandleOperand \/ HandleStrayReturn \/ HandleUnknown
           \/ HandleLeave \/ HandleEmit \/ HandleVar \/ HandleSet
  <2>1. CASE ~ReportAndFail
    <3>1. /\ UNCHANGED <<frames, blocks, skipDepth, skipCapture>>
          /\ pc' \in {"run", "leave", "eval"}
          /\ pc' = "eval" => line'.dir \notin CondDirs
      BY <1>4, <2>1 DEF OpLimitExceeded, HandleOperand, HandleStrayReturn, HandleUnknown,
         HandleLeave, HandleEmit, HandleVar, HandleSet, BeginEval, Active, CondDirs
    <3>. QED  BY <1>1, <1>2, <3>1, PlainSound
  <2>. QED  BY <1>3, <2>1
<1>5. CASE HandleElse
  <2>1. CASE ElseRefused
    BY <1>3, <1>5, <2>1 DEF HandleElse
  <2>2. CASE ~ElseRefused
    <3>1. TopKind = "if"
      BY <2>2 DEF ElseRefused
    <3>2. Top(blocks).hasScope /\ HasBlock
      BY <1>1, <3>1, TopBranch DEF SkipInv
    <3>3. /\ blocks' = SetTop([Top(blocks) EXCEPT !.hadElse = TRUE, !.hasScope = FALSE])
          /\ pc' = "run" /\ UNCHANGED <<frames, skipCapture>>
      BY <1>5, <2>2, <3>2 DEF HandleElse
    <3>. DEFINE b == [Top(blocks) EXCEPT !.hadElse = TRUE, !.hasScope = FALSE]
    <3>4. b \in Blocks /\ b.kind = Top(blocks).kind /\ b.capturing = Top(blocks).capturing
      BY <1>1, <3>2, TopFields DEF Blocks
    <3>. HIDE DEF b
    <3>5. Bones
      BY <1>1, <3>2, <3>3, <3>4, TopBones DEF b
    <3>6. ~Looping' /\ ~InCond'
      BY <3>3 DEF Looping, InCond, Evaluating
    <3>. QED  BY <1>1, <1>2, <3>1, <3>3, <3>5, <3>6, QuietSound
  <2>. QED  BY <2>1, <2>2
<1>6. CASE HandleElif
  <2>1. CASE ElseRefused
    BY <1>3, <1>6, <2>1 DEF HandleElif
  <2>2. CASE ~ElseRefused
    <3>1. TopKind = "if"
      BY <2>2 DEF ElseRefused
    <3>2. UNCHANGED <<frames, blocks, skipCapture>> /\ (pc' = "run" \/ (pc' = "fail" /\ skipDepth' = skipDepth))
      BY <1>6, <2>2 DEF HandleElif, Fail
    <3>3. Bones
      BY <1>1, <3>2, SameBones
    <3>4. pc' = "run" => ~Looping' /\ ~InCond'
      BY DEF Looping, InCond, Evaluating
    <3>. QED  BY <1>1, <1>2, <3>1, <3>2, <3>3, <3>4, QuietSound
  <2>. QED  BY <2>1, <2>2
<1>7. CASE HandleEnd
  <2>1. CASE TopKind = "none"
    BY <1>3, <1>7, <2>1 DEF HandleEnd
  <2>2. CASE TopKind # "none"
    <3>1. TopKind = "if"
      BY <1>1, <1>7, <2>2, EndKinds
    <3>2. HasBlock /\ \A j \in 1 .. Len(frames) : frames[j].base < Len(blocks)
      BY <1>1, <1>7, <2>2, EndFacts
    <3>3. /\ blocks' = Under(blocks) /\ pc' = "run" /\ frames' = frames /\ skipDepth' = skipDepth
          /\ skipCapture' = skipCapture
      BY <1>7, <3>1 DEF HandleEnd, PopIfBlock
    <3>. QED  BY <1>1, <1>2, <3>2, <3>3, CloseSound
  <2>. QED  BY <2>1, <2>2
<1>8. CASE HandleFunc
  <2>1. CASE ReportAndFail
    BY <1>3, <2>1
  <2>2. CASE ~ReportAndFail
    <3>. DEFINE b == [NewBlock("func") EXCEPT !.public = line.public]
    <3>1. /\ blocks' = Append(blocks, b) /\ skipCapture' = TRUE /\ skipDepth' = skipDepth + 1
          /\ pc' = "run" /\ frames' = frames
      BY <1>8, <2>2 DEF HandleFunc
    <3>2. line.public \in BOOLEAN
      BY <1>1 DEF IInv, TypeOK, Line
    <3>3. b \in Blocks /\ Collects(b)
      BY <3>2, NewLoop
    <3>. HIDE DEF b
    <3>4. skipDepth' > 0
      BY <1>1, <3>1
    <3>. QED  BY <1>1, <1>2, <3>1, <3>3, <3>4, PushSound
  <2>. QED  BY <2>1, <2>2
<1>9. ASSUME NEW file \in BOOLEAN, frames' = Append(frames, NewFrame("FRAME_CALL", file, <<>>)),
             UNCHANGED <<blocks, skipDepth, skipCapture>>,
             IF file THEN pc' = "run" ELSE pc' = "eval" /\ line'.dir = "while"
      PROVE  Sound
  <2>. DEFINE f == NewFrame("FRAME_CALL", file, <<>>)
  <2>1. Pushed(f)
    <3>1. <<>> \in Seq(Line)
      BY EmptySeq
    <3>. QED  BY <1>1, <1>9, <3>1, PushedNew
  <2>2. ~Body(f) /\ f.rest = <<>>
    BY DEF NewFrame, Body
  <2>. HIDE DEF f
  <2>3. Grows(f) /\ Bones
    BY <1>1, <1>9, <2>1, GrowsWhen, SameBones
  <2>4. ~Looping' /\ (pc' = "eval" => InCond')
    BY <1>9 DEF Looping, InCond, Evaluating, CondDirs
  <2>5. pc' \in {"run", "eval"}
    BY <1>9
  <2>6. GrowMove(f)
    BY <1>1, <1>2, <1>9, <2>2, <2>3, <2>4, <2>5 DEF GrowMove
  <2>. QED  BY <2>5, <2>6, MovesSound
<1>10. CASE HandleWhile
  <2>1. CASE ReportAndFail
    BY <1>3, <2>1
  <2>2. CASE ~ReportAndFail
    <3>1. /\ frames' = Append(frames, NewFrame("FRAME_CALL", FALSE, <<>>))
          /\ UNCHANGED <<blocks, skipDepth, skipCapture>> /\ pc' = "eval" /\ line'.dir = "while"
      BY <1>10, <2>2 DEF HandleWhile, PushCondFrame, Active
    <3>. QED  BY <1>9, <3>1
  <2>. QED  BY <2>1, <2>2
<1>11. CASE HandleInclude
  <2>1. CASE ReportAndFail
    BY <1>3, <2>1
  <2>2. CASE pc' = "fail" /\ ~ReportAndFail
    BY <1>1, <1>11, <2>2, FailSound DEF HandleInclude
  <2>3. CASE pc' # "fail" /\ ~ReportAndFail
    <3>1. /\ frames' = Append(frames, NewFrame("FRAME_CALL", TRUE, <<>>))
          /\ UNCHANGED <<blocks, skipDepth, skipCapture>> /\ pc' = "run"
      BY <1>11, <2>3 DEF HandleInclude, Fail
    <3>. QED  BY <1>9, <3>1
  <2>. QED  BY <2>1, <2>2, <2>3
<1>. QED  BY <1>4, <1>5, <1>6, <1>7, <1>8, <1>10, <1>11 DEF Handle

LEMMA EvaluateSound ==
    ASSUME Local, Evaluate
    PROVE  Sound
<1>1. /\ IInv /\ SkipInv /\ BodyInv /\ Nested /\ ~EvalCall /\ skipDepth \in Nat
      /\ pc \in Evaluating /\ Len(frames) \in Nat /\ Caller \in Nat
      /\ frames \in Seq(Frames)
  BY NestTypes, CallerFacts DEF Local, Nested, Evaluate, EvalRejected, EvalFailed,
     CondFrameGone, ReturnValue, DirectiveCond, DirectiveValue, ErrorDirective, ElifCond,
     ValueOf, Evaluating
<1>2. pc \notin {"cleanup", "leave", "fail"} /\ ~Failing
  BY <1>1 DEF Evaluating, Failing
<1>3. InCond => frames # <<>> /\ ~Body(Top(frames))
  <2>1. InCond => Len(frames) > Caller + 1 /\ ~Body(Top(frames))
    BY <1>1 DEF Nested, CallsNested, FramesOpen
  <2>. QED  BY <1>1, <2>1, EmptySeq
<1>4. CASE EvalRejected
  <2>1. /\ UNCHANGED <<frames, blocks, line, skipDepth, skipCapture>>
        /\ pc = "eval" /\ pc' = "evalfail"
    BY <1>4 DEF EvalRejected
  <2>2. Stays /\ Bones
    BY <1>1, <2>1, SameBones
  <2>3. QuietMove
    BY <1>1, <2>1, <2>2 DEF QuietMove, InCond, Looping, Failing, Evaluating
  <2>. QED  BY <2>1, <2>3, MovesSound
<1>5. CASE EvalFailed
  <2>1. CASE line.dir \notin {"while", "again"}
    BY <1>2, <1>5, <2>1, FailSound DEF EvalFailed, Fail
  <2>2. CASE line.dir \in {"while", "again"}
    <3>1. InCond
      BY <1>1, <2>2 DEF InCond, CondDirs
    <3>2. /\ frames # <<>> /\ frames' = Under(frames) /\ pc' = "fail"
          /\ UNCHANGED <<blocks, skipDepth, skipCapture>>
      BY <1>3, <1>5, <2>2, <3>1 DEF EvalFailed, PopFrame, Fail
    <3>3. Shrinks
      BY <3>2, ShrinksWhen
    <3>4. DropMove
      BY <1>2, <1>3, <3>1, <3>2, <3>3 DEF DropMove, InCond, Looping, Failing, Evaluating
    <3>. QED  BY <3>2, <3>4, MovesSound
  <2>. QED  BY <2>1, <2>2
<1>6. ~CondFrameGone
  BY <1>1, <1>3 DEF CondFrameGone, ValueOf, InCond, CondDirs
<1>7. CASE ReturnValue \/ DirectiveValue
  BY <1>1, <1>7, PlainSound DEF ReturnValue, DirectiveValue, ValueOf, Looping, Evaluating
<1>8. CASE ErrorDirective
  BY <1>2, <1>8, FailSound DEF ErrorDirective, ReportAndFail, Fail
<1>9. CASE DirectiveCond
  <2>1. /\ skipDepth = 0 /\ ~Looping /\ line.expr \in Exprs
        /\ pc \in {"line", "eval", "value"} /\ skipDepth + 1 > 0
    BY <1>1, <1>9 DEF DirectiveCond, ValueOf, SkipInv, HandlerSkip, Looping, Evaluating, IInv,
       TypeOK, Line
  <2>2. CASE ValueOf({"if"}) /\ \E cond \in BOOLEAN : IfBranch(cond)
    <3>1. PICK cond \in BOOLEAN : IfBranch(cond)
      BY <2>2
    <3>. DEFINE b == [NewBlock("if") EXCEPT !.taken = cond, !.hasScope = cond]
    <3>2. b \in Blocks /\ b.kind \notin LoopKinds /\ ~Collects(b)
      BY NewLoop DEF LoopKinds
    <3>3. /\ blocks' = Append(blocks, b) /\ pc' = "run"
          /\ UNCHANGED <<frames, skipCapture>>
      BY <3>1 DEF IfBranch
    <3>. HIDE DEF b
    <3>4. skipCapture' = (skipCapture \/ Collects(b))
      BY <1>1, <3>2, <3>3 DEF IInv, TypeOK
    <3>. QED  BY <2>1, <3>2, <3>3, <3>4, PushSound
  <2>3. ASSUME NEW b \in Blocks, b.kind \in LoopKinds, Collects(b) <=> b.capturing, BeginLoop(b),
               frames' = frames \/ (frames # <<>> /\ frames' = Under(frames) /\ InCond)
        PROVE  Sound
    <3>1. /\ blocks' = Append(blocks, b) /\ pc' = "run" /\ skipDepth' = skipDepth + 1
          /\ skipCapture' = IF b.capturing THEN TRUE ELSE skipCapture
      BY <2>3 DEF BeginLoop
    <3>2. b.capturing \in BOOLEAN /\ skipCapture \in BOOLEAN
      BY <1>1 DEF Blocks, IInv, TypeOK
    <3>3. Collects(b) \in BOOLEAN
      BY DEF Collects
    <3>4. skipCapture' = (skipCapture \/ Collects(b))
      <4>1. CASE b.capturing
        BY <2>3, <3>1, <4>1
      <4>2. CASE ~b.capturing
        BY <2>3, <3>1, <3>2, <4>2
      <4>. QED  BY <4>1, <4>2
    <3>5. skipDepth' > 0
      BY <2>1, <3>1
    <3>. QED  BY <2>1, <2>3, <3>1, <3>4, <3>5, PushSound
  <2>4. CASE ValueOf({"while"}) /\ \E cond \in BOOLEAN : WhileFirst(cond)
    <3>1. PICK cond \in BOOLEAN : WhileFirst(cond)
      BY <2>4
    <3>. DEFINE b == [NewBlock("while") EXCEPT !.capturing = cond, !.cond = line.expr]
    <3>2. BeginLoop(b) /\ frames # <<>> /\ frames' = Under(frames)
      BY <3>1 DEF WhileFirst, PopFrame
    <3>3. b \in Blocks /\ b.kind \in LoopKinds /\ (Collects(b) <=> b.capturing)
      <4>1. \A e \in Exprs :
               LET l == [NewBlock("while") EXCEPT !.capturing = cond, !.cond = e]
               IN  l \in Blocks /\ l.kind = "while" /\ (Collects(l) <=> l.capturing)
        BY NewLoop
      <4>2. line.expr \in Exprs
        BY <2>1
      <4>3. b \in Blocks /\ b.kind = "while" /\ (Collects(b) <=> b.capturing)
        BY ZenonT(30), <4>1, <4>2
      <4>. HIDE DEF b
      <4>. QED  BY <4>3 DEF LoopKinds
    <3>4. InCond
      BY <1>1, <2>4 DEF ValueOf, InCond, CondDirs
    <3>. HIDE DEF b
    <3>. QED  BY <2>3, <3>2, <3>3, <3>4
  <2>5. CASE ValueOf({"for"}) /\ \E count \in 0 .. MaxItems : ForItems(count)
    <3>1. PICK count \in 0 .. MaxItems : ForItems(count)
      BY <2>5
    <3>. DEFINE b == [NewBlock("for") EXCEPT !.capturing = count # 0, !.left = count]
    <3>2. BeginLoop(b) /\ frames' = frames
      BY <3>1 DEF ForItems
    <3>3. count \in Nat
      BY LimitAssumption
    <3>4. b \in Blocks /\ b.kind \in LoopKinds /\ (Collects(b) <=> b.capturing)
      BY <3>3, NewLoop DEF LoopKinds
    <3>. HIDE DEF b
    <3>. QED  BY <2>3, <3>2, <3>4
  <2>. QED  BY <1>9, <2>2, <2>4, <2>5 DEF DirectiveCond
<1>10. CASE ElifCond
  <2>1. /\ TopKind = "if" /\ skipDepth = 1 /\ ~Top(blocks).hasScope /\ HasBlock
        /\ UNCHANGED <<frames, skipCapture>> /\ ~Looping
    BY <1>1, <1>10, TopBranch DEF ElifCond, ValueOf, SkipInv, HandlerSkip, IInv, PcShape,
       Looping, Evaluating
  <2>2. pc' = "run"
    BY <1>10, <2>1 DEF ElifCond
  <2>3. Bones
    <3>1. CASE blocks' = blocks
      BY <1>1, <3>1, SameBones
    <3>2. CASE blocks' # blocks
      <4>. DEFINE b == [Top(blocks) EXCEPT !.taken = TRUE, !.hasScope = TRUE]
      <4>1. blocks' = SetTop(b)
        BY <1>10, <2>1, <3>2 DEF ElifCond, EnterIfBranch
      <4>2. b \in Blocks /\ b.kind = Top(blocks).kind /\ b.capturing = Top(blocks).capturing
        BY <1>1, <2>1, TopFields DEF Blocks
      <4>. HIDE DEF b
      <4>. QED  BY <1>1, <2>1, <4>1, <4>2, TopBones
    <3>. QED  BY <3>1, <3>2
  <2>4. ~Looping' /\ ~InCond'
    BY <2>2 DEF Looping, InCond, Evaluating
  <2>. QED  BY <1>2, <2>1, <2>2, <2>3, <2>4, QuietSound
<1>. QED  BY <1>1, <1>4, <1>5, <1>6, <1>7, <1>8, <1>9, <1>10 DEF Evaluate

LEMMA CallsSound ==
    ASSUME Local, Calls
    PROVE  Sound
<1>1. IInv /\ BodyInv /\ Nested /\ ~FinishCall /\ CallBones
  BY LocalFacts DEF Local
<1>2. CASE CleanupBlock
  <2>1. /\ HasBlock /\ blocks' = Under(blocks) /\ frames' = frames
        /\ pc = "cleanup" /\ pc' = "cleanup"
    BY <1>2 DEF CleanupBlock, PopIfBlock, PopBlock
  <2>2. ~skipCapture'
    <3>1. CASE TopKind = "if"
      <4>1. ~Collects(Top(blocks)) /\ skipCapture' = skipCapture
        BY <1>1, <1>2, <3>1, CapturesLoops DEF CleanupBlock
      <4>. QED  BY <1>1, <4>1 DEF Nested, CapturesTop
    <3>2. CASE TopKind # "if"
      BY <1>2, <3>2 DEF CleanupBlock
    <3>. QED  BY <3>1, <3>2
  <2>3. UnwindMove
    BY <2>1, <2>2 DEF UnwindMove
  <2>. QED  BY <2>1, <2>3, MovesSound
<1>3. CASE CleanupFrame
  <2>1. frames # <<>> /\ frames' = Under(frames) /\ pc' = "cleanup"
    BY <1>3 DEF CleanupFrame, AtCaller, PopFrame
  <2>2. Shrinks
    BY <2>1, ShrinksWhen
  <2>. QED  BY <1>1, <1>3, <2>1, <2>2, CleanupFrameMoved DEF Sound
<1>4. CASE HandlerFailed
  <2>1. CASE calls = <<>>
    BY <1>4, <2>1 DEF HandlerFailed, Sound
  <2>2. CASE calls # <<>>
    <3>1. pc = "fail" /\ pc' = "cleanup" /\ UNCHANGED <<frames, blocks, skipDepth, skipCapture>>
      BY <1>4, <2>2 DEF HandlerFailed
    <3>2. Bones
      BY <1>1, <3>1, SameBones
    <3>. QED  BY <3>1, <3>2, QuietSound
  <2>. QED  BY <2>1, <2>2
<1>. QED  BY <1>1, <1>2, <1>3, <1>4 DEF Calls

LEMMA EnterSound ==
    ASSUME Local, EnterLoopBody
    PROVE  Sound
<1>1. /\ IInv /\ BodyInv /\ Nested /\ pc = "enter" /\ Looping /\ ~Failing /\ ~InCond
  BY DEF Local, EnterLoopBody, Looping, Failing, InCond, Evaluating
<1>2. skipDepth = 0 /\ TopKind \in LoopKinds /\ HasBlock
  BY <1>1 DEF Nested, SkipsOwn, TopKind, LoopKinds
<1>3. CASE ReportAndFail
  BY <1>1, <1>3, FailSound DEF ReportAndFail, Fail
<1>4. CASE ~ReportAndFail
  <2>. DEFINE f == NewFrame("FRAME_LOOP_BODY", FALSE, Top(blocks).body)
  <2>1. frames' = Append(frames, f) /\ pc' = "run" /\ UNCHANGED <<skipDepth, skipCapture>>
    BY <1>4 DEF EnterLoopBody
  <2>2. Pushed(f) /\ Body(f)
    <3>1. Top(blocks).body \in Seq(Line)
      BY <1>1, <1>2, TopFields DEF Blocks
    <3>. QED  BY <1>1, <2>1, <3>1, PushedNew DEF Body, NewFrame
  <2>. HIDE DEF f
  <2>3. Grows(f)
    BY <1>1, <2>2, GrowsWhen
  <2>4. Bones
    <3>1. CASE blocks' = blocks
      BY <1>1, <3>1, SameBones
    <3>2. CASE blocks' # blocks
      <4>. DEFINE b == [Top(blocks) EXCEPT !.left = @ - 1]
      <4>1. blocks' = SetTop(b) /\ TopKind = "for"
        BY <1>4, <3>2 DEF EnterLoopBody
      <4>2. Top(blocks) \in Blocks /\ Top(blocks).left > 0
        BY <1>1, <1>2, <4>1, TopFields DEF IInv, PcShape
      <4>3. Top(blocks).left - 1 \in Nat
        BY <4>2 DEF Blocks
      <4>4. b \in Blocks /\ b.kind = Top(blocks).kind /\ b.capturing = Top(blocks).capturing
        BY <4>2, <4>3 DEF Blocks
      <4>. HIDE DEF b
      <4>. QED  BY <1>1, <1>2, <4>1, <4>4, TopBones
    <3>. QED  BY <3>1, <3>2
  <2>5. ~Looping' /\ ~InCond'
    BY <2>1 DEF Looping, InCond, Evaluating
  <2>6. GrowMove(f)
    BY <1>1, <1>2, <2>1, <2>2, <2>3, <2>4, <2>5 DEF GrowMove
  <2>. QED  BY <2>1, <2>6, MovesSound
<1>. QED  BY <1>3, <1>4

\* Between two iterations no frame began with the block of the loop, but for
\* the frame of the condition.
LEMMA BetweenFacts ==
    ASSUME IInv, Nested, Looping
    PROVE  /\ skipDepth = 0 /\ HasBlock /\ ~skipCapture /\ ~Failing /\ TopKind \in LoopKinds
           /\ \A j \in DOMAIN frames : (InCond => j < Len(frames)) => frames[j].base < Len(blocks)
<1>1. ~Failing
  BY DEF Looping, Failing, Evaluating
<1>2. skipDepth = 0 /\ TopKind \in LoopKinds
      /\ \A j \in DOMAIN frames : (InCond => j < Len(frames)) => frames[j].base < Len(blocks)
  BY DEF Nested, SkipsOwn
<1>3. HasBlock
  BY <1>2 DEF TopKind, LoopKinds
<1>4. ~skipCapture
  BY <1>1, <1>2 DEF Nested, CapturesTop
<1>. QED  BY <1>1, <1>2, <1>3, <1>4

LEMMA ExhaustedSound ==
    ASSUME Local, LoopBodyExhausted
    PROVE  Sound
<1>1. /\ IInv /\ Nested /\ pc = "exhausted" /\ Looping /\ ~InCond
  BY DEF Local, LoopBodyExhausted, Looping, InCond, Evaluating
<1>2. /\ skipDepth = 0 /\ HasBlock /\ ~skipCapture /\ TopKind \in LoopKinds /\ ~Failing
      /\ \A j \in 1 .. Len(frames) : frames[j].base < Len(blocks)
  BY <1>1, BetweenFacts, NestTypes
<1>3. CASE TopKind = "for"
  <2>1. UNCHANGED <<frames, skipDepth, skipCapture>>
    BY <1>3 DEF LoopBodyExhausted, LoopKinds
  <2>2. CASE ForDone
    <3>1. blocks' = Under(blocks) /\ pc' = "run"
      BY <1>3, <2>2 DEF LoopBodyExhausted, LoopKinds, PopBlock
    <3>. QED  BY <1>1, <1>2, <2>1, <3>1, CloseSound
  <2>3. CASE ~ForDone
    <3>1. blocks' = blocks /\ pc' = "enter"
      BY <1>3, <2>3 DEF LoopBodyExhausted, LoopKinds
    <3>2. Stays /\ Bones
      BY <1>1, <2>1, <3>1, SameBones
    <3>3. QuietMove
      BY <1>1, <1>2, <2>1, <3>1, <3>2 DEF QuietMove, Looping, InCond, Evaluating
    <3>. QED  BY <3>1, <3>3, MovesSound
  <2>. QED  BY <2>2, <2>3
<1>4. CASE TopKind = "while"
  <2>. DEFINE f == NewFrame("FRAME_CALL", FALSE, <<>>)
  <2>1. /\ frames' = Append(frames, f) /\ pc' = "eval" /\ line'.dir = "again"
        /\ UNCHANGED <<blocks, skipDepth, skipCapture>>
    <3>1. /\ PushCondFrame /\ pc' = "eval" /\ UNCHANGED <<blocks, skipDepth, skipCapture>>
          /\ line' = [dir |-> "again", expr |-> Top(blocks).cond, public |-> TRUE]
      BY <1>4 DEF LoopBodyExhausted, LoopKinds
    <3>. QED  BY <3>1 DEF PushCondFrame
  <2>2. Pushed(f)
    <3>1. <<>> \in Seq(Line)
      BY EmptySeq
    <3>. QED  BY <1>1, <2>1, <3>1, PushedNew
  <2>3. ~Body(f) /\ f.rest = <<>>
    BY DEF NewFrame, Body
  <2>. HIDE DEF f
  <2>4. Grows(f) /\ Bones
    BY <1>1, <2>1, <2>2, GrowsWhen, SameBones
  <2>5. Looping' /\ InCond'
    BY <2>1 DEF Looping, InCond, Evaluating, CondDirs
  <2>6. GrowMove(f)
    BY <1>1, <1>2, <2>1, <2>3, <2>4, <2>5 DEF GrowMove
  <2>. QED  BY <2>1, <2>6, MovesSound
<1>. QED  BY <1>2, <1>3, <1>4 DEF LoopKinds

LEMMA AgainSound ==
    ASSUME Local, WhileAgain
    PROVE  Sound
<1>1. /\ IInv /\ Nested /\ Looping /\ InCond /\ pc \in Evaluating
      /\ frames # <<>> /\ frames' = Under(frames) /\ UNCHANGED <<skipDepth, skipCapture>>
  BY DEF Local, WhileAgain, ValueOf, Looping, InCond, Evaluating, CondDirs, PopFrame
<1>2. /\ skipDepth = 0 /\ HasBlock /\ ~skipCapture /\ ~Failing
      /\ \A j \in DOMAIN frames : j < Len(frames) => frames[j].base < Len(blocks)
  BY <1>1, BetweenFacts
<1>3. Shrinks /\ ~Body(Top(frames)) /\ pc \notin {"cleanup", "leave"}
  BY <1>1, ShrinksWhen DEF Nested, FramesOpen, Evaluating
<1>4. CASE pc' = "enter" /\ blocks' = blocks
  <2>1. DropMove
    BY <1>1, <1>2, <1>3, <1>4 DEF DropMove, InCond, Looping, Evaluating
  <2>. QED  BY <1>4, <2>1, MovesSound
<1>5. CASE pc' = "run" /\ blocks' = Under(blocks)
  <2>1. \A j \in DOMAIN frames' : frames[j].base < Len(blocks)
    BY <1>1, <1>2, <1>3, ShrinkFacts
  <2>2. CloseMove
    BY <1>1, <1>2, <1>3, <1>5, <2>1 DEF CloseMove
  <2>. QED  BY <1>5, <2>2, MovesSound
<1>. QED  BY <1>4, <1>5 DEF WhileAgain, PopBlock

LEMMA LeaveSound ==
    ASSUME Local, LeaveIfBlock \/ LeaveFrame
    PROVE  Sound
<1>1. /\ IInv /\ SkipInv /\ BodyInv /\ Nested /\ pc = "leave" /\ ~Failing /\ ~Looping /\ ~InCond
      /\ skipDepth = 0 /\ InsideLoop
  BY DEF Local, LeaveIfBlock, LeaveFrame, SkipInv, HandlerSkip, Failing, Looping, InCond, Evaluating
<1>2. ~skipCapture /\ \A k \in DOMAIN blocks : ~Collects(blocks[k])
  BY <1>1 DEF Nested, CapturesTop
<1>3. HasBlock
  <2>1. BlockBase \in Nat /\ Len(blocks) \in Nat
    BY <1>1, NestTypes
  <2>. QED  BY <1>1, <2>1 DEF InsideLoop, HasBlock
<1>4. CASE LeaveIfBlock
  <2>1. TopKind = "if"
    <3>1. /\ TopKind = Top(blocks).kind /\ Top(blocks) = blocks[Len(blocks)]
          /\ Len(blocks) \in DOMAIN blocks /\ Top(blocks) \in Blocks
      BY <1>1, <1>3, TopFields
    <3>2. TopKind \in BlockKinds /\ TopKind # "func"
      BY <1>2, <3>1 DEF Blocks, Collects
    <3>. QED  BY <1>4, <3>2 DEF LeaveIfBlock, BlockKinds, LoopKinds
  <2>2. blocks' = Under(blocks) /\ UNCHANGED <<pc, frames, skipDepth, skipCapture>>
    BY <1>4, <2>1 DEF LeaveIfBlock, PopIfBlock
  <2>3. UnwindMove
    BY <1>1, <1>2, <1>3, <2>1, <2>2 DEF UnwindMove
  <2>. QED  BY <1>1, <2>2, <2>3, MovesSound
<1>5. CASE LeaveFrame
  <2>1. TopKind \in LoopKinds
    BY <1>5 DEF LeaveFrame
  <2>2. PICK j \in 1 .. Len(frames) :
              /\ Body(frames[j]) /\ frames[j].base = Len(blocks)
              /\ \A i \in 1 .. Len(frames) : Body(frames[i]) => i <= j
    BY <1>1, <2>1, LeaveFacts
  <2>3. Len(frames) \in Nat /\ frames \in Seq(Frames) /\ DOMAIN frames = 1 .. Len(frames)
    BY <1>1, NestTypes
  <2>4. frames # <<>>
    BY <2>2, <2>3, EmptySeq
  <2>5. frames' = Under(frames) /\ UNCHANGED <<skipDepth, skipCapture>>
    BY <1>5, <2>4 DEF LeaveFrame, PopFrame
  <2>6. Shrinks
    BY <2>4, <2>5, ShrinksWhen
  <2>7. CASE ~Body(Top(frames))
    <3>1. UNCHANGED <<pc, blocks>>
      BY <1>5, <2>4, <2>7 DEF LeaveFrame, Body
    <3>2. DropMove
      BY <1>1, <2>5, <2>6, <2>7, <3>1 DEF DropMove, Looping, InCond, Evaluating
    <3>. QED  BY <1>1, <3>1, <3>2, MovesSound
  <2>8. CASE Body(Top(frames))
    <3>1. Top(frames) = frames[Len(frames)] /\ Len(frames) \in 1 .. Len(frames)
      BY <1>1, <2>3, <2>6, ShrinkFacts
    <3>2. j = Len(frames)
      <4>1. Len(frames) <= j
        BY <2>2, <2>8, <3>1
      <4>2. Len(frames) \in Nat /\ j \in 1 .. Len(frames)
        BY <2>2, <2>3
      <4>. QED  BY <4>1, <4>2
    <3>3. Top(frames).base = Len(blocks)
      BY <2>2, <3>1, <3>2
    <3>4. \/ pc' = "exhausted" /\ blocks' = blocks
          \/ pc' = "run" /\ blocks' = Under(blocks)
      BY <1>5, <2>4, <2>8 DEF LeaveFrame, Body, PopBlock
    <3>5. CASE pc' = "exhausted" /\ blocks' = blocks
      <4>1. BodyMove
        BY <1>1, <2>5, <2>6, <2>8, <3>3, <3>5 DEF BodyMove
      <4>. QED  BY <3>5, <4>1, MovesSound
    <3>6. CASE pc' = "run" /\ blocks' = Under(blocks)
      <4>1. \A i \in DOMAIN frames' : frames[i].base < Len(blocks)
        <5>1. \A i \in DOMAIN frames' : i \in 1 .. Len(frames) - 1
          BY <1>1, <2>6, ShrinkFacts
        <5>2. Body(frames[Len(frames)]) /\ frames[Len(frames)].base = Len(blocks)
          BY <2>2, <3>2
        <5>3. BasesNested /\ Len(frames) \in DOMAIN frames
          BY <1>1, <2>3, <3>1 DEF Nested
        <5>4. \A i \in 1 .. Len(frames) - 1 : frames[i].base < frames[Len(frames)].base
          BY <5>2, <5>3 DEF BasesNested
        <5>. QED  BY <5>1, <5>2, <5>4
      <4>2. CloseMove
        BY <1>1, <1>2, <1>3, <2>5, <2>6, <3>3, <3>6, <4>1 DEF CloseMove
      <4>. QED  BY <3>6, <4>2, MovesSound
    <3>. QED  BY <3>4, <3>5, <3>6
  <2>. QED  BY <2>7, <2>8
<1>. QED  BY <1>4, <1>5

LEMMA SkipSound ==
    ASSUME Local, Skip
    PROVE  Sound
<1>1. /\ IInv /\ SkipInv /\ BodyInv /\ Nested /\ ClosesOwn /\ ~ragged' /\ skipDepth \in Nat
      /\ pc = "line" /\ skipDepth > 0 /\ frames' = frames
  BY NestTypes DEF Local, Skip, SkipFails, SkipLine, SkipOpen, SkipUnknown, SkipInner, SkipElse,
     SkipElif, SkipInnerEnd, SkipEnd, Skipping
<1>2. ~Looping /\ ~Failing /\ ~InCond
  BY <1>1 DEF Looping, Failing, InCond, Evaluating
<1>3. ASSUME UNCHANGED <<blocks, skipCapture>>, pc' \in {"run", "fail", "eval"},
             pc' = "eval" => line'.dir = "elif",
             \/ skipDepth' = skipDepth
             \/ pc' = "run" /\ skipDepth' > 0
      PROVE  Sound
  <2>1. Bones
    BY <1>1, <1>3, SameBones
  <2>2. pc' # "fail" => ~Looping' /\ ~InCond'
    BY <1>3 DEF Looping, InCond, Evaluating, CondDirs
  <2>. QED  BY <1>1, <1>2, <1>3, <2>1, <2>2, QuietSound
<1>4. CASE SkipFails \/ SkipLine \/ SkipUnknown \/ SkipInner
  BY <1>3, <1>4 DEF SkipFails, SkipLine, SkipUnknown, SkipInner, Fail
<1>5. CASE SkipOpen \/ SkipInnerEnd
  <2>1. skipDepth + 1 > 0 /\ (skipDepth > 1 => skipDepth - 1 > 0)
    BY <1>1
  <2>. QED  BY <1>3, <1>5, <2>1 DEF SkipOpen, SkipInnerEnd
<1>6. CASE SkipElif
  BY <1>3, <1>6 DEF SkipElif, Skipping, Fail
<1>7. CASE SkipElse
  <2>1. CASE ElseRefused
    BY <1>3, <1>7, <2>1 DEF SkipElse, Fail
  <2>2. CASE ~ElseRefused
    <3>1. TopKind = "if"
      BY <2>2 DEF ElseRefused
    <3>2. HasBlock /\ (Top(blocks).hasScope => Top(blocks).taken)
      BY <1>1, <3>1, TopBranch DEF SkipInv
    <3>3. /\ pc' = "run" /\ skipCapture' = skipCapture
          /\ \/ blocks' = SetTop([Top(blocks) EXCEPT !.hadElse = TRUE])
             \/ blocks' = SetTop([[Top(blocks) EXCEPT !.hadElse = TRUE]
                                      EXCEPT !.taken = TRUE, !.hasScope = TRUE])
      BY <1>7, <2>2, <3>2 DEF SkipElse, EnterIfBranch
    <3>4. ASSUME NEW b \in Blocks, b.kind = Top(blocks).kind, b.capturing = Top(blocks).capturing,
                 blocks' = SetTop(b)
          PROVE  Bones
      BY <1>1, <3>2, <3>4, TopBones
    <3>5. Top(blocks) \in Blocks
      BY <1>1, <3>2, TopFields
    <3>6. Bones
      <4>. DEFINE b == [Top(blocks) EXCEPT !.hadElse = TRUE]
                  c == [b EXCEPT !.taken = TRUE, !.hasScope = TRUE]
      <4>1. b \in Blocks /\ b.kind = Top(blocks).kind /\ b.capturing = Top(blocks).capturing
        BY <3>5 DEF Blocks
      <4>2. c \in Blocks /\ c.kind = Top(blocks).kind /\ c.capturing = Top(blocks).capturing
        BY <3>5 DEF Blocks
      <4>3. blocks' = SetTop(b) \/ blocks' = SetTop(c)
        BY <3>3
      <4>. HIDE DEF b, c
      <4>. QED  BY <3>4, <4>1, <4>2, <4>3
    <3>7. ~Looping' /\ ~InCond'
      BY <3>3 DEF Looping, InCond, Evaluating
    <3>. QED  BY <1>1, <1>2, <3>1, <3>3, <3>6, <3>7, QuietSound
  <2>. QED  BY <2>1, <2>2
<1>8. CASE SkipEnd
  <2>1. HasBlock /\ \A j \in 1 .. Len(frames) : frames[j].base < Len(blocks)
    BY <1>1, <1>8, EndFacts
  <2>2. skipDepth' = 0 /\ skipCapture' = FALSE
    BY <1>8 DEF SkipEnd
  <2>3. TopKind = "if" \/ TopKind = "func" \/ TopKind \in LoopKinds
    <3>1. TopKind \in BlockKinds
      BY <1>1, <2>1, TopFields DEF Blocks
    <3>. QED  BY <3>1 DEF BlockKinds, LoopKinds
  <2>4. CASE blocks' = Under(blocks) /\ pc' = "run"
    BY <1>1, <2>1, <2>2, <2>4, CloseSound
  <2>5. CASE TopKind = "if"
    BY <1>8, <2>4, <2>5 DEF SkipEnd, PopIfBlock, LoopKinds
  <2>6. CASE TopKind = "func"
    BY <1>8, <2>4, <2>6 DEF SkipEnd, FinishPendingFunc, PopBlock, LoopKinds
  <2>7. CASE TopKind \in LoopKinds
    <3>1. FinishLoop
      BY <1>8, <2>7 DEF SkipEnd, LoopKinds
    <3>2. CASE Top(blocks).capturing
      <4>1. /\ blocks' = SetTop([Top(blocks) EXCEPT !.body = captureBuf, !.capturing = FALSE])
            /\ pc' = "enter"
        BY <3>1, <3>2 DEF FinishLoop
      <4>2. DOMAIN frames = 1 .. Len(frames)
        BY <1>1, NestTypes
      <4>3. CapturedMove
        BY <1>1, <2>1, <2>2, <2>7, <4>1, <4>2 DEF CapturedMove
      <4>. QED  BY <4>1, <4>3, MovesSound
    <3>3. CASE ~Top(blocks).capturing
      BY <2>4, <3>1, <3>3 DEF FinishLoop, PopBlock
    <3>. QED  BY <3>2, <3>3
  <2>. QED  BY <2>3, <2>5, <2>6, <2>7
<1>. QED  BY <1>4, <1>5, <1>6, <1>7, <1>8 DEF Skip

LEMMA OpenLocal ==
    ASSUME Local
    PROVE  Sound
<1>1. CASE Ended
  <2>1. pc \in Final /\ pc' = pc
    BY <1>1 DEF Ended, vars
  <2>. QED  BY <2>1 DEF Final, Local, Nested, Sound
<1>2. CASE Loops
  BY <1>2, EnterSound, ExhaustedSound, AgainSound, LeaveSound DEF Loops
<1>. QED  BY <1>1, <1>2, FetchSound, HandleSound, EvaluateSound, CallsSound, SkipSound
          DEF Local, Next

-----------------------------------------------------------------------------
(* What the frames have left to read *)

\* A call is to return to frame j, for a directive of dirs.
Awaited(j, dirs) == \E c \in DOMAIN calls : calls[c].caller = j /\ calls[c].line.dir \in dirs

\* Frame j is that of the condition of a loop.
Cond(j, dir) == Awaited(j, {dir}) \/ (j = Len(frames) /\ pc \in Evaluating /\ line.dir = dir)

\* The blocks that will have been opened or closed, by the directive under way
\* in frame j or by the end of the frame above it, when frame j is read again.
Shift(j) == IF Awaited(j, {"if", "for"}) \/ Cond(j + 1, "while") THEN 1
            ELSE IF Body(frames[j + 1]) \/ Cond(j + 1, "again") THEN -1 ELSE 0

\* The blocks opened while skipping, the one skipped for apart.
Inner == IF skipDepth > 1 THEN skipDepth - 1 ELSE 0

\* The blocks open, skipped ones included, when the next line is read from the
\* top frame, and from frame j.
Now == CASE pc = "run"  -> Len(blocks) + Inner
         [] pc = "line" -> Len(blocks) + Inner + Delta(line)
         [] pc \in Evaluating -> Len(blocks) + (IF line.dir \in {"if", "for"} THEN 1 ELSE 0)
         [] pc \in {"enter", "exhausted"} -> Len(blocks) - 1
         [] OTHER -> BlockBase + (IF Awaited(Caller, {"if", "for"}) THEN 1 ELSE 0)

Open(j) == IF j < Len(frames) THEN frames[j + 1].base + Shift(j) ELSE Now

\* Frame j will not be read again.
Left(j) == \/ Failing /\ j > Caller
           \/ pc = "leave" /\ \A i \in DOMAIN frames : Body(frames[i]) => i <= j

\* No line left in a frame closes a block that was open when the frame began.
Reads  == \A j \in DOMAIN frames : ~Left(j) => Safe(frames[j].rest, Open(j) - frames[j].base)
Closes == pc = "line" /\ line.dir = "end" /\ ~Top(frames).file => Now >= Top(frames).base

Replays == Reads /\ Closes

LEMMA SafeUp ==
    ASSUME NEW body \in Seq(Line), NEW d \in Int, NEW e \in Int, d <= e, Safe(body, d)
    PROVE  Safe(body, e)
<1>1. Counts(Nesting(body), body, Len(body)) /\ Len(body) \in Nat /\ DOMAIN body = 1 .. Len(body)
  BY NestingCounts, LenProperties
<1>2. ASSUME NEW k \in DOMAIN body, body[k].dir = "end"
      PROVE  e + Nesting(body)[k - 1] > 0
  <2>1. k - 1 \in 0 .. Len(body)
    BY <1>1
  <2>2. Nesting(body)[k - 1] \in Int
    BY <1>1, <2>1 DEF Counts
  <2>3. d + Nesting(body)[k - 1] > 0
    BY <1>2 DEF Safe
  <2>. QED  BY <2>2, <2>3
<1>. QED  BY <1>2 DEF Safe

LEMMA SafeTail ==
    ASSUME NEW body \in Seq(Line), body # <<>>, NEW d \in Int, Safe(body, d)
    PROVE  /\ Safe(Tail(body), d + Delta(Head(body)))
           /\ Head(body).dir = "end" => d > 0
<1>1. /\ Len(body) \in Nat /\ DOMAIN body = 1 .. Len(body) /\ Len(body) >= 1
      /\ Tail(body) \in Seq(Line) /\ Len(Tail(body)) = Len(body) - 1 /\ Head(body) = body[1]
      /\ \A k \in 1 .. Len(body) - 1 : Tail(body)[k] = body[k + 1]
      /\ DOMAIN Tail(body) = 1 .. Len(body) - 1
  BY HeadTailProperties, LenProperties, EmptySeq
<1>. DEFINE rest == Tail(body)
            n == Len(body) - 1
<1>2. Counts(Nesting(body), body, Len(body)) /\ Counts(Nesting(rest), rest, n)
  BY <1>1, NestingCounts
<1>3. Nesting(body)[0] = 0 /\ Nesting(body)[1] = Delta(Head(body))
  <2>1. 1 \in 1 .. Len(body) /\ 1 - 1 = 0
    BY <1>1
  <2>2. Nesting(body)[0] = 0 /\ Nesting(body)[1] = Nesting(body)[0] + Delta(body[1])
    BY <1>2, <2>1 DEF Counts
  <2>. QED  BY <1>1, <2>2, DeltaType
<1>4. \A k \in 0 .. n : Nesting(body)[k + 1] = Nesting(body)[1] + Nesting(rest)[k]
  <2>1. 1 \in Nat /\ n \in Nat /\ n <= Len(rest) /\ 1 + n <= Len(body)
    BY <1>1
  <2>2. \A k \in 1 .. n : rest[k] = body[k + 1]
    BY <1>1
  <2>3. rest \in Seq(Line)
    BY <1>1
  <2>. HIDE DEF rest, n
  <2>. QED  BY <2>1, <2>2, <2>3, NestingShift
<1>5. ASSUME NEW k \in 1 .. n, rest[k].dir = "end"
      PROVE  (d + Delta(Head(body))) + Nesting(rest)[k - 1] > 0
  <2>1. k + 1 \in DOMAIN body /\ (k + 1) - 1 = (k - 1) + 1 /\ k - 1 \in 0 .. n
    BY <1>1
  <2>2. body[k + 1].dir = "end"
    BY <1>1, <1>5
  <2>3. d + Nesting(body)[(k - 1) + 1] > 0
    BY <2>1, <2>2 DEF Safe
  <2>4. Nesting(body)[(k - 1) + 1] = Delta(Head(body)) + Nesting(rest)[k - 1]
    BY <1>3, <1>4, <2>1
  <2>5. Nesting(rest)[k - 1] \in Int /\ Delta(Head(body)) \in Int
    BY <1>2, <2>1, DeltaType DEF Counts
  <2>. QED  BY <2>3, <2>4, <2>5
<1>6. Head(body).dir = "end" => d > 0
  <2>1. 1 \in DOMAIN body /\ 1 - 1 = 0
    BY <1>1
  <2>2. Head(body).dir = "end" => d + Nesting(body)[1 - 1] > 0
    BY <1>1, <2>1 DEF Safe
  <2>. QED  BY <1>3, <2>1, <2>2
<1>. QED  BY <1>1, <1>5, <1>6 DEF Safe

LEMMA NowIs ==
    /\ pc = "run"  => Now = Len(blocks) + Inner
    /\ pc = "line" => Now = Len(blocks) + Inner + Delta(line)
    /\ pc \in Evaluating => Now = Len(blocks) + (IF line.dir \in {"if", "for"} THEN 1 ELSE 0)
    /\ pc \in {"enter", "exhausted"} => Now = Len(blocks) - 1
    /\ pc = "cleanup" => Now = BlockBase + (IF Awaited(Caller, {"if", "for"}) THEN 1 ELSE 0)
BY DEF Now, Evaluating

LEMMA NowWill ==
    /\ pc' = "run"  => Now' = Len(blocks') + Inner'
    /\ pc' = "line" => Now' = Len(blocks') + Inner' + Delta(line')
    /\ pc' \in Evaluating => Now' = Len(blocks') + (IF line'.dir \in {"if", "for"} THEN 1 ELSE 0)
    /\ pc' \in {"enter", "exhausted"} => Now' = Len(blocks') - 1
    /\ pc' = "cleanup" => Now' = BlockBase' + (IF Awaited(Caller, {"if", "for"})' THEN 1 ELSE 0)
BY DEF Now, Evaluating, Delta

LEMMA NowType ==
    ASSUME Len(blocks) \in Nat, skipDepth \in Nat, BlockBase \in Nat
    PROVE  /\ Now \in Int /\ Inner \in Nat /\ Delta(line) \in {-1, 0, 1}
           /\ skipDepth <= 1 => Inner = 0
           /\ skipDepth > 1 => Inner = skipDepth - 1
           /\ \A j : Shift(j) \in {-1, 0, 1}
<1>1. Inner \in Nat /\ (skipDepth <= 1 => Inner = 0) /\ (skipDepth > 1 => Inner = skipDepth - 1)
  BY DEF Inner
<1>2. Delta(line) \in {-1, 0, 1}
  BY DEF Delta
<1>3. \A j : Shift(j) \in {-1, 0, 1}
  BY DEF Shift
<1>4. Now \in Int
  <2>. HIDE DEF Inner
  <2>1. Len(blocks) + Inner \in Int /\ Len(blocks) + Inner + Delta(line) \in Int
    BY <1>1, <1>2
  <2>. QED  BY <2>1 DEF Now
<1>. QED  BY <1>1, <1>2, <1>3, <1>4

\* The #end under way closes a block of its frame.
LEMMA ReplaysClose ==
    ASSUME IInv, Replays
    PROVE  ClosesOwn
<1>1. /\ Len(blocks) \in Nat /\ skipDepth \in Nat /\ BlockBase \in Nat
      /\ frames # <<>> => Top(frames).base \in Nat
  <2>1. /\ Len(frames) \in Nat /\ frames \in Seq(Frames)
        /\ \A j \in 1 .. Len(frames) : frames[j].base \in Nat
    BY NestTypes
  <2>2. frames # <<>> => Len(frames) \in 1 .. Len(frames)
    BY <2>1, EmptySeq
  <2>. QED  BY <2>1, <2>2, NestTypes DEF Top
<1>2. SUFFICES ASSUME pc = "line", line.dir = "end", skipDepth < 2, ~Top(frames).file
               PROVE  Len(blocks) > Top(frames).base
  BY DEF ClosesOwn
<1>3. Inner = 0
  BY <1>1, <1>2, NowType
<1>4. Delta(line) = -1
  BY <1>2 DEF Delta, BlockKinds
<1>5. Now = Len(blocks) + Inner + Delta(line)
  BY <1>2, NowIs
<1>6. Now >= Top(frames).base /\ frames # <<>>
  BY <1>2 DEF Replays, Closes, IInv, PcShape
<1>. QED  BY <1>1, <1>3, <1>4, <1>5, <1>6

LEMMA AwaitedSame ==
    ASSUME IInv, CallBones
    PROVE  \A j, dirs : Awaited(j, dirs)' <=> Awaited(j, dirs)
<1>1. /\ DOMAIN calls = 1 .. Len(calls) /\ DOMAIN calls' = 1 .. Len(calls)
      /\ \A c \in 1 .. Len(calls) : calls'[c].line = calls[c].line /\ calls'[c].caller = calls[c].caller
  BY NestTypes DEF CallBones
<1>. QED  BY <1>1 DEF Awaited

\* No call returns to a frame of the running call.
LEMMA NotAwaited ==
    ASSUME IInv, CallsNested, NEW j \in Nat, calls # <<>> => j > Caller
    PROVE  \A dirs : ~Awaited(j, dirs)
<1>1. /\ DOMAIN calls = 1 .. Len(calls) /\ Caller \in Nat
      /\ \A c \in 1 .. Len(calls) : calls[c].caller \in Nat /\ calls[c].caller <= Caller
  BY NestTypes, CallerFacts
<1>2. \A c \in DOMAIN calls : calls # <<>>
  BY EmptySeq
<1>3. ASSUME NEW c \in DOMAIN calls
      PROVE  calls[c].caller # j
  <2>1. calls[c].caller \in Nat /\ calls[c].caller <= Caller /\ j > Caller /\ Caller \in Nat
    BY <1>1, <1>2, <1>3
  <2>. QED  BY <2>1
<1>. QED  BY <1>3 DEF Awaited

\* The condition of a loop is given up with its frame.
LEMMA CondStays ==
    ASSUME Local, InCond, pc' \notin Final
    PROVE  \/ /\ UNCHANGED <<frames, line>> /\ pc' \in Evaluating
           \/ frames # <<>> /\ frames' = Under(frames)
<1>1. /\ pc \in Evaluating /\ line.dir \in {"while", "again"} /\ Next /\ ~EvalCall /\ ~FinishCall
  BY DEF Local, InCond, CondDirs
<1>2. ~Fetch /\ ~Handle /\ ~Skip /\ ~Ended
  BY <1>1 DEF Fetch, Handle, Skip, Ended, FetchPending, FetchLine, FrameExhausted, EndOfInput,
     UnterminatedBlock, PlainToken, OpLimitExceeded, HandleOperand, HandleStrayReturn,
     HandleUnknown, HandleElse, HandleElif, HandleEnd, HandleFunc, HandleWhile, HandleLeave,
     HandleInclude, HandleEmit, HandleVar, HandleSet, Active, SkipFails, SkipLine, SkipOpen,
     SkipUnknown, SkipInner, SkipElse, SkipElif, SkipInnerEnd, SkipEnd, Skipping, Evaluating, Final
<1>3. ~Calls
  BY <1>1 DEF Calls, CleanupBlock, CleanupFrame, HandlerFailed, Evaluating
<1>4. Loops => WhileAgain
  BY <1>1 DEF Loops, EnterLoopBody, LoopBodyExhausted, LeaveIfBlock, LeaveFrame, Evaluating
<1>5. Evaluate => EvalRejected \/ EvalFailed \/ (\E cond \in BOOLEAN : WhileFirst(cond))
  BY <1>1 DEF Evaluate, CondFrameGone, ReturnValue, DirectiveCond, DirectiveValue,
     ErrorDirective, ElifCond, ValueOf, Final
<1>6. EvalRejected => UNCHANGED <<frames, line>> /\ pc' \in Evaluating
  BY DEF EvalRejected, Evaluating
<1>7. EvalFailed \/ WhileAgain \/ (\E cond \in BOOLEAN : WhileFirst(cond))
         => frames # <<>> /\ frames' = Under(frames)
  BY <1>1 DEF EvalFailed, WhileAgain, WhileFirst, PopFrame, Final
<1>. QED  BY <1>1, <1>2, <1>3, <1>4, <1>5, <1>6, <1>7 DEF Next

\* Every frame but the top one waits for what it waited for.
LEMMA CondSame ==
    ASSUME Local, pc' \notin Final, NEW j \in Nat, j < Len(frames), j < Len(frames'),
           NEW dir \in CondDirs
    PROVE  Cond(j + 1, dir)' <=> Cond(j + 1, dir)
<1>1. /\ IInv /\ Nested /\ Next /\ ~EvalCall /\ ~FinishCall /\ CallBones /\ FrameMove
      /\ frames \in Seq(Frames) /\ Len(frames) \in Nat
  BY LocalFacts, NestTypes DEF Local
<1>2. Awaited(j + 1, {dir})' <=> Awaited(j + 1, {dir})
  BY <1>1, AwaitedSame
<1>3. frames' = Append(frames, NewFrame("FRAME_CALL", FALSE, <<>>)) \/ (\E f : Grows(f))
         => Len(frames') = Len(frames) + 1
  <2>1. ASSUME frames' = Append(frames, NewFrame("FRAME_CALL", FALSE, <<>>))
        PROVE  Len(frames') = Len(frames) + 1
    <3>1. NewFrame("FRAME_CALL", FALSE, <<>>) \in Frames
      BY <1>1, EmptySeq, NestTypes DEF NewFrame, Frames, FrameTypes
    <3>. QED  BY <1>1, <2>1, <3>1, AppendProperties
  <2>. QED  BY <2>1 DEF Grows
<1>4. frames # <<>> /\ frames' = Under(frames) => Len(frames') = Len(frames) - 1
  <2>1. frames # <<>> => Len(frames) > 0
    BY <1>1, EmptySeq
  <2>. QED  BY <1>1, <2>1, UnderType
<1>5. CASE InCond
  <2>1. CASE UNCHANGED <<frames, line>> /\ pc' \in Evaluating
    BY <1>2, <1>5, <2>1 DEF Cond, InCond
  <2>2. CASE frames # <<>> /\ frames' = Under(frames)
    <3>1. Len(frames') = Len(frames) - 1
      BY <1>4, <2>2
    <3>2. j + 1 # Len(frames)
      BY <1>1, <3>1
    <3>3. ~InCond'
      <4>1. ASSUME InCond'
            PROVE  FALSE
        <5>1. StartsCond \/ frames' = frames
          BY <1>1, <4>1, CondSteps
        <5>2. Len(frames') = Len(frames) + 1 \/ Len(frames') = Len(frames)
          BY <1>3, <5>1 DEF StartsCond
        <5>. QED  BY <1>1, <3>1, <5>2
      <4>. QED  BY <4>1
    <3>4. ~(pc' \in Evaluating /\ line'.dir = dir)
      BY <3>3 DEF InCond
    <3>. QED  BY <1>2, <3>2, <3>4 DEF Cond
  <2>. QED  BY <1>5, <2>1, <2>2, CondStays
<1>6. CASE ~InCond
  <2>1. ~(pc \in Evaluating /\ line.dir = dir)
    BY <1>6 DEF InCond
  <2>2. InCond' => Len(frames') = Len(frames) + 1
    <3>1. InCond' => StartsCond
      BY <1>1, <1>6, CondSteps
    <3>. QED  BY <1>3, <3>1 DEF StartsCond
  <2>3. ~(j + 1 = Len(frames') /\ pc' \in Evaluating /\ line'.dir = dir)
    <3>1. pc' \in Evaluating /\ line'.dir = dir => InCond'
      BY DEF InCond
    <3>2. Len(frames') = Len(frames) + 1 => j + 1 # Len(frames')
      BY <1>1
    <3>. QED  BY <2>2, <3>1, <3>2
  <2>. QED  BY <1>2, <2>1, <2>3 DEF Cond
<1>. QED  BY <1>5, <1>6

LEMMA NextTypes ==
    ASSUME IInv, Next
    PROVE  /\ frames' \in Seq(Frames) /\ Len(frames') \in Nat /\ DOMAIN frames' = 1 .. Len(frames')
           /\ Len(blocks') \in Nat /\ skipDepth' \in Nat
           /\ \A j \in 1 .. Len(frames') : /\ frames'[j].base \in Nat
                                           /\ frames'[j].rest \in Seq(Line)
                                           /\ frames'[j] \in Frames
<1>1. TypeOK'
  BY NextStep DEF IInv
<1>2. frames' \in Seq(Frames) /\ blocks' \in Seq(Blocks) /\ skipDepth' \in Nat
  BY <1>1 DEF TypeOK
<1>3. /\ Len(frames') \in Nat /\ DOMAIN frames' = 1 .. Len(frames') /\ Len(blocks') \in Nat
      /\ \A j \in 1 .. Len(frames') : frames'[j] \in Frames
  BY <1>2, LenProperties, ElementOfSeq
<1>. QED  BY <1>2, <1>3 DEF Frames

LEMMA FramesSame ==
    ASSUME Local, NEW j \in Nat, 1 <= j, j <= Len(frames), j <= Len(frames')
    PROVE  /\ frames'[j].type = frames[j].type /\ frames'[j].base = frames[j].base
           /\ j < Len(frames) \/ ~FetchLine => frames'[j] = frames[j]
           /\ j \in DOMAIN frames /\ j \in DOMAIN frames'
<1>1. /\ IInv /\ FrameMove /\ Len(frames) \in Nat /\ DOMAIN frames = 1 .. Len(frames)
  BY LocalFacts, NestTypes DEF Local
<1>2. /\ Stays \/ (\E f : Grows(f)) \/ Shrinks
      /\ DOMAIN frames' = 1 .. Len(frames')
  BY <1>1, FrameMoved
<1>3. j \in 1 .. Len(frames)
  BY <1>1
<1>4. Len(frames') \in Nat
  BY <1>1, NextTypes DEF Local
<1>5. j \in 1 .. Len(frames')
  BY <1>4
<1>6. CASE Stays
  BY <1>3, <1>6 DEF Stays
<1>7. CASE \E f : Grows(f)
  BY <1>3, <1>7 DEF Grows
<1>8. CASE Shrinks
  BY <1>3, <1>5, <1>8 DEF Shrinks
<1>. QED  BY <1>1, <1>2, <1>3, <1>5, <1>6, <1>7, <1>8

\* Below the top frame nothing moves.
LEMMA OpenSame ==
    ASSUME Local, pc' \notin Final, NEW j \in Nat, 1 <= j, j < Len(frames), j < Len(frames')
    PROVE  Open(j)' = Open(j)
<1>1. /\ IInv /\ CallBones /\ Len(frames) \in Nat /\ FrameMove
  BY LocalFacts, NestTypes DEF Local
<1>2. Len(frames') \in Nat
  BY <1>1, NextTypes DEF Local
<1>3. j + 1 \in Nat /\ 1 <= j + 1 /\ j + 1 <= Len(frames) /\ j + 1 <= Len(frames')
  BY <1>1, <1>2
<1>4. frames'[j + 1].type = frames[j + 1].type /\ frames'[j + 1].base = frames[j + 1].base
  BY <1>3, FramesSame
<1>5. Awaited(j, {"if", "for"})' <=> Awaited(j, {"if", "for"})
  BY <1>1, AwaitedSame
<1>6. /\ Cond(j + 1, "while")' <=> Cond(j + 1, "while")
      /\ Cond(j + 1, "again")' <=> Cond(j + 1, "again")
  BY CondSame DEF CondDirs
<1>7. Body(frames'[j + 1]) <=> Body(frames[j + 1])
  BY <1>4 DEF Body
<1>8. Shift(j)' = Shift(j)
  BY <1>5, <1>6, <1>7 DEF Shift, Body
<1>9. Open(j) = frames[j + 1].base + Shift(j) /\ Open(j)' = frames'[j + 1].base + Shift(j)'
  BY DEF Open
<1>. QED  BY <1>4, <1>8, <1>9

\* A frame that will not be read again stays so, or is popped.
LEMMA LeftSame ==
    ASSUME Local, pc' \notin Final, NEW j \in Nat, 1 <= j, j <= Len(frames), j <= Len(frames'),
           Left(j)
    PROVE  Left(j)'
<1>1. /\ IInv /\ CallBones /\ Len(frames) \in Nat /\ DOMAIN frames = 1 .. Len(frames)
      /\ FrameMove /\ Next /\ ~EvalCall /\ ~FinishCall /\ frames \in Seq(Frames)
  BY LocalFacts, NestTypes DEF Local
<1>2. DOMAIN frames' = 1 .. Len(frames')
  BY <1>1, FrameMoved
<1>3. CASE Failing /\ j > Caller
  <2>1. pc = "fail" => HandlerFailed
    BY <1>1 DEF Next, Fetch, Handle, Evaluate, Calls, Loops, Skip, FetchPending, FetchLine,
       FrameExhausted, EndOfInput, UnterminatedBlock, PlainToken, OpLimitExceeded, HandleOperand,
       HandleStrayReturn, HandleUnknown, HandleElse, HandleElif, HandleEnd, HandleFunc,
       HandleWhile, HandleLeave, HandleInclude, HandleEmit, HandleVar, HandleSet, Active,
       EvalRejected, EvalFailed, CondFrameGone, ReturnValue, DirectiveCond, DirectiveValue,
       ErrorDirective, ElifCond, ValueOf, CleanupBlock, CleanupFrame, EnterLoopBody,
       LoopBodyExhausted, WhileAgain, LeaveIfBlock, LeaveFrame, SkipFails, SkipLine, SkipOpen,
       SkipUnknown, SkipInner, SkipElse, SkipElif, SkipInnerEnd, SkipEnd, Skipping, Ended, Final
  <2>2. Failing'
    BY <1>3, <2>1, LocalFacts DEF Failing, HandlerFailed, Final
  <2>. QED  BY <1>1, <1>3, <2>2 DEF Left, CallBones
<1>4. CASE pc = "leave" /\ \A i \in DOMAIN frames : Body(frames[i]) => i <= j
  <2>1. LeaveIfBlock \/ LeaveFrame
    BY <1>1, <1>4 DEF Next, Fetch, Handle, Evaluate, Calls, Loops, Skip, FetchPending, FetchLine,
       FrameExhausted, EndOfInput, UnterminatedBlock, PlainToken, OpLimitExceeded, HandleOperand,
       HandleStrayReturn, HandleUnknown, HandleElse, HandleElif, HandleEnd, HandleFunc,
       HandleWhile, HandleLeave, HandleInclude, HandleEmit, HandleVar, HandleSet, Active,
       EvalRejected, EvalFailed, CondFrameGone, ReturnValue, DirectiveCond, DirectiveValue,
       ErrorDirective, ElifCond, ValueOf, CleanupBlock, CleanupFrame, HandlerFailed, EnterLoopBody,
       LoopBodyExhausted, WhileAgain, SkipFails, SkipLine, SkipOpen,
       SkipUnknown, SkipInner, SkipElse, SkipElif, SkipInnerEnd, SkipEnd, Skipping, Ended, Final
  <2>2. ASSUME pc' = "leave"
        PROVE  Left(j)'
    <3>1. ~FetchLine
      BY <1>4 DEF FetchLine
    <3>2. ASSUME NEW i \in DOMAIN frames', Body(frames'[i])
          PROVE  i <= j
      <4>1. i \in Nat /\ 1 <= i /\ i <= Len(frames')
        BY <1>2, <3>2
      <4>2. CASE i <= Len(frames)
        <5>1. frames'[i] = frames[i] /\ i \in DOMAIN frames
          BY <3>1, <4>1, <4>2, FramesSame
        <5>. QED  BY <1>4, <3>2, <5>1
      <4>3. CASE ~(i <= Len(frames))
        <5>1. frames' = frames \/ (frames # <<>> /\ frames' = Under(frames))
          BY <1>4, <2>1, <2>2 DEF LeaveIfBlock, LeaveFrame, PopFrame, AssertFails
        <5>2. frames # <<>> => Len(frames) > 0
          BY <1>1, EmptySeq
        <5>3. Len(frames') <= Len(frames)
          BY <1>1, <5>1, <5>2, UnderType
        <5>4. Len(frames) \in Nat /\ Len(frames') \in Nat
          BY <1>1, NextTypes
        <5>. QED  BY <4>1, <4>3, <5>3, <5>4
      <4>. QED  BY <4>2, <4>3
    <3>. QED  BY <2>2, <3>2 DEF Left, Body
  <2>3. CASE LeaveIfBlock
    <3>1. pc' = "leave"
      BY <1>4, <2>3 DEF LeaveIfBlock, AssertFails, Final
    <3>. QED  BY <2>2, <3>1
  <2>4. CASE LeaveFrame
    <3>1. /\ frames # <<>> /\ frames' = Under(frames)
          /\ Body(Top(frames)) \/ pc' = "leave"
      BY <1>4, <2>4 DEF LeaveFrame, PopFrame, Final, Body
    <3>2. Len(frames') = Len(frames) - 1 /\ Len(frames) \in 1 .. Len(frames)
      <4>1. Len(frames) > 0
        BY <1>1, <3>1, EmptySeq
      <4>2. Len(frames') = Len(frames) - 1
        BY <1>1, <3>1, <4>1, UnderType
      <4>3. Len(frames) \in Nat
        BY <1>1
      <4>. QED  BY <4>1, <4>2, <4>3
    <3>3. ~Body(Top(frames))
      <4>1. ASSUME Body(Top(frames))
            PROVE  FALSE
        <5>1. Len(frames) <= j
          BY <1>1, <1>4, <3>2, <4>1 DEF Top
        <5>. QED  BY <1>1, <3>2, <5>1
      <4>. QED  BY <4>1
    <3>. QED  BY <2>2, <3>1, <3>3
  <2>. QED  BY <2>1, <2>3, <2>4
<1>. QED  BY <1>3, <1>4 DEF Left

\* A handler that has failed, a call that ends and a loop that is left read the
\* top frame no more.
LEMMA LeftTop ==
    ASSUME Local, frames # <<>>, frames' = frames,
           pc' \in {"fail", "leave"} \/ (pc' = "cleanup" /\ pc # "cleanup")
    PROVE  Left(Len(frames))'
<1>1. /\ IInv /\ Nested /\ CallBones /\ Len(frames) \in Nat /\ frames \in Seq(Frames)
      /\ DOMAIN frames = 1 .. Len(frames) /\ Caller \in Nat
      /\ calls # <<>> /\ pc # "cleanup" => Len(frames) > Caller
      /\ calls = <<>> => Caller = 0
      /\ pc = "cleanup" => pc' = "cleanup"
  BY LocalFacts, NestTypes, CallerFacts DEF Local, Nested
<1>2. Len(frames) > 0
  BY <1>1, EmptySeq
<1>3. CASE pc' = "leave"
  <2>1. \A i \in DOMAIN frames' : i <= Len(frames')
    BY <1>1
  <2>. QED  BY <1>3, <2>1 DEF Left
<1>4. CASE pc' \in {"fail", "cleanup"}
  <2>1. pc # "cleanup"
    BY <1>1, <1>4
  <2>2. Len(frames) > Caller
    BY <1>1, <1>2, <2>1
  <2>3. Len(frames') > Caller'
    BY <1>1, <2>2 DEF CallBones
  <2>. QED  BY <1>4, <2>3 DEF Left, Failing
<1>. QED  BY <1>3, <1>4

LEMMA LineFetched ==
    ASSUME Next, pc' = "line"
    PROVE  FetchLine
<1>1. ~Handle
  BY DEF Handle, OpLimitExceeded, HandleOperand, HandleStrayReturn, HandleUnknown, HandleElse,
     HandleElif, HandleEnd, HandleFunc, HandleWhile, HandleLeave, HandleInclude, HandleEmit,
     HandleVar, HandleSet, ReportAndFail, Fail, BeginEval
<1>2. ~Evaluate
  BY DEF Evaluate, EvalRejected, EvalFailed, CondFrameGone, EvalCall, ReturnValue, DirectiveCond,
     IfBranch, WhileFirst, ForItems, BeginLoop, DirectiveValue, ErrorDirective, ReportAndFail,
     Fail, ElifCond
<1>3. ~Calls /\ ~Ended
  BY DEF Calls, CleanupBlock, CleanupFrame, FinishCall, HandlerFailed, Ended, Final, vars
<1>4. ~Loops
  <2>1. ~LoopBodyExhausted
    <3>1. TopKind \notin LoopKinds \/ TopKind = "for" \/ TopKind = "while"
      BY DEF LoopKinds
    <3>2. CASE TopKind \notin LoopKinds
      BY <3>2 DEF LoopBodyExhausted, AssertFails, LoopKinds
    <3>3. CASE TopKind = "for"
      BY <3>3 DEF LoopBodyExhausted, LoopKinds
    <3>4. CASE TopKind = "while"
      BY <3>4 DEF LoopBodyExhausted, LoopKinds
    <3>. QED  BY <3>1, <3>2, <3>3, <3>4
  <2>. QED  BY <2>1 DEF Loops, EnterLoopBody, ReportAndFail, Fail, WhileAgain, LeaveIfBlock,
       LeaveFrame, AssertFails
<1>5. ~Skip
  <2>1. ~SkipEnd
    <3>1. SkipEnd => pc' \in {"run", "enter", "assert"}
      BY DEF SkipEnd, FinishPendingFunc, FinishLoop, LoopKinds
    <3>. QED  BY <3>1
  <2>. QED  BY <2>1 DEF Skip, SkipFails, SkipLine, SkipOpen, SkipUnknown, SkipInner, SkipElse,
       SkipElif, SkipInnerEnd, Fail
<1>6. ~FetchPending /\ ~FrameExhausted /\ ~EndOfInput /\ ~UnterminatedBlock /\ ~PlainToken
  BY DEF FetchPending, YieldToken, FrameExhausted, EndOfInput, UnterminatedBlock, PlainToken
<1>. QED  BY <1>1, <1>2, <1>3, <1>4, <1>5, <1>6 DEF Next, Fetch

LEMMA NextNow ==
    ASSUME Len(blocks') \in Nat, skipDepth' \in Nat, BlockBase' \in Nat
    PROVE  /\ Now' \in Int /\ Inner' \in Nat
           /\ skipDepth' <= 1 => Inner' = 0
           /\ skipDepth' > 1 => Inner' = skipDepth' - 1
           /\ \A j : Shift(j)' \in {-1, 0, 1}
<1>1. Inner' \in Nat /\ (skipDepth' <= 1 => Inner' = 0) /\ (skipDepth' > 1 => Inner' = skipDepth' - 1)
  <2>1. skipDepth' > 1 => Inner' = skipDepth' - 1
    BY DEF Inner
  <2>2. ~(skipDepth' > 1) => Inner' = 0
    BY DEF Inner
  <2>. QED  BY <2>1, <2>2
<1>2. Delta(line') \in {-1, 0, 1}
  BY DEF Delta
<1>3. \A j : Shift(j)' \in {-1, 0, 1}
  BY DEF Shift
<1>4. Now' \in Int
  <2>. HIDE DEF Inner
  <2>1. Len(blocks') + Inner' \in Int /\ Len(blocks') + Inner' + Delta(line') \in Int
    BY <1>1, <1>2
  <2>2. Delta(line)' = Delta(line')
    BY DEF Delta
  <2>. QED  BY <2>1, <2>2 DEF Now
<1>. QED  BY <1>1, <1>3, <1>4

\* A line is read off the top frame.
LEMMA FetchReplays ==
    ASSUME Local, Replays, FetchLine
    PROVE  Replays'
<1>1. /\ IInv /\ Nested /\ CallBones /\ frames \in Seq(Frames) /\ Len(frames) \in Nat
      /\ DOMAIN frames = 1 .. Len(frames) /\ Len(blocks) \in Nat /\ skipDepth \in Nat
      /\ BlockBase \in Nat
      /\ \A j \in 1 .. Len(frames) : frames[j].base \in Nat /\ frames[j].rest \in Seq(Line)
  BY LocalFacts, NestTypes DEF Local
<1>2. /\ DOMAIN frames' = 1 .. Len(frames') /\ Len(frames') \in Nat
  BY NextTypes DEF Local
<1>3. /\ pc = "run" /\ pc' = "line" /\ frames # <<>> /\ UNCHANGED <<blocks, skipDepth>>
      /\ pc' \notin Final
  BY DEF FetchLine, Final
<1>. DEFINE n == Len(frames)
<1>4. n > 0 /\ n \in 1 .. n
  <2>1. Len(frames) > 0
    BY <1>1, <1>3, EmptySeq
  <2>. QED  BY <1>1, <2>1
<1>5. Len(frames') = n
  <2>1. Stays
    BY <1>1, NotMoved, FrameMoved, LocalFacts
  <2>. QED  BY <2>1 DEF Stays
<1>6. \A j : ~Left(j) /\ ~Left(j)'
  BY <1>3 DEF Left, Failing
<1>7. Now = Len(blocks) + Inner /\ Now' = Len(blocks) + Inner + Delta(line')
      /\ Now \in Int /\ Inner \in Nat /\ Delta(line') \in Int
  <2>1. Inner' = Inner
    BY <1>3 DEF Inner
  <2>. QED  BY <1>1, <1>3, <2>1, NowIs, NowWill, NowType, DeltaType
<1>8. ASSUME NEW j \in 1 .. n - 1
      PROVE  Safe(frames'[j].rest, Open(j)' - frames'[j].base)
  <2>1. j \in Nat /\ 1 <= j /\ j < Len(frames) /\ j < Len(frames') /\ j \in 1 .. n
    BY <1>1, <1>5
  <2>2. Open(j)' = Open(j)
    BY <1>3, <2>1, OpenSame
  <2>3. frames'[j] = frames[j]
    BY <1>1, <1>5, <2>1, FramesSame
  <2>. QED  BY <1>1, <1>6, <2>1, <2>2, <2>3 DEF Replays, Reads
<1>9. Open(n) = Now /\ Open(n)' = Now'
  BY <1>1, <1>5 DEF Open
<1>10. Safe(frames[n].rest, Now - frames[n].base) /\ frames[n].base \in Nat
       /\ frames[n].rest \in Seq(Line)
  <2>1. n \in DOMAIN frames
    BY <1>1, <1>4
  <2>. QED  BY <1>1, <1>4, <1>6, <1>9, <2>1 DEF Replays, Reads
<1>11. CASE Top(frames).file
  <2>1. frames' = frames /\ frames[n].file
    BY <1>11 DEF FetchLine, Top
  <2>2. frames[n].rest = <<>>
    <3>1. n \in DOMAIN frames
      BY <1>1, <1>4
    <3>. QED  BY <1>1, <2>1, <3>1 DEF Nested, BasesNested
  <2>3. Safe(frames'[n].rest, Open(n)' - frames'[n].base)
    BY <2>1, <2>2, EmptyBody
  <2>4. Closes'
    BY <1>11, <2>1 DEF Closes
  <2>5. Reads'
    <3>1. \A j \in 1 .. n : j = n \/ j \in 1 .. n - 1
      <4>1. Len(frames) \in Nat
        BY <1>1
      <4>. QED  BY <4>1
    <3>. QED  BY <1>2, <1>5, <1>8, <2>3, <3>1 DEF Reads
  <2>. QED  BY <2>4, <2>5 DEF Replays
<1>12. CASE ~Top(frames).file
  <2>1. /\ frames[n].rest # <<>> /\ line' = Head(frames[n].rest)
        /\ frames' = [frames EXCEPT ![n].rest = Tail(@)]
    BY <1>12 DEF FetchLine, Top
  <2>2. frames'[n].rest = Tail(frames[n].rest) /\ frames'[n].base = frames[n].base
        /\ frames'[n].file = frames[n].file
    <3>1. frames[n] \in Frames /\ n \in DOMAIN frames
      BY <1>1, <1>4, ElementOfSeq
    <3>. QED  BY <2>1, <3>1 DEF Frames
  <2>3. /\ Safe(Tail(frames[n].rest), (Now - frames[n].base) + Delta(line'))
        /\ line'.dir = "end" => Now - frames[n].base > 0
    <3>1. Now - frames[n].base \in Int
      BY <1>7, <1>10
    <3>. QED  BY <1>10, <2>1, <3>1, SafeTail
  <2>4. (Now - frames[n].base) + Delta(line') = Now' - frames[n].base
    BY <1>7, <1>10
  <2>5. Safe(frames'[n].rest, Open(n)' - frames'[n].base)
    BY <1>9, <2>2, <2>3, <2>4
  <2>6. Closes'
    <3>1. Top(frames') = frames'[n]
      BY <1>5 DEF Top
    <3>2. line'.dir = "end" => Now' >= frames[n].base
      <4>1. line'.dir = "end" => Delta(line') = -1
        BY DEF Delta, BlockKinds
      <4>2. line'.dir = "end" => Now - frames[n].base > 0
        BY <2>3
      <4>3. Now' = Now + Delta(line')
        BY <1>7
      <4>. QED  BY <1>7, <1>10, <4>1, <4>2, <4>3
    <3>. QED  BY <2>2, <3>1, <3>2 DEF Closes, Top
  <2>7. Reads'
    <3>1. \A j \in 1 .. n : j = n \/ j \in 1 .. n - 1
      <4>1. Len(frames) \in Nat
        BY <1>1
      <4>. QED  BY <4>1
    <3>. QED  BY <1>2, <1>5, <1>8, <2>5, <3>1 DEF Reads
  <2>. QED  BY <2>6, <2>7 DEF Replays
<1>. QED  BY <1>11, <1>12

\* A step keeps Replays if the frame that is read next, where it is read, finds
\* no fewer blocks open than it could count on.
Upheld ==
    \/ /\ frames' = frames
       /\ frames # <<>> /\ ~Left(Len(frames))' => Now' >= Now
    \/ FetchLine
    \/ \E f : /\ Grows(f)
              /\ Len(blocks) + Shift(Len(frames) - 1)' >= Now
              /\ Safe(f.rest, Now' - Len(blocks))
    \/ /\ Shrinks
       /\ Len(frames) > 1 /\ ~Left(Len(frames))' => Now' >= Open(Len(frames) - 1)

LEMMA ReplaysMoved ==
    ASSUME Local, Replays, Upheld, pc' \notin Final
    PROVE  Replays'
<1>1. /\ IInv /\ Nested /\ CallBones /\ frames \in Seq(Frames) /\ Len(frames) \in Nat
      /\ DOMAIN frames = 1 .. Len(frames) /\ Len(blocks) \in Nat /\ skipDepth \in Nat
      /\ BlockBase \in Nat /\ BlockBase' \in Nat /\ Next
      /\ \A j \in 1 .. Len(frames) : frames[j].base \in Nat /\ frames[j].rest \in Seq(Line)
  BY LocalFacts, NestTypes DEF Local, CallBones
<1>2. /\ DOMAIN frames' = 1 .. Len(frames') /\ Len(frames') \in Nat
      /\ Len(blocks') \in Nat /\ skipDepth' \in Nat
      /\ \A j \in 1 .. Len(frames') : frames'[j].base \in Nat /\ frames'[j].rest \in Seq(Line)
  BY NextTypes DEF Local
<1>3. Now \in Int /\ Now' \in Int
  <2>1. Now \in Int
    BY <1>1, NowType
  <2>2. Now' \in Int
    BY <1>1, <1>2, NextNow
  <2>. QED  BY <2>1, <2>2
<1>4. CASE FetchLine
  BY <1>4, FetchReplays
<1>5. CASE ~FetchLine
  <2>1. Closes'
    BY <1>1, <1>5, LineFetched DEF Closes
  <2>2. ASSUME NEW j \in 1 .. Len(frames'), ~Left(j)', j < Len(frames), j < Len(frames')
        PROVE  Safe(frames'[j].rest, Open(j)' - frames'[j].base)
    <3>1. j \in Nat /\ 1 <= j /\ j <= Len(frames) /\ j <= Len(frames') /\ j \in DOMAIN frames
      BY <1>1, <1>2, <2>2
    <3>2. Open(j)' = Open(j) /\ frames'[j] = frames[j] /\ ~Left(j)
      BY <2>2, <3>1, OpenSame, FramesSame, LeftSame
    <3>. QED  BY <3>1, <3>2 DEF Replays, Reads
  <2>3. ASSUME NEW j \in 1 .. Len(frames), j <= Len(frames'), ~Left(j)', frames'[j] = frames[j],
               Open(j) \in Int, Open(j)' \in Int, Open(j)' >= Open(j)
        PROVE  Safe(frames'[j].rest, Open(j)' - frames'[j].base)
    <3>1. j \in Nat /\ 1 <= j /\ j <= Len(frames) /\ j \in DOMAIN frames
          /\ frames[j].base \in Nat /\ frames[j].rest \in Seq(Line)
      BY <1>1, <2>3
    <3>2. ~Left(j)
      BY <2>3, <3>1, LeftSame
    <3>3. Safe(frames[j].rest, Open(j) - frames[j].base)
      BY <3>1, <3>2 DEF Replays, Reads
    <3>4. /\ Open(j) - frames[j].base \in Int /\ Open(j)' - frames[j].base \in Int
          /\ Open(j) - frames[j].base <= Open(j)' - frames[j].base
      BY <2>3, <3>1
    <3>. QED  BY <2>3, <3>1, <3>3, <3>4, SafeUp
  <2>4. CASE /\ frames' = frames
             /\ frames # <<>> /\ ~Left(Len(frames))' => Now' >= Now
    <3>1. ASSUME NEW j \in 1 .. Len(frames'), ~Left(j)'
          PROVE  Safe(frames'[j].rest, Open(j)' - frames'[j].base)
      <4>1. j = Len(frames) \/ j < Len(frames)
        <5>1. Len(frames) \in Nat /\ j \in 1 .. Len(frames)
          BY <1>1, <2>4, <3>1
        <5>. QED  BY <5>1
      <4>2. CASE j = Len(frames)
        <5>1. frames # <<>>
          BY <1>1, <2>4, <3>1, EmptySeq
        <5>2. Open(j) = Now /\ Open(j)' = Now'
          BY <1>1, <2>4, <4>2 DEF Open
        <5>3. Left(Len(frames))' <=> Left(j)'
          BY <2>4, <4>2
        <5>4. Now' >= Now
          BY <2>4, <3>1, <5>1, <5>3
        <5>5. j \in 1 .. Len(frames) /\ j <= Len(frames')
          BY <1>1, <2>4, <4>2
        <5>. QED  BY <1>3, <2>3, <2>4, <3>1, <5>2, <5>4, <5>5
      <4>3. CASE j < Len(frames)
        BY <2>2, <2>4, <3>1, <4>3
      <4>. QED  BY <4>1, <4>2, <4>3
    <3>. QED  BY <1>2, <2>1, <3>1 DEF Replays, Reads
  <2>5. ASSUME NEW f, Grows(f), Len(blocks) + Shift(Len(frames) - 1)' >= Now,
               Safe(f.rest, Now' - Len(blocks))
        PROVE  Replays'
    <3>1. /\ Len(frames') = Len(frames) + 1 /\ frames'[Len(frames) + 1] = f
          /\ \A j \in 1 .. Len(frames) : frames'[j] = frames[j]
          /\ f.base = Len(blocks)
      BY <2>5 DEF Grows, Pushed
    <3>2. ASSUME NEW j \in 1 .. Len(frames'), ~Left(j)'
          PROVE  Safe(frames'[j].rest, Open(j)' - frames'[j].base)
      <4>1. j = Len(frames) + 1 \/ j = Len(frames) \/ (j < Len(frames) /\ j < Len(frames'))
        <5>1. Len(frames) \in Nat /\ j \in 1 .. Len(frames) + 1
          BY <1>1, <3>1, <3>2
        <5>2. Len(frames') = Len(frames) + 1
          BY <3>1
        <5>. QED  BY <5>1, <5>2
      <4>2. CASE j = Len(frames) + 1
        <5>1. Open(j)' = Now'
          BY <1>1, <3>1, <4>2 DEF Open
        <5>. QED  BY <2>5, <3>1, <4>2, <5>1
      <4>3. CASE j = Len(frames)
        <5>1. j < Len(frames') /\ ~(j < Len(frames)) /\ j + 1 = Len(frames) + 1
              /\ Len(frames') - 1 = j /\ j <= Len(frames') /\ j \in 1 .. Len(frames)
          <6>1. Len(frames) \in Nat /\ j \in 1 .. Len(frames')
            BY <1>1
          <6>. QED  BY <3>1, <4>3, <6>1
        <5>2. Open(j) = Now /\ Open(j)' = Len(blocks) + Shift(j)'
          BY <3>1, <5>1 DEF Open
        <5>3. Shift(j)' \in Int /\ Shift(Len(frames) - 1)' = Shift(j)'
          BY <1>1, <1>2, <5>1, NextNow
        <5>4. Len(blocks) \in Nat /\ frames'[j] = frames[j]
          BY <1>1, <3>1, <5>1
        <5>5. Open(j)' \in Int /\ Open(j) \in Int
          BY <1>3, <5>2, <5>3, <5>4
        <5>6. Open(j)' >= Open(j)
          BY <2>5, <5>2, <5>3
        <5>. QED  BY <2>3, <3>2, <5>1, <5>4, <5>5, <5>6
      <4>4. CASE j < Len(frames) /\ j < Len(frames')
        BY <2>2, <3>2, <4>4
      <4>. QED  BY <4>1, <4>2, <4>3, <4>4
    <3>. QED  BY <1>2, <2>1, <3>2 DEF Replays, Reads
  <2>6. CASE /\ Shrinks
             /\ Len(frames) > 1 /\ ~Left(Len(frames))' => Now' >= Open(Len(frames) - 1)
    <3>1. /\ Len(frames') = Len(frames) - 1
          /\ \A j \in 1 .. Len(frames) - 1 : frames'[j] = frames[j]
      BY <2>6 DEF Shrinks
    <3>2. ASSUME NEW j \in 1 .. Len(frames'), ~Left(j)'
          PROVE  Safe(frames'[j].rest, Open(j)' - frames'[j].base)
      <4>0. Len(frames) \in Nat
        BY <1>1
      <4>1. j = Len(frames) - 1 \/ (j < Len(frames) /\ j < Len(frames'))
        BY <3>1, <4>0
      <4>2. CASE j = Len(frames) - 1
        <5>1. /\ Len(frames) > 1 /\ j = Len(frames') /\ j < Len(frames) /\ ~(j < Len(frames'))
              /\ j \in 1 .. Len(frames) - 1 /\ j \in 1 .. Len(frames) /\ j + 1 \in 1 .. Len(frames)
              /\ j <= Len(frames')
          BY <3>1, <4>0, <4>2
        <5>2. Open(j)' = Now' /\ Open(j) = frames[j + 1].base + Shift(j)
          BY <5>1 DEF Open
        <5>3. Shift(j) \in Int /\ frames[j + 1].base \in Nat
          BY <1>1, <5>1, NowType
        <5>4. Open(j) \in Int
          BY <5>2, <5>3
        <5>5. Left(Len(frames))' <=> Left(j)'
          BY <5>1
        <5>6. Now' >= Open(j)
          BY <2>6, <3>2, <4>2, <5>1, <5>5
        <5>. QED  BY <1>3, <2>3, <3>1, <3>2, <5>1, <5>2, <5>4, <5>6
      <4>3. CASE j < Len(frames) /\ j < Len(frames')
        BY <2>2, <3>2, <4>3
      <4>. QED  BY <4>1, <4>2, <4>3
    <3>. QED  BY <1>2, <2>1, <3>2 DEF Replays, Reads
  <2>. QED  BY <1>5, <2>4, <2>5, <2>6 DEF Upheld
<1>. QED  BY <1>4, <1>5

-----------------------------------------------------------------------------
(* Every step keeps Replays *)

LEMMA SameLength ==
    ASSUME NEW a \in Nat, NEW b \in Nat, 1 .. a = 1 .. b
    PROVE  a = b
<1>1. CASE a < b
  <2>1. b \in 1 .. b /\ b \notin 1 .. a
    BY <1>1
  <2>. QED  BY <2>1
<1>2. CASE b < a
  <2>1. a \in 1 .. a /\ a \notin 1 .. b
    BY <1>2
  <2>. QED  BY <2>1
<1>. QED  BY <1>1, <1>2

\* How many blocks are open after a step, and what Now makes of it.
LEMMA NowTo ==
    ASSUME Local
    PROVE  /\ Now \in Int /\ Now' \in Int /\ Len(blocks) \in Nat /\ Len(blocks') \in Nat
           /\ skipDepth \in Nat /\ skipDepth' \in Nat
           /\ blocks' = blocks => Len(blocks') = Len(blocks)
           /\ \A b : blocks' = Append(blocks, b) => Len(blocks') = Len(blocks) + 1
           /\ HasBlock /\ blocks' = Under(blocks) => Len(blocks') = Len(blocks) - 1
           /\ HasBlock => \A b : blocks' = SetTop(b) => Len(blocks') = Len(blocks)
           /\ pc' = "run" => Now' = Len(blocks') + Inner' /\ Now' >= Len(blocks')
           /\ pc' \in Evaluating => Now' = Len(blocks') + (IF line'.dir \in {"if", "for"} THEN 1 ELSE 0)
           /\ pc' \in {"enter", "exhausted"} => Now' = Len(blocks') - 1
           /\ Inner' \in Nat
           /\ skipDepth' <= 1 => Inner' = 0
           /\ skipDepth' > 1 => Inner' = skipDepth' - 1
           /\ \A j : Shift(j)' \in {-1, 0, 1}
<1>1. /\ IInv /\ Next /\ CallBones /\ blocks \in Seq(Blocks) /\ Len(blocks) \in Nat
      /\ DOMAIN blocks = 1 .. Len(blocks) /\ skipDepth \in Nat /\ BlockBase \in Nat
      /\ BlockBase' \in Nat
  BY LocalFacts, NestTypes DEF Local, CallBones
<1>2. blocks' \in Seq(Blocks) /\ skipDepth' \in Nat
  BY <1>1, NextStep DEF IInv, TypeOK
<1>3. Len(blocks') \in Nat /\ DOMAIN blocks' = 1 .. Len(blocks')
  BY <1>2, LenProperties
<1>4. Now \in Int
  BY <1>1, NowType
<1>5. /\ Now' \in Int /\ Inner' \in Nat
      /\ skipDepth' <= 1 => Inner' = 0
      /\ skipDepth' > 1 => Inner' = skipDepth' - 1
      /\ \A j : Shift(j)' \in {-1, 0, 1}
  BY <1>1, <1>2, <1>3, NextNow
<1>6. pc' = "run" => Now' = Len(blocks') + Inner' /\ Now' >= Len(blocks')
  <2>1. pc' = "run" => Now' = Len(blocks') + Inner'
    BY NowWill
  <2>. QED  BY <1>3, <1>5, <2>1
<1>7. ASSUME NEW b, blocks' = Append(blocks, b)
      PROVE  Len(blocks') = Len(blocks) + 1
  BY <1>1, <1>7
<1>8. ASSUME HasBlock, blocks' = Under(blocks)
      PROVE  Len(blocks') = Len(blocks) - 1
  <2>1. Len(blocks) > 0
    BY <1>1, <1>8 DEF HasBlock
  <2>. QED  BY <1>1, <1>8, <2>1, UnderType
<1>9. ASSUME NEW b, blocks' = SetTop(b)
      PROVE  Len(blocks') = Len(blocks)
  <2>1. DOMAIN blocks' = DOMAIN blocks
    BY <1>9 DEF SetTop
  <2>2. 1 .. Len(blocks') = 1 .. Len(blocks)
    BY <1>1, <1>3, <2>1
  <2>. QED  BY <1>1, <1>3, <2>2, SameLength
<1>. QED  BY <1>1, <1>2, <1>3, <1>4, <1>5, <1>6, <1>7, <1>8, <1>9, NowWill

\* What the directive under way adds to the open blocks.
LEMMA NowFrom ==
    ASSUME Local
    PROVE  /\ pc = "run" => Now = Len(blocks) + Inner
           /\ pc = "line" /\ line.dir \in BlockKinds => Now = Len(blocks) + Inner + 1
           /\ pc = "line" /\ line.dir = "end" => Now = Len(blocks) + Inner - 1
           /\ pc = "line" /\ line.dir \notin BlockKinds \cup {"end"} => Now = Len(blocks) + Inner
           /\ pc \in Evaluating => Now = Len(blocks) + (IF line.dir \in {"if", "for"} THEN 1 ELSE 0)
           /\ pc \in {"enter", "exhausted"} => Now = Len(blocks) - 1
           /\ Inner \in Nat /\ (skipDepth <= 1 => Inner = 0)
           /\ skipDepth > 1 => Inner = skipDepth - 1
<1>1. Len(blocks) \in Nat /\ skipDepth \in Nat /\ BlockBase \in Nat
  BY NestTypes DEF Local
<1>2. /\ Inner \in Nat /\ (skipDepth <= 1 => Inner = 0)
      /\ skipDepth > 1 => Inner = skipDepth - 1
  BY <1>1, NowType
<1>3. /\ line.dir \in BlockKinds => Delta(line) = 1
      /\ line.dir = "end" => Delta(line) = -1
      /\ line.dir \notin BlockKinds \cup {"end"} => Delta(line) = 0
  BY DEF Delta, BlockKinds
<1>4. pc = "line" => Now = Len(blocks) + Inner + Delta(line)
  BY NowIs
<1>. QED  BY <1>1, <1>2, <1>3, <1>4, NowIs

LEMMA QuietUpheld ==
    ASSUME Local, frames' = frames,
           \/ pc' \in {"fail", "leave"}
           \/ pc' = "cleanup" /\ pc # "cleanup"
           \/ Now' >= Now
    PROVE  Upheld
BY LeftTop DEF Upheld

\* The shift at the top frame, when it is one of the running call's own.
LEMMA TopShift ==
    ASSUME Local, frames # <<>>, calls # <<>> => Len(frames) > Caller + 1
    PROVE  /\ Shift(Len(frames) - 1) \in {-1, 0, 1}
           /\ pc \in Evaluating /\ line.dir = "again" => Shift(Len(frames) - 1) = -1
           /\ pc \notin Evaluating /\ Body(Top(frames)) => Shift(Len(frames) - 1) = -1
           /\ pc \notin Evaluating /\ ~Body(Top(frames)) => Shift(Len(frames) - 1) = 0
<1>1. /\ IInv /\ CallsNested /\ Len(frames) \in Nat /\ frames \in Seq(Frames) /\ Caller \in Nat
      /\ Len(blocks) \in Nat /\ skipDepth \in Nat /\ BlockBase \in Nat
  BY NestTypes, CallerFacts DEF Local, Nested
<1>2. Len(frames) > 0
  BY <1>1, EmptySeq
<1>. DEFINE j == Len(frames) - 1
<1>3. /\ j \in Nat /\ j + 1 = Len(frames)
      /\ calls # <<>> => j > Caller /\ Len(frames) > Caller
  <2>1. Len(frames) \in Nat /\ Caller \in Nat
    BY <1>1
  <2>. QED  BY <1>2, <2>1
<1>. HIDE DEF j
<1>4. \A dirs : ~Awaited(j, dirs) /\ ~Awaited(j + 1, dirs)
  BY <1>1, <1>3, NotAwaited
<1>5. Shift(j) \in {-1, 0, 1}
  BY <1>1, NowType
<1>6. \A dir : Cond(j + 1, dir) <=> pc \in Evaluating /\ line.dir = dir
  BY <1>3, <1>4 DEF Cond
<1>7. Shift(j) = IF Cond(j + 1, "while") THEN 1
                 ELSE IF Body(Top(frames)) \/ Cond(j + 1, "again") THEN -1 ELSE 0
  BY <1>3, <1>4 DEF Shift, Top
<1>. QED  BY <1>5, <1>6, <1>7 DEF j

LEMMA FetchUpheld ==
    ASSUME Local, Fetch, pc' \notin Final
    PROVE  Upheld
<1>1. /\ IInv /\ Nested /\ Len(frames) \in Nat /\ frames \in Seq(Frames) /\ Caller \in Nat
      /\ CallBones
  BY LocalFacts, NestTypes, CallerFacts DEF Local, Nested
<1>2. CASE FetchPending \/ PlainToken
  <2>1. /\ frames' = frames /\ UNCHANGED <<blocks, skipDepth>>
        /\ pc' = "run" \/ (pc' = "cleanup" /\ pc # "cleanup")
        /\ pc = "run" \/ (pc = "line" /\ line.dir = "tok")
    BY <1>2 DEF FetchPending, PlainToken, YieldToken
  <2>2. CASE pc' = "run"
    <3>1. Inner' = Inner
      BY <2>1 DEF Inner
    <3>2. Now = Len(blocks) + Inner
      BY <2>1, NowFrom DEF BlockKinds
    <3>3. Now' = Now
      BY <2>1, <2>2, <3>1, <3>2, NowTo
    <3>4. Now' >= Now
      BY <3>3, NowTo
    <3>. QED  BY <2>1, <3>4, QuietUpheld
  <2>3. CASE pc' # "run"
    BY <2>1, <2>3, QuietUpheld
  <2>. QED  BY <2>2, <2>3
<1>3. CASE FetchLine
  BY <1>3 DEF Upheld
<1>4. CASE EndOfInput \/ UnterminatedBlock
  BY <1>4 DEF EndOfInput, UnterminatedBlock, Upheld
<1>5. CASE FrameExhausted
  <2>1. /\ frames # <<>> /\ frames' = Under(frames) /\ pc = "run" /\ blocks' = blocks
        /\ Top(frames).base = Len(blocks)
        /\ pc' = IF Body(Top(frames)) THEN "exhausted" ELSE "run"
    BY <1>5 DEF FrameExhausted, PopFrame, Local, Body
  <2>2. Shrinks
    BY <2>1, ShrinksWhen
  <2>3. calls # <<>> => Len(frames) > Caller + 1
    BY <2>1, <2>2 DEF Shrinks, Popped
  <2>4. Shift(Len(frames) - 1) = IF Body(Top(frames)) THEN -1 ELSE 0
    BY <2>1, <2>3, TopShift DEF Evaluating
  <2>5. Len(frames) > 1 => Open(Len(frames) - 1) = Len(blocks) + Shift(Len(frames) - 1)
    <3>1. Len(frames) - 1 < Len(frames) /\ (Len(frames) - 1) + 1 = Len(frames)
      BY <1>1
    <3>. QED  BY <2>1, <3>1 DEF Open, Top
  <2>6. Len(frames) > 1 => Now' >= Open(Len(frames) - 1)
    <3>1. /\ Len(blocks) \in Nat /\ Len(blocks') = Len(blocks) /\ Now' \in Int
          /\ pc' = "run" => Now' >= Len(blocks')
          /\ pc' = "exhausted" => Now' = Len(blocks') - 1
      BY <2>1, NowTo
    <3>. QED  BY <2>1, <2>4, <2>5, <3>1
  <2>. QED  BY <2>2, <2>6 DEF Upheld
<1>. QED  BY <1>2, <1>3, <1>4, <1>5 DEF Fetch

\* A frame is pushed that has nothing to read.
LEMMA EmptyUpheld ==
    ASSUME Local, pc \in {"line", "exhausted"}, NEW file \in BOOLEAN,
           frames' = Append(frames, NewFrame("FRAME_CALL", file, <<>>)),
           Len(blocks) + Shift(Len(frames) - 1)' >= Now
    PROVE  Upheld
<1>. DEFINE f == NewFrame("FRAME_CALL", file, <<>>)
<1>1. Pushed(f)
  BY EmptySeq, PushedNew DEF Local
<1>2. Grows(f)
  BY <1>1, GrowsWhen DEF Local
<1>3. Safe(f.rest, Now' - Len(blocks))
  BY EmptyBody DEF NewFrame
<1>. HIDE DEF f
<1>. QED  BY <1>2, <1>3 DEF Upheld

LEMMA HandleUpheld ==
    ASSUME Local, Handle, pc' \notin Final
    PROVE  Upheld
<1>1. /\ IInv /\ SkipInv /\ Nested /\ ClosesOwn /\ ~ragged' /\ pc = "line" /\ skipDepth = 0
      /\ CallBones /\ Len(frames) \in Nat /\ frames \in Seq(Frames) /\ CallsNested /\ Caller \in Nat
      /\ Len(blocks) \in Nat
  BY LocalFacts, NestTypes, CallerFacts DEF Local, Nested, Handle, OpLimitExceeded, HandleOperand,
     HandleStrayReturn, HandleUnknown, HandleElse, HandleElif, HandleEnd, HandleFunc, HandleWhile,
     HandleLeave, HandleInclude, HandleEmit, HandleVar, HandleSet, Active
<1>2. /\ line.dir \in BlockKinds => Now = Len(blocks) + 1
      /\ line.dir = "end" => Now = Len(blocks) - 1
      /\ line.dir \notin BlockKinds \cup {"end"} => Now = Len(blocks)
  BY <1>1, NowFrom
<1>3. ReportAndFail => Upheld
  BY QuietUpheld DEF ReportAndFail, Fail
<1>4. ASSUME frames' = frames, \/ pc' \in {"fail", "leave"}
                               \/ pc' = "run" /\ Len(blocks') >= Now
                               \/ pc' = "eval" /\ Now' >= Now
      PROVE  Upheld
  <2>1. pc' = "run" /\ Len(blocks') >= Now => Now' >= Now
    BY NowTo
  <2>. QED  BY <1>4, <2>1, QuietUpheld
<1>5. CASE \/ OpLimitExceeded \/ HandleStrayReturn \/ HandleUnknown \/ HandleLeave
  BY <1>3, <1>4, <1>5 DEF OpLimitExceeded, HandleStrayReturn, HandleUnknown, HandleLeave
<1>6. CASE HandleOperand \/ HandleEmit \/ HandleVar \/ HandleSet
  <2>1. CASE ReportAndFail
    BY <1>3, <2>1
  <2>2. CASE ~ReportAndFail
    <3>1. /\ UNCHANGED <<frames, blocks>> /\ pc' \in {"run", "eval"}
          /\ pc' = "eval" => line' = line
          /\ pc' = "run" => line.dir \in {"emit", "var"}
          /\ line.dir \in {"if", "return", "for", "diag", "error", "emit", "var", "set"}
      BY <1>6, <2>2 DEF HandleOperand, HandleEmit, HandleVar, HandleSet, BeginEval, Active
    <3>2. Now = Len(blocks) + (IF line.dir \in {"if", "for"} THEN 1 ELSE 0)
      BY <1>2, <3>1 DEF BlockKinds
    <3>3. Len(blocks') = Len(blocks)
      BY <3>1
    <3>4. CASE pc' = "run"
      BY <1>1, <1>4, <3>1, <3>2, <3>3, <3>4
    <3>5. CASE pc' = "eval"
      <4>1. Now' = Now /\ Now \in Int
        BY <3>1, <3>2, <3>3, <3>5, NowTo DEF Evaluating
      <4>2. Now' >= Now
        BY <4>1
      <4>. QED  BY <1>4, <3>1, <3>5, <4>2
    <3>. QED  BY <3>1, <3>4, <3>5
  <2>. QED  BY <2>1, <2>2
<1>7. CASE HandleElse
  <2>1. CASE ReportAndFail
    BY <1>3, <2>1
  <2>2. CASE ~ReportAndFail
    <3>1. /\ ~ElseRefused /\ line.dir = "else" /\ frames' = frames /\ pc' = "run"
          /\ \E b : blocks' = SetTop(b)
      BY <1>7, <2>2 DEF HandleElse, Active, Final
    <3>2. HasBlock
      BY <3>1 DEF ElseRefused, TopKind
    <3>3. Len(blocks') = Len(blocks) /\ Now = Len(blocks)
      BY <1>2, <3>1, <3>2, NowTo DEF BlockKinds
    <3>. QED  BY <1>1, <1>4, <3>1, <3>3
  <2>. QED  BY <2>1, <2>2
<1>8. CASE HandleElif
  <2>1. CASE ReportAndFail
    BY <1>3, <2>1
  <2>2. CASE ~ReportAndFail
    <3>1. UNCHANGED <<frames, blocks>> /\ pc' \in {"run", "fail"} /\ line.dir = "elif"
      BY <1>8, <2>2 DEF HandleElif, Active, Fail
    <3>2. Now = Len(blocks) /\ Len(blocks') >= Now
      BY <1>1, <1>2, <3>1 DEF BlockKinds
    <3>. QED  BY <1>4, <3>1, <3>2
  <2>. QED  BY <2>1, <2>2
<1>9. CASE HandleEnd
  <2>1. CASE TopKind = "none"
    BY <1>3, <1>9, <2>1 DEF HandleEnd
  <2>2. CASE TopKind # "none"
    <3>1. TopKind = "if"
      BY <1>1, <1>9, <2>2, EndKinds
    <3>2. HasBlock
      BY <2>2 DEF TopKind
    <3>3. blocks' = Under(blocks) /\ pc' = "run" /\ frames' = frames /\ line.dir = "end"
      BY <1>9, <3>1 DEF HandleEnd, PopIfBlock, Active
    <3>4. Len(blocks') = Len(blocks) - 1 /\ Now = Len(blocks) - 1
      BY <1>2, <3>2, <3>3, NowTo
    <3>. QED  BY <1>1, <1>4, <3>3, <3>4
  <2>. QED  BY <2>1, <2>2
<1>10. CASE HandleFunc
  <2>1. CASE ReportAndFail
    BY <1>3, <2>1
  <2>2. CASE ~ReportAndFail
    <3>1. /\ \E b : blocks' = Append(blocks, b)
          /\ pc' = "run" /\ frames' = frames /\ line.dir = "func"
      BY <1>10, <2>2 DEF HandleFunc, Active
    <3>2. Len(blocks') = Len(blocks) + 1 /\ Now = Len(blocks) + 1
      BY <1>2, <3>1, NowTo DEF BlockKinds
    <3>. QED  BY <1>1, <1>4, <3>1, <3>2
  <2>. QED  BY <2>1, <2>2
<1>11. ASSUME NEW file \in BOOLEAN, frames' = Append(frames, NewFrame("FRAME_CALL", file, <<>>))
       PROVE  Grows(NewFrame("FRAME_CALL", file, <<>>)) /\ Len(frames') - 1 = Len(frames)
              /\ ~Body(frames'[Len(frames) + 1]) /\ Len(frames') = Len(frames) + 1
  <2>. DEFINE f == NewFrame("FRAME_CALL", file, <<>>)
  <2>1. Pushed(f)
    BY <1>1, <1>11, EmptySeq, PushedNew
  <2>2. ~Body(f)
    BY DEF Body, NewFrame
  <2>. HIDE DEF f
  <2>3. Grows(f)
    BY <1>1, <2>1, GrowsWhen
  <2>4. Len(frames') = Len(frames) + 1 /\ frames'[Len(frames) + 1] = f
    BY <2>3 DEF Grows
  <2>5. Len(frames') - 1 = Len(frames)
    BY <1>1, <2>4
  <2>. QED  BY <2>2, <2>3, <2>4, <2>5 DEF f
<1>12. CASE HandleWhile
  <2>1. CASE ReportAndFail
    BY <1>3, <2>1
  <2>2. CASE ~ReportAndFail
    <3>1. /\ frames' = Append(frames, NewFrame("FRAME_CALL", FALSE, <<>>))
          /\ pc' = "eval" /\ line' = line /\ line.dir = "while"
      BY <1>12, <2>2 DEF HandleWhile, PushCondFrame, Active
    <3>2. Len(frames') - 1 = Len(frames) /\ Len(frames') = Len(frames) + 1
      BY <1>11, <3>1
    <3>3. Cond(Len(frames), "while")'
      BY <3>1 DEF Cond, Evaluating
    <3>4. Shift(Len(frames) - 1)' = 1
      <4>1. (Len(frames') - 1) + 1 = Len(frames')
        BY <1>1, <3>2
      <4>. QED  BY <3>3, <4>1 DEF Shift
    <3>5. Now = Len(blocks) + 1
      BY <1>2, <3>1 DEF BlockKinds
    <3>6. Len(blocks) + Shift(Len(frames) - 1)' >= Now
      BY <1>1, <3>4, <3>5
    <3>. QED  BY <1>1, <3>1, <3>6, EmptyUpheld
  <2>. QED  BY <2>1, <2>2
<1>13. CASE HandleInclude
  <2>1. CASE ReportAndFail
    BY <1>3, <2>1
  <2>2. CASE pc' = "fail" /\ ~ReportAndFail
    BY <1>4, <1>13, <2>2 DEF HandleInclude
  <2>3. CASE pc' # "fail" /\ ~ReportAndFail
    <3>1. /\ frames' = Append(frames, NewFrame("FRAME_CALL", TRUE, <<>>))
          /\ pc' = "run" /\ line.dir = "include"
      BY <1>13, <2>3 DEF HandleInclude, Active, Fail
    <3>2. /\ Len(frames') - 1 = Len(frames) /\ Len(frames') = Len(frames) + 1
          /\ ~Body(frames'[Len(frames) + 1])
      BY <1>11, <3>1
    <3>3. \A dirs : ~Awaited(Len(frames), dirs)'
      <4>1. Len(frames) + 1 \in Nat /\ (calls # <<>> => Len(frames) + 1 > Caller)
        <5>1. calls # <<>> => Len(frames) > Caller
          BY <1>1 DEF CallsNested
        <5>2. Len(frames) \in Nat /\ Caller \in Nat
          BY <1>1
        <5>. QED  BY <5>1, <5>2
      <4>2. /\ DOMAIN calls' = 1 .. Len(calls)
            /\ \A c \in 1 .. Len(calls) : calls'[c].caller = calls[c].caller
                                        /\ calls[c].caller \in Nat /\ calls[c].caller <= Caller
        BY <1>1, NestTypes, CallerFacts DEF CallBones
      <4>3. ASSUME NEW c \in 1 .. Len(calls)
            PROVE  calls'[c].caller # Len(frames')
        <5>1. calls # <<>> /\ Caller \in Nat /\ Len(frames) \in Nat
          BY <1>1, <4>3, EmptySeq, NestTypes
        <5>2. calls[c].caller \in Nat /\ calls[c].caller <= Caller /\ Len(frames) + 1 > Caller
          BY <4>1, <4>2, <4>3, <5>1
        <5>3. calls[c].caller # Len(frames) + 1
          BY <5>1, <5>2
        <5>. QED  BY <3>2, <4>2, <4>3, <5>3
      <4>. QED  BY <4>2, <4>3 DEF Awaited
    <3>4. ~Cond(Len(frames), "again")'
      BY <3>1, <3>3 DEF Cond, Evaluating
    <3>5. Shift(Len(frames) - 1)' \in {0, 1}
      <4>1. (Len(frames') - 1) + 1 = Len(frames') /\ ~Body(frames'[Len(frames')])
        BY <1>1, <3>2
      <4>. QED  BY <3>4, <4>1 DEF Shift, Body
    <3>6. Now = Len(blocks)
      BY <1>2, <3>1 DEF BlockKinds
    <3>7. Len(blocks) + Shift(Len(frames) - 1)' >= Now
      BY <1>1, <3>5, <3>6
    <3>. QED  BY <1>1, <3>1, <3>7, EmptyUpheld
  <2>. QED  BY <2>1, <2>2, <2>3
<1>. QED  BY <1>5, <1>6, <1>7, <1>8, <1>9, <1>10, <1>12, <1>13 DEF Handle


\* The frame of a loop condition is popped.
LEMMA CondUpheld ==
    ASSUME Local, InCond, frames' = Under(frames), frames # <<>>,
           \/ pc' = "fail"
           \/ Now' >= Len(blocks) + Shift(Len(frames) - 1)
    PROVE  Upheld
<1>1. /\ IInv /\ Nested /\ CallBones /\ Len(frames) \in Nat /\ Caller \in Nat
      /\ Len(frames) > Caller + 1
  BY LocalFacts, NestTypes, CallerFacts DEF Local, Nested, CallsNested
<1>2. Shrinks
  BY ShrinksWhen
<1>3. CASE pc' = "fail"
  <2>1. Len(frames') > Caller'
    <3>1. Len(frames') = Len(frames) - 1 /\ Caller' = Caller
      BY <1>1, <1>2 DEF Shrinks, CallBones
    <3>2. Len(frames) - 1 > Caller
      BY <1>1
    <3>. QED  BY <3>1, <3>2
  <2>2. Left(Len(frames))'
    BY <1>3, <2>1 DEF Left, Failing
  <2>. QED  BY <1>2, <2>2 DEF Upheld
<1>4. CASE Now' >= Len(blocks) + Shift(Len(frames) - 1)
  <2>1. Len(frames) - 1 < Len(frames) /\ (Len(frames) - 1) + 1 = Len(frames)
    BY <1>1
  <2>2. Top(frames).base = Len(blocks)
    BY <1>1 DEF Nested, FramesOpen
  <2>3. Open(Len(frames) - 1) = Len(blocks) + Shift(Len(frames) - 1)
    BY <2>1, <2>2 DEF Open, Top
  <2>. QED  BY <1>2, <1>4, <2>3 DEF Upheld
<1>. QED  BY <1>3, <1>4

LEMMA CondShift ==
    ASSUME Local, InCond
    PROVE  /\ Shift(Len(frames) - 1) \in {-1, 0, 1} /\ frames # <<>>
           /\ line.dir = "again" => Shift(Len(frames) - 1) = -1
<1>1. /\ Len(frames) \in Nat /\ Caller \in Nat /\ frames \in Seq(Frames)
      /\ Len(frames) > Caller + 1
  BY NestTypes, CallerFacts DEF Local, Nested, CallsNested
<1>2. frames # <<>>
  <2>1. Len(frames) > 0
    BY <1>1
  <2>. QED  BY <1>1, <2>1, EmptySeq
<1>. QED  BY <1>1, <1>2, TopShift DEF InCond

LEMMA EvaluateUpheld ==
    ASSUME Local, Evaluate, pc' \notin Final
    PROVE  Upheld
<1>1. /\ IInv /\ SkipInv /\ Nested /\ pc \in Evaluating /\ ~EvalCall /\ skipDepth \in Nat
      /\ Len(blocks) \in Nat
  BY NestTypes DEF Local, Evaluate, EvalRejected, EvalFailed, CondFrameGone, ReturnValue,
     DirectiveCond, DirectiveValue, ErrorDirective, ElifCond, ValueOf, Evaluating
<1>2. pc # "cleanup" /\ Now \in Int /\ Now' \in Int
      /\ Now = Len(blocks) + (IF line.dir \in {"if", "for"} THEN 1 ELSE 0)
  BY <1>1, NowFrom, NowTo DEF Evaluating
<1>3. CASE EvalRejected
  <2>1. UNCHANGED <<frames, blocks, line>> /\ pc' \in Evaluating
    BY <1>3 DEF EvalRejected, Evaluating
  <2>2. Now' = Now
    BY <1>2, <2>1, NowTo
  <2>3. Now' >= Now
    BY <1>2, <2>2
  <2>. QED  BY <2>1, <2>3, QuietUpheld
<1>4. CASE EvalFailed
  <2>1. CASE line.dir \notin {"while", "again"}
    BY <1>4, <2>1, QuietUpheld DEF EvalFailed, Fail
  <2>2. CASE line.dir \in {"while", "again"}
    <3>1. InCond
      BY <1>1, <2>2 DEF InCond, CondDirs
    <3>2. frames # <<>> /\ frames' = Under(frames) /\ pc' = "fail"
      BY <1>4, <2>2, <3>1, CondShift DEF EvalFailed, PopFrame, Fail
    <3>. QED  BY <3>1, <3>2, CondUpheld
  <2>. QED  BY <2>1, <2>2
<1>5. ~CondFrameGone
  BY DEF CondFrameGone, Final
<1>6. CASE ReturnValue
  BY <1>2, <1>6, QuietUpheld DEF ReturnValue
<1>7. CASE ErrorDirective
  BY <1>7, QuietUpheld DEF ErrorDirective, ReportAndFail, Fail
<1>8. ASSUME frames' = frames, pc' = "run", Len(blocks') >= Now
      PROVE  Upheld
  <2>1. Now' >= Len(blocks') /\ Len(blocks') \in Nat
    BY <1>8, NowTo
  <2>2. Now' >= Now
    BY <1>2, <1>8, <2>1
  <2>. QED  BY <1>8, <2>2, QuietUpheld
<1>9. CASE DirectiveValue
  <2>1. UNCHANGED <<frames, blocks>> /\ pc' = "run" /\ line.dir \notin {"if", "for"}
    BY <1>9 DEF DirectiveValue, ValueOf
  <2>2. Len(blocks') >= Now
    BY <1>1, <1>2, <2>1
  <2>. QED  BY <1>8, <2>1, <2>2
<1>10. CASE ElifCond
  <2>1. /\ HasBlock /\ frames' = frames /\ pc' = "run" /\ line.dir = "elif"
        /\ blocks' = blocks \/ \E b : blocks' = SetTop(b)
    <3>1. TopKind = "if" /\ ~Top(blocks).hasScope
      BY <1>1, <1>10, TopBranch DEF ElifCond, ValueOf, SkipInv, HandlerSkip, IInv, PcShape,
         Evaluating
    <3>2. HasBlock
      BY <3>1 DEF TopKind
    <3>. QED  BY <1>10, <3>1, <3>2 DEF ElifCond, ValueOf, EnterIfBranch
  <2>2. Len(blocks') = Len(blocks)
    BY <2>1, NowTo
  <2>3. Len(blocks') >= Now
    BY <1>1, <1>2, <2>1, <2>2
  <2>. QED  BY <1>8, <2>1, <2>3
<1>11. CASE DirectiveCond
  <2>1. CASE \E b : blocks' = Append(blocks, b) /\ frames' = frames /\ pc' = "run"
    <3>1. Len(blocks') = Len(blocks) + 1
      BY <2>1, NowTo
    <3>2. Len(blocks') >= Now
      BY <1>1, <1>2, <3>1
    <3>. QED  BY <1>8, <2>1, <3>2
  <2>2. ASSUME NEW b, blocks' = Append(blocks, b), pc' = "run", frames # <<>>,
               frames' = Under(frames), InCond
        PROVE  Upheld
    <3>1. Now' >= Len(blocks') /\ Len(blocks') = Len(blocks) + 1
      BY <2>2, NowTo
    <3>2. Shift(Len(frames) - 1) \in {-1, 0, 1}
      BY <2>2, CondShift
    <3>3. Now' >= Len(blocks) + Shift(Len(frames) - 1)
      BY <1>1, <1>2, <3>1, <3>2
    <3>. QED  BY <2>2, <3>3, CondUpheld
  <2>3. ValueOf({"if"}) /\ (\E cond \in BOOLEAN : IfBranch(cond))
          => \E b : blocks' = Append(blocks, b) /\ frames' = frames /\ pc' = "run"
    BY DEF IfBranch
  <2>4. ValueOf({"for"}) /\ (\E count \in 0 .. MaxItems : ForItems(count))
          => \E b : blocks' = Append(blocks, b) /\ frames' = frames /\ pc' = "run"
    BY DEF ForItems, BeginLoop
  <2>5. CASE ValueOf({"while"}) /\ \E cond \in BOOLEAN : WhileFirst(cond)
    <3>1. InCond
      BY <1>1, <2>5 DEF ValueOf, InCond, CondDirs
    <3>2. PICK cond \in BOOLEAN : WhileFirst(cond)
      BY <2>5
    <3>3. /\ frames # <<>> /\ frames' = Under(frames) /\ pc' = "run"
          /\ \E b : blocks' = Append(blocks, b)
      BY <3>2 DEF WhileFirst, PopFrame, BeginLoop
    <3>. QED  BY <2>2, <3>1, <3>3
  <2>. QED  BY <1>11, <2>1, <2>3, <2>4, <2>5 DEF DirectiveCond
<1>. QED  BY <1>1, <1>3, <1>4, <1>5, <1>6, <1>7, <1>9, <1>10, <1>11 DEF Evaluate


\* While a call is cleaned up, what its caller will find open does not change.
LEMMA CleanupNow ==
    ASSUME Local, pc = "cleanup"
    PROVE  /\ Now' = Now /\ Now \in Int
           /\ Now = BlockBase + (IF Awaited(Caller, {"if", "for"}) THEN 1 ELSE 0)
<1>1. IInv /\ CallBones /\ pc' = "cleanup" /\ BlockBase \in Nat
  BY LocalFacts, NestTypes DEF Local
<1>2. /\ DOMAIN calls = 1 .. Len(calls) /\ DOMAIN calls' = 1 .. Len(calls)
      /\ \A c \in 1 .. Len(calls) : calls'[c].line = calls[c].line /\ calls'[c].caller = calls[c].caller
      /\ Caller' = Caller /\ BlockBase' = BlockBase
  BY <1>1, NestTypes DEF CallBones
<1>3. Awaited(Caller, {"if", "for"})' <=> Awaited(Caller, {"if", "for"})
  BY <1>2 DEF Awaited
<1>. QED  BY <1>1, <1>2, <1>3, NowIs, NowWill, NowTo

LEMMA CallsUpheld ==
    ASSUME Local, Calls, pc' \notin Final
    PROVE  Upheld
<1>1. /\ IInv /\ Nested /\ CallBones /\ ~FinishCall /\ Len(frames) \in Nat /\ Caller \in Nat
      /\ frames \in Seq(Frames) /\ CallsNested
  BY LocalFacts, NestTypes, CallerFacts DEF Local, Nested
<1>2. CASE CleanupBlock
  <2>1. frames' = frames /\ pc = "cleanup"
    BY <1>2 DEF CleanupBlock
  <2>2. Now' >= Now
    BY <2>1, CleanupNow
  <2>. QED  BY <2>1, <2>2, QuietUpheld
<1>3. CASE CleanupFrame
  <2>1. frames # <<>> /\ frames' = Under(frames) /\ pc = "cleanup" /\ pc' = "cleanup" /\ ~AtCaller
    BY <1>3 DEF CleanupFrame, AtCaller, PopFrame
  <2>2. Shrinks
    BY <2>1, ShrinksWhen
  <2>3. /\ calls # <<>> /\ Len(calls) \in DOMAIN calls /\ Caller = calls[Len(calls)].caller
        /\ BlockBase = calls[Len(calls)].base /\ Top(calls) = calls[Len(calls)]
    BY <1>1, <2>1, CallerFacts DEF IInv, PcShape, Top
  <2>4. Len(frames) > Caller
    <3>1. Len(frames) # Caller
      BY <1>1, <2>1, <2>3 DEF AtCaller, CallsNested
    <3>2. Len(frames) >= Caller
      BY <1>1 DEF CallsNested
    <3>. QED  BY <1>1, <3>1, <3>2
  <2>5. CASE Len(frames) - 1 > Caller
    <3>1. Len(frames') > Caller'
      BY <1>1, <2>2, <2>5 DEF Shrinks, CallBones
    <3>2. Left(Len(frames))'
      BY <2>1, <3>1 DEF Left, Failing
    <3>. QED  BY <2>2, <3>2 DEF Upheld
  <2>6. CASE Len(frames) = Caller + 1
    <3>1. Len(frames) - 1 = Caller /\ Len(frames) \in DOMAIN frames /\ Caller < Len(frames)
          /\ Len(frames) \in Nat
      BY <1>1, <2>2, <2>6, ShrinkFacts
    <3>2. frames[Caller + 1].base = BlockBase /\ ~Body(frames[Caller + 1])
      BY <1>1, <2>3, <2>6, <3>1 DEF Nested, CallBases
    <3>3. \A dirs : ~Awaited(Len(frames), dirs)
      BY <1>1, <2>4, NotAwaited
    <3>4. \A dir : ~Cond(Caller + 1, dir)
      BY <2>1, <2>6, <3>3 DEF Cond, Evaluating
    <3>5. Shift(Caller) = IF Awaited(Caller, {"if", "for"}) THEN 1 ELSE 0
      BY <3>2, <3>4 DEF Shift
    <3>6. Open(Caller) = Now
      BY <2>1, <3>1, <3>2, <3>5, CleanupNow DEF Open
    <3>7. Now' >= Open(Len(frames) - 1)
      BY <2>1, <3>1, <3>6, CleanupNow
    <3>. QED  BY <2>2, <3>7 DEF Upheld
  <2>. QED
    <3>1. Len(frames) - 1 > Caller \/ Len(frames) = Caller + 1
      BY <1>1, <2>4
    <3>. QED  BY <2>5, <2>6, <3>1
<1>4. CASE HandlerFailed
  <2>1. frames' = frames /\ pc = "fail" /\ pc' = "cleanup"
    BY <1>4 DEF HandlerFailed, Final
  <2>. QED  BY <2>1, QuietUpheld
<1>. QED  BY <1>1, <1>2, <1>3, <1>4 DEF Calls

\* A loop body starts over with the block of the loop open below it.
LEMMA EnterUpheld ==
    ASSUME Local, EnterLoopBody, pc' \notin Final
    PROVE  Upheld
<1>1. /\ IInv /\ BodyInv /\ Nested /\ pc = "enter" /\ Looping /\ Len(blocks) \in Nat
      /\ frames \in Seq(Frames) /\ Len(frames) \in Nat
  BY NestTypes DEF Local, EnterLoopBody, Looping
<1>2. HasBlock /\ TopKind \in LoopKinds
  BY <1>1, BetweenFacts
<1>3. CASE ReportAndFail
  BY <1>3, QuietUpheld DEF ReportAndFail, Fail
<1>4. CASE ~ReportAndFail
  <2>. DEFINE body == Top(blocks).body
              f == NewFrame("FRAME_LOOP_BODY", FALSE, body)
  <2>1. /\ frames' = Append(frames, f) /\ pc' = "run"
        /\ blocks' = blocks \/ \E b : blocks' = SetTop(b)
    BY <1>4 DEF EnterLoopBody
  <2>2. body \in Seq(Line) /\ Balanced(body)
    <3>1. Top(blocks) = blocks[Len(blocks)] /\ Len(blocks) \in DOMAIN blocks /\ Top(blocks) \in Blocks
      BY <1>1, <1>2, TopFields
    <3>. QED  BY <1>1, <3>1 DEF Blocks, BodyInv, BlocksReplayable, Replayable
  <2>. HIDE DEF body
  <2>3. Pushed(f) /\ Body(f) /\ f.rest = body
    BY <1>1, <2>1, <2>2, PushedNew DEF Body, NewFrame
  <2>. HIDE DEF f
  <2>4. Grows(f)
    BY <1>1, <2>3, GrowsWhen
  <2>5. Now = Len(blocks) - 1 /\ Len(blocks') = Len(blocks) /\ Now' >= Len(blocks')
        /\ Now' \in Int
    BY <1>1, <1>2, <2>1, NowFrom, NowTo
  <2>6. Len(blocks) + Shift(Len(frames) - 1)' >= Now
    <3>1. Shift(Len(frames) - 1)' \in {-1, 0, 1}
      BY NowTo
    <3>. QED  BY <1>1, <2>5, <3>1
  <2>7. Safe(f.rest, Now' - Len(blocks))
    <3>1. Safe(body, 0)
      BY <2>2, BalancedNet
    <3>2. 0 <= Now' - Len(blocks) /\ Now' - Len(blocks) \in Int
      BY <1>1, <2>5
    <3>. QED  BY <2>2, <2>3, <3>1, <3>2, SafeUp
  <2>. QED  BY <2>4, <2>6, <2>7 DEF Upheld
<1>. QED  BY <1>3, <1>4


LEMMA ExhaustedUpheld ==
    ASSUME Local, LoopBodyExhausted, pc' \notin Final
    PROVE  Upheld
<1>1. /\ IInv /\ Nested /\ pc = "exhausted" /\ Looping /\ Len(blocks) \in Nat
  BY NestTypes DEF Local, LoopBodyExhausted, Looping
<1>2. HasBlock /\ TopKind \in LoopKinds /\ Now = Len(blocks) - 1
  BY <1>1, BetweenFacts, NowFrom
<1>3. CASE TopKind = "for"
  <2>1. /\ frames' = frames
        /\ \/ blocks' = Under(blocks) /\ pc' = "run"
           \/ blocks' = blocks /\ pc' = "enter"
    BY <1>3 DEF LoopBodyExhausted, LoopKinds, PopBlock
  <2>2. CASE blocks' = Under(blocks) /\ pc' = "run"
    <3>1. Len(blocks') = Len(blocks) - 1 /\ Now' >= Len(blocks') /\ Now' \in Int
      BY <1>2, <2>2, NowTo
    <3>2. Now' >= Now
      BY <1>1, <1>2, <3>1
    <3>. QED  BY <2>1, <3>2, QuietUpheld
  <2>3. CASE blocks' = blocks /\ pc' = "enter"
    <3>1. Now' = Len(blocks') - 1 /\ Len(blocks') = Len(blocks)
      BY <2>3, NowTo
    <3>2. Now' >= Now
      BY <1>1, <1>2, <3>1
    <3>. QED  BY <2>1, <3>2, QuietUpheld
  <2>. QED  BY <2>1, <2>2, <2>3
<1>4. CASE TopKind = "while"
  <2>1. PushCondFrame
    BY <1>4 DEF LoopBodyExhausted, LoopKinds
  <2>2. frames' = Append(frames, NewFrame("FRAME_CALL", FALSE, <<>>))
    BY <2>1 DEF PushCondFrame
  <2>3. Len(blocks) + Shift(Len(frames) - 1)' >= Now
    <3>1. Shift(Len(frames) - 1)' \in {-1, 0, 1}
      BY NowTo
    <3>. QED  BY <1>1, <1>2, <3>1
  <2>. QED  BY <1>1, <2>2, <2>3, EmptyUpheld
<1>. QED  BY <1>2, <1>3, <1>4 DEF LoopKinds

LEMMA AgainUpheld ==
    ASSUME Local, WhileAgain, pc' \notin Final
    PROVE  Upheld
<1>1. /\ IInv /\ Nested /\ Looping /\ InCond /\ line.dir = "again"
      /\ frames # <<>> /\ frames' = Under(frames) /\ Len(blocks) \in Nat
  BY NestTypes DEF Local, WhileAgain, ValueOf, Looping, InCond, Evaluating, CondDirs, PopFrame
<1>2. HasBlock /\ Shift(Len(frames) - 1) = -1
  BY <1>1, BetweenFacts, CondShift
<1>3. Now' >= Len(blocks) - 1
  <2>1. CASE pc' = "enter" /\ blocks' = blocks
    <3>1. Now' = Len(blocks') - 1 /\ Len(blocks') = Len(blocks)
      BY <2>1, NowTo
    <3>. QED  BY <1>1, <3>1
  <2>2. CASE pc' = "run" /\ blocks' = Under(blocks)
    <3>1. Now' >= Len(blocks') /\ Len(blocks') = Len(blocks) - 1
      BY <1>2, <2>2, NowTo
    <3>. QED  BY <3>1
  <2>. QED  BY <2>1, <2>2 DEF WhileAgain, PopBlock
<1>4. Now' >= Len(blocks) + Shift(Len(frames) - 1)
  BY <1>1, <1>2, <1>3
<1>. QED  BY <1>1, <1>4, CondUpheld

LEMMA LeaveUpheld ==
    ASSUME Local, LeaveIfBlock \/ LeaveFrame, pc' \notin Final
    PROVE  Upheld
<1>1. /\ IInv /\ SkipInv /\ Nested /\ pc = "leave" /\ Len(blocks) \in Nat /\ Len(frames) \in Nat
  BY NestTypes DEF Local, LeaveIfBlock, LeaveFrame
<1>2. CASE LeaveIfBlock
  <2>1. frames' = frames /\ pc' = "leave"
    BY <1>1, <1>2 DEF LeaveIfBlock, AssertFails, Final
  <2>. QED  BY <2>1, QuietUpheld
<1>3. CASE LeaveFrame
  <2>1. /\ frames # <<>> /\ frames' = Under(frames) /\ TopKind \in LoopKinds
        /\ ~Body(Top(frames)) => pc' = "leave"
        /\ Body(Top(frames)) => \/ pc' = "exhausted" /\ blocks' = blocks
                                \/ pc' = "run" /\ blocks' = Under(blocks)
    BY <1>1, <1>3 DEF LeaveFrame, PopFrame, PopBlock, Final, Body
  <2>2. Shrinks /\ HasBlock
    BY <2>1, ShrinksWhen DEF TopKind, LoopKinds
  <2>3. CASE ~Body(Top(frames))
    <3>1. DOMAIN frames' = 1 .. Len(frames')
      BY NextTypes DEF Local
    <3>2. \A i \in DOMAIN frames' : i <= Len(frames')
      BY <3>1
    <3>3. Left(Len(frames))'
      BY <2>1, <2>3, <3>2 DEF Left
    <3>. QED  BY <2>2, <3>3 DEF Upheld
  <2>4. CASE Body(Top(frames))
    <3>1. /\ Top(frames).base = Len(blocks) /\ (calls # <<>> => Len(frames) > Caller + 1)
          /\ Top(frames) = frames[Len(frames)]
      <4>1. PICK j \in 1 .. Len(frames) :
                /\ frames[j].base = Len(blocks)
                /\ \A i \in 1 .. Len(frames) : Body(frames[i]) => i <= j
                /\ calls # <<>> => j > Caller + 1
        BY <1>1, <2>1, LeaveFacts
      <4>2. Top(frames) = frames[Len(frames)] /\ Len(frames) \in 1 .. Len(frames)
        BY <1>1, <2>2, ShrinkFacts
      <4>3. Len(frames) <= j
        BY <2>4, <4>1, <4>2
      <4>4. Len(frames) = j
        BY <1>1, <4>1, <4>3
      <4>. QED  BY <4>1, <4>2, <4>4
    <3>2. Shift(Len(frames) - 1) = -1
      BY <1>1, <2>1, <2>4, <3>1, TopShift DEF Evaluating
    <3>3. Open(Len(frames) - 1) = Len(blocks) + Shift(Len(frames) - 1)
      <4>1. Len(frames) - 1 < Len(frames) /\ (Len(frames) - 1) + 1 = Len(frames)
        BY <1>1
      <4>. QED  BY <3>1, <4>1 DEF Open
    <3>4. Now' >= Len(blocks) - 1
      <4>1. CASE pc' = "exhausted" /\ blocks' = blocks
        <5>1. Now' = Len(blocks') - 1 /\ Len(blocks') = Len(blocks)
          BY <4>1, NowTo
        <5>. QED  BY <1>1, <5>1
      <4>2. CASE pc' = "run" /\ blocks' = Under(blocks)
        <5>1. Now' >= Len(blocks') /\ Len(blocks') = Len(blocks) - 1
          BY <2>2, <4>2, NowTo
        <5>. QED  BY <5>1
      <4>. QED  BY <2>1, <2>4, <4>1, <4>2
    <3>5. Now' >= Open(Len(frames) - 1)
      BY <1>1, <3>2, <3>3, <3>4
    <3>. QED  BY <2>2, <3>5 DEF Upheld
  <2>. QED  BY <2>3, <2>4
<1>. QED  BY <1>2, <1>3

LEMMA SkipUpheld ==
    ASSUME Local, Skip, pc' \notin Final
    PROVE  Upheld
<1>1. /\ IInv /\ SkipInv /\ Nested /\ ClosesOwn /\ ~ragged' /\ skipDepth \in Nat
      /\ pc = "line" /\ skipDepth > 0 /\ frames' = frames /\ Len(blocks) \in Nat
  BY NestTypes DEF Local, Skip, SkipFails, SkipLine, SkipOpen, SkipUnknown, SkipInner, SkipElse,
     SkipElif, SkipInnerEnd, SkipEnd, Skipping
<1>2. /\ line.dir \in BlockKinds => Now = Len(blocks) + Inner + 1
      /\ line.dir = "end" => Now = Len(blocks) + Inner - 1
      /\ line.dir \notin BlockKinds \cup {"end"} => Now = Len(blocks) + Inner
      /\ Now \in Int /\ Now' \in Int /\ Inner \in Nat /\ skipDepth' \in Nat
      /\ Inner = skipDepth - 1
  BY <1>1, NowFrom, NowTo
<1>3. /\ pc' = "run" => Now' = Len(blocks') + Inner'
      /\ skipDepth' > 0 => Inner' = skipDepth' - 1
      /\ skipDepth' = 0 => Inner' = 0
  BY <1>2, NowTo
<1>4. Now' >= Now => Upheld
  BY <1>1, QuietUpheld
<1>5. CASE SkipFails \/ SkipUnknown
  BY <1>1, <1>5, QuietUpheld DEF SkipFails, SkipUnknown, Fail
<1>6. ASSUME blocks' = blocks, skipDepth' = skipDepth, pc' = "run",
             line.dir \notin BlockKinds
      PROVE  Upheld
  <2>1. Len(blocks') = Len(blocks) /\ Inner' = Inner
    BY <1>1, <1>2, <1>3, <1>6
  <2>2. Now' >= Now
    BY <1>1, <1>2, <1>3, <1>6, <2>1
  <2>. QED  BY <1>4, <2>2
<1>7. CASE SkipLine \/ SkipInner
  <2>1. /\ blocks' = blocks /\ skipDepth' = skipDepth /\ line.dir \notin BlockKinds
        /\ pc' \in {"run", "fail"}
    BY <1>7 DEF SkipLine, SkipInner, Skipping, BlockKinds
  <2>. QED  BY <1>1, <1>6, <2>1, QuietUpheld
<1>8. CASE SkipOpen
  <2>1. /\ blocks' = blocks /\ skipDepth' = skipDepth + 1 /\ pc' = "run"
        /\ line.dir \in BlockKinds
    BY <1>8 DEF SkipOpen, Skipping, BlockKinds
  <2>2. Inner' = skipDepth
    BY <1>1, <1>3, <2>1
  <2>3. Now' >= Now
    BY <1>1, <1>2, <1>3, <2>1, <2>2
  <2>. QED  BY <1>4, <2>3
<1>9. CASE SkipInnerEnd
  <2>1. /\ blocks' = blocks /\ skipDepth' = skipDepth - 1 /\ pc' = "run" /\ line.dir = "end"
        /\ skipDepth > 1
    BY <1>9 DEF SkipInnerEnd, Skipping
  <2>2. Inner' = skipDepth - 2
    BY <1>1, <1>3, <2>1
  <2>3. Now' >= Now
    BY <1>1, <1>2, <1>3, <2>1, <2>2
  <2>. QED  BY <1>4, <2>3
<1>10. CASE SkipElse
  <2>1. CASE ElseRefused
    BY <1>1, <1>10, <2>1, QuietUpheld DEF SkipElse, Fail
  <2>2. CASE ~ElseRefused
    <3>1. /\ skipDepth = 1 /\ line.dir = "else" /\ pc' = "run"
          /\ \E b : blocks' = SetTop(b)
      BY <1>10, <2>2 DEF SkipElse, Skipping, EnterIfBranch, Final
    <3>2. HasBlock
      BY <2>2 DEF ElseRefused, TopKind
    <3>3. Len(blocks') = Len(blocks) /\ Now' >= Len(blocks')
      BY <3>1, <3>2, NowTo
    <3>4. line.dir \notin BlockKinds \cup {"end"}
      BY <3>1 DEF BlockKinds
    <3>5. Now' >= Now
      BY <1>1, <1>2, <3>1, <3>3, <3>4
    <3>. QED  BY <1>4, <3>5
  <2>. QED  BY <2>1, <2>2
<1>11. CASE SkipElif
  <2>1. /\ UNCHANGED <<blocks, line, skipDepth>> /\ line.dir = "elif" /\ skipDepth = 1
        /\ pc' \in {"run", "fail", "eval"}
    BY <1>11 DEF SkipElif, Skipping, Fail
  <2>2. line.dir \notin BlockKinds \cup {"end", "if", "for"}
    BY <2>1 DEF BlockKinds
  <2>3. CASE pc' = "eval"
    <3>1. Now' = Len(blocks) + 0
      <4>1. Len(blocks') = Len(blocks) /\ line'.dir \notin {"if", "for"} /\ pc' \in Evaluating
        BY <2>1, <2>2, <2>3 DEF Evaluating
      <4>. QED  BY <4>1, NowTo
    <3>2. Now' >= Now
      BY <1>1, <1>2, <2>1, <2>2, <3>1
    <3>. QED  BY <1>4, <3>2
  <2>4. CASE pc' = "run"
    BY <1>6, <2>1, <2>2, <2>4
  <2>. QED  BY <1>1, <2>1, <2>3, <2>4, QuietUpheld
<1>12. CASE SkipEnd
  <2>1. HasBlock /\ line.dir = "end" /\ skipDepth = 1 /\ skipDepth' = 0
    BY <1>1, <1>12, EndFacts DEF SkipEnd, Skipping
  <2>2. Now = Len(blocks) - 1
    BY <1>1, <1>2, <2>1
  <2>3. \/ blocks' = Under(blocks) /\ pc' = "run"
        \/ pc' = "enter" /\ \E b : blocks' = SetTop(b)
    <3>1. TopKind = "if" \/ TopKind = "func" \/ TopKind \in LoopKinds
      <4>1. TopKind \in BlockKinds
        BY <1>1, <2>1, TopFields DEF Blocks
      <4>. QED  BY <4>1 DEF BlockKinds, LoopKinds
    <3>2. CASE TopKind = "if"
      BY <1>12, <3>2 DEF SkipEnd, PopIfBlock, LoopKinds
    <3>3. CASE TopKind = "func"
      BY <1>12, <3>3 DEF SkipEnd, FinishPendingFunc, PopBlock, LoopKinds
    <3>4. CASE TopKind \in LoopKinds
      <4>1. FinishLoop
        BY <1>12, <3>4 DEF SkipEnd, LoopKinds
      <4>. QED  BY <4>1 DEF FinishLoop, PopBlock
    <3>. QED  BY <3>1, <3>2, <3>3, <3>4
  <2>4. CASE blocks' = Under(blocks) /\ pc' = "run"
    <3>1. Len(blocks') = Len(blocks) - 1 /\ Now' >= Len(blocks')
      BY <2>1, <2>4, NowTo
    <3>2. Now' >= Now
      BY <1>1, <1>2, <2>2, <3>1
    <3>. QED  BY <1>4, <3>2
  <2>5. CASE pc' = "enter" /\ \E b : blocks' = SetTop(b)
    <3>1. Now' = Len(blocks') - 1 /\ Len(blocks') = Len(blocks)
      BY <2>1, <2>5, NowTo
    <3>2. Now' >= Now
      BY <1>1, <2>2, <3>1
    <3>. QED  BY <1>4, <3>2
  <2>. QED  BY <2>3, <2>4, <2>5
<1>. QED  BY <1>5, <1>7, <1>8, <1>9, <1>10, <1>11, <1>12 DEF Skip

\* Every step that neither calls nor returns keeps Replays.
LEMMA ReplaysLocal ==
    ASSUME Local, Replays, pc' \notin Final
    PROVE  Replays'
<1>1. ~Ended
  BY DEF Ended, vars
<1>2. Upheld
  <2>1. Loops => Upheld
    BY EnterUpheld, ExhaustedUpheld, AgainUpheld, LeaveUpheld DEF Loops
  <2>. QED  BY <1>1, <2>1, FetchUpheld, HandleUpheld, EvaluateUpheld, CallsUpheld, SkipUpheld
            DEF Local, Next
<1>. QED  BY <1>2, ReplaysMoved


-----------------------------------------------------------------------------
(* Calls and returns keep Replays *)

\* The body of a function closes every block it opens and no other.
LEMMA VisibleBalanced ==
    ASSUME IInv, BodyInv, Visible("f")
    PROVE  Lookup("f").body \in Seq(Line) /\ Safe(Lookup("f").body, 0)
<1>1. Lookup("f").body \in Seq(Line)
  BY VisibleBody DEF Names, IInv
<1>2. Balanced(Lookup("f").body)
  BY VisibleFound DEF BodyInv, ScopesReplayable, Names, IInv
<1>. QED  BY <1>1, <1>2, BalancedNet

LEMMA ReplaysCall ==
    ASSUME IInv, BodyInv, Nested, Replays, EvalCall
    PROVE  Replays'
<1>1. /\ CallAdds /\ DOMAIN frames = 1 .. Len(frames) /\ DOMAIN calls = 1 .. Len(calls)
      /\ Len(frames) \in Nat /\ Len(calls) \in Nat /\ Len(blocks) \in Nat /\ CallsNested
      /\ Caller \in Nat
      /\ \A c \in 1 .. Len(calls) : calls[c].caller \in Nat /\ calls[c].caller <= Caller
  BY CallAdded, NestTypes, CallerFacts DEF Nested
<1>2. PICK n \in Nat : n = Len(frames)
  BY <1>1
<1>3. /\ pc = "eval" /\ pc' = "run" /\ blocks' = blocks /\ Len(frames') = n + 1
      /\ DOMAIN frames' = 1 .. n + 1 /\ \A j \in 1 .. n : frames'[j] = frames[j]
      /\ frames'[n + 1].base = Len(blocks) /\ ~Body(frames'[n + 1])
      /\ frames'[n + 1].rest = Lookup("f").body /\ n > Caller /\ Visible("f")
  BY <1>1, <1>2 DEF CallAdds, EvalCall
<1>4. \A j, dirs : Awaited(j, dirs)' <=> Awaited(j, dirs) \/ (j = n /\ line.dir \in dirs)
  <2>1. \A c : c \in 1 .. Len(calls) + 1 <=> c \in 1 .. Len(calls) \/ c = Len(calls) + 1
    BY <1>1
  <2>2. /\ DOMAIN calls' = 1 .. Len(calls) + 1
        /\ \A c \in 1 .. Len(calls) : calls'[c] = calls[c]
        /\ calls'[Len(calls) + 1].caller = n /\ calls'[Len(calls) + 1].line = line
    BY <1>1, <1>2 DEF CallAdds
  <2>. QED  BY <1>1, <2>1, <2>2 DEF Awaited
<1>5. \A dirs : ~Awaited(n, dirs) /\ ~Awaited(n + 1, dirs)
  <2>1. n + 1 \in Nat /\ n + 1 > Caller
    BY <1>1, <1>3
  <2>. QED  BY <1>1, <1>3, <2>1, NotAwaited
<1>6. \A j : ~Left(j) /\ ~Left(j)'
  BY <1>3 DEF Left, Failing
<1>7. ASSUME NEW j \in 1 .. n - 1
      PROVE  Open(j)' = Open(j)
  <2>1. /\ j \in Nat /\ j < Len(frames) /\ j < Len(frames') /\ j # n /\ j + 1 \in 1 .. n
        /\ j + 1 # n + 1
    <3>1. j \in Nat /\ j < n /\ j < n + 1 /\ j # n /\ j + 1 \in 1 .. n /\ j + 1 # n + 1
      OBVIOUS
    <3>. QED  BY <1>2, <1>3, <3>1
  <2>2. ASSUME NEW dir
        PROVE  Cond(j + 1, dir)' <=> Cond(j + 1, dir)
    <3>1. Cond(j + 1, dir)' <=> Awaited(j + 1, {dir})'
      BY <1>3 DEF Cond, Evaluating
    <3>2. Awaited(j + 1, {dir})' <=> Awaited(j + 1, {dir}) \/ (j + 1 = n /\ line.dir = dir)
      BY <1>4
    <3>. QED  BY <1>2, <1>3, <3>1, <3>2 DEF Cond, Evaluating
  <2>3. Awaited(j, {"if", "for"})' <=> Awaited(j, {"if", "for"})
    BY <1>4, <2>1
  <2>4. frames'[j + 1] = frames[j + 1]
    BY <1>3, <2>1
  <2>5. Shift(j)' = Shift(j)
    BY <2>2, <2>3, <2>4 DEF Shift, Body
  <2>. QED  BY <2>1, <2>4, <2>5 DEF Open
<1>8. Open(n)' = Open(n)
  <2>1. Now = Len(blocks) + (IF line.dir \in {"if", "for"} THEN 1 ELSE 0)
    BY <1>3, NowIs DEF Evaluating
  <2>2. Open(n) = Now
    BY <1>2, <1>1 DEF Open
  <2>3. Awaited(n, {"if", "for"})' <=> line.dir \in {"if", "for"}
    BY <1>4, <1>5
  <2>4. \A dir : ~Cond(n + 1, dir)'
    <3>1. n + 1 # n
      OBVIOUS
    <3>2. ASSUME NEW dir
          PROVE  ~Cond(n + 1, dir)'
      <4>1. Cond(n + 1, dir)' <=> Awaited(n + 1, {dir})'
        BY <1>3 DEF Cond, Evaluating
      <4>. QED  BY <1>4, <1>5, <3>1, <4>1
    <3>. QED  BY <3>2
  <2>5. Shift(n)' = IF line.dir \in {"if", "for"} THEN 1 ELSE 0
    BY <1>3, <2>3, <2>4 DEF Shift, Body
  <2>6. n < Len(frames')
    BY <1>3
  <2>7. Open(n)' = Len(blocks) + Shift(n)'
    BY <1>3, <2>6 DEF Open
  <2>. QED  BY <2>1, <2>2, <2>5, <2>7
<1>9. Open(n + 1)' = Len(blocks)
  <2>1. Now' = Len(blocks') + Inner' /\ Inner' = 0
    BY <1>1, <1>3, NowWill DEF CallAdds, Inner
  <2>2. Open(n + 1)' = Now'
    BY <1>3 DEF Open
  <2>. QED  BY <1>1, <1>3, <2>1, <2>2
<1>10. ASSUME NEW j \in 1 .. n + 1
       PROVE  Safe(frames'[j].rest, Open(j)' - frames'[j].base)
  <2>1. CASE j = n + 1
    <3>1. Len(blocks) - Len(blocks) = 0
      BY <1>1
    <3>2. Safe(Lookup("f").body, 0)
      BY <1>3, VisibleBalanced
    <3>. QED  BY <1>3, <1>9, <2>1, <3>1, <3>2
  <2>2. CASE j # n + 1
    <3>1. j \in 1 .. n /\ (j = n \/ j \in 1 .. n - 1)
      BY <2>2
    <3>2. Safe(frames[j].rest, Open(j) - frames[j].base)
      BY <1>1, <1>2, <1>6, <3>1 DEF Replays, Reads
    <3>3. Open(j)' = Open(j)
      BY <1>7, <1>8, <3>1
    <3>. QED  BY <1>3, <3>1, <3>2, <3>3
  <2>. QED  BY <2>1, <2>2
<1>11. Reads'
  BY <1>3, <1>10 DEF Reads
<1>12. Closes'
  BY <1>3 DEF Closes
<1>. QED  BY <1>11, <1>12 DEF Replays

LEMMA ReplaysReturn ==
    ASSUME IInv, Nested, Replays, FinishCall
    PROVE  Replays'
<1>1. /\ CallDrops /\ DOMAIN frames = 1 .. Len(frames) /\ DOMAIN calls = 1 .. Len(calls)
      /\ Len(frames) \in Nat /\ Len(calls) \in Nat /\ Len(blocks) \in Nat /\ CallsNested
      /\ \A c \in 1 .. Len(calls) : c < Len(calls) => calls[c].caller < Caller
      /\ \A c \in 1 .. Len(calls) : calls[c].caller \in Nat
  BY CallDropped, NestTypes, CallerFacts DEF Nested
<1>2. PICK n \in Nat : n = Len(frames)
  BY <1>1
<1>3. /\ pc = "cleanup" /\ pc' \in {"value", "evalfail"} /\ frames' = frames /\ blocks' = blocks
      /\ n = Caller /\ Len(blocks) = BlockBase
      /\ Len(calls) \in DOMAIN calls /\ calls[Len(calls)].caller = n
      /\ line' = calls[Len(calls)].line
  BY <1>1, <1>2 DEF CallDrops
<1>4. \A j, dirs : Awaited(j, dirs) <=> Awaited(j, dirs)' \/ (j = n /\ line'.dir \in dirs)
  <2>1. \A c : c \in 1 .. Len(calls) <=> c \in 1 .. Len(calls) - 1 \/ c = Len(calls)
    BY <1>1, <1>3
  <2>2. /\ DOMAIN calls' = 1 .. Len(calls) - 1
        /\ \A c \in 1 .. Len(calls) - 1 :
              calls'[c].line = calls[c].line /\ calls'[c].caller = calls[c].caller
    BY <1>1 DEF CallDrops
  <2>. QED  BY <1>1, <1>3, <2>1, <2>2 DEF Awaited
<1>5. \A dirs : ~Awaited(n, dirs)'
  <2>1. /\ DOMAIN calls' = 1 .. Len(calls) - 1
        /\ \A c \in 1 .. Len(calls) - 1 : calls'[c].caller = calls[c].caller
    BY <1>1 DEF CallDrops
  <2>2. ASSUME NEW c \in 1 .. Len(calls) - 1
        PROVE  calls'[c].caller # n
    <3>1. c \in 1 .. Len(calls) /\ c < Len(calls)
      BY <1>1
    <3>2. calls[c].caller < n /\ calls[c].caller \in Nat
      BY <1>1, <1>3, <3>1
    <3>. QED  BY <2>1, <2>2, <3>2
  <2>. QED  BY <2>1, <2>2 DEF Awaited
<1>6. \A j \in 1 .. n : ~Left(j) /\ ~Left(j)'
  BY <1>3 DEF Left, Failing
<1>7. Open(n)' = Open(n)
  <2>1. Now = BlockBase + (IF Awaited(n, {"if", "for"}) THEN 1 ELSE 0)
    BY <1>3, NowIs
  <2>2. Now' = Len(blocks) + (IF line'.dir \in {"if", "for"} THEN 1 ELSE 0)
    BY <1>3, NowWill DEF Evaluating
  <2>3. Awaited(n, {"if", "for"}) <=> line'.dir \in {"if", "for"}
    BY <1>4, <1>5
  <2>4. Open(n) = Now /\ Open(n)' = Now'
    BY <1>1, <1>2, <1>3 DEF Open
  <2>. QED  BY <1>3, <2>1, <2>2, <2>3, <2>4
<1>8. ASSUME NEW j \in 1 .. n - 1
      PROVE  Open(j)' = Open(j)
  <2>1. j \in Nat /\ j < Len(frames) /\ j # n /\ j + 1 \in 1 .. n
    <3>1. j \in Nat /\ j < n /\ j # n /\ j + 1 \in 1 .. n
      OBVIOUS
    <3>. QED  BY <1>2, <3>1
  <2>2. ASSUME NEW dir
        PROVE  Cond(j + 1, dir)' <=> Cond(j + 1, dir)
    <3>1. Cond(j + 1, dir) <=> Awaited(j + 1, {dir})
      BY <1>3 DEF Cond, Evaluating
    <3>2. Awaited(j + 1, {dir}) <=> Awaited(j + 1, {dir})' \/ (j + 1 = n /\ line'.dir = dir)
      BY <1>4
    <3>3. Cond(j + 1, dir)' <=> Awaited(j + 1, {dir})' \/ (j + 1 = n /\ line'.dir = dir)
      BY <1>2, <1>3 DEF Cond, Evaluating
    <3>. QED  BY <3>1, <3>2, <3>3
  <2>3. Awaited(j, {"if", "for"})' <=> Awaited(j, {"if", "for"})
    BY <1>4, <2>1
  <2>4. Shift(j)' = Shift(j)
    BY <1>3, <2>2, <2>3 DEF Shift, Body
  <2>. QED  BY <1>3, <2>1, <2>4 DEF Open
<1>9. ASSUME NEW j \in 1 .. n
      PROVE  Safe(frames'[j].rest, Open(j)' - frames'[j].base)
  <2>1. Safe(frames[j].rest, Open(j) - frames[j].base)
    BY <1>1, <1>2, <1>6 DEF Replays, Reads
  <2>2. Open(j)' = Open(j)
    <3>1. j = n \/ j \in 1 .. n - 1
      OBVIOUS
    <3>. QED  BY <1>7, <1>8, <3>1
  <2>. QED  BY <1>3, <2>1, <2>2
<1>10. Reads'
  BY <1>1, <1>2, <1>3, <1>9 DEF Reads
<1>11. Closes'
  BY <1>3 DEF Closes
<1>. QED  BY <1>10, <1>11 DEF Replays


-----------------------------------------------------------------------------
(* The inductive invariant *)

\* A stream that has ended promises nothing, nor one whose files are not nested.
NestInv == ragged \/ pc \in {"eof", "failed"} \/ (Nested /\ Replays)

LEMMA RaggedStays ==
    ASSUME Next, ragged
    PROVE  ragged'
<1>1. Fetch => ragged'
  BY DEF Fetch, FetchPending, FetchLine, FrameExhausted, EndOfInput, UnterminatedBlock,
     PlainToken, Rest
<1>2. Handle => ragged'
  <2>1. ReportAndFail => ragged'
    BY DEF ReportAndFail
  <2>2. HandleEnd => ragged'
    BY <2>1 DEF HandleEnd, ClosingRest
  <2>. QED  BY <2>1, <2>2 DEF Handle, OpLimitExceeded, HandleOperand, HandleStrayReturn,
            HandleUnknown, HandleElse, HandleElif, HandleFunc, HandleWhile, HandleLeave,
            HandleInclude, HandleEmit, HandleVar, HandleSet, BeginEval, Rest
<1>3. Evaluate => ragged'
  <2>1. EvalRejected \/ EvalFailed \/ CondFrameGone \/ EvalCall \/ ReturnValue => ragged'
    BY DEF EvalRejected, EvalFailed, CondFrameGone, EvalCall, ReturnValue, Rest
  <2>2. DirectiveCond \/ DirectiveValue \/ ErrorDirective \/ ElifCond => ragged'
    BY DEF DirectiveCond, IfBranch, WhileFirst, ForItems, BeginLoop, DirectiveValue,
       ErrorDirective, ReportAndFail, ElifCond, Rest
  <2>. QED  BY <2>1, <2>2 DEF Evaluate
<1>4. Calls => ragged'
  BY DEF Calls, CleanupBlock, CleanupFrame, FinishCall, HandlerFailed, Rest
<1>5. Loops => ragged'
  <2>1. LoopBodyExhausted => ragged'
    <3>1. CASE TopKind \notin LoopKinds
      BY <3>1 DEF LoopBodyExhausted, AssertFails, LoopKinds, Rest
    <3>2. CASE TopKind = "for"
      BY <3>2 DEF LoopBodyExhausted, LoopKinds, Rest
    <3>3. CASE TopKind = "while"
      BY <3>3 DEF LoopBodyExhausted, LoopKinds, Rest
    <3>. QED  BY <3>1, <3>2, <3>3 DEF LoopKinds
  <2>. QED  BY <2>1 DEF Loops, EnterLoopBody, ReportAndFail, WhileAgain, LeaveIfBlock,
            LeaveFrame, AssertFails, Rest
<1>6. Skip => ragged'
  BY DEF Skip, SkipFails, SkipLine, SkipOpen, SkipUnknown, SkipInner, SkipElse, SkipElif,
     SkipInnerEnd, SkipEnd, Rest, ClosingRest
<1>7. Ended => ragged'
  BY DEF Ended, vars
<1>. QED  BY <1>1, <1>2, <1>3, <1>4, <1>5, <1>6, <1>7 DEF Next

\* What the invariant says of a step of a stream that goes on.
LEMMA NestNow ==
    ASSUME IInv, NestInv, Next, ~ragged', ~Ended
    PROVE  Nested /\ Replays /\ ClosesOwn /\ ~ragged /\ pc \notin {"eof", "failed"}
<1>1. ~ragged
  BY RaggedStays
<1>2. pc \notin {"eof", "failed"}
  <2>1. ASSUME pc \in {"eof", "failed"}
        PROVE  FALSE
    <3>1. ~Fetch /\ ~Handle /\ ~Skip
      BY <2>1 DEF Fetch, Handle, Skip, FetchPending, FetchLine,
       FrameExhausted, EndOfInput, UnterminatedBlock, PlainToken, OpLimitExceeded, HandleOperand,
       HandleStrayReturn, HandleUnknown, HandleElse, HandleElif, HandleEnd, HandleFunc,
       HandleWhile, HandleLeave, HandleInclude, HandleEmit, HandleVar, HandleSet, Active,
       SkipFails, SkipLine, SkipOpen, SkipUnknown, SkipInner, SkipElse, SkipElif,
       SkipInnerEnd, SkipEnd, Skipping
    <3>2. ~Evaluate
      BY <2>1 DEF Evaluate, EvalRejected, EvalFailed, CondFrameGone, EvalCall, ReturnValue,
       DirectiveCond, DirectiveValue, ErrorDirective, ElifCond, ValueOf
    <3>3. ~Calls /\ ~Loops
      BY <2>1 DEF Calls, Loops, CleanupBlock, CleanupFrame, FinishCall, HandlerFailed,
       EnterLoopBody, LoopBodyExhausted, WhileAgain, ValueOf, LeaveIfBlock, LeaveFrame
    <3>. QED  BY <3>1, <3>2, <3>3 DEF Next
  <2>. QED  BY <2>1
<1>3. Nested /\ Replays
  BY <1>1, <1>2 DEF NestInv
<1>. QED  BY <1>1, <1>2, <1>3, ReplaysClose

LEMMA NestStep ==
    ASSUME IInv, SkipInv, BodyInv, NestInv, Next
    PROVE  NestInv'
<1>1. SUFFICES ASSUME ~ragged', pc' \notin {"eof", "failed"}
               PROVE  Nested' /\ Replays'
  BY DEF NestInv
<1>2. CASE Ended
  <2>1. /\ ~ragged /\ pc \notin {"eof", "failed"}
    BY <1>1, <1>2 DEF Ended, vars
  <2>2. CrashFree
    BY <2>1 DEF NestInv, Nested, CrashFree
  <2>3. pc \in Final
    BY <1>2 DEF Ended
  <2>. QED  BY <2>1, <2>2, <2>3 DEF CrashFree, Final
<1>3. CASE ~Ended
  <2>1. Nested /\ Replays /\ ClosesOwn
    BY <1>1, <1>3, NestNow
  <2>2. CASE EvalCall
    <3>1. pc' \notin {"assert", "crash"}
      BY <2>2 DEF EvalCall
    <3>2. Replays'
      BY <2>1, <2>2, ReplaysCall
    <3>. QED  BY <2>1, <2>2, <3>1, <3>2, CallNests, CallOpens DEF Nested, OpenBlocks
  <2>3. CASE FinishCall
    <3>1. pc' \notin {"assert", "crash"}
      BY <2>3 DEF FinishCall
    <3>2. Replays'
      BY <2>1, <2>3, ReplaysReturn
    <3>. QED  BY <2>1, <2>3, <3>1, <3>2, ReturnNests, ReturnOpens DEF Nested, OpenBlocks
  <2>4. CASE ~EvalCall /\ ~FinishCall
    <3>1. Local
      BY <1>1, <2>1, <2>4 DEF Local
    <3>2. OpenBlocks' /\ pc' \notin {"assert", "crash"}
      BY <1>1, <3>1, OpenLocal DEF Sound
    <3>3. CallsNested' /\ BasesNested' /\ CallBases'
      BY <3>1, CallsNestedLocal, BasesNestedLocal, CallBasesLocal
    <3>4. Replays'
      BY <1>1, <2>1, <3>1, <3>2, ReplaysLocal DEF Final
    <3>. QED  BY <3>2, <3>3, <3>4 DEF Nested, OpenBlocks
  <2>. QED  BY <2>2, <2>3, <2>4
<1>. QED  BY <1>2, <1>3

LEMMA NestInit ==
    ASSUME Init
    PROVE  NestInv
<1>1. /\ pc = "run" /\ calls = <<>> /\ blocks = <<>> /\ skipDepth = 0 /\ ~skipCapture
      /\ frames = <<[type |-> "FRAME_CALL", file |-> TRUE, rest |-> <<>>, base |-> 0]>>
  BY DEF Init
<1>2. /\ Len(frames) = 1 /\ DOMAIN frames = {1} /\ ~Body(frames[1])
      /\ frames[1].rest = <<>> /\ frames[1].base = 0
  BY <1>1 DEF Body
<1>3. /\ DOMAIN calls = {} /\ DOMAIN blocks = {} /\ Len(blocks) = 0 /\ Caller = 0
  BY <1>1, EmptySeq DEF Caller
<1>4. ~InCond /\ ~Looping /\ ~Failing
  BY <1>1 DEF InCond, Looping, Failing, Evaluating
<1>5. CallsNested /\ CallBases
  BY <1>1, <1>2, <1>3, <1>4 DEF CallsNested, CallBases
<1>6. BasesNested
  <2>1. 1 .. 1 - 1 = {}
    OBVIOUS
  <2>. QED  BY <1>2, <2>1 DEF BasesNested
<1>7. FramesOpen
  <2>1. ASSUME NEW j \in DOMAIN frames
        PROVE  frames[j].base <= Len(blocks) /\ ~Body(frames[j])
    <3>1. j = 1
      BY <1>2
    <3>. QED  BY <1>2, <1>3, <3>1
  <2>. QED  BY <1>4, <2>1 DEF FramesOpen, BodyOpen
<1>8. SkipsOwn /\ LoopsRun
  BY <1>1, <1>2, <1>3, <1>4 DEF SkipsOwn, LoopsRun
<1>9. CapturesTop
  BY <1>1, <1>2, <1>3, <1>4 DEF CapturesTop
<1>10. Replays
  BY <1>1, <1>2, EmptyBody DEF Replays, Reads, Closes
<1>. QED  BY <1>1, <1>5, <1>6, <1>7, <1>8, <1>9, <1>10 DEF NestInv, Nested

LEMMA NestStutter ==
    ASSUME UNCHANGED vars, NestInv
    PROVE  NestInv'
<1>1. /\ pc' = pc /\ line' = line /\ frames' = frames /\ blocks' = blocks /\ calls' = calls
      /\ skipDepth' = skipDepth /\ skipCapture' = skipCapture /\ ragged' = ragged
  BY DEF vars
<1>2. Caller' = Caller /\ BlockBase' = BlockBase /\ Inner' = Inner
  BY <1>1 DEF Caller, BlockBase, Inner
<1>3. InCond' = InCond /\ Looping' = Looping /\ Failing' = Failing
      /\ HasBlock' = HasBlock /\ TopKind' = TopKind
  BY <1>1, <1>2 DEF InCond, Looping, Failing, HasBlock, TopKind, Top
<1>4. CallsNested => CallsNested'
  BY <1>1, <1>2, <1>3 DEF CallsNested
<1>5. BasesNested => BasesNested'
  BY <1>1 DEF BasesNested, Body
<1>6. CallBases => CallBases'
  BY <1>1 DEF CallBases, Body
<1>7. FramesOpen => FramesOpen'
  BY <1>1, <1>2, <1>3 DEF FramesOpen, BodyOpen, Body, Top
<1>8. SkipsOwn => SkipsOwn'
  BY <1>1, <1>2, <1>3 DEF SkipsOwn, Body, Top
<1>9. LoopsRun => LoopsRun'
  BY <1>1, <1>2, <1>3 DEF LoopsRun, Body
<1>10. CapturesTop => CapturesTop'
  BY <1>1, <1>2, <1>3 DEF CapturesTop, Collects, Top
<1>11. Nested => Nested'
  BY <1>1, <1>4, <1>5, <1>6, <1>7, <1>8, <1>9, <1>10 DEF Nested
<1>12. Replays => Replays'
  BY <1>1, <1>2, <1>3 DEF Replays, Reads, Closes, Left, Open, Now, Shift, Cond, Awaited, Body, Top
<1>. QED  BY <1>1, <1>11, <1>12 DEF NestInv

\* Frames, blocks and calls are nested as long as the files are, and no line left to
\* read closes a block of a frame below its own.
THEOREM NestingInvariant == Spec => []NestInv
<1>1. Init => NestInv
  BY NestInit
<1>2. IInv /\ SkipInv /\ BodyInv /\ NestInv /\ [Next]_vars => NestInv'
  BY NestStep, NestStutter
<1>. QED  BY <1>1, <1>2, Invariance, SkippingInvariant, CapturingInvariant, PTL DEF Spec

-----------------------------------------------------------------------------
(* The properties *)

\* No assertion of the code fails and no NULL frame is popped, as long as every
\* file closes the blocks it opens and no other and functions end with #return.
THEOREM NothingCrashes == Spec => []CrashFree
<1>1. NestInv => CrashFree
  BY DEF NestInv, Nested, CrashFree
<1>. QED  BY <1>1, NestingInvariant, PTL

\* skip_capture and skip_depth agree with the innermost block whenever a line is
\* read or handled.
THEOREM CapturesAgree == Spec => []CaptureConsistent
<1>1. ASSUME IInv, NestInv
      PROVE  CaptureConsistent
  <2>1. SUFFICES ASSUME ~ragged, pc \in {"run", "line"}
                 PROVE  /\ skipCapture <=> (HasBlock /\ (TopKind = "func" \/ Top(blocks).capturing))
                        /\ skipCapture => skipDepth > 0
                        /\ skipDepth > 0 => HasBlock
    BY DEF CaptureConsistent
  <2>2. CapturesTop /\ SkipsOwn /\ ~Failing
    BY <1>1, <2>1 DEF NestInv, Nested, Failing
  <2>3. HasBlock => /\ TopKind = Top(blocks).kind /\ Top(blocks) = blocks[Len(blocks)]
                    /\ Len(blocks) \in DOMAIN blocks
    BY <1>1, TopFields
  <2>. QED  BY <1>1, <2>2, <2>3 DEF CapturesTop, SkipsOwn, Collects, IInv, TypeOK
<1>. QED  BY <1>1, Invariance, NestingInvariant, PTL


-----------------------------------------------------------------------------
(* What a running function leaves alone *)

LEMMA KeptWhen ==
    ASSUME NEW S, NEW old \in Seq(S), NEW new \in Seq(S), NEW n \in Nat,
           n <= Len(old), n <= Len(new), \A k \in 1 .. n : new[k] = old[k]
    PROVE  Kept(old, new, n)
<1>1. /\ SubSeq(old, 1, n) \in Seq(S) /\ SubSeq(new, 1, n) \in Seq(S)
      /\ Len(SubSeq(old, 1, n)) = n /\ Len(SubSeq(new, 1, n)) = n
      /\ \A k \in 1 .. n : SubSeq(new, 1, n)[k] = SubSeq(old, 1, n)[k]
  BY PrefixType
<1>2. SubSeq(new, 1, n) = SubSeq(old, 1, n)
  BY <1>1, SeqEqual
<1>3. Len(new) \in Nat
  BY LenProperties
<1>. QED  BY <1>2, <1>3 DEF Kept

\* No step changes a frame of a caller.
FramesBelow ==
    /\ frames' \in Seq(Frames) /\ Caller <= Len(frames')
    /\ \A j \in 1 .. Caller : frames'[j] = frames[j]

LEMMA FramesStep ==
    ASSUME IInv, Nested, Next, EvalCall \/ FinishCall \/ Local, frames' \in Seq(Frames)
    PROVE  FramesBelow
<1>1. /\ Len(frames) \in Nat /\ Caller \in Nat /\ Caller <= Len(frames)
      /\ Len(frames') \in Nat
  BY NestTypes, CallerFacts, LenProperties DEF Nested, CallsNested
<1>2. ASSUME frames' = frames
      PROVE  FramesBelow
  BY <1>1, <1>2 DEF FramesBelow
<1>3. CASE EvalCall
  <2>1. /\ Len(frames') = Len(frames) + 1
        /\ \A j \in 1 .. Len(frames) : frames'[j] = frames[j]
    BY <1>3, CallAdded DEF CallAdds
  <2>. QED  BY <1>1, <2>1 DEF FramesBelow
<1>4. CASE FinishCall
  BY <1>2, <1>4 DEF FinishCall
<1>5. CASE Local
  <2>1. /\ Stays \/ (\E f : Grows(f)) \/ Shrinks
        /\ FrameMove
    BY <1>5, LocalFacts, FrameMoved
  <2>2. CASE Stays
    <3>1. /\ Len(frames') = Len(frames)
          /\ \A j \in 1 .. Len(frames) : j < Len(frames) => frames'[j] = frames[j]
          /\ frames' = frames \/ FetchLine
      BY <2>2 DEF Stays
    <3>2. CASE FetchLine
      <4>1. CASE calls = <<>>
        <5>1. Caller = 0
          BY <4>1 DEF Caller
        <5>. QED  BY <1>1, <5>1 DEF FramesBelow
      <4>2. CASE calls # <<>>
        <5>1. pc # "cleanup"
          BY <3>2 DEF FetchLine
        <5>2. Len(frames) > Caller
          BY <4>2, <5>1 DEF Nested, CallsNested
        <5>. QED  BY <1>1, <3>1, <5>2 DEF FramesBelow
      <4>. QED  BY <4>1, <4>2
    <3>. QED  BY <1>2, <3>1, <3>2
  <2>3. ASSUME NEW f, Grows(f)
        PROVE  FramesBelow
    <3>1. /\ Len(frames') = Len(frames) + 1
          /\ \A j \in 1 .. Len(frames) : frames'[j] = frames[j]
      BY <2>3 DEF Grows
    <3>. QED  BY <1>1, <3>1 DEF FramesBelow
  <2>4. CASE Shrinks
    <3>1. /\ Len(frames') = Len(frames) - 1 /\ Len(frames) > Caller
          /\ \A j \in 1 .. Len(frames) - 1 : frames'[j] = frames[j]
      BY <2>4 DEF Shrinks, Popped
    <3>. QED  BY <1>1, <3>1 DEF FramesBelow
  <2>. QED  BY <2>1, <2>2, <2>3, <2>4
<1>. QED  BY <1>3, <1>4, <1>5

LEMMA CallersStep ==
    ASSUME IInv, IInv', SkipInv, BodyInv, NestInv, Next, ~Ended, ~ragged'
    PROVE  CallersUntouched
<1>1. Nested /\ ClosesOwn
  BY NestNow
<1>2. EvalCall \/ FinishCall \/ Local
  BY <1>1 DEF Local
<1>3. frames' \in Seq(Frames)
  BY NestTypes DEF IInv, TypeOK
<1>4. FramesBelow /\ BlocksBelow
  BY <1>1, <1>2, <1>3, FramesStep, BlocksStep
<1>5. SUFFICES ASSUME NEW c \in DOMAIN calls
               PROVE  /\ Kept(frames, frames', calls[c].caller)
                      /\ Kept(blocks, blocks', calls[c].base)
  BY DEF CallersUntouched
<1>6. /\ calls[c].caller \in Nat /\ calls[c].base \in Nat
      /\ calls[c].caller <= Caller /\ calls[c].base <= BlockBase
  BY <1>1, <1>5, NestTypes, CallerFacts, BaseFacts DEF IInv, Nested
<1>7. /\ Caller \in Nat /\ Caller <= Len(frames) /\ frames \in Seq(Frames)
      /\ BlockBase \in Nat /\ BlockBase <= Len(blocks) /\ blocks \in Seq(Blocks)
      /\ Len(frames) \in Nat /\ Len(blocks) \in Nat
  BY <1>1, NestTypes, CallerFacts, BaseFacts DEF IInv, Nested, CallsNested
<1>8. Kept(frames, frames', calls[c].caller)
  <2>1. /\ frames' \in Seq(Frames) /\ Caller <= Len(frames')
        /\ \A j \in 1 .. Caller : frames'[j] = frames[j]
    BY <1>4 DEF FramesBelow
  <2>2. Len(frames') \in Nat
    BY <2>1, LenProperties
  <2>3. /\ calls[c].caller <= Len(frames) /\ calls[c].caller <= Len(frames')
        /\ \A j \in 1 .. calls[c].caller : frames'[j] = frames[j]
    BY <1>6, <1>7, <2>1, <2>2
  <2>. QED  BY <1>6, <1>7, <2>1, <2>3, KeptWhen
<1>9. Kept(blocks, blocks', calls[c].base)
  <2>1. /\ blocks' \in Seq(Blocks) /\ BlockBase <= Len(blocks')
        /\ \A k \in 1 .. BlockBase : blocks'[k] = blocks[k]
    BY <1>4 DEF BlocksBelow
  <2>2. Len(blocks') \in Nat
    BY <2>1, LenProperties
  <2>3. /\ calls[c].base <= Len(blocks) /\ calls[c].base <= Len(blocks')
        /\ \A k \in 1 .. calls[c].base : blocks'[k] = blocks[k]
    BY <1>6, <1>7, <2>1, <2>2
  <2>. QED  BY <1>6, <1>7, <2>1, <2>3, KeptWhen
<1>. QED  BY <1>8, <1>9

\* While a function runs, no step changes a frame or a block of any of its callers,
\* as long as functions end with #return and files close the blocks they open.
THEOREM CallersAreUntouched == Spec => HermeticCalls
<1>1. IInv /\ IInv' /\ SkipInv /\ BodyInv /\ NestInv /\ [Next]_vars
         => [~ragged' => CallersUntouched]_vars
  BY CallersStep DEF Ended
<1>. QED  BY <1>1, Invariance, SkippingInvariant, CapturingInvariant, NestingInvariant, PTL
          DEF Spec, HermeticCalls


-----------------------------------------------------------------------------
(* What a handler will define *)

\* The scope that was current when call c was made.
ScopeOf(c) == 1 + calls[c].caller + Cardinality(Branches(SubSeq(blocks, 1, calls[c].base)))

\* The name a #var has found undefined stays so while its operand is evaluated,
\* also in the scope of a caller; the scope above that one does not promote.
VarFresh == pc \in Evaluating /\ line.dir = "var" => ~DefinedHere("x")
CallFresh ==
    \A c \in DOMAIN calls : calls[c].line.dir = "var" =>
       /\ ~Defined(scopes[ScopeOf(c)], "x")
       /\ ScopeOf(c) < Len(scopes) => ~scopes[ScopeOf(c) + 1].promote

\* So does the name of a #func while its body is captured.
FuncFresh ==
    TopKind = "func" /\ pc \in {"run", "line"} =>
       /\ ~DefinedHere("f")
       /\ \A j \in DOMAIN frames : frames[j].base < Len(blocks)

\* The root frame opens no block, and none is left when it ends.
Rooted ==
    /\ ~unterm
    /\ frames = <<>> => blocks = <<>> /\ pc \in {"run", "eof"}
    /\ frames # <<>> => frames[1].base = 0

Fresh == VarFresh /\ CallFresh /\ FuncFresh /\ Rooted

\* The scopes of the calls lie above one another.
LEMMA ScopesOfCalls ==
    ASSUME IInv, CallsNested, ~unterm, NEW c \in DOMAIN calls
    PROVE  /\ ScopeOf(c) \in 1 .. Len(scopes) /\ Len(scopes) \in Nat
           /\ pc # "cleanup" \/ c < Len(calls) => ScopeOf(c) < Len(scopes)
           /\ c = Len(calls) /\ ~HasBlock /\ Len(frames) = Caller => ScopeOf(c) = Len(scopes)
<1>. DEFINE below == Cardinality(Branches(SubSeq(blocks, 1, calls[c].base)))
            open == Cardinality(Branches(blocks))
            caller == calls[c].caller
<1>1. /\ Len(calls) \in Nat /\ c \in 1 .. Len(calls) /\ Len(frames) \in Nat
      /\ Len(blocks) \in Nat /\ blocks \in Seq(Blocks) /\ Caller \in Nat
      /\ caller \in Nat /\ caller <= Caller /\ caller >= 1
      /\ calls # <<>> /\ BlockBase \in Nat
  <2>1. calls # <<>>
    BY NestTypes, EmptySeq
  <2>. QED  BY <2>1, NestTypes, CallerFacts, BaseFacts DEF IInv
<1>2. /\ calls[c].base \in Nat /\ calls[c].base <= Len(blocks)
      /\ c = Len(calls) => calls[c].base = BlockBase
      /\ c < Len(calls) => caller < Caller
      /\ c = Len(calls) => caller = Caller
      /\ Len(frames) >= Caller /\ (pc # "cleanup" => Len(frames) > Caller)
  <2>1. calls[c].base \in Nat /\ calls[c].base <= BlockBase /\ BlockBase <= Len(blocks)
    BY <1>1, BaseFacts DEF IInv
  <2>2. calls[c].base <= Len(blocks)
    BY <1>1, <2>1
  <2>. QED  BY <1>1, <2>1, <2>2, CallerFacts DEF CallsNested
<1>3. /\ SubSeq(blocks, 1, calls[c].base) \in Seq(Blocks) /\ below \in Nat /\ open \in Nat
      /\ below <= open
  BY <1>1, <1>2, BranchPrefix, PrefixType, BranchCount
<1>4. Len(scopes) = 1 + Len(frames) + open
  <2>1. frames # <<>>
    BY <1>1, <1>2, EmptySeq
  <2>2. Len(scopes) = 2 + NestedFrames + open
    BY DEF IInv, Balance, Owned
  <2>. QED  BY <1>1, <1>3, <2>1, <2>2 DEF NestedFrames
<1>5. c = Len(calls) /\ ~HasBlock => below = open
  <2>1. SUFFICES ASSUME c = Len(calls), ~HasBlock
                 PROVE  SubSeq(blocks, 1, calls[c].base) = blocks
    OBVIOUS
  <2>2. calls[c].base = Len(blocks)
    BY <1>1, <1>2, <2>1 DEF HasBlock
  <2>3. /\ Len(SubSeq(blocks, 1, calls[c].base)) = Len(blocks)
        /\ \A i \in 1 .. Len(blocks) : SubSeq(blocks, 1, calls[c].base)[i] = blocks[i]
    BY <1>1, <1>2, <2>2, PrefixType
  <2>. QED  BY <1>1, <1>3, <2>3, SeqEqual
<1>6. ScopeOf(c) = 1 + caller + below
  BY DEF ScopeOf
<1>7. PICK cs, fs, ss : cs = Len(calls) /\ fs = Len(frames) /\ ss = Len(scopes)
  OBVIOUS
<1>. HIDE DEF below, open, caller
<1>8. /\ cs \in Nat /\ c \in 1 .. cs /\ fs \in Nat /\ Caller \in Nat /\ caller \in Nat
      /\ below \in Nat /\ open \in Nat /\ below <= open /\ ss = 1 + fs + open
      /\ caller <= Caller /\ Caller <= fs
  BY <1>1, <1>2, <1>3, <1>4, <1>7
<1>9. ss \in Nat /\ 1 + caller + below \in 1 .. ss
  BY ONLY <1>8
<1>10. (Caller < fs \/ caller < Caller) => 1 + caller + below < ss
  BY ONLY <1>8
<1>11. caller = Caller /\ below = open /\ fs = Caller => 1 + caller + below = ss
  BY ONLY <1>8
<1>. QED  BY <1>2, <1>5, <1>6, <1>7, <1>9, <1>10, <1>11

LEMMA ScopeOfStays ==
    ASSUME IInv, CallBones, BlocksBelow, NEW c \in DOMAIN calls
    PROVE  ScopeOf(c)' = ScopeOf(c)
<1>1. /\ c \in 1 .. Len(calls) /\ blocks \in Seq(Blocks) /\ Len(blocks) \in Nat
      /\ calls[c].base \in Nat /\ calls[c].base <= BlockBase /\ BlockBase <= Len(blocks)
      /\ BlockBase \in Nat
  BY NestTypes, BaseFacts DEF IInv
<1>2. /\ blocks' \in Seq(Blocks) /\ BlockBase <= Len(blocks')
      /\ \A k \in 1 .. BlockBase : blocks'[k] = blocks[k]
  BY DEF BlocksBelow
<1>3. Len(blocks') \in Nat
  BY <1>2, LenProperties
<1>4. /\ calls[c].base <= Len(blocks) /\ calls[c].base <= Len(blocks')
      /\ \A k \in 1 .. calls[c].base : blocks'[k] = blocks[k]
  BY <1>1, <1>2, <1>3
<1>5. Kept(blocks, blocks', calls[c].base)
  BY <1>1, <1>2, <1>4, KeptWhen
<1>6. calls'[c].caller = calls[c].caller /\ calls'[c].base = calls[c].base
  BY <1>1 DEF CallBones
<1>. QED  BY <1>5, <1>6 DEF ScopeOf, Kept

\* No step defines a name in a scope below one that does not promote, unless
\* that scope is the current one.
LEMMA ScopeUntouched ==
    ASSUME IInv, TypeOK', ScopeMove, NEW s \in 1 .. Len(scopes), s <= Len(scopes'),
           s = Len(scopes) => pc = "cleanup",
           s < Len(scopes) => ~scopes[s + 1].promote
    PROVE  /\ \A n \in Names : scopes'[s].syms[n] = scopes[s].syms[n]
           /\ s < Len(scopes') => ~scopes'[s + 1].promote
<1>1. /\ TypeOK /\ Balance /\ Len(scopes) \in Nat /\ Len(scopes') \in Nat
      /\ DOMAIN scopes' = 1 .. Len(scopes')
  BY LenProperties DEF IInv, TypeOK
<1>2. CASE scopes' = scopes
  BY <1>2
<1>3. ASSUME NEW promote \in BOOLEAN, NEW syms \in [Names -> Symbols],
             scopes' = PushScope(promote, syms), pc # "cleanup"
      PROVE  /\ \A n \in Names : scopes'[s].syms[n] = scopes[s].syms[n]
             /\ s < Len(scopes') => ~scopes'[s + 1].promote
  <2>1. s < Len(scopes) /\ s + 1 \in 1 .. Len(scopes)
    BY <1>1, <1>3
  <2>2. \A k \in 1 .. Len(scopes) : scopes'[k] = scopes[k]
    BY <1>1, <1>3, PushSyms
  <2>. QED  BY <2>1, <2>2
<1>4. CASE \E promote \in BOOLEAN : pc # "cleanup" /\ scopes' = PushScope(promote, NoSyms)
  BY <1>3, <1>4, SymsType
<1>5. CASE \E name \in Names : pc # "cleanup" /\ scopes' = PushScope(FALSE, Binding(name))
  <2>1. PICK name \in Names : scopes' = PushScope(FALSE, Binding(name))
    BY <1>5
  <2>2. PICK syms : syms = Binding(name)
    OBVIOUS
  <2>3. Len(scopes) + 1 \in Nat
    BY <1>1
  <2>4. syms \in [Names -> Symbols]
    BY <2>2, <2>3, SymsType, SMTT(30) DEF Binding
  <2>5. scopes' = PushScope(FALSE, syms) /\ FALSE \in BOOLEAN /\ pc # "cleanup"
    BY <1>5, <2>1, <2>2
  <2>. QED  BY <1>3, <2>4, <2>5
<1>6. CASE Len(scopes) > 2 /\ scopes' = PopScope
  <2>1. /\ DOMAIN scopes' = 1 .. Len(scopes) - 1
        /\ \A k \in 1 .. Len(scopes) - 1 : scopes'[k].promote = scopes[k].promote
        /\ \A k \in 1 .. Len(scopes) - 1 : \A n \in Names :
              \/ scopes'[k].syms[n] = scopes[k].syms[n]
              \/ k = Len(scopes) - 1 /\ scopes[Len(scopes)].promote
    BY <1>1, <1>6, PopSyms
  <2>2. Len(scopes') = Len(scopes) - 1
    BY <1>1, <1>6, <2>1
  <2>3. s \in 1 .. Len(scopes) - 1 /\ s < Len(scopes)
    BY <1>1, <2>2
  <2>4. s = Len(scopes) - 1 => ~scopes[Len(scopes)].promote
    BY <1>1, <2>3
  <2>5. s < Len(scopes') => s + 1 \in 1 .. Len(scopes) - 1
    BY <1>1, <2>2, <2>3
  <2>. QED  BY <2>1, <2>3, <2>4, <2>5
<1>7. ASSUME NEW name \in Names, NEW public \in BOOLEAN, NEW body \in Seq(Line),
             scopes' = Assign(name, public, body), pc # "cleanup"
      PROVE  /\ \A n \in Names : scopes'[s].syms[n] = scopes[s].syms[n]
             /\ s < Len(scopes') => ~scopes'[s + 1].promote
  <2>0. /\ \A k \in 1 .. Len(scopes) : \A n \in Names :
              k # Len(scopes) \/ n # name =>
                 Assign(name, public, body)[k].syms[n] = scopes[k].syms[n]
        /\ \A k \in 1 .. Len(scopes) :
              Assign(name, public, body)[k].promote = scopes[k].promote
    BY <1>1, AssignSyms, ZenonT(60)
  <2>1. /\ \A k \in 1 .. Len(scopes) : \A n \in Names :
              k # Len(scopes) => scopes'[k].syms[n] = scopes[k].syms[n]
        /\ \A k \in 1 .. Len(scopes) : scopes'[k].promote = scopes[k].promote
    BY <1>7, <2>0
  <2>2. s # Len(scopes) /\ s < Len(scopes) /\ s + 1 \in 1 .. Len(scopes)
    BY <1>1, <1>7
  <2>. QED  BY <2>1, <2>2
<1>8. /\ <<>> \in Seq(Line) /\ captureBuf \in Seq(Line) /\ "f" \in Names /\ "x" \in Names
      /\ SkipEnd => pc # "cleanup"
      /\ ValueOf({"var"}) => pc # "cleanup"
  BY <1>1, EmptySeq DEF TypeOK, Names, SkipEnd, Skipping, ValueOf
<1>9. CASE \E public \in BOOLEAN : /\ (pc = "line" /\ ~DefinedHere("x")) \/ ValueOf({"var"})
                                   /\ scopes' = Assign("x", public, <<>>)
  <2>1. PICK public \in BOOLEAN : scopes' = Assign("x", public, <<>>)
    BY <1>9
  <2>2. pc # "cleanup"
    BY <1>8, <1>9
  <2>. QED  BY <1>7, <1>8, <2>1, <2>2
<1>10. CASE \E public \in BOOLEAN : /\ SkipEnd /\ TopKind = "func"
                                    /\ scopes' = Assign("f", public, captureBuf)
  BY <1>7, <1>8, <1>10
<1>. QED  BY <1>2, <1>4, <1>5, <1>6, <1>9, <1>10 DEF ScopeMove


\* The operand of a #var is evaluated right after its name was found undefined,
\* or goes on being evaluated when a call in it is over.
LEMMA VarSteps ==
    ASSUME Next, pc' \in Evaluating, line'.dir = "var"
    PROVE  \/ ~DefinedHere("x") /\ scopes' = scopes
           \/ EvalRejected
           \/ FinishCall
<1>1. ~Fetch
  BY DEF Fetch, FetchPending, FetchLine, FrameExhausted, EndOfInput, UnterminatedBlock,
     PlainToken, YieldToken, Evaluating
<1>2. CASE Handle
  <2>1. CASE HandleVar
    BY <2>1 DEF HandleVar, ReportAndFail, BeginEval, Fail, Evaluating
  <2>2. CASE \/ HandleOperand \/ HandleStrayReturn \/ HandleUnknown \/ OpLimitExceeded
             \/ HandleElse \/ HandleElif \/ HandleEnd
    BY <2>2 DEF HandleOperand, HandleStrayReturn, HandleUnknown, OpLimitExceeded,
       HandleElse, HandleElif, HandleEnd, ReportAndFail, Fail, Active, BeginEval, Evaluating
  <2>3. CASE \/ HandleFunc \/ HandleWhile \/ HandleLeave \/ HandleInclude
             \/ HandleEmit \/ HandleSet
    BY <2>3 DEF HandleFunc, HandleWhile, HandleLeave, HandleInclude, HandleEmit, HandleSet,
       ReportAndFail, Fail, Active, BeginEval, Evaluating
  <2>. QED  BY <1>2, <2>1, <2>2, <2>3 DEF Handle
<1>3. CASE Evaluate
  <2>1. ~EvalFailed /\ ~CondFrameGone /\ ~ReturnValue /\ ~EvalCall
    BY DEF EvalFailed, CondFrameGone, ReturnValue, EvalCall, Fail, Evaluating
  <2>2. ~DirectiveCond /\ ~DirectiveValue /\ ~ErrorDirective /\ ~ElifCond
    BY DEF DirectiveCond, DirectiveValue, ErrorDirective, ElifCond, IfBranch, WhileFirst,
       ForItems, BeginLoop, ReportAndFail, Fail, Evaluating
  <2>. QED  BY <1>3, <2>1, <2>2 DEF Evaluate
<1>4. ~CleanupBlock /\ ~CleanupFrame /\ ~HandlerFailed
  BY DEF CleanupBlock, CleanupFrame, HandlerFailed, Evaluating
<1>5. ~Loops
  <2>1. ~LoopBodyExhausted
    <3>1. SUFFICES ASSUME LoopBodyExhausted PROVE FALSE
      OBVIOUS
    <3>2. CASE TopKind \notin LoopKinds
      <4>1. AssertFails
        BY <3>1, <3>2 DEF LoopBodyExhausted, LoopKinds
      <4>. QED  BY <4>1 DEF AssertFails, Evaluating
    <3>3. CASE TopKind = "for"
      <4>1. pc' \in {"run", "enter"}
        BY <3>1, <3>3 DEF LoopBodyExhausted, LoopKinds
      <4>. QED  BY <4>1 DEF Evaluating
    <3>4. CASE TopKind = "while"
      <4>1. line'.dir = "again"
        BY <3>1, <3>4 DEF LoopBodyExhausted, LoopKinds
      <4>. QED  BY <4>1
    <3>. QED  BY <3>2, <3>3, <3>4 DEF LoopKinds
  <2>2. ~EnterLoopBody /\ ~WhileAgain /\ ~LeaveIfBlock /\ ~LeaveFrame
    BY DEF EnterLoopBody, WhileAgain, LeaveIfBlock, LeaveFrame, AssertFails, ReportAndFail,
       Fail, Evaluating
  <2>. QED  BY <2>1, <2>2 DEF Loops
<1>6. ~Skip
  BY DEF Skip, SkipFails, SkipLine, SkipOpen, SkipUnknown, SkipInner, SkipElse, SkipElif,
     SkipInnerEnd, SkipEnd, Skipping, Fail, FinishPendingFunc, FinishLoop, Evaluating
<1>7. ~Ended
  BY DEF Ended, vars, Final, Evaluating
<1>. QED  BY <1>1, <1>2, <1>3, <1>4, <1>5, <1>6, <1>7 DEF Next, Calls

LEMMA VarStep ==
    ASSUME IInv, Nested, Fresh, Next
    PROVE  VarFresh'
<1>1. SUFFICES ASSUME pc' \in Evaluating, line'.dir = "var"
               PROVE  scopes' = scopes /\ ~DefinedHere("x")
  BY DEF VarFresh, DefinedHere
<1>2. CASE EvalRejected
  BY <1>1, <1>2 DEF EvalRejected, Fresh, VarFresh, Evaluating
<1>3. CASE FinishCall
  <2>1. CallDrops
    BY <1>3, CallDropped
  <2>2. /\ Len(calls) \in DOMAIN calls /\ calls[Len(calls)].line.dir = "var"
        /\ ~HasBlock /\ Len(frames) = Caller
    BY <1>1, <2>1 DEF CallDrops
  <2>3. ScopeOf(Len(calls)) = Len(scopes)
    BY <2>2, ScopesOfCalls DEF Nested, Fresh, Rooted
  <2>4. ~Defined(scopes[Len(scopes)], "x")
    BY <2>2, <2>3 DEF Fresh, CallFresh
  <2>. QED  BY <1>3, <2>4 DEF FinishCall, DefinedHere, Top
<1>. QED  BY <1>1, <1>2, <1>3, VarSteps

\* The same of the next state.
CallScopes == \A c \in DOMAIN calls : ScopeOf(c) \in 1 .. Len(scopes) /\ Len(scopes) \in Nat

LEMMA NextScopes == IInv' /\ CallsNested' /\ ~unterm' => CallScopes'
<1>1. IInv /\ CallsNested /\ ~unterm => CallScopes
  BY ScopesOfCalls DEF CallScopes
<1>. QED  BY <1>1, PTL


\* A call made in the operand of a #var finds the scope of its caller below its own.
LEMMA FreshCall ==
    ASSUME IInv, Nested, Fresh, EvalCall, NEW c \in DOMAIN calls', calls'[c].line.dir = "var"
    PROVE  /\ ~Defined(scopes'[ScopeOf(c)'], "x")
           /\ ScopeOf(c)' < Len(scopes') => ~scopes'[ScopeOf(c)' + 1].promote
<1>1. /\ TypeOK /\ Balance /\ CallAdds /\ CallsNested /\ ~unterm
      /\ Len(scopes) \in Nat /\ Len(frames) \in Nat /\ Len(calls) \in Nat
      /\ blocks \in Seq(Blocks) /\ Len(blocks) \in Nat
      /\ frames # <<>> /\ pc = "eval" /\ blocks' = blocks
  BY CallAdded, NestTypes, LenProperties DEF IInv, TypeOK, Nested, Fresh, Rooted, CallAdds
<1>2. PICK syms : syms = Binding("p")
  OBVIOUS
<1>3. syms \in [Names -> Symbols]
  <2>1. Len(scopes) + 1 \in Nat
    BY <1>1
  <2>2. "p" \in Names
    BY DEF Names
  <2>. QED  BY <1>2, <2>1, <2>2, SymsType DEF Binding
<1>4. scopes' = PushScope(FALSE, syms) /\ FALSE \in BOOLEAN
  BY <1>2 DEF EvalCall
<1>5. /\ \A k \in 1 .. Len(scopes) : PushScope(FALSE, syms)[k] = scopes[k]
      /\ PushScope(FALSE, syms)[Len(scopes) + 1].promote = FALSE
  BY <1>1, <1>3, <1>4, PushSyms
<1>6. /\ \A k \in 1 .. Len(scopes) : scopes'[k] = scopes[k]
      /\ ~scopes'[Len(scopes) + 1].promote
  BY <1>4, <1>5
<1>7. ASSUME c \in 1 .. Len(calls)
      PROVE  /\ ~Defined(scopes'[ScopeOf(c)'], "x")
             /\ ScopeOf(c)' < Len(scopes') => ~scopes'[ScopeOf(c)' + 1].promote
  <2>1. c \in DOMAIN calls /\ calls'[c] = calls[c]
    BY <1>1, <1>7, NestTypes DEF CallAdds
  <2>2. ScopeOf(c)' = ScopeOf(c)
    BY <1>1, <2>1 DEF ScopeOf
  <2>3. ScopeOf(c) \in 1 .. Len(scopes) /\ ScopeOf(c) < Len(scopes)
    BY <1>1, <2>1, ScopesOfCalls
  <2>4. ~Defined(scopes[ScopeOf(c)], "x") /\ ~scopes[ScopeOf(c) + 1].promote
    BY <2>1, <2>3 DEF Fresh, CallFresh
  <2>5. ScopeOf(c) + 1 \in 1 .. Len(scopes)
    BY <1>1, <2>3
  <2>. QED  BY <1>6, <2>2, <2>3, <2>4, <2>5
<1>8. ASSUME c = Len(calls) + 1
      PROVE  /\ ~Defined(scopes'[ScopeOf(c)'], "x")
             /\ ScopeOf(c)' < Len(scopes') => ~scopes'[ScopeOf(c)' + 1].promote
  <2>1. calls'[c].caller = Len(frames) /\ calls'[c].base = Len(blocks) /\ line.dir = "var"
    BY <1>1, <1>8 DEF CallAdds
  <2>2. SubSeq(blocks, 1, Len(blocks)) = blocks
    <3>1. /\ SubSeq(blocks, 1, Len(blocks)) \in Seq(Blocks)
          /\ Len(SubSeq(blocks, 1, Len(blocks))) = Len(blocks)
          /\ \A i \in 1 .. Len(blocks) : SubSeq(blocks, 1, Len(blocks))[i] = blocks[i]
      BY <1>1, PrefixType
    <3>. QED  BY <1>1, <3>1, SeqEqual
  <2>3. ScopeOf(c)' = 1 + Len(frames) + Cardinality(Branches(blocks))
    BY <1>1, <2>1, <2>2 DEF ScopeOf
  <2>4. Len(scopes) = 2 + NestedFrames + Cardinality(Branches(blocks))
    BY <1>1 DEF Balance, Owned
  <2>5. Cardinality(Branches(blocks)) \in Nat /\ NestedFrames = Len(frames) - 1
    BY <1>1, BranchCount DEF NestedFrames
  <2>6. ScopeOf(c)' = Len(scopes) /\ Len(scopes) \in 1 .. Len(scopes)
    <3>1. Len(frames) \in Nat /\ Len(scopes) \in Nat
      BY <1>1
    <3>2. Len(scopes) = 1 + Len(frames) + Cardinality(Branches(blocks))
      BY <2>4, <2>5, <3>1
    <3>3. 1 + Len(frames) + Cardinality(Branches(blocks)) >= 1
      BY <2>5, <3>1
    <3>. QED  BY <2>3, <3>1, <3>2, <3>3
  <2>7. ~Defined(scopes[Len(scopes)], "x")
    BY <1>1, <2>1 DEF Fresh, VarFresh, Evaluating, DefinedHere, Top
  <2>. QED  BY <1>6, <2>6, <2>7
<1>9. c \in 1 .. Len(calls) + 1
  BY <1>1 DEF CallAdds
<1>10. c \in 1 .. Len(calls) \/ c = Len(calls) + 1
  <2>1. Len(calls) \in Nat
    BY <1>1
  <2>. QED  BY <1>9, <2>1
<1>. QED  BY <1>7, <1>8, <1>10

LEMMA CallStep ==
    ASSUME IInv, IInv', SkipInv, Nested, CallsNested', Fresh, ~unterm', Next,
           EvalCall \/ FinishCall \/ Local
    PROVE  CallFresh'
<1>1. SUFFICES ASSUME NEW c \in DOMAIN calls', calls'[c].line.dir = "var"
               PROVE  /\ ~Defined(scopes'[ScopeOf(c)'], "x")
                      /\ ScopeOf(c)' < Len(scopes') => ~scopes'[ScopeOf(c)' + 1].promote
  BY DEF CallFresh, Defined
<1>2. CASE EvalCall
  BY <1>1, <1>2, FreshCall
<1>3. CASE FinishCall
  <2>1. CallDrops /\ scopes' = scopes
    BY <1>3, CallDropped DEF FinishCall
  <2>2. c \in 1 .. Len(calls) - 1
    BY <1>1, <2>1 DEF CallDrops
  <2>3. /\ c \in DOMAIN calls /\ calls[c].line.dir = "var" /\ blocks' = blocks
        /\ calls'[c].caller = calls[c].caller /\ calls'[c].base = calls[c].base
    BY <1>1, <2>1, <2>2 DEF CallDrops
  <2>4. ScopeOf(c)' = ScopeOf(c)
    BY <2>3 DEF ScopeOf
  <2>. QED  BY <2>1, <2>3, <2>4 DEF Fresh, CallFresh
<1>4. CASE Local
  <2>1. CallBones /\ BlocksBelow /\ ScopeMove /\ CallsNested /\ ~unterm /\ TypeOK'
    BY <1>4, LocalFacts, BlocksStep, StepMove DEF Nested, Fresh, Rooted, IInv
  <2>2. c \in DOMAIN calls /\ calls[c].line.dir = "var"
    BY <1>1, <2>1, NestTypes DEF CallBones
  <2>3. ScopeOf(c)' = ScopeOf(c)
    BY <2>1, <2>2, ScopeOfStays
  <2>4. /\ ScopeOf(c) \in 1 .. Len(scopes) /\ Len(scopes) \in Nat
        /\ ScopeOf(c) = Len(scopes) => pc = "cleanup"
    BY <2>1, <2>2, ScopesOfCalls
  <2>5. ScopeOf(c)' \in 1 .. Len(scopes') /\ Len(scopes') \in Nat
    BY NextScopes DEF CallScopes
  <2>6. ScopeOf(c) <= Len(scopes')
    BY <2>3, <2>5
  <2>7. /\ ~Defined(scopes[ScopeOf(c)], "x")
        /\ ScopeOf(c) < Len(scopes) => ~scopes[ScopeOf(c) + 1].promote
    BY <2>2 DEF Fresh, CallFresh
  <2>8. /\ \A n \in Names : scopes'[ScopeOf(c)].syms[n] = scopes[ScopeOf(c)].syms[n]
        /\ ScopeOf(c) < Len(scopes') => ~scopes'[ScopeOf(c) + 1].promote
    BY <2>1, <2>4, <2>6, <2>7, ScopeUntouched
  <2>9. ~Defined(scopes'[ScopeOf(c)], "x")
    BY <2>7, <2>8 DEF Defined, Names
  <2>. QED  BY <2>3, <2>8, <2>9
<1>. QED  BY <1>2, <1>3, <1>4


\* A capture under way is not suspended: its lines are read and skipped.
LEMMA CaptureUnderWay ==
    ASSUME IInv, SkipInv, BodyInv, Nested, skipCapture, ~Failing, pc \notin Final
    PROVE  HasBlock /\ TopKind # "if" /\ skipDepth > 0 /\ pc \in {"run", "line"}
<1>1. HasBlock /\ Collects(Top(blocks)) /\ skipDepth > 0 /\ skipDepth # 0
  BY NestTypes DEF Nested, CapturesTop
<1>2. TopKind # "if"
  <2>1. TopKind = Top(blocks).kind /\ Replayable(Top(blocks))
    BY <1>1, TopFields DEF BodyInv, BlocksReplayable
  <2>. QED  BY <1>1, <2>1 DEF Collects, Replayable, LoopKinds
<1>3. ~Looping
  BY <1>1 DEF Nested, SkipsOwn
<1>4. pc \notin Evaluating
  BY <1>1, <1>2, <1>3 DEF Looping, SkipInv, HandlerSkip, IInv, PcShape
<1>5. pc # "leave"
  BY <1>1 DEF SkipInv, HandlerSkip
<1>. QED  BY <1>1, <1>2, <1>3, <1>4, <1>5
          DEF IInv, TypeOK, Running, Failing, Looping, Evaluating

FuncOnTop == TopKind = "func"

LEMMA FuncCaptured ==
    ASSUME IInv, CapturesTop, FuncOnTop
    PROVE  skipCapture
<1>1. HasBlock
  BY DEF FuncOnTop, TopKind
<1>. QED  BY <1>1, TopFields DEF FuncOnTop, CapturesTop, Collects

LEMMA NextCaptured == IInv' /\ CapturesTop' /\ FuncOnTop' => skipCapture'
<1>1. IInv /\ CapturesTop /\ FuncOnTop => skipCapture
  BY FuncCaptured
<1>. QED  BY <1>1, PTL

\* A function is being captured after a step because the step began to, or because
\* it has been all the time, and then the step only reads a line or skips one.
LEMMA FuncSteps ==
    ASSUME Local, Fresh, IInv', CapturesTop', FuncOnTop', pc' \in {"run", "line"},
           pc \notin {"eof", "failed"}
    PROVE  /\ scopes' = scopes
           /\ \/ /\ HandleFunc /\ ~DefinedHere("f") /\ frames' = frames /\ pc = "line"
                 /\ Len(blocks') = Len(blocks) + 1
              \/ /\ FuncOnTop /\ pc \in {"run", "line"} /\ blocks' = blocks
                 /\ frames' = frames \/ FetchLine
<1>1. /\ IInv /\ SkipInv /\ BodyInv /\ Nested /\ Next /\ skipCapture' /\ ~EvalCall /\ ~FinishCall
      /\ BlockBase' = BlockBase
  BY NextCaptured, LocalFacts DEF Local, CallBones
<1>2. /\ blocks \in Seq(Blocks) /\ Len(blocks) \in Nat /\ skipDepth \in Nat
      /\ line.public \in BOOLEAN /\ line.expr \in Exprs /\ MaxItems \in Nat
  BY <1>1, NestTypes, LimitAssumption DEF IInv, TypeOK, Line
<1>3. pc' \notin Final /\ pc' \notin Evaluating
      /\ pc' \notin {"fail", "enter", "exhausted", "leave", "cleanup"}
  BY DEF Final, Evaluating
<1>4. ~ReportAndFail
  BY <1>3 DEF ReportAndFail, Fail
<1>5. CASE HandleFunc
  <2>1. PICK b \in Blocks : blocks' = Append(blocks, b)
    BY <1>2, <1>4, <1>5, NewLoop DEF HandleFunc
  <2>2. Len(blocks') = Len(blocks) + 1
    BY <1>2, <2>1, AppendProperties
  <2>. QED  BY <1>4, <1>5, <2>2 DEF HandleFunc, Active
<1>6. CASE DirectiveCond
  <2>1. ASSUME NEW b \in Blocks, b.kind # "func", blocks' = Append(blocks, b)
        PROVE  FALSE
    <3>1. Len(blocks') = Len(blocks) + 1 /\ blocks'[Len(blocks) + 1] = b
      BY <1>2, <2>1, AppendProperties
    <3>2. Top(blocks)' = b
      BY <3>1 DEF Top
    <3>. QED  BY <2>1, <3>2 DEF FuncOnTop, TopKind
  <2>2. ASSUME NEW cond \in BOOLEAN, IfBranch(cond)
        PROVE  FALSE
    BY <2>1, <2>2, NewLoop DEF IfBranch
  <2>3. ASSUME NEW cond \in BOOLEAN, WhileFirst(cond)
        PROVE  FALSE
    BY <1>2, <2>1, <2>3, NewLoop DEF WhileFirst, BeginLoop
  <2>4. ASSUME NEW count \in 0 .. MaxItems, ForItems(count)
        PROVE  FALSE
    <3>1. PICK b \in Blocks : b.kind # "func" /\ blocks' = Append(blocks, b)
      <4>. DEFINE loop == [NewBlock("for") EXCEPT !.capturing = count # 0, !.left = count]
      <4>1. count \in Nat
        BY <1>2
      <4>2. loop \in Blocks /\ loop.kind = "for"
        BY <4>1, NewLoop
      <4>3. blocks' = Append(blocks, loop)
        BY <2>4 DEF ForItems, BeginLoop
      <4>. HIDE DEF loop
      <4>. QED  BY <4>2, <4>3
    <3>. QED  BY <2>1, <3>1
  <2>. QED  BY <1>6, <2>2, <2>3, <2>4 DEF DirectiveCond
<1>7. CASE ~HandleFunc /\ ~DirectiveCond
  <2>1. skipCapture
    <3>1. CASE Fetch
      BY <1>1, <3>1 DEF Fetch, FetchPending, FetchLine, FrameExhausted, EndOfInput,
         UnterminatedBlock, PlainToken
    <3>2. CASE Handle
      BY <1>1, <1>4, <1>7, <3>2 DEF Handle, OpLimitExceeded, HandleOperand, HandleStrayReturn,
         HandleUnknown, HandleElse, HandleElif, HandleEnd, HandleWhile, HandleLeave,
         HandleInclude, HandleEmit, HandleVar, HandleSet, BeginEval
    <3>3. CASE Evaluate
      BY <1>1, <1>4, <1>7, <3>3 DEF Evaluate, EvalRejected, EvalFailed, CondFrameGone,
         ReturnValue, DirectiveValue, ErrorDirective, ElifCond
    <3>4. CASE Calls
      BY <1>1, <3>4 DEF Calls, CleanupBlock, CleanupFrame, HandlerFailed
    <3>5. CASE Loops
      <4>1. CASE LoopBodyExhausted
        <5>1. TopKind \notin LoopKinds \/ TopKind = "for" \/ TopKind = "while"
          BY DEF LoopKinds
        <5>. QED  BY <1>1, <1>3, <4>1, <5>1 DEF LoopBodyExhausted, AssertFails, LoopKinds,
                  Final
      <4>. QED  BY <1>1, <1>4, <3>5, <4>1 DEF Loops, EnterLoopBody, WhileAgain, LeaveIfBlock,
                LeaveFrame, AssertFails
    <3>6. CASE Skip
      BY <1>1, <3>6 DEF Skip, SkipFails, SkipLine, SkipOpen, SkipUnknown, SkipInner, SkipElse,
         SkipElif, SkipInnerEnd, SkipEnd
    <3>7. CASE Ended
      BY <1>1, <3>7 DEF Ended, vars
    <3>. QED  BY <1>1, <3>1, <3>2, <3>3, <3>4, <3>5, <3>6, <3>7 DEF Next
  <2>2. ~Calls
    BY <1>1, <1>3 DEF Calls, CleanupBlock, CleanupFrame, HandlerFailed, Final
  <2>3. ~Failing
    <3>1. pc \notin {"fail", "cleanup"}
      BY <1>1, <1>3, <2>2 DEF Next, Fetch, Handle, Evaluate, Loops, Skip, FetchPending, FetchLine,
         FrameExhausted, EndOfInput, UnterminatedBlock, PlainToken, OpLimitExceeded,
         HandleOperand, HandleStrayReturn, HandleUnknown, HandleElse, HandleElif, HandleEnd,
         HandleFunc, HandleWhile, HandleLeave, HandleInclude, HandleEmit, HandleVar, HandleSet,
         Active, EvalRejected, EvalFailed, CondFrameGone, ReturnValue, DirectiveCond,
         DirectiveValue, ErrorDirective, ElifCond, ValueOf, EnterLoopBody, LoopBodyExhausted,
         WhileAgain, LeaveIfBlock, LeaveFrame, SkipFails, SkipLine, SkipOpen, SkipUnknown,
         SkipInner, SkipElse, SkipElif, SkipInnerEnd, SkipEnd, Skipping, Ended, Final
    <3>. QED  BY <3>1 DEF Failing
  <2>4. pc \notin Final
    BY <1>1 DEF Nested, Final
  <2>5. HasBlock /\ TopKind # "if" /\ skipDepth # 0 /\ pc \in {"run", "line"}
    <3>1. HasBlock /\ TopKind # "if" /\ skipDepth > 0 /\ pc \in {"run", "line"}
      BY <1>1, <2>1, <2>3, <2>4, CaptureUnderWay
    <3>2. skipDepth # 0
      BY <3>1
    <3>. QED  BY <3>1, <3>2
  <2>6. ~Handle /\ ~Ended
    BY <2>4, <2>5 DEF Handle, OpLimitExceeded, HandleOperand, HandleStrayReturn,
       HandleUnknown, HandleElse, HandleElif, HandleEnd, HandleFunc, HandleWhile, HandleLeave,
       HandleInclude, HandleEmit, HandleVar, HandleSet, Active, Ended
  <2>7. ~Evaluate
    BY <1>1, <2>5 DEF Evaluate, EvalRejected, EvalFailed, CondFrameGone, ReturnValue,
       DirectiveCond, DirectiveValue, ErrorDirective, ElifCond, ValueOf
  <2>8. ~Loops
    BY <2>5 DEF Loops, EnterLoopBody, LoopBodyExhausted, WhileAgain, ValueOf, LeaveIfBlock,
       LeaveFrame
  <2>9. ElseRefused /\ ~SkipEnd
    BY <1>1, <2>5 DEF ElseRefused, SkipEnd
  <2>10. CASE Skip
    <3>1. blocks' = blocks /\ scopes' = scopes /\ frames' = frames
      BY <2>9, <2>10 DEF Skip, SkipFails, SkipLine, SkipOpen, SkipUnknown, SkipInner, SkipElse,
         SkipElif, SkipInnerEnd
    <3>. QED  BY <1>1, <2>5, <3>1 DEF FuncOnTop, TopKind, HasBlock, Top
  <2>11. CASE Fetch
    <3>1. CASE FrameExhausted
      <4>1. pc = "run" /\ frames # <<>> /\ blocks' = blocks /\ Top(frames).base = Len(blocks)
        BY <3>1 DEF FrameExhausted, Local
      <4>2. TopKind = "func"
        BY <1>1, <4>1 DEF FuncOnTop, TopKind, HasBlock, Top
      <4>3. \A j \in DOMAIN frames : frames[j].base < Len(blocks)
        BY <4>1, <4>2 DEF Fresh, FuncFresh
      <4>4. Len(frames) \in DOMAIN frames
        BY <1>1, <4>1, NestTypes, EmptySeq
      <4>. QED  BY <1>2, <4>1, <4>3, <4>4 DEF Top
    <3>2. CASE UnterminatedBlock \/ EndOfInput
      BY <1>3, <3>2 DEF UnterminatedBlock, EndOfInput, Final
    <3>3. CASE FetchPending \/ FetchLine \/ PlainToken
      <4>1. blocks' = blocks /\ scopes' = scopes /\ (frames' = frames \/ FetchLine)
        BY <3>3 DEF FetchPending, FetchLine, PlainToken
      <4>. QED  BY <1>1, <2>5, <4>1 DEF FuncOnTop, TopKind, HasBlock, Top
    <3>. QED  BY <2>11, <3>1, <3>2, <3>3 DEF Fetch
  <2>. QED  BY <1>1, <2>2, <2>6, <2>7, <2>8, <2>10, <2>11 DEF Next
<1>. QED  BY <1>5, <1>6, <1>7


LEMMA FuncStep ==
    ASSUME IInv, IInv', SkipInv, Nested, CapturesTop', Fresh, Next,
           EvalCall \/ FinishCall \/ Local, pc \notin {"eof", "failed"}
    PROVE  FuncFresh'
<1>1. SUFFICES ASSUME TopKind' = "func", pc' \in {"run", "line"}
               PROVE  ~DefinedHere("f")' /\ \A j \in DOMAIN frames' : frames'[j].base < Len(blocks')
  BY DEF FuncFresh
<1>2. /\ Len(blocks) \in Nat /\ DOMAIN frames = 1 .. Len(frames) /\ Len(frames) \in Nat
      /\ \A j \in 1 .. Len(frames) : frames[j].base \in Nat
  BY NestTypes
<1>3. ~EvalCall
  <2>1. ASSUME EvalCall
        PROVE  FALSE
    <3>1. BlockBase' = Len(blocks) /\ blocks' = blocks
      BY <2>1, CallAdded DEF CallAdds
    <3>2. ~HasBlock'
      BY <1>2, <3>1 DEF HasBlock
    <3>. QED  BY <1>1, <3>2 DEF TopKind
  <2>. QED  BY <2>1
<1>4. ~FinishCall
  BY <1>1 DEF FinishCall
<1>5. /\ scopes' = scopes
      /\ \/ /\ HandleFunc /\ ~DefinedHere("f") /\ frames' = frames /\ pc = "line"
            /\ Len(blocks') = Len(blocks) + 1
         \/ /\ FuncOnTop /\ pc \in {"run", "line"} /\ blocks' = blocks
            /\ frames' = frames \/ FetchLine
  BY <1>1, <1>3, <1>4, FuncSteps DEF FuncOnTop
<1>6. ASSUME HandleFunc, ~DefinedHere("f"), frames' = frames, pc = "line",
             Len(blocks') = Len(blocks) + 1
      PROVE  ~DefinedHere("f")' /\ \A j \in DOMAIN frames' : frames'[j].base < Len(blocks')
  <2>1. \A j \in 1 .. Len(frames) : frames[j].base <= Len(blocks)
    BY <1>2, <1>6 DEF Nested, FramesOpen
  <2>2. \A j \in 1 .. Len(frames) : frames[j].base < Len(blocks) + 1
    BY <1>2, <2>1
  <2>. QED  BY <1>2, <1>5, <1>6, <2>2 DEF DefinedHere
<1>7. ASSUME FuncOnTop, pc \in {"run", "line"}, blocks' = blocks, frames' = frames \/ FetchLine
      PROVE  ~DefinedHere("f")' /\ \A j \in DOMAIN frames' : frames'[j].base < Len(blocks')
  <2>1. ~DefinedHere("f") /\ \A j \in DOMAIN frames : frames[j].base < Len(blocks)
    BY <1>7 DEF Fresh, FuncFresh, FuncOnTop
  <2>2. FrameMove
    BY <1>7 DEF FrameMove
  <2>3. DOMAIN frames' = DOMAIN frames
    BY <1>7 DEF FetchLine
  <2>4. DOMAIN frames' = 1 .. Len(frames') /\ (Stays \/ (\E f : Grows(f)) \/ Shrinks)
    BY <2>2, FrameMoved
  <2>5. Stays
    <3>1. ASSUME NEW f, Grows(f)
          PROVE  FALSE
      <4>1. 1 .. Len(frames) = 1 .. Len(frames) + 1
        BY <1>2, <2>3, <2>4, <3>1 DEF Grows
      <4>2. Len(frames) + 1 \in 1 .. Len(frames) + 1 /\ Len(frames) + 1 \notin 1 .. Len(frames)
        BY <1>2
      <4>. QED  BY <4>1, <4>2
    <3>2. ASSUME Shrinks
          PROVE  FALSE
      <4>1. 1 .. Len(frames) = 1 .. Len(frames) - 1 /\ frames # <<>>
        BY <1>2, <2>3, <2>4, <3>2 DEF Shrinks, Popped
      <4>2. frames \in Seq(Frames) /\ frames # <<>>
        BY <4>1, NestTypes
      <4>3. Len(frames) \in Nat /\ Len(frames) > 0
        BY <4>2, EmptySeq
      <4>4. Len(frames) \in 1 .. Len(frames) /\ Len(frames) \notin 1 .. Len(frames) - 1
        BY <4>3
      <4>. QED  BY <4>1, <4>4
    <3>. QED  BY <2>4, <3>1, <3>2
  <2>6. \A j \in DOMAIN frames' : frames'[j].base < Len(blocks')
    BY <1>2, <1>7, <2>1, <2>3, <2>5 DEF Stays
  <2>. QED  BY <1>5, <2>1, <2>6 DEF DefinedHere
<1>. QED  BY <1>5, <1>6, <1>7

-----------------------------------------------------------------------------
(* The root frame *)

\* The steps that drop a frame.
LEMMA DropSteps ==
    ASSUME Next
    PROVE  \/ frames' = frames \/ FetchLine \/ (\E f : frames' = Append(frames, f))
           \/ FrameExhausted \/ InCond \/ CleanupFrame \/ LeaveFrame
<1>1. ReportAndFail => frames' = frames
  BY DEF ReportAndFail
<1>2. CASE Fetch
  BY <1>2 DEF Fetch, FetchPending, EndOfInput, UnterminatedBlock, PlainToken
<1>3. CASE Handle
  BY <1>1, <1>3 DEF Handle, OpLimitExceeded, HandleOperand, HandleStrayReturn, HandleUnknown,
     HandleElse, HandleElif, HandleEnd, HandleFunc, HandleWhile, PushCondFrame, HandleLeave,
     HandleInclude, HandleEmit, HandleVar, HandleSet
<1>4. CASE Evaluate
  <2>1. CASE EvalFailed
    BY <2>1 DEF EvalFailed, InCond, Evaluating, CondDirs
  <2>2. CASE DirectiveCond
    BY <2>2 DEF DirectiveCond, IfBranch, WhileFirst, ForItems, ValueOf, InCond, Evaluating, CondDirs
  <2>3. CASE ~EvalFailed /\ ~DirectiveCond
    BY <1>1, <1>4, <2>3 DEF Evaluate, EvalRejected, CondFrameGone, EvalCall, ReturnValue,
       DirectiveValue, ErrorDirective, ElifCond
  <2>. QED  BY <2>1, <2>2, <2>3
<1>5. CASE Calls
  BY <1>5 DEF Calls, CleanupBlock, FinishCall, HandlerFailed
<1>6. CASE Loops
  <2>1. CASE LoopBodyExhausted
    <3>1. TopKind \notin LoopKinds \/ TopKind = "for" \/ TopKind = "while"
      BY DEF LoopKinds
    <3>. QED  BY <2>1, <3>1 DEF LoopBodyExhausted, AssertFails, PushCondFrame, LoopKinds
  <2>2. CASE WhileAgain
    BY <2>2 DEF WhileAgain, ValueOf, InCond, Evaluating, CondDirs
  <2>. QED  BY <1>1, <1>6, <2>1, <2>2 DEF Loops, EnterLoopBody, LeaveIfBlock, AssertFails
<1>7. CASE Skip
  BY <1>7 DEF Skip, SkipFails, SkipLine, SkipOpen, SkipUnknown, SkipInner, SkipElse, SkipElif,
     SkipInnerEnd, SkipEnd
<1>8. CASE Ended
  BY <1>8 DEF Ended, vars
<1>. QED  BY <1>2, <1>3, <1>4, <1>5, <1>6, <1>7, <1>8 DEF Next

\* Only pp.unterm-block drops blocks and keeps their scopes.
LEMMA UntermSteps ==
    ASSUME Next, ~UnterminatedBlock
    PROVE  unterm' = unterm
<1>1. ReportAndFail => unterm' = unterm
  BY DEF ReportAndFail
<1>2. Fetch => unterm' = unterm
  BY DEF Fetch, FetchPending, FetchLine, FrameExhausted, EndOfInput, PlainToken, Rest
<1>3. Handle => unterm' = unterm
  BY <1>1 DEF Handle, OpLimitExceeded, HandleOperand, HandleStrayReturn, HandleElse, HandleEnd,
     HandleUnknown, HandleElif, HandleFunc, HandleWhile, HandleLeave,
     HandleInclude, HandleEmit, HandleVar, HandleSet, BeginEval, Rest, ClosingRest
<1>4. Evaluate => unterm' = unterm
  <2>1. EvalRejected \/ EvalFailed \/ CondFrameGone \/ EvalCall \/ ReturnValue
           => unterm' = unterm
    BY DEF EvalRejected, EvalFailed, CondFrameGone, EvalCall, ReturnValue, Rest
  <2>2. DirectiveCond \/ DirectiveValue \/ ErrorDirective \/ ElifCond => unterm' = unterm
    BY <1>1 DEF DirectiveCond, IfBranch, WhileFirst, ForItems, BeginLoop, DirectiveValue,
       ErrorDirective, ElifCond, Rest
  <2>. QED  BY <2>1, <2>2 DEF Evaluate
<1>5. Calls => unterm' = unterm
  BY DEF Calls, CleanupBlock, CleanupFrame, FinishCall, HandlerFailed, Rest
<1>6. Loops => unterm' = unterm
  <2>1. LoopBodyExhausted => unterm' = unterm
    <3>1. TopKind \notin LoopKinds \/ TopKind = "for" \/ TopKind = "while"
      BY DEF LoopKinds
    <3>. QED  BY <3>1 DEF LoopBodyExhausted, AssertFails, LoopKinds, Rest
  <2>. QED  BY <1>1, <2>1 DEF Loops, EnterLoopBody, WhileAgain, LeaveIfBlock, LeaveFrame,
            AssertFails, Rest
<1>7. Skip => unterm' = unterm
  BY DEF Skip, SkipFails, SkipLine, SkipOpen, SkipUnknown, SkipInner, SkipElse, SkipElif,
     SkipInnerEnd, SkipEnd, Rest, ClosingRest
<1>8. Ended => unterm' = unterm
  BY DEF Ended, vars
<1>. QED  BY <1>2, <1>3, <1>4, <1>5, <1>6, <1>7, <1>8 DEF Next

LEMMA RootStep ==
    ASSUME IInv, SkipInv, Nested, Fresh, Next, ~ragged'
    PROVE  Rooted'
<1>1. /\ Len(frames) \in Nat /\ frames \in Seq(Frames) /\ DOMAIN frames = 1 .. Len(frames)
      /\ Caller \in Nat /\ CallsNested /\ Rooted /\ PcShape /\ FrameShape
      /\ Len(frames) >= Caller
  BY NestTypes, CallerFacts DEF Nested, CallsNested, Fresh, IInv
<1>2. FrameMove /\ (Stays \/ (\E f : Grows(f)) \/ Shrinks)
  BY FrameMoves, FrameMoved
<1>3. frames = <<>> => calls = <<>> /\ blocks = <<>> /\ pc \in {"run", "eof"} /\ ~HasBlock
  <2>1. SUFFICES ASSUME frames = <<>>
                 PROVE  calls = <<>> /\ ~HasBlock
    BY <1>1 DEF Rooted
  <2>2. Len(frames) = 0 /\ blocks = <<>>
    BY <1>1, <2>1, EmptySeq DEF Rooted
  <2>3. calls = <<>>
    <3>1. calls # <<>> => Caller >= 1
      BY <1>1, CallerFacts
    <3>2. Caller = 0
      BY <1>1, <2>2
    <3>. QED  BY <3>1, <3>2
  <2>4. BlockBase = 0 /\ Len(blocks) = 0
    BY <2>2, <2>3, EmptySeq DEF BlockBase
  <2>. QED  BY <2>3, <2>4 DEF HasBlock
<1>4. ~unterm'
  <2>1. ~UnterminatedBlock
    BY <1>3 DEF UnterminatedBlock
  <2>. QED  BY <1>1, <2>1, UntermSteps DEF Rooted
<1>5. ASSUME frames' # <<>>
      PROVE  frames'[1].base = 0
  <2>1. frames # <<>> => 1 \in 1 .. Len(frames) /\ frames[1].base = 0
    BY <1>1, EmptySeq DEF Rooted
  <2>2. CASE Stays
    <3>1. frames # <<>>
      BY <1>5, <2>2 DEF Stays, FetchLine
    <3>. QED  BY <2>1, <2>2, <3>1 DEF Stays
  <2>3. ASSUME NEW f, Grows(f)
        PROVE  frames'[1].base = 0
    <3>1. frames # <<>>
      BY <1>3, <2>3 DEF Grows, Pushed
    <3>. QED  BY <2>1, <2>3, <3>1 DEF Grows
  <2>4. CASE Shrinks
    <3>1. /\ frames # <<>> /\ frames' = Under(frames) /\ Len(frames') = Len(frames) - 1
          /\ \A j \in 1 .. Len(frames) - 1 : frames'[j] = frames[j]
      BY <2>4 DEF Shrinks, Popped
    <3>2. frames' \in Seq(Frames)
      BY <1>1, <3>1, UnderType, EmptySeq
    <3>3. Len(frames) - 1 > 0
      BY <1>5, <3>1, <3>2, EmptySeq
    <3>4. 1 \in 1 .. Len(frames) - 1
      BY <1>1, <3>3
    <3>. QED  BY <2>1, <3>1, <3>4
  <2>. QED  BY <1>2, <2>2, <2>3, <2>4
<1>6. ASSUME frames' = <<>>, frames = <<>>
      PROVE  blocks' = <<>> /\ pc' \in {"run", "eof"}
  <2>1. calls = <<>> /\ blocks = <<>> /\ ~HasBlock /\ pc \in {"run", "eof"}
    BY <1>3, <1>6
  <2>2. CASE Fetch
    BY <1>6, <2>1, <2>2 DEF Fetch, FetchPending, FetchLine, FrameExhausted, EndOfInput,
       UnterminatedBlock, PlainToken, YieldToken
  <2>3. CASE Ended
    BY <2>1, <2>3 DEF Ended, vars
  <2>4. ~Handle /\ ~Skip
    BY <2>1 DEF Handle, Skip, OpLimitExceeded, HandleOperand, HandleStrayReturn, HandleUnknown,
       HandleElse, HandleElif, HandleEnd, HandleFunc, HandleWhile, HandleLeave, HandleInclude,
       HandleEmit, HandleVar, HandleSet, Active, SkipFails, SkipLine, SkipOpen, SkipUnknown,
       SkipInner, SkipElse, SkipElif, SkipInnerEnd, SkipEnd, Skipping
  <2>5. ~Evaluate /\ ~Calls /\ ~Loops
    BY <2>1 DEF Evaluate, EvalRejected, EvalFailed, CondFrameGone, EvalCall, ReturnValue,
       DirectiveCond, DirectiveValue, ErrorDirective, ElifCond, ValueOf, Calls, Loops,
       CleanupBlock, CleanupFrame, FinishCall, HandlerFailed, EnterLoopBody, LoopBodyExhausted,
       WhileAgain, LeaveIfBlock, LeaveFrame
  <2>. QED  BY <2>2, <2>3, <2>4, <2>5 DEF Next
<1>7. ASSUME frames' = <<>>, frames # <<>>
      PROVE  blocks' = <<>> /\ pc' \in {"run", "eof"}
  <2>1. Len(frames') = 0 /\ Len(frames) > 0
    BY <1>1, <1>7, EmptySeq
  <2>2. ~Stays
    BY <1>1, <2>1 DEF Stays
  <2>3. \A f : ~Grows(f)
    BY <1>1, <2>1 DEF Grows
  <2>4. Shrinks
    BY <1>2, <2>2, <2>3
  <2>5. Len(frames) = 1 /\ Len(frames) > Caller
    <3>1. Len(frames') = Len(frames) - 1 /\ Len(frames) > Caller
      BY <2>4 DEF Shrinks, Popped
    <3>2. Len(frames) \in Nat
      BY <1>1
    <3>. QED  BY <2>1, <3>1, <3>2
  <2>6. Caller = 0
    BY <1>1, <2>5
  <2>7. calls = <<>>
    <3>1. calls # <<>> => Caller >= 1
      BY <1>1, CallerFacts
    <3>. QED  BY <2>6, <3>1
  <2>8. ~InCond
    <3>1. InCond => Len(frames) > Caller + 1
      BY <1>1 DEF CallsNested
    <3>. QED  BY <2>5, <2>6, <3>1
  <2>9. ~CleanupFrame
    BY <1>1, <2>7 DEF CleanupFrame, PcShape
  <2>10. ~LeaveFrame
    <3>1. ASSUME LeaveFrame
          PROVE  FALSE
      <4>1. PICK j \in 1 .. Len(frames) : Body(frames[j])
        BY <3>1, LeaveFacts DEF LeaveFrame
      <4>2. j = 1
        BY <2>5, <4>1
      <4>. QED  BY <1>1, <1>7, <4>1, <4>2 DEF FrameShape, Body
    <3>. QED  BY <3>1
  <2>11. \A f : frames' # Append(frames, f)
    <3>1. ASSUME NEW f, frames' = Append(frames, f)
          PROVE  FALSE
      <4>1. Len(Append(frames, f)) = Len(frames) + 1
        BY <1>1, SMT
      <4>. QED  BY <1>1, <2>1, <3>1, <4>1
    <3>. QED  BY <3>1
  <2>12. frames' # frames /\ ~FetchLine
    <3>1. DOMAIN frames' = {}
      BY <1>7
    <3>2. 1 \in DOMAIN frames
      BY <1>1, <2>5
    <3>. QED  BY <3>1, <3>2 DEF FetchLine
  <2>13. FrameExhausted
    BY <2>8, <2>9, <2>10, <2>11, <2>12, DropSteps
  <2>14. Top(frames) = frames[1] /\ frames[1].base = 0 /\ frames[1].type = "FRAME_CALL"
    BY <1>1, <1>7, <2>5 DEF Rooted, FrameShape, Top
  <2>15. Len(blocks) = 0 /\ pc' = "run" /\ blocks' = blocks
    BY <2>13, <2>14 DEF FrameExhausted
  <2>16. blocks = <<>>
    BY <2>15, NestTypes, EmptySeq
  <2>. QED  BY <2>15, <2>16
<1>. QED  BY <1>4, <1>5, <1>6, <1>7 DEF Rooted


-----------------------------------------------------------------------------
(* Definitions are kept *)

FreshInv == ragged \/ pc \in {"eof", "failed"} \/ Fresh

LEMMA FreshStep ==
    ASSUME IInv, IInv', SkipInv, BodyInv, NestInv, NestInv', FreshInv, Next
    PROVE  FreshInv'
<1>1. SUFFICES ASSUME ~ragged', pc' \notin {"eof", "failed"}
               PROVE  Fresh'
  BY DEF FreshInv
<1>2. Nested'
  BY <1>1 DEF NestInv
<1>3. CallsNested' /\ CapturesTop' /\ pc' \notin {"assert", "crash"}
  BY <1>2 DEF Nested
<1>4. ~Ended
  BY <1>1, <1>3 DEF Ended, vars, Final
<1>5. Nested /\ ClosesOwn /\ ~ragged /\ pc \notin {"eof", "failed"}
  BY <1>1, <1>4, NestNow
<1>6. Fresh
  BY <1>5 DEF FreshInv
<1>7. EvalCall \/ FinishCall \/ Local
  BY <1>1, <1>5 DEF Local
<1>8. VarFresh'
  BY <1>5, <1>6, VarStep
<1>9. Rooted'
  BY <1>1, <1>5, <1>6, RootStep
<1>10. CallFresh'
  BY <1>3, <1>5, <1>6, <1>7, <1>9, CallStep DEF Rooted
<1>11. FuncFresh'
  BY <1>3, <1>5, <1>6, <1>7, FuncStep
<1>. QED  BY <1>8, <1>9, <1>10, <1>11 DEF Fresh

LEMMA FreshInit ==
    ASSUME Init
    PROVE  FreshInv
<1>1. /\ pc = "run" /\ calls = <<>> /\ blocks = <<>> /\ ~unterm
      /\ frames = <<[type |-> "FRAME_CALL", file |-> TRUE, rest |-> <<>>, base |-> 0]>>
  BY DEF Init
<1>2. frames[1].base = 0 /\ frames # <<>>
  BY <1>1
<1>3. DOMAIN calls = {} /\ Len(blocks) = 0
  BY <1>1, EmptySeq
<1>4. TopKind = "none"
  <2>1. BlockBase = 0
    BY <1>1 DEF BlockBase
  <2>. QED  BY <1>3, <2>1 DEF TopKind, HasBlock
<1>. QED  BY <1>1, <1>2, <1>3, <1>4
          DEF FreshInv, Fresh, VarFresh, CallFresh, FuncFresh, Rooted, Evaluating

LEMMA FreshStutter ==
    ASSUME UNCHANGED vars, FreshInv
    PROVE  FreshInv'
<1>1. /\ pc' = pc /\ line' = line /\ frames' = frames /\ blocks' = blocks /\ calls' = calls
      /\ scopes' = scopes /\ ragged' = ragged /\ unterm' = unterm
  BY DEF vars
<1>2. TopKind' = TopKind
  BY <1>1 DEF TopKind, HasBlock, BlockBase, Top
<1>3. \A c : ScopeOf(c)' = ScopeOf(c)
  BY <1>1 DEF ScopeOf
<1>4. VarFresh => VarFresh'
  BY <1>1 DEF VarFresh, DefinedHere
<1>5. CallFresh => CallFresh'
  BY <1>1, <1>3 DEF CallFresh, Defined
<1>6. FuncFresh => FuncFresh'
  BY <1>1, <1>2 DEF FuncFresh, DefinedHere
<1>7. Rooted => Rooted'
  BY <1>1 DEF Rooted
<1>. QED  BY <1>1, <1>4, <1>5, <1>6, <1>7 DEF FreshInv, Fresh

\* A name found undefined stays undefined until its handler defines it: while the
\* operand of a #var is evaluated, calls included, and while a #func is captured.
THEOREM FreshnessInvariant == Spec => []FreshInv
<1>1. Init => FreshInv
  BY FreshInit
<1>2. /\ IInv /\ IInv' /\ SkipInv /\ BodyInv /\ NestInv /\ NestInv' /\ FreshInv /\ [Next]_vars
      => FreshInv'
  BY FreshStep, FreshStutter
<1>. QED  BY <1>1, <1>2, Invariance, SkippingInvariant, CapturingInvariant, NestingInvariant, PTL
          DEF Spec

\* What a step leaves of the definitions of a scope.
DefinitionsStay ==
    \A k \in DOMAIN scopes \cap DOMAIN scopes' : \A n \in Names :
       Defined(scopes[k], n) => scopes'[k].syms[n] = scopes[k].syms[n]

LEMMA AssignKeeps ==
    ASSUME TypeOK, Balance, NEW name \in Names, NEW public \in BOOLEAN, NEW body \in Seq(Line),
           ~DefinedHere(name), scopes' = Assign(name, public, body)
    PROVE  DefinitionsStay
<1>1. SUFFICES ASSUME NEW k \in 1 .. Len(scopes), NEW n \in Names, Defined(scopes[k], n)
               PROVE  scopes'[k].syms[n] = scopes[k].syms[n]
  <2>1. DOMAIN scopes = 1 .. Len(scopes)
    BY LenProperties DEF TypeOK
  <2>. QED  BY <2>1 DEF DefinitionsStay
<1>2. k # Len(scopes) \/ n # name
  BY <1>1 DEF DefinedHere, Top
<1>3. Assign(name, public, body)[k].syms[n] = scopes[k].syms[n]
  BY <1>2, AssignSyms, ZenonT(60)
<1>. QED  BY <1>3

LEMMA DefinitionsStep ==
    ASSUME IInv, IInv', SkipInv, BodyInv, NestInv, FreshInv, Next, ~Ended, ~ragged'
    PROVE  DefinitionsStay
<1>1. /\ TypeOK /\ Balance /\ ScopeMove /\ Nested /\ Fresh
  BY NestNow, StepMove DEF IInv, FreshInv
<1>2. /\ Len(scopes) \in Nat /\ DOMAIN scopes = 1 .. Len(scopes)
      /\ <<>> \in Seq(Line) /\ captureBuf \in Seq(Line) /\ "f" \in Names /\ "x" \in Names
  BY <1>1, LenProperties, EmptySeq DEF TypeOK, Names
<1>3. CASE scopes' = scopes
  BY <1>3 DEF DefinitionsStay
<1>4. ASSUME NEW promote \in BOOLEAN, NEW syms \in [Names -> Symbols],
             scopes' = PushScope(promote, syms)
      PROVE  DefinitionsStay
  <2>1. \A k \in 1 .. Len(scopes) : PushScope(promote, syms)[k] = scopes[k]
    BY <1>1, PushSyms
  <2>. QED  BY <1>2, <1>4, <2>1 DEF DefinitionsStay
<1>5. CASE \E promote \in BOOLEAN : pc # "cleanup" /\ scopes' = PushScope(promote, NoSyms)
  BY <1>4, <1>5, SymsType
<1>6. CASE \E name \in Names : pc # "cleanup" /\ scopes' = PushScope(FALSE, Binding(name))
  <2>1. PICK name \in Names : scopes' = PushScope(FALSE, Binding(name))
    BY <1>6
  <2>2. PICK syms : syms = Binding(name)
    OBVIOUS
  <2>3. Len(scopes) + 1 \in Nat
    BY <1>2
  <2>4. syms \in [Names -> Symbols]
    BY <2>2, <2>3, SymsType, SMTT(30) DEF Binding
  <2>5. scopes' = PushScope(FALSE, syms) /\ FALSE \in BOOLEAN
    BY <2>1, <2>2
  <2>. QED  BY <1>4, <2>4, <2>5
<1>7. CASE Len(scopes) > 2 /\ scopes' = PopScope
  <2>1. /\ DOMAIN PopScope = 1 .. Len(scopes) - 1
        /\ \A k \in 1 .. Len(scopes) - 1 : \A n \in Names :
              PopScope[k].syms[n] = scopes[k].syms[n] \/ ~Defined(scopes[k], n)
    <3>1. Len(scopes) > 1
      BY <1>2, <1>7
    <3>. QED  BY <1>1, <3>1, PopSyms
  <2>. QED  BY <1>7, <2>1 DEF DefinitionsStay
<1>8. CASE \E public \in BOOLEAN : /\ (pc = "line" /\ ~DefinedHere("x")) \/ ValueOf({"var"})
                                   /\ scopes' = Assign("x", public, <<>>)
  <2>1. PICK public \in BOOLEAN : scopes' = Assign("x", public, <<>>)
    BY <1>8
  <2>2. ~DefinedHere("x")
    BY <1>1, <1>8 DEF ValueOf, Fresh, VarFresh, Evaluating
  <2>. QED  BY <1>1, <1>2, <2>1, <2>2, AssignKeeps
<1>9. CASE \E public \in BOOLEAN : /\ SkipEnd /\ TopKind = "func"
                                   /\ scopes' = Assign("f", public, captureBuf)
  <2>1. PICK public \in BOOLEAN : scopes' = Assign("f", public, captureBuf)
    BY <1>9
  <2>2. ~DefinedHere("f")
    BY <1>1, <1>9 DEF SkipEnd, Skipping, Fresh, FuncFresh
  <2>. QED  BY <1>1, <1>2, <2>1, <2>2, AssignKeeps
<1>. QED  BY <1>1, <1>3, <1>5, <1>6, <1>7, <1>8, <1>9 DEF ScopeMove

\* No definition overwrites another: the redefinition check of #func and #var still
\* holds when #end or the value arrives, as long as files close their blocks and
\* functions end with #return.
THEOREM DefinitionsKept == Spec => NoOverwrite
<1>1. IInv /\ IInv' /\ SkipInv /\ BodyInv /\ NestInv /\ FreshInv /\ [Next]_vars
         => [~ragged' => DefinitionsStay]_vars
  BY DefinitionsStep DEF Ended
<1>2. [~ragged' => DefinitionsStay]_vars <=>
        [~ragged' => \A k \in DOMAIN scopes \cap DOMAIN scopes' : \A n \in Names :
           Defined(scopes[k], n) => scopes'[k].syms[n] = scopes[k].syms[n]]_vars
  BY DEF DefinitionsStay
<1>. QED  BY <1>1, <1>2, Invariance, SkippingInvariant, CapturingInvariant, NestingInvariant,
          FreshnessInvariant, PTL DEF Spec, NoOverwrite
=============================================================================
