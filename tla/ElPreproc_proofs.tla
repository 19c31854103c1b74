-------------------------- MODULE ElPreproc_proofs --------------------------
(***************************************************************************)
(* Proofs about ElPreproc, for every alphabet of lines and every limit,    *)
(* whether the files nest or not (ragged): types, scopes, names; then the  *)
(* control: who reports a failure, which branches own a scope, and that    *)
(* what #func and the loops collect while they skip closes every block it  *)
(* opens and no other.                                                     *)
(***************************************************************************)
EXTENDS ElPreproc, Integers, SequenceTheorems, FiniteSetTheorems, WellFoundedInduction, TLAPS

-----------------------------------------------------------------------------
(* Stacks *)

\* The top of a stack that is not empty is one of its elements, and the
\* others keep their places when it is popped or replaced.
LEMMA TopType ==
    ASSUME NEW S, NEW s \in Seq(S), Len(s) > 0
    PROVE  Len(s) \in 1 .. Len(s) /\ Top(s) = s[Len(s)] /\ Top(s) \in S
<1>1. Len(s) \in 1 .. Len(s)
  BY LenProperties
<1>. QED  BY <1>1, ElementOfSeq DEF Top

LEMMA PrefixType ==
    ASSUME NEW S, NEW s \in Seq(S), NEW n \in Nat, n <= Len(s)
    PROVE  /\ SubSeq(s, 1, n) \in Seq(S)
           /\ Len(SubSeq(s, 1, n)) = n
           /\ \A i \in 1 .. n : SubSeq(s, 1, n)[i] = s[i]
<1>1. Len(s) \in Nat /\ \A i \in 1 .. Len(s) : s[i] \in S
  BY LenProperties, ElementOfSeq
<1>. QED  BY <1>1, SubSeqProperties

LEMMA UnderType ==
    ASSUME NEW S, NEW s \in Seq(S), Len(s) > 0
    PROVE  /\ Under(s) \in Seq(S)
           /\ Len(Under(s)) = Len(s) - 1
           /\ \A i \in 1 .. Len(s) - 1 : Under(s)[i] = s[i]
<1>1. Len(s) - 1 \in Nat /\ Len(s) - 1 <= Len(s)
  BY LenProperties
<1>. QED  BY <1>1, PrefixType DEF Under

LEMMA MapType ==
    ASSUME NEW S, NEW s \in Seq(S), NEW f \in [DOMAIN s -> S]
    PROVE  f \in Seq(S) /\ Len(f) = Len(s) /\ DOMAIN f = 1 .. Len(s)
<1>1. Len(s) \in Nat /\ DOMAIN s = 1 .. Len(s)
  BY LenProperties
<1>2. f \in [1 .. Len(s) -> S]
  BY <1>1
<1>3. f \in Seq(S)
  BY <1>1, <1>2, SeqDef
<1>4. DOMAIN f = 1 .. Len(f) /\ Len(f) \in Nat
  BY <1>3, LenProperties
<1>5. 1 .. Len(f) = 1 .. Len(s)
  BY <1>2, <1>4
<1>6. Len(f) = Len(s)
  BY <1>1, <1>4, <1>5, SMT
<1>. QED  BY <1>2, <1>3, <1>6

\* An error report changes flags of the call records only.
LEMMA DirtyFlags ==
    ASSUME NEW cs \in Seq(CallFrames), NEW r \in BOOLEAN
    PROVE  /\ Dirty(cs, r) \in Seq(CallFrames)
           /\ Len(Dirty(cs, r)) = Len(cs)
           /\ \A c \in 1 .. Len(cs) : /\ Dirty(cs, r)[c].line = cs[c].line
                                       /\ Dirty(cs, r)[c].base = cs[c].base
                                       /\ Dirty(cs, r)[c].caller = cs[c].caller
<1>1. DOMAIN cs = 1 .. Len(cs) /\ \A c \in DOMAIN cs : cs[c] \in CallFrames
  BY LenProperties, ElementOfSeq
<1>2. Dirty(cs, r) \in [DOMAIN cs -> CallFrames]
  BY <1>1 DEF Dirty, CallFrames
<1>3. \A c \in 1 .. Len(cs) : /\ Dirty(cs, r)[c].line = cs[c].line
                               /\ Dirty(cs, r)[c].base = cs[c].base
                               /\ Dirty(cs, r)[c].caller = cs[c].caller
  BY <1>1 DEF Dirty, CallFrames
<1>. QED  BY <1>2, <1>3, MapType

\* So does a popped frame.
LEMMA OrphanFlags ==
    ASSUME NEW cs \in Seq(CallFrames), NEW n \in Nat
    PROVE  /\ Orphan(cs, n) \in Seq(CallFrames)
           /\ Len(Orphan(cs, n)) = Len(cs)
           /\ \A c \in 1 .. Len(cs) : /\ Orphan(cs, n)[c].line = cs[c].line
                                       /\ Orphan(cs, n)[c].base = cs[c].base
                                       /\ Orphan(cs, n)[c].caller = cs[c].caller
<1>1. DOMAIN cs = 1 .. Len(cs) /\ \A c \in DOMAIN cs : cs[c] \in CallFrames
  BY LenProperties, ElementOfSeq
<1>2. Orphan(cs, n) \in [DOMAIN cs -> CallFrames]
  BY <1>1 DEF Orphan, CallFrames
<1>3. \A c \in 1 .. Len(cs) : /\ Orphan(cs, n)[c].line = cs[c].line
                               /\ Orphan(cs, n)[c].base = cs[c].base
                               /\ Orphan(cs, n)[c].caller = cs[c].caller
  BY <1>1 DEF Orphan, CallFrames
<1>. QED  BY <1>2, <1>3, MapType

-----------------------------------------------------------------------------
(* Open #if branches and the scopes they own *)

LEMMA BranchCount ==
    ASSUME NEW bs \in Seq(Blocks)
    PROVE  /\ DOMAIN bs = 1 .. Len(bs) /\ Len(bs) \in Nat
           /\ IsFiniteSet(Branches(bs))
           /\ Cardinality(Branches(bs)) \in Nat
<1>1. DOMAIN bs = 1 .. Len(bs) /\ Len(bs) \in Nat
  BY LenProperties
<1>2. IsFiniteSet(1 .. Len(bs))
  BY <1>1, FS_Interval
<1>3. Branches(bs) \in SUBSET (1 .. Len(bs))
  BY <1>1 DEF Branches
<1>4. IsFiniteSet(Branches(bs))
  BY <1>2, <1>3, FS_Subset
<1>. QED  BY <1>1, <1>4, FS_CardinalityType

\* A pushed block adds the scope it opened.
LEMMA BranchPush ==
    ASSUME NEW bs \in Seq(Blocks), NEW b \in Blocks
    PROVE  Cardinality(Branches(Append(bs, b))) =
             IF b.hasScope THEN Cardinality(Branches(bs)) + 1 ELSE Cardinality(Branches(bs))
<1>1. /\ Append(bs, b) \in Seq(Blocks)
      /\ Len(Append(bs, b)) = Len(bs) + 1
      /\ \A k \in 1 .. Len(bs) : Append(bs, b)[k] = bs[k]
      /\ Append(bs, b)[Len(bs) + 1] = b
  BY AppendProperties
<1>2. DOMAIN Append(bs, b) = 1 .. Len(bs) + 1
  BY <1>1, BranchCount
<1>3. DOMAIN bs = 1 .. Len(bs) /\ Len(bs) \in Nat
  BY BranchCount
<1>4. CASE b.hasScope
  <2>1. Branches(Append(bs, b)) = Branches(bs) \cup {Len(bs) + 1}
    BY <1>1, <1>2, <1>3, <1>4 DEF Branches
  <2>2. Len(bs) + 1 \notin Branches(bs)
    BY <1>3 DEF Branches
  <2>. QED  BY <1>4, <2>1, <2>2, BranchCount, FS_AddElement
<1>5. CASE ~b.hasScope
  <2>1. Branches(Append(bs, b)) = Branches(bs)
    BY <1>1, <1>2, <1>3, <1>5 DEF Branches
  <2>. QED  BY <1>5, <2>1
<1>. QED  BY <1>4, <1>5

\* A popped block gives up the scope it still has.
LEMMA BranchPop ==
    ASSUME NEW bs \in Seq(Blocks), Len(bs) > 0
    PROVE  Cardinality(Branches(Under(bs))) =
             IF Top(bs).hasScope THEN Cardinality(Branches(bs)) - 1
                                 ELSE Cardinality(Branches(bs))
<1>1. /\ Under(bs) \in Seq(Blocks)
      /\ Len(Under(bs)) = Len(bs) - 1
      /\ \A k \in 1 .. Len(bs) - 1 : Under(bs)[k] = bs[k]
  BY UnderType
<1>2. DOMAIN Under(bs) = 1 .. Len(bs) - 1
  BY <1>1, BranchCount
<1>3. DOMAIN bs = 1 .. Len(bs) /\ Len(bs) \in Nat /\ Top(bs) = bs[Len(bs)]
  BY BranchCount, TopType
<1>4. Branches(Under(bs)) = Branches(bs) \ {Len(bs)}
  BY <1>1, <1>2, <1>3 DEF Branches
<1>5. Len(bs) \in Branches(bs) <=> Top(bs).hasScope
  BY <1>3 DEF Branches
<1>. QED  BY <1>4, <1>5, BranchCount, FS_RemoveElement

\* A replaced top opens, closes or keeps its scope.
LEMMA BranchSet ==
    ASSUME NEW bs \in Seq(Blocks), Len(bs) > 0, NEW new \in Seq(Blocks),
           Len(new) = Len(bs), \A k \in 1 .. Len(bs) - 1 : new[k] = bs[k]
    PROVE  /\ Top(new).hasScope /\ ~Top(bs).hasScope =>
                Cardinality(Branches(new)) = Cardinality(Branches(bs)) + 1
           /\ ~Top(new).hasScope /\ Top(bs).hasScope =>
                Cardinality(Branches(new)) = Cardinality(Branches(bs)) - 1
           /\ (Top(new).hasScope <=> Top(bs).hasScope) =>
                Cardinality(Branches(new)) = Cardinality(Branches(bs))
<1>1. Len(bs) \in 1 .. Len(bs) /\ Top(bs) = bs[Len(bs)] /\ Top(new) = new[Len(bs)]
  BY TopType
<1>2. DOMAIN new = 1 .. Len(bs) /\ DOMAIN bs = 1 .. Len(bs) /\ Len(bs) \in Nat
  BY BranchCount
<1>3. /\ Len(bs) \in Branches(bs) <=> Top(bs).hasScope
      /\ Len(bs) \in Branches(new) <=> Top(new).hasScope
  BY <1>1, <1>2 DEF Branches
<1>4. Branches(new) \ {Len(bs)} = Branches(bs) \ {Len(bs)}
  BY <1>2 DEF Branches
<1>5. IsFiniteSet(Branches(bs)) /\ IsFiniteSet(Branches(new))
  BY BranchCount
<1>6. ASSUME Top(new).hasScope, ~Top(bs).hasScope
      PROVE  Cardinality(Branches(new)) = Cardinality(Branches(bs)) + 1
  <2>1. Branches(new) = Branches(bs) \cup {Len(bs)} /\ Len(bs) \notin Branches(bs)
    BY <1>3, <1>4, <1>6
  <2>. QED  BY <1>5, <2>1, FS_AddElement
<1>7. ASSUME ~Top(new).hasScope, Top(bs).hasScope
      PROVE  Cardinality(Branches(new)) = Cardinality(Branches(bs)) - 1
  <2>1. Branches(new) = Branches(bs) \ {Len(bs)} /\ Len(bs) \in Branches(bs)
    BY <1>3, <1>4, <1>7
  <2>. QED  BY <1>5, <2>1, FS_RemoveElement
<1>8. ASSUME Top(new).hasScope <=> Top(bs).hasScope
      PROVE  Cardinality(Branches(new)) = Cardinality(Branches(bs))
  <2>1. Len(bs) \in Branches(new) <=> Len(bs) \in Branches(bs)
    BY <1>3, <1>8, Zenon
  <2>2. \A k : k \in Branches(new) <=> k \in Branches(bs)
    BY <1>4, <2>1, Zenon
  <2>3. Branches(new) = Branches(bs)
    BY <2>2, SetExtensionality
  <2>. QED  BY <2>3
<1>. QED  BY <1>6, <1>7, <1>8

\* The blocks below a call's base own no more scopes than all of them.
LEMMA BranchPrefix ==
    ASSUME NEW bs \in Seq(Blocks), NEW n \in Nat, n <= Len(bs)
    PROVE  Cardinality(Branches(SubSeq(bs, 1, n))) <= Cardinality(Branches(bs))
<1>1. /\ SubSeq(bs, 1, n) \in Seq(Blocks)
      /\ Len(SubSeq(bs, 1, n)) = n
      /\ \A k \in 1 .. n : SubSeq(bs, 1, n)[k] = bs[k]
  BY PrefixType
<1>2. DOMAIN SubSeq(bs, 1, n) = 1 .. n /\ DOMAIN bs = 1 .. Len(bs) /\ Len(bs) \in Nat
  BY <1>1, BranchCount
<1>3. Branches(SubSeq(bs, 1, n)) \in SUBSET Branches(bs)
  BY <1>1, <1>2 DEF Branches
<1>. QED  BY <1>3, BranchCount, FS_Subset

-----------------------------------------------------------------------------
(* The inductive invariant *)

Evaluating == {"eval", "value", "evalfail"}

\* No frame is ever an include frame, and the first is that of the root file.
FrameShape ==
    /\ \A k \in DOMAIN frames : frames[k].type # "FRAME_INCLUDE"
    /\ frames # <<>> => frames[1].type = "FRAME_CALL"

\* Only an #if owns a scope besides the one of its frame.
BlockShape == \A k \in DOMAIN blocks : blocks[k].hasScope => blocks[k].kind = "if"

\* What the C code that is about to run relies on: a handler that waits for an
\* operand still finds its block and its frame.
PcShape ==
    /\ pc \in {"line", "eval", "enter", "exhausted"} => frames # <<>>
    /\ pc = "cleanup" => calls # <<>>
    /\ pc = "enter" => /\ TopKind \in LoopKinds
                       /\ TopKind = "for" => Top(blocks).left > 0
    /\ pc \in Evaluating =>
          /\ line.dir \in {"while", "again"} => frames = <<>> \/ Len(frames) > 1
          /\ line.dir = "again" => TopKind = "while"
          /\ line.dir = "elif" => TopKind = "if"
          /\ line.dir = "return" => calls # <<>>

\* The top frame replays a loop body that has no lines left.
Replayed ==
    /\ frames # <<>>
    /\ Top(frames).type = "FRAME_LOOP_BODY"
    /\ ~Top(frames).file /\ Top(frames).rest = <<>>

\* A loop that is still capturing has iterations left.  When a file opens a
\* #for in a loop body and ends there, the #for is iterated with an empty body
\* at the end of the outer one, and is popped before another line is read.
CaptureShape ==
    \A k \in DOMAIN blocks : blocks[k].kind = "for" /\ blocks[k].capturing =>
        /\ blocks[k].body = <<>>
        /\ \/ blocks[k].left > 0
           \/ /\ k = Len(blocks) /\ HasBlock
              /\ pc \in {"exhausted", "cleanup"} \/ (pc = "run" /\ Replayed)

\* The blocks of the calls lie above one another, and a suspended handler that
\* goes on with its block or its frame has them at the base of its call.
CallShape ==
    \A c \in DOMAIN calls :
        /\ calls[c].base <= Len(blocks)
        /\ \A d \in 1 .. c : calls[d].base <= calls[c].base
        /\ calls[c].line.dir = "return" => c > 1
        /\ calls[c].line.dir \in {"while", "again"} => calls[c].caller > 1
        /\ calls[c].line.dir \in {"again", "elif"} =>
              /\ calls[c].base > 0 /\ (c > 1 => calls[c].base > calls[c - 1].base)
              /\ blocks[calls[c].base].kind =
                   IF calls[c].line.dir = "again" THEN "while" ELSE "if"

Owned == 2 + NestedFrames + Cardinality(Branches(blocks))

\* ScopeBalance; pp.unterm-block can leave more scopes than that, never fewer.
Balance == Len(scopes) >= Owned /\ (~unterm => Len(scopes) = Owned)

IInv == TypeOK /\ FrameShape /\ BlockShape /\ PcShape /\ CaptureShape /\ CallShape /\ Balance

\* Neither an error nor a popped frame changes what the callers wait for.
CallsKept ==
    /\ calls' \in Seq(CallFrames)
    /\ Len(calls') = Len(calls)
    /\ \A c \in 1 .. Len(calls) : /\ calls'[c].base = calls[c].base
                                  /\ calls'[c].line = calls[c].line
                                  /\ calls'[c].caller = calls[c].caller

\* The blocks of the callers stay where they are.
BlocksKept ==
    /\ blocks' \in Seq(Blocks)
    /\ BlockBase <= Len(blocks')
    /\ \A k \in 1 .. BlockBase : blocks'[k].kind = blocks[k].kind

\* The bases of the calls lie below the open blocks of the innermost one.
LEMMA BaseFacts ==
    ASSUME TypeOK, CallShape
    PROVE  /\ BlockBase \in Nat /\ BlockBase <= Len(blocks)
           /\ DOMAIN calls = 1 .. Len(calls) /\ Len(calls) \in Nat
           /\ \A c \in 1 .. Len(calls) : calls[c].base \in Nat /\ calls[c].base <= BlockBase
           /\ calls # <<>> => Len(calls) > 0 /\ BlockBase = calls[Len(calls)].base
           /\ HasBlock => Len(blocks) > 0 /\ Top(blocks) \in Blocks
           /\ Len(blocks) \in Nat /\ DOMAIN blocks = 1 .. Len(blocks)
<1>1. /\ DOMAIN calls = 1 .. Len(calls) /\ Len(calls) \in Nat
      /\ \A c \in 1 .. Len(calls) : calls[c] \in CallFrames
  BY LenProperties, ElementOfSeq DEF TypeOK
<1>2. \A c \in 1 .. Len(calls) : calls[c].base \in Nat
  BY <1>1 DEF CallFrames
<1>3. calls # <<>> => Len(calls) > 0 /\ Len(calls) \in 1 .. Len(calls)
  BY EmptySeq DEF TypeOK
<1>4. Len(blocks) \in Nat /\ DOMAIN blocks = 1 .. Len(blocks)
  BY LenProperties DEF TypeOK
<1>5. BlockBase \in Nat /\ BlockBase <= Len(blocks)
  BY <1>1, <1>2, <1>3, <1>4 DEF BlockBase, Top, CallShape
<1>6. calls # <<>> => BlockBase = calls[Len(calls)].base
  BY DEF BlockBase, Top
<1>7. ASSUME NEW c \in 1 .. Len(calls)
      PROVE  calls[c].base <= BlockBase
  <2>1. Len(calls) \in 1 .. Len(calls) /\ c \in 1 .. Len(calls) /\ calls # <<>>
    BY <1>1, EmptySeq DEF TypeOK
  <2>. QED  BY <1>1, <1>6, <2>1 DEF CallShape
<1>8. HasBlock => Len(blocks) > 0 /\ Top(blocks) \in Blocks
  <2>1. HasBlock => Len(blocks) > 0
    BY <1>4, <1>5 DEF HasBlock
  <2>. QED  BY <2>1, TopType DEF TypeOK
<1>. QED  BY <1>1, <1>2, <1>3, <1>4, <1>5, <1>6, <1>7, <1>8

\* What a step that keeps the calls and their blocks keeps of the invariant.
LEMMA KeptCalls ==
    ASSUME TypeOK, CallShape, CallsKept, BlocksKept
    PROVE  /\ CallShape'
           /\ BlockBase' = BlockBase
           /\ calls' = <<>> <=> calls = <<>>
<1>1. /\ DOMAIN calls = 1 .. Len(calls) /\ Len(calls) \in Nat
      /\ DOMAIN calls' = 1 .. Len(calls)
  BY LenProperties DEF TypeOK, CallsKept
<1>2. calls' = <<>> <=> calls = <<>>
  BY EmptySeq DEF TypeOK, CallsKept
<1>3. BlockBase' = BlockBase
  BY <1>1, <1>2, EmptySeq DEF BlockBase, Top, CallsKept, TypeOK
<1>4. Len(blocks') \in Nat
  BY LenProperties DEF BlocksKept
<1>5. \A c \in 1 .. Len(calls) : calls[c].base \in Nat /\ calls[c].base <= BlockBase
  BY BaseFacts
<1>6. \A c \in 1 .. Len(calls) : /\ calls'[c].base = calls[c].base
                                 /\ calls'[c].line = calls[c].line
                                 /\ calls'[c].caller = calls[c].caller
  BY DEF CallsKept
<1>7. ASSUME NEW c \in 1 .. Len(calls)
      PROVE  /\ calls'[c].base <= Len(blocks')
             /\ \A d \in 1 .. c : calls'[d].base <= calls'[c].base
             /\ calls'[c].line.dir = "return" => c > 1
             /\ calls'[c].line.dir \in {"while", "again"} => calls'[c].caller > 1
             /\ calls'[c].line.dir \in {"again", "elif"} =>
                   /\ calls'[c].base > 0 /\ (c > 1 => calls'[c].base > calls'[c - 1].base)
                   /\ blocks'[calls'[c].base].kind =
                        IF calls'[c].line.dir = "again" THEN "while" ELSE "if"
  <2>1. calls[c].base <= Len(blocks')
    BY <1>4, <1>5, BaseFacts DEF BlocksKept
  <2>2. \A d \in 1 .. c : d \in 1 .. Len(calls) /\ calls[d].base <= calls[c].base
    BY <1>1 DEF CallShape
  <2>3. calls[c].base > 0 => blocks'[calls[c].base].kind = blocks[calls[c].base].kind
    BY <1>5, BaseFacts DEF BlocksKept
  <2>4. c > 1 => c - 1 \in 1 .. Len(calls)
    BY <1>1
  <2>. QED  BY <1>1, <1>6, <2>1, <2>2, <2>3, <2>4 DEF CallShape
<1>8. CallShape'
  BY <1>1, <1>7 DEF CallShape
<1>. QED  BY <1>2, <1>3, <1>8

-----------------------------------------------------------------------------
(* The pieces handlers are made of *)

LEMMA SymsType ==
    /\ NoSyms \in [Names -> Symbols]
    /\ \A name \in Names, f \in Nat :
          [NoSyms EXCEPT ![name] = [public |-> FALSE, body |-> <<>>, floor |-> f]]
             \in [Names -> Symbols]
<1>1. <<>> \in Seq(Line)
  BY EmptySeq
<1>2. Absent \in Symbols
  BY <1>1 DEF Absent, Symbols
<1>. QED  BY <1>1, <1>2 DEF NoSyms, Symbols

LEMMA PushScopeType ==
    ASSUME TypeOK, NEW promote \in BOOLEAN, NEW syms \in [Names -> Symbols]
    PROVE  /\ PushScope(promote, syms) \in Seq(Scopes)
           /\ Len(PushScope(promote, syms)) = Len(scopes) + 1
<1>1. [promote |-> promote, syms |-> syms] \in Scopes
  BY DEF Scopes
<1>. QED  BY <1>1, AppendProperties DEF PushScope, TypeOK

\* Popping a scope takes exactly one away, promotion or not.
LEMMA PopScopeType ==
    ASSUME TypeOK, Len(scopes) > 1
    PROVE  /\ PopScope \in Seq(Scopes)
           /\ Len(PopScope) = Len(scopes) - 1
           /\ PromoteClash \in BOOLEAN
<1>1. /\ Under(scopes) \in Seq(Scopes) /\ Len(Under(scopes)) = Len(scopes) - 1
      /\ Top(scopes) \in Scopes
  BY TopType, UnderType DEF TypeOK
<1>2. Len(Under(scopes)) > 0 /\ Len(scopes) \in Nat
  BY <1>1, LenProperties DEF TypeOK
<1>3. Top(Under(scopes)) \in Scopes /\ Len(Under(scopes)) \in 1 .. Len(Under(scopes))
  BY <1>1, <1>2, TopType
<1>4. DEFINE parent == Top(Under(scopes))
             new == [parent EXCEPT !.syms =
                       [n \in Names |-> IF n \in Promoted(Top(scopes), parent)
                                        THEN Top(scopes).syms[n] ELSE parent.syms[n]]]
<1>5. new \in Scopes
  BY <1>1, <1>3 DEF Scopes
<1>6. PromoteInto(Under(scopes), Top(scopes)) = [Under(scopes) EXCEPT ![Len(Under(scopes))] = new]
  BY <1>1 DEF PromoteInto, Top
<1>7. /\ PromoteInto(Under(scopes), Top(scopes)) \in Seq(Scopes)
      /\ Len(PromoteInto(Under(scopes), Top(scopes))) = Len(Under(scopes))
  BY <1>1, <1>3, <1>5, <1>6, ExceptSeq
<1>. QED  BY <1>1, <1>2, <1>7 DEF PopScope, PromoteClash

\* A set of scope depths that is not empty has an innermost one.
LEMMA Innermost ==
    ASSUME NEW n \in Nat, NEW S \in SUBSET (1 .. n), S # {}
    PROVE  \E k \in S : \A j \in S : j <= k
<1>. DEFINE depths == {d \in Nat : \E k \in S : d = n - k}
<1>1. \A k \in S : n - k \in depths
  OBVIOUS
<1>2. depths \subseteq Nat /\ depths # {}
  BY <1>1
<1>3. PICK d \in depths : \A e \in depths : ~(<<e, d>> \in OpToRel(<, Nat))
  BY <1>2, NatLessThanWellFounded, WFMin
<1>4. \A e \in depths : ~(e < d)
  BY <1>3 DEF OpToRel
<1>5. PICK k \in S : d = n - k
  BY <1>3
<1>6. ASSUME NEW j \in S
      PROVE  j <= k
  <2>1. j \in Nat /\ k \in Nat
    OBVIOUS
  <2>2. ~(n - j < d)
    BY <1>1, <1>4
  <2>. QED  BY ONLY n \in Nat, <1>5, <2>1, <2>2
<1>. QED  BY <1>6

\* The floor of a definition made now: the innermost scope that does not
\* promote its symbols, or the global one.
LEMMA FloorFacts ==
    ASSUME TypeOK, Len(scopes) > 1
    PROVE  /\ Floor \in 2 .. Len(scopes)
           /\ Floor > 2 => ~scopes[Floor].promote
           /\ \A k \in 3 .. Len(scopes) : ~scopes[k].promote => k <= Floor
<1>. DEFINE fixed == {k \in 3 .. Len(scopes) : ~scopes[k].promote}
<1>1. Len(scopes) \in Nat
  BY LenProperties DEF TypeOK
<1>2. CASE fixed = {}
  BY <1>1, <1>2 DEF Floor
<1>3. CASE fixed # {}
  <2>0. fixed \in SUBSET (1 .. Len(scopes))
    BY <1>1
  <2>1. \E k \in fixed : \A j \in fixed : j <= k
    BY <1>1, <1>3, <2>0, Innermost
  <2>2. Floor = CHOOSE m \in fixed : \A j \in fixed : j <= m
    BY <1>3 DEF Floor
  <2>3. Floor \in fixed /\ \A j \in fixed : j <= Floor
    BY <2>1, <2>2
  <2>. QED  BY <1>1, <2>3
<1>. QED  BY <1>2, <1>3

LEMMA AssignType ==
    ASSUME TypeOK, Len(scopes) > 1, NEW name \in Names, NEW public \in BOOLEAN,
           NEW body \in Seq(Line)
    PROVE  /\ Assign(name, public, body) \in Seq(Scopes)
           /\ Len(Assign(name, public, body)) = Len(scopes)
<1>. DEFINE symbol == [public |-> public, body |-> body, floor |-> Floor]
            top == [Top(scopes) EXCEPT !.syms[name] = symbol]
<1>1. /\ Len(scopes) \in 1 .. Len(scopes) /\ Top(scopes) = scopes[Len(scopes)]
      /\ Top(scopes) \in Scopes
  BY TopType, LenProperties DEF TypeOK
<1>2. symbol \in Symbols
  BY FloorFacts DEF Symbols
<1>3. top \in Scopes
  BY <1>1, <1>2 DEF Scopes
<1>4. Assign(name, public, body) = [scopes EXCEPT ![Len(scopes)] = top]
  BY <1>1 DEF Assign
<1>. QED  BY <1>1, <1>3, <1>4, ExceptSeq DEF TypeOK

-----------------------------------------------------------------------------
(* Frames, blocks and scopes move together. *)

\* A frame gives up one scope, except the last one.
LEMMA PopFrameStep ==
    ASSUME TypeOK, FrameShape, CallShape, Balance, frames # <<>>, PopFrame
    PROVE  /\ frames' \in Seq(Frames) /\ Len(frames') = Len(frames) - 1
           /\ \A k \in 1 .. Len(frames') : frames'[k] = frames[k]
           /\ FrameShape'
           /\ scopes' \in Seq(Scopes)
           /\ Len(scopes') - NestedFrames' = Len(scopes) - NestedFrames
           /\ NestedFrames \in Nat /\ NestedFrames' \in Nat
           /\ includeDepth' \in Nat /\ errored' \in BOOLEAN
           /\ CallsKept
<1>1. /\ Len(frames) \in Nat /\ Len(frames) > 0 /\ DOMAIN frames = 1 .. Len(frames)
      /\ Len(scopes) \in Nat
      /\ Cardinality(Branches(blocks)) \in Nat
  BY EmptySeq, LenProperties, BranchCount DEF TypeOK
<1>2. /\ frames' = Under(frames)
      /\ frames' \in Seq(Frames) /\ Len(frames') = Len(frames) - 1
      /\ \A k \in 1 .. Len(frames) - 1 : frames'[k] = frames[k]
  BY <1>1, UnderType DEF TypeOK, PopFrame
<1>3. frames' = <<>> <=> Len(frames) = 1
  BY <1>1, <1>2, EmptySeq
<1>4. Top(frames) = frames[Len(frames)] /\ Len(frames) \in DOMAIN frames
  BY <1>1 DEF Top
<1>5. includeDepth' = includeDepth
  BY <1>4 DEF PopFrame, FrameShape
<1>6. FrameShape'
  <2>1. DOMAIN frames' = 1 .. Len(frames) - 1
    BY <1>2, LenProperties
  <2>. QED  BY <1>1, <1>2, <1>3, <2>1 DEF FrameShape
<1>7. CASE Len(frames) > 1
  <2>1. Len(scopes) > 1
    BY <1>1, <1>7 DEF Balance, Owned, NestedFrames
  <2>2. /\ scopes' = PopScope
        /\ errored' = (errored \/ PromoteClash)
        /\ calls' = Orphan(Dirty(calls, PromoteClash), Len(frames) - 1)
    BY <1>7 DEF PopFrame
  <2>3. scopes' \in Seq(Scopes) /\ Len(scopes') = Len(scopes) - 1 /\ PromoteClash \in BOOLEAN
    BY <2>1, <2>2, PopScopeType
  <2>4. Len(frames) - 1 \in Nat
    BY <1>1
  <2>5. CallsKept
    <3>. DEFINE dirty == Dirty(calls, PromoteClash)
    <3>1. /\ dirty \in Seq(CallFrames) /\ Len(dirty) = Len(calls)
          /\ \A c \in 1 .. Len(calls) : /\ dirty[c].line = calls[c].line
                                        /\ dirty[c].base = calls[c].base
                                        /\ dirty[c].caller = calls[c].caller
      <4>1. calls \in Seq(CallFrames) /\ PromoteClash \in BOOLEAN
        BY <2>3 DEF TypeOK
      <4>. QED  BY ONLY <4>1, DirtyFlags
    <3>2. calls' = Orphan(dirty, Len(frames) - 1)
      BY <2>2
    <3>. HIDE DEF dirty
    <3>3. /\ calls' \in Seq(CallFrames) /\ Len(calls') = Len(dirty)
          /\ \A c \in 1 .. Len(dirty) : /\ calls'[c].line = dirty[c].line
                                        /\ calls'[c].base = dirty[c].base
                                        /\ calls'[c].caller = dirty[c].caller
      BY <2>4, <3>1, <3>2, OrphanFlags
    <3>. QED  BY <3>1, <3>3 DEF CallsKept
  <2>6. NestedFrames = Len(frames) - 1 /\ NestedFrames' = Len(frames) - 2
    BY <1>1, <1>2, <1>3, <1>7 DEF NestedFrames
  <2>7. errored' \in BOOLEAN
    BY <2>2
  <2>. QED  BY <1>1, <1>2, <1>5, <1>6, <1>7, <2>3, <2>5, <2>6, <2>7 DEF TypeOK
<1>8. CASE Len(frames) = 1
  <2>1. scopes' = scopes /\ errored' = errored /\ calls' = Orphan(calls, Len(frames) - 1)
    BY <1>8 DEF PopFrame
  <2>2. Len(frames) - 1 \in Nat
    BY <1>1
  <2>3. CallsKept
    BY <2>1, <2>2, OrphanFlags DEF CallsKept, TypeOK
  <2>4. NestedFrames = 0 /\ NestedFrames' = 0
    BY <1>1, <1>2, <1>3, <1>8 DEF NestedFrames
  <2>. QED  BY <1>1, <1>2, <1>5, <1>6, <2>1, <2>3, <2>4 DEF TypeOK
<1>9. Len(frames) > 1 \/ Len(frames) = 1
  BY <1>1
<1>. QED  BY <1>7, <1>8, <1>9

\* A pushed frame comes with one scope.
LEMMA PushFrameStep ==
    ASSUME TypeOK, FrameShape, frames # <<>>,
           NEW type \in {"FRAME_CALL", "FRAME_LOOP_BODY"}, NEW file \in BOOLEAN,
           NEW rest \in Seq(Line), NEW promote \in BOOLEAN,
           NEW syms \in [Names -> Symbols],
           frames' = Append(frames, NewFrame(type, file, rest)),
           scopes' = PushScope(promote, syms)
    PROVE  /\ frames' \in Seq(Frames) /\ Len(frames') = Len(frames) + 1 /\ Len(frames') > 1
           /\ frames' # <<>> /\ Top(frames') = NewFrame(type, file, rest)
           /\ FrameShape'
           /\ scopes' \in Seq(Scopes)
           /\ Len(scopes') - NestedFrames' = Len(scopes) - NestedFrames
           /\ NestedFrames \in Nat /\ NestedFrames' \in Nat
<1>1. /\ Len(frames) \in Nat /\ Len(frames) > 0 /\ DOMAIN frames = 1 .. Len(frames)
      /\ Len(scopes) \in Nat /\ Len(blocks) \in Nat
  BY EmptySeq, LenProperties DEF TypeOK
<1>2. NewFrame(type, file, rest) \in Frames
  BY <1>1 DEF NewFrame, Frames, FrameTypes
<1>3. /\ frames' \in Seq(Frames) /\ Len(frames') = Len(frames) + 1
      /\ \A k \in 1 .. Len(frames) : frames'[k] = frames[k]
      /\ frames'[Len(frames) + 1] = NewFrame(type, file, rest)
  BY <1>2, AppendProperties DEF TypeOK
<1>4. frames' # <<>> /\ Top(frames') = NewFrame(type, file, rest)
  BY <1>1, <1>3, EmptySeq DEF Top
<1>5. FrameShape'
  <2>1. DOMAIN frames' = 1 .. Len(frames) + 1
    BY <1>3, LenProperties
  <2>2. NewFrame(type, file, rest).type = type
    BY DEF NewFrame
  <2>. QED  BY <1>1, <1>3, <2>1, <2>2 DEF FrameShape
<1>6. scopes' \in Seq(Scopes) /\ Len(scopes') = Len(scopes) + 1
  BY PushScopeType
<1>7. NestedFrames = Len(frames) - 1 /\ NestedFrames' = Len(frames)
  BY <1>1, <1>3, <1>4 DEF NestedFrames
<1>. QED  BY <1>1, <1>3, <1>4, <1>5, <1>6, <1>7

LEMMA SameCalls ==
    ASSUME TypeOK, calls' = calls
    PROVE  CallsKept
BY DEF TypeOK, CallsKept

LEMMA ReportStep ==
    ASSUME TypeOK, NEW r \in BOOLEAN, Report(r)
    PROVE  CallsKept /\ errored' \in BOOLEAN
<1>1. calls' = Dirty(calls, r) /\ errored' \in BOOLEAN
  BY DEF Report, TypeOK
<1>2. calls \in Seq(CallFrames)
  BY DEF TypeOK
<1>3. CallsKept
  BY ONLY <1>1, <1>2, r \in BOOLEAN, DirtyFlags DEF CallsKept
<1>. QED  BY <1>1, <1>3

LEMMA SameBlocks ==
    ASSUME TypeOK, CallShape, BlockShape, blocks' = blocks
    PROVE  /\ BlocksKept /\ BlockShape'
           /\ Cardinality(Branches(blocks')) = Cardinality(Branches(blocks))
           /\ Cardinality(Branches(blocks)) \in Nat
BY BaseFacts, BranchCount DEF TypeOK, BlocksKept, BlockShape

LEMMA PopTopStep ==
    ASSUME TypeOK, CallShape, BlockShape, HasBlock, blocks' = Under(blocks)
    PROVE  /\ BlocksKept /\ BlockShape'
           /\ Len(blocks') = Len(blocks) - 1
           /\ \A k \in 1 .. Len(blocks) - 1 : blocks'[k] = blocks[k]
           /\ Top(blocks).hasScope => Cardinality(Branches(blocks')) = Cardinality(Branches(blocks)) - 1
           /\ TopKind # "if" => Cardinality(Branches(blocks')) = Cardinality(Branches(blocks))
           /\ ~Top(blocks).hasScope =>
                Cardinality(Branches(blocks')) = Cardinality(Branches(blocks))
           /\ Cardinality(Branches(blocks)) \in Nat
           /\ Cardinality(Branches(blocks')) \in Nat
<1>1. /\ Len(blocks) \in Nat /\ Len(blocks) > 0 /\ DOMAIN blocks = 1 .. Len(blocks)
      /\ Len(blocks) > BlockBase /\ BlockBase \in Nat
  BY BaseFacts DEF HasBlock
<1>2. /\ blocks' \in Seq(Blocks) /\ Len(blocks') = Len(blocks) - 1
      /\ \A k \in 1 .. Len(blocks) - 1 : blocks'[k] = blocks[k]
  BY <1>1, UnderType DEF TypeOK
<1>3. DOMAIN blocks' = 1 .. Len(blocks) - 1
  BY <1>2, LenProperties
<1>4. BlocksKept /\ BlockShape'
  BY <1>1, <1>2, <1>3 DEF BlocksKept, BlockShape
<1>5. Top(blocks) = blocks[Len(blocks)] /\ Len(blocks) \in DOMAIN blocks
  BY <1>1 DEF Top
<1>6. TopKind # "if" => ~Top(blocks).hasScope
  BY <1>5 DEF TopKind, BlockShape
<1>7. /\ Top(blocks).hasScope => Cardinality(Branches(blocks')) = Cardinality(Branches(blocks)) - 1
      /\ ~Top(blocks).hasScope => Cardinality(Branches(blocks')) = Cardinality(Branches(blocks))
  BY <1>1, BranchPop DEF TypeOK
<1>8. Cardinality(Branches(blocks)) \in Nat /\ Cardinality(Branches(blocks')) \in Nat
  BY <1>2, BranchCount DEF TypeOK
<1>. QED  BY <1>2, <1>4, <1>6, <1>7, <1>8

LEMMA PushTopStep ==
    ASSUME TypeOK, CallShape, BlockShape, NEW b \in Blocks, b.hasScope => b.kind = "if",
           blocks' = Append(blocks, b)
    PROVE  /\ BlocksKept /\ BlockShape'
           /\ Len(blocks') = Len(blocks) + 1
           /\ \A k \in 1 .. Len(blocks) : blocks'[k] = blocks[k]
           /\ blocks'[Len(blocks) + 1] = b
           /\ b.hasScope => Cardinality(Branches(blocks')) = Cardinality(Branches(blocks)) + 1
           /\ ~b.hasScope => Cardinality(Branches(blocks')) = Cardinality(Branches(blocks))
           /\ Cardinality(Branches(blocks)) \in Nat
           /\ Cardinality(Branches(blocks')) \in Nat
<1>1. /\ Len(blocks) \in Nat /\ DOMAIN blocks = 1 .. Len(blocks)
      /\ BlockBase <= Len(blocks) /\ BlockBase \in Nat
  BY BaseFacts
<1>2. /\ blocks' \in Seq(Blocks) /\ Len(blocks') = Len(blocks) + 1
      /\ \A k \in 1 .. Len(blocks) : blocks'[k] = blocks[k]
      /\ blocks'[Len(blocks) + 1] = b
  BY <1>1, AppendProperties DEF TypeOK
<1>3. DOMAIN blocks' = 1 .. Len(blocks) + 1
  BY <1>2, LenProperties
<1>4. BlocksKept /\ BlockShape'
  BY <1>1, <1>2, <1>3 DEF BlocksKept, BlockShape
<1>5. Cardinality(Branches(blocks)) \in Nat /\ Cardinality(Branches(blocks')) \in Nat
  BY <1>2, BranchCount DEF TypeOK
<1>. QED  BY <1>2, <1>4, <1>5, BranchPush DEF TypeOK

LEMMA SetTopStep ==
    ASSUME TypeOK, CallShape, BlockShape, HasBlock, NEW b \in Blocks,
           b.kind = Top(blocks).kind, b.hasScope => b.kind = "if",
           blocks' = SetTop(b)
    PROVE  /\ BlocksKept /\ BlockShape'
           /\ Len(blocks') = Len(blocks)
           /\ blocks'[Len(blocks)] = b
           /\ \A k \in 1 .. Len(blocks) - 1 : blocks'[k] = blocks[k]
           /\ b.hasScope /\ ~Top(blocks).hasScope =>
                Cardinality(Branches(blocks')) = Cardinality(Branches(blocks)) + 1
           /\ ~b.hasScope /\ Top(blocks).hasScope =>
                Cardinality(Branches(blocks')) = Cardinality(Branches(blocks)) - 1
           /\ (b.hasScope <=> Top(blocks).hasScope) =>
                Cardinality(Branches(blocks')) = Cardinality(Branches(blocks))
           /\ Cardinality(Branches(blocks)) \in Nat
           /\ Cardinality(Branches(blocks')) \in Nat
<1>1. /\ Len(blocks) \in Nat /\ Len(blocks) > 0 /\ DOMAIN blocks = 1 .. Len(blocks)
      /\ Len(blocks) > BlockBase /\ BlockBase \in Nat /\ blocks \in Seq(Blocks)
      /\ Top(blocks) = blocks[Len(blocks)]
  BY BaseFacts DEF HasBlock, TypeOK, Top
<1>2. /\ blocks' \in Seq(Blocks) /\ Len(blocks') = Len(blocks)
      /\ blocks'[Len(blocks)] = b
      /\ \A k \in 1 .. Len(blocks) - 1 : blocks'[k] = blocks[k]
  BY <1>1, ExceptSeq DEF SetTop
<1>3. DOMAIN blocks' = 1 .. Len(blocks) /\ Top(blocks') = b
  BY <1>2, LenProperties DEF Top
<1>4. BlocksKept
  BY <1>1, <1>2 DEF BlocksKept
<1>5. ASSUME NEW k \in DOMAIN blocks', blocks'[k].hasScope
      PROVE  blocks'[k].kind = "if"
  <2>1. CASE k = Len(blocks)
    BY <1>2, <1>5, <2>1
  <2>2. CASE k # Len(blocks)
    <3>1. k \in 1 .. Len(blocks) - 1 /\ k \in DOMAIN blocks
      BY <1>1, <1>3, <2>2
    <3>. QED  BY <1>2, <1>5, <3>1 DEF BlockShape
  <2>. QED  BY <2>1, <2>2
<1>6. BlockShape'
  BY <1>5 DEF BlockShape
<1>7. Cardinality(Branches(blocks)) \in Nat /\ Cardinality(Branches(blocks')) \in Nat
  BY <1>1, <1>2, BranchCount
<1>8. /\ b.hasScope /\ ~Top(blocks).hasScope =>
           Cardinality(Branches(blocks')) = Cardinality(Branches(blocks)) + 1
      /\ ~b.hasScope /\ Top(blocks).hasScope =>
           Cardinality(Branches(blocks')) = Cardinality(Branches(blocks)) - 1
      /\ (b.hasScope <=> Top(blocks).hasScope) =>
           Cardinality(Branches(blocks')) = Cardinality(Branches(blocks))
  BY ONLY <1>1, <1>2, <1>3, BranchSet
<1>. QED  BY ONLY <1>2, <1>4, <1>6, <1>7, <1>8

\* Frames, scopes and branches that move together keep the balance.
LEMMA BalanceStep ==
    ASSUME TypeOK, Balance, scopes' \in Seq(Scopes), unterm \in BOOLEAN, unterm => unterm',
           NestedFrames \in Nat, NestedFrames' \in Nat,
           Cardinality(Branches(blocks)) \in Nat, Cardinality(Branches(blocks')) \in Nat,
           Len(scopes') - NestedFrames' - Cardinality(Branches(blocks'))
             = Len(scopes) - NestedFrames - Cardinality(Branches(blocks))
    PROVE  Balance'
<1>1. Len(scopes) \in Nat /\ Len(scopes') \in Nat
  BY LenProperties DEF TypeOK
<1>2. Cardinality(Branches(blocks))' = Cardinality(Branches(blocks'))
  BY DEF Branches
<1>. QED  BY <1>1, <1>2, SMTT(30) DEF Balance, Owned

LEMMA SameFrames ==
    ASSUME TypeOK, FrameShape, frames' = frames
    PROVE  /\ FrameShape' /\ frames' \in Seq(Frames)
           /\ NestedFrames \in Nat /\ NestedFrames' = NestedFrames
BY LenProperties, EmptySeq DEF TypeOK, FrameShape, NestedFrames

\* A step that leaves frames, scopes and blocks alone.
LEMMA StillStep ==
    ASSUME IInv, UNCHANGED <<frames, scopes, blocks>>, CallsKept, unterm => unterm'
    PROVE  /\ FrameShape' /\ BlockShape' /\ CallShape' /\ Balance'
           /\ frames' \in Seq(Frames) /\ scopes' \in Seq(Scopes) /\ blocks' \in Seq(Blocks)
           /\ BlockBase' = BlockBase /\ (HasBlock' <=> HasBlock) /\ TopKind' = TopKind
           /\ calls' = <<>> <=> calls = <<>>
           /\ calls' \in Seq(CallFrames)
<1>1. TypeOK /\ FrameShape /\ BlockShape /\ CallShape /\ Balance
  BY DEF IInv
<1>2. /\ BlocksKept /\ BlockShape'
      /\ Cardinality(Branches(blocks')) = Cardinality(Branches(blocks))
      /\ Cardinality(Branches(blocks)) \in Nat
  BY <1>1, SameBlocks
<1>3. CallShape' /\ BlockBase' = BlockBase /\ (calls' = <<>> <=> calls = <<>>)
  BY <1>1, <1>2, KeptCalls
<1>4. FrameShape' /\ NestedFrames \in Nat /\ NestedFrames' = NestedFrames
  BY <1>1, SameFrames
<1>5. Balance'
  BY <1>1, <1>2, <1>4, BalanceStep DEF TypeOK
<1>6. (HasBlock' <=> HasBlock) /\ TopKind' = TopKind
  BY <1>3 DEF HasBlock, TopKind, Top
<1>. QED  BY <1>1, <1>2, <1>3, <1>4, <1>5, <1>6 DEF TypeOK, CallsKept

\* Every capturing #for has iterations left.
Settled ==
    \A k \in DOMAIN blocks : blocks[k].kind = "for" /\ blocks[k].capturing =>
        blocks[k].body = <<>> /\ blocks[k].left > 0

LEMMA SettledNow ==
    ASSUME CaptureShape,
           pc \notin {"run", "exhausted", "cleanup"} \/ ~HasBlock \/ (pc = "run" /\ ~Replayed)
    PROVE  Settled
BY DEF CaptureShape, Settled

LEMMA SettledNext ==
    ASSUME Settled, blocks' = blocks \/ Settled'
    PROVE  CaptureShape'
BY DEF CaptureShape, Settled

-----------------------------------------------------------------------------
(* Steps that move neither frames nor scopes nor blocks *)

\* The part of TypeOK that is not about the four stacks.
Scalars ==
    /\ pc \in Running \cup Final
    /\ line \in Line
    /\ skipDepth \in Nat
    /\ skipCapture \in BOOLEAN
    /\ captureBuf \in Seq(Line)
    /\ pending \in Nat
    /\ opCount \in Nat
    /\ includeDepth \in Nat
    /\ errored \in BOOLEAN
    /\ input \in Nat
    /\ ragged \in BOOLEAN
    /\ unterm \in BOOLEAN

Plain == {"run", "fail", "leave"} \cup Final

LEMMA TypeStep ==
    ASSUME Scalars', frames' \in Seq(Frames), scopes' \in Seq(Scopes),
           blocks' \in Seq(Blocks), calls' \in Seq(CallFrames)
    PROVE  TypeOK'
BY DEF TypeOK, Scalars

LEMMA PlainPc ==
    ASSUME pc' \in Plain
    PROVE  PcShape'
BY DEF Plain, Final, PcShape, Evaluating

LEMMA QuietStep ==
    ASSUME IInv, Settled, UNCHANGED <<frames, scopes, blocks>>, CallsKept,
           unterm => unterm', Scalars', PcShape'
    PROVE  IInv'
<1>1. /\ FrameShape' /\ BlockShape' /\ CallShape' /\ Balance'
      /\ frames' \in Seq(Frames) /\ scopes' \in Seq(Scopes) /\ blocks' \in Seq(Blocks)
      /\ calls' \in Seq(CallFrames)
  BY StillStep
<1>2. TypeOK'
  BY <1>1, TypeStep
<1>3. CaptureShape'
  BY SettledNext
<1>. QED  BY <1>1, <1>2, <1>3 DEF IInv

\* A step that moves frames, scopes and branches together.
LEMMA MoveStep ==
    ASSUME IInv, Scalars', PcShape', CaptureShape', CallsKept, BlocksKept, BlockShape',
           FrameShape', frames' \in Seq(Frames), scopes' \in Seq(Scopes),
           unterm => unterm', NestedFrames \in Nat, NestedFrames' \in Nat,
           Cardinality(Branches(blocks)) \in Nat, Cardinality(Branches(blocks')) \in Nat,
           Len(scopes') - NestedFrames' - Cardinality(Branches(blocks'))
             = Len(scopes) - NestedFrames - Cardinality(Branches(blocks))
    PROVE  IInv'
<1>1. TypeOK /\ CallShape /\ Balance
  BY DEF IInv
<1>2. CallShape' /\ calls' \in Seq(CallFrames) /\ blocks' \in Seq(Blocks)
  BY <1>1, KeptCalls DEF CallsKept, BlocksKept
<1>3. Balance'
  BY <1>1, BalanceStep DEF TypeOK
<1>4. TypeOK'
  BY <1>2, TypeStep
<1>. QED  BY <1>2, <1>3, <1>4 DEF IInv

LEMMA FailStep ==
    ASSUME IInv, Settled, ReportAndFail, opCount' \in Nat
    PROVE  IInv'
<1>1. TypeOK
  BY DEF IInv
<1>2. CallsKept /\ errored' \in BOOLEAN
  BY <1>1, ReportStep DEF ReportAndFail
<1>3. Scalars'
  BY <1>1, <1>2 DEF TypeOK, Scalars, ReportAndFail, Fail, Running
<1>4. PcShape'
  BY PlainPc DEF ReportAndFail, Fail, Plain
<1>. QED  BY <1>2, <1>3, <1>4, QuietStep DEF ReportAndFail

LEMMA YieldStep ==
    ASSUME TypeOK, YieldToken
    PROVE  /\ CallsKept /\ errored' \in BOOLEAN
           /\ captureBuf' \in Seq(Line)
           /\ pc' = "run" \/ (pc' = "cleanup" /\ calls # <<>>)
<1>1. ASSUME skipDepth = 0 /\ calls # <<>>
      PROVE  CallsKept /\ errored' \in BOOLEAN
  BY <1>1, ReportStep DEF YieldToken
<1>2. ASSUME ~(skipDepth = 0 /\ calls # <<>>)
      PROVE  CallsKept /\ errored' \in BOOLEAN
  BY <1>2, SameCalls DEF YieldToken, TypeOK
<1>3. NoLine \in Line
  BY DEF NoLine, Line, Dirs, Exprs
<1>4. captureBuf' \in Seq(Line)
  BY <1>3, AppendProperties DEF YieldToken, TypeOK
<1>5. pc' = "run" \/ (pc' = "cleanup" /\ calls # <<>>)
  BY DEF YieldToken
<1>. QED  BY <1>1, <1>2, <1>4, <1>5

-----------------------------------------------------------------------------
(* fetch_next_token *)

LEMMA FetchStep ==
    ASSUME IInv, Fetch
    PROVE  IInv'
<1>1. TypeOK /\ FrameShape /\ BlockShape /\ PcShape /\ CaptureShape /\ CallShape /\ Balance
  BY DEF IInv
<1>2. CASE FetchPending
  <2>1. /\ CallsKept /\ errored' \in BOOLEAN /\ captureBuf' \in Seq(Line)
        /\ pc' = "run" \/ (pc' = "cleanup" /\ calls # <<>>)
    BY <1>1, <1>2, YieldStep DEF FetchPending
  <2>2. UNCHANGED <<frames, scopes, blocks, unterm>> /\ pc = "run"
    BY <1>2 DEF FetchPending, Rest
  <2>3. /\ FrameShape' /\ BlockShape' /\ CallShape' /\ Balance'
        /\ frames' \in Seq(Frames) /\ scopes' \in Seq(Scopes) /\ blocks' \in Seq(Blocks)
        /\ (HasBlock' <=> HasBlock) /\ (calls' = <<>> <=> calls = <<>>)
        /\ calls' \in Seq(CallFrames)
    BY <2>1, <2>2, StillStep
  <2>4. Scalars'
    BY <1>1, <1>2, <2>1 DEF FetchPending, Rest, TypeOK, Scalars, Running
  <2>5. PcShape'
    BY <2>1, <2>3 DEF PcShape, Evaluating
  <2>6. CaptureShape'
    BY <1>1, <2>1, <2>2, <2>3 DEF CaptureShape, Replayed
  <2>. QED  BY <2>3, <2>4, <2>5, <2>6, TypeStep DEF IInv
<1>3. CASE PlainToken
  <2>1. /\ CallsKept /\ errored' \in BOOLEAN /\ captureBuf' \in Seq(Line)
        /\ pc' = "run" \/ (pc' = "cleanup" /\ calls # <<>>)
    BY <1>1, <1>3, YieldStep DEF PlainToken
  <2>2. UNCHANGED <<frames, scopes, blocks, unterm>> /\ pc = "line"
    BY <1>3 DEF PlainToken, Rest
  <2>3. calls' = <<>> <=> calls = <<>>
    BY <2>1, <2>2, StillStep
  <2>4. Scalars'
    BY <1>1, <1>3, <2>1 DEF PlainToken, Rest, TypeOK, Scalars, Running
  <2>5. PcShape'
    BY <2>1, <2>3 DEF PcShape, Evaluating
  <2>. QED  BY <1>1, <2>1, <2>2, <2>4, <2>5, SettledNow, QuietStep
<1>4. CASE EndOfInput
  <2>1. /\ UNCHANGED <<frames, scopes, blocks, unterm, calls>>
        /\ pc = "run" /\ frames = <<>>
        /\ pc' = "eof" \/ (pc' = "cleanup" /\ calls # <<>>)
    BY <1>4 DEF EndOfInput, Rest
  <2>2. CallsKept
    BY <1>1, <2>1, SameCalls
  <2>3. Scalars'
    BY <1>1, <1>4, <2>1 DEF EndOfInput, Rest, TypeOK, Scalars, Running, Final
  <2>4. PcShape'
    BY <2>1 DEF PcShape, Evaluating
  <2>5. Settled
    BY <1>1, <2>1, SettledNow DEF Replayed
  <2>. QED  BY <2>1, <2>2, <2>3, <2>4, <2>5, QuietStep
<1>5. CASE FetchLine
  <2>1. UNCHANGED <<scopes, blocks, calls, unterm>> /\ pc = "run" /\ frames # <<>> /\ pc' = "line"
    BY <1>5 DEF FetchLine
  <2>2. /\ Len(frames) \in Nat /\ Len(frames) > 0 /\ DOMAIN frames = 1 .. Len(frames)
        /\ Top(frames) = frames[Len(frames)] /\ Top(frames) \in Frames
    BY <1>1, <2>1, EmptySeq, LenProperties, TopType DEF TypeOK
  <2>3. ASSUME Top(frames).file
        PROVE  /\ FrameShape' /\ frames' \in Seq(Frames) /\ frames' # <<>>
               /\ NestedFrames \in Nat /\ NestedFrames' = NestedFrames /\ Scalars'
    <3>1. frames' = frames /\ line' \in Lines /\ input' = input + 1
      BY <1>5, <2>3 DEF FetchLine
    <3>2. line' \in Line
      BY <3>1, LimitAssumption DEF Line, Dirs
    <3>3. FrameShape' /\ frames' \in Seq(Frames) /\ frames' # <<>>
          /\ NestedFrames \in Nat /\ NestedFrames' = NestedFrames
      BY <1>1, <2>1, <3>1, SameFrames
    <3>4. Scalars'
      BY <1>1, <1>5, <2>1, <3>1, <3>2 DEF FetchLine, TypeOK, Scalars, Running
    <3>. QED  BY <3>3, <3>4
  <2>4. ASSUME ~Top(frames).file
        PROVE  /\ FrameShape' /\ frames' \in Seq(Frames) /\ frames' # <<>>
               /\ NestedFrames \in Nat /\ NestedFrames' = NestedFrames /\ Scalars'
    <3>. DEFINE top == [Top(frames) EXCEPT !.rest = Tail(Top(frames).rest)]
    <3>1. /\ Top(frames).rest # <<>> /\ line' = Head(Top(frames).rest) /\ input' = input
          /\ frames' = [frames EXCEPT ![Len(frames)].rest = Tail(Top(frames).rest)]
      BY <1>5, <2>4 DEF FetchLine, Top
    <3>2. Top(frames).rest \in Seq(Line)
      BY <2>2 DEF Frames
    <3>3. line' \in Line /\ Tail(Top(frames).rest) \in Seq(Line)
      BY <3>1, <3>2, HeadTailProperties
    <3>4. top \in Frames /\ top.type = Top(frames).type
      BY <2>2, <3>3 DEF Frames
    <3>5. frames' = [frames EXCEPT ![Len(frames)] = top]
      BY <2>2, <3>1
    <3>6. /\ frames' \in Seq(Frames) /\ Len(frames') = Len(frames)
          /\ \A k \in 1 .. Len(frames) : frames'[k].type = frames[k].type
      BY <1>1, <2>2, <3>4, <3>5, ExceptSeq DEF TypeOK
    <3>7. frames' # <<>> /\ DOMAIN frames' = 1 .. Len(frames)
      BY <2>2, <3>6, EmptySeq, LenProperties
    <3>8. FrameShape'
      BY <1>1, <2>1, <2>2, <3>6, <3>7 DEF FrameShape
    <3>9. NestedFrames \in Nat /\ NestedFrames' = NestedFrames
      BY <2>1, <2>2, <3>6, <3>7 DEF NestedFrames
    <3>10. Scalars'
      BY <1>1, <1>5, <2>1, <3>1, <3>3 DEF FetchLine, TypeOK, Scalars, Running
    <3>. QED  BY <3>6, <3>7, <3>8, <3>9, <3>10
  <2>5. /\ FrameShape' /\ frames' \in Seq(Frames) /\ frames' # <<>>
        /\ NestedFrames \in Nat /\ NestedFrames' = NestedFrames /\ Scalars'
    BY <2>3, <2>4
  <2>6. ~Replayed
    BY <1>5, <2>3 DEF FetchLine, Replayed
  <2>7. CaptureShape'
    BY <1>1, <2>1, <2>6, SettledNow, SettledNext
  <2>8. /\ BlocksKept /\ BlockShape'
        /\ Cardinality(Branches(blocks')) = Cardinality(Branches(blocks))
        /\ Cardinality(Branches(blocks)) \in Nat
    BY <1>1, <2>1, SameBlocks
  <2>9. CallsKept
    BY <1>1, <2>1, SameCalls
  <2>10. PcShape'
    BY <2>1, <2>5 DEF PcShape, Evaluating
  <2>. QED  BY <1>1, <2>1, <2>5, <2>7, <2>8, <2>9, <2>10, MoveStep DEF TypeOK
<1>6. CASE FrameExhausted
  <2>1. /\ PopFrame /\ UNCHANGED <<blocks, unterm>> /\ pc = "run" /\ frames # <<>>
        /\ pc' = IF Top(frames).type = "FRAME_LOOP_BODY" THEN "exhausted" ELSE "run"
    BY <1>6 DEF FrameExhausted
  <2>2. /\ frames' \in Seq(Frames) /\ Len(frames') = Len(frames) - 1
        /\ FrameShape'
        /\ scopes' \in Seq(Scopes)
        /\ Len(scopes') - NestedFrames' = Len(scopes) - NestedFrames
        /\ NestedFrames \in Nat /\ NestedFrames' \in Nat
        /\ includeDepth' \in Nat /\ errored' \in BOOLEAN
        /\ CallsKept
    BY <1>1, <2>1, PopFrameStep
  <2>3. /\ BlocksKept /\ BlockShape'
        /\ Cardinality(Branches(blocks')) = Cardinality(Branches(blocks))
        /\ Cardinality(Branches(blocks)) \in Nat
    BY <1>1, <2>1, SameBlocks
  <2>4. Scalars'
    <3>1. ragged' \in BOOLEAN
      BY <1>6 DEF FrameExhausted
    <3>. QED  BY <1>1, <1>6, <2>1, <2>2, <3>1 DEF FrameExhausted, TypeOK, Scalars, Running
  <2>5. CASE Top(frames).type = "FRAME_LOOP_BODY"
    <3>1. frames' # <<>> /\ pc' = "exhausted"
      <4>1. Len(frames) \in Nat /\ Len(frames) > 0 /\ Top(frames) = frames[Len(frames)]
        BY <1>1, <2>1, EmptySeq, LenProperties DEF TypeOK, Top
      <4>2. Len(frames) # 1
        BY <1>1, <2>1, <2>5, <4>1 DEF FrameShape
      <4>. QED  BY <2>1, <2>2, <2>5, <4>1, <4>2, EmptySeq
    <3>2. PcShape'
      BY <3>1 DEF PcShape, Evaluating
    <3>3. BlockBase' = BlockBase
      BY <1>1, <2>2, <2>3, KeptCalls
    <3>4. CaptureShape'
      BY <1>1, <2>1, <3>1, <3>3 DEF CaptureShape, HasBlock
    <3>. QED  BY <2>1, <2>2, <2>3, <2>4, <3>2, <3>4, MoveStep
  <2>6. CASE Top(frames).type # "FRAME_LOOP_BODY"
    <3>1. pc' = "run" /\ ~Replayed
      BY <2>1, <2>6 DEF Replayed
    <3>2. PcShape'
      BY <3>1, PlainPc DEF Plain
    <3>3. CaptureShape'
      BY <1>1, <2>1, <3>1, SettledNow, SettledNext
    <3>. QED  BY <2>1, <2>2, <2>3, <2>4, <3>2, <3>3, MoveStep
  <2>. QED  BY <2>5, <2>6
<1>7. CASE UnterminatedBlock
  <2>1. /\ Report(TRUE) /\ UNCHANGED <<frames, scopes>> /\ pc = "run" /\ frames = <<>>
        /\ HasBlock /\ blocks' = SubSeq(blocks, 1, BlockBase) /\ unterm' = TRUE
        /\ pc' = "failed" \/ (pc' = "cleanup" /\ calls # <<>>)
    BY <1>7 DEF UnterminatedBlock, Rest
  <2>2. CallsKept /\ errored' \in BOOLEAN
    BY <1>1, <2>1, ReportStep
  <2>3. /\ BlockBase \in Nat /\ BlockBase <= Len(blocks) /\ Len(blocks) \in Nat
        /\ blocks \in Seq(Blocks) /\ DOMAIN blocks = 1 .. Len(blocks)
    BY <1>1, BaseFacts DEF TypeOK
  <2>4. /\ blocks' \in Seq(Blocks) /\ Len(blocks') = BlockBase
        /\ \A k \in 1 .. BlockBase : blocks'[k] = blocks[k]
    BY <2>1, <2>3, PrefixType
  <2>5. DOMAIN blocks' = 1 .. BlockBase
    BY <2>4, LenProperties
  <2>6. BlocksKept /\ BlockShape'
    BY <1>1, <2>3, <2>4, <2>5 DEF BlocksKept, BlockShape
  <2>7. CallShape' /\ (calls' = <<>> <=> calls = <<>>)
    BY <1>1, <2>2, <2>6, KeptCalls
  <2>8. Scalars'
    BY <1>1, <1>7, <2>1, <2>2 DEF UnterminatedBlock, Rest, TypeOK, Scalars, Running, Final
  <2>9. PcShape'
    BY <2>1, <2>7 DEF PcShape, Evaluating
  <2>10. Settled
    BY <1>1, <2>1, SettledNow DEF Replayed
  <2>11. Settled'
    BY <2>3, <2>4, <2>5, <2>10 DEF Settled
  <2>12. FrameShape' /\ frames' \in Seq(Frames) /\ NestedFrames' = NestedFrames /\ NestedFrames \in Nat
    BY <1>1, <2>1, SameFrames
  <2>13. Cardinality(Branches(blocks')) <= Cardinality(Branches(blocks))
    BY <2>1, <2>3, BranchPrefix
  <2>14. Balance'
    <3>1. /\ Cardinality(Branches(blocks)) \in Nat /\ Cardinality(Branches(blocks')) \in Nat
          /\ Len(scopes) \in Nat /\ scopes' = scopes /\ unterm' = TRUE
      BY <1>1, <2>1, <2>3, <2>4, BranchCount, LenProperties DEF TypeOK
    <3>2. Cardinality(Branches(blocks))' = Cardinality(Branches(blocks'))
      BY DEF Branches
    <3>. QED  BY <1>1, <2>12, <2>13, <3>1, <3>2 DEF Balance, Owned
  <2>15. TypeOK'
    BY <1>1, <2>1, <2>2, <2>4, <2>8, <2>12, TypeStep DEF CallsKept, TypeOK
  <2>. QED  BY <2>6, <2>7, <2>9, <2>10, <2>11, <2>12, <2>14, <2>15, SettledNext DEF IInv
<1>. QED  BY <1>2, <1>3, <1>4, <1>5, <1>6, <1>7 DEF Fetch

-----------------------------------------------------------------------------
(* Directive handlers *)

LEMMA ScopesFact ==
    ASSUME TypeOK, Balance
    PROVE  Len(scopes) \in Nat /\ Len(scopes) > 1
<1>1. /\ Len(scopes) \in Nat /\ Cardinality(Branches(blocks)) \in Nat
      /\ Len(frames) \in Nat /\ (frames # <<>> => Len(frames) > 0)
  BY LenProperties, EmptySeq, BranchCount DEF TypeOK
<1>. QED  BY <1>1 DEF Balance, Owned, NestedFrames

\* _el_pp_pop_if_block: the branch and its scope go together.
LEMMA PopIfBlockStep ==
    ASSUME TypeOK, CallShape, BlockShape, Balance, HasBlock, PopIfBlock
    PROVE  /\ BlocksKept /\ BlockShape' /\ CallsKept /\ errored' \in BOOLEAN
           /\ Len(blocks') = Len(blocks) - 1
           /\ \A k \in 1 .. Len(blocks) - 1 : blocks'[k] = blocks[k]
           /\ scopes' \in Seq(Scopes)
           /\ Cardinality(Branches(blocks)) \in Nat
           /\ Cardinality(Branches(blocks')) \in Nat
           /\ Len(scopes') - Cardinality(Branches(blocks'))
                = Len(scopes) - Cardinality(Branches(blocks))
<1>1. blocks' = Under(blocks)
  BY DEF PopIfBlock
<1>2. /\ BlocksKept /\ BlockShape'
      /\ Len(blocks') = Len(blocks) - 1
      /\ \A k \in 1 .. Len(blocks) - 1 : blocks'[k] = blocks[k]
      /\ Top(blocks).hasScope => Cardinality(Branches(blocks')) = Cardinality(Branches(blocks)) - 1
      /\ ~Top(blocks).hasScope => Cardinality(Branches(blocks')) = Cardinality(Branches(blocks))
      /\ Cardinality(Branches(blocks)) \in Nat
      /\ Cardinality(Branches(blocks')) \in Nat
  BY <1>1, PopTopStep
<1>3. Len(scopes) \in Nat /\ Len(scopes) > 1
  BY ScopesFact
<1>4. ASSUME Top(blocks).hasScope
      PROVE  /\ CallsKept /\ errored' \in BOOLEAN /\ scopes' \in Seq(Scopes)
             /\ Len(scopes') - Cardinality(Branches(blocks'))
                  = Len(scopes) - Cardinality(Branches(blocks))
  <2>1. scopes' = PopScope /\ Report(PromoteClash)
    BY <1>4 DEF PopIfBlock
  <2>2. scopes' \in Seq(Scopes) /\ Len(scopes') = Len(scopes) - 1 /\ PromoteClash \in BOOLEAN
    BY <1>3, <2>1, PopScopeType
  <2>3. CallsKept /\ errored' \in BOOLEAN
    BY <2>1, <2>2, ReportStep
  <2>4. Cardinality(Branches(blocks')) = Cardinality(Branches(blocks)) - 1
    BY <1>2, <1>4
  <2>. QED  BY <1>2, <1>3, <2>2, <2>3, <2>4
<1>5. ASSUME ~Top(blocks).hasScope
      PROVE  /\ CallsKept /\ errored' \in BOOLEAN /\ scopes' \in Seq(Scopes)
             /\ Len(scopes') - Cardinality(Branches(blocks'))
                  = Len(scopes) - Cardinality(Branches(blocks))
  <2>1. scopes' = scopes /\ errored' = errored /\ calls' = calls
    BY <1>5 DEF PopIfBlock
  <2>2. Cardinality(Branches(blocks')) = Cardinality(Branches(blocks))
    BY <1>2, <1>5
  <2>. QED  BY <1>2, <1>3, <2>1, <2>2, SameCalls DEF TypeOK
<1>. QED  BY <1>2, <1>4, <1>5

\* The blocks that stay under a popped one are as settled as before.
LEMMA SettledPop ==
    ASSUME Settled, blocks \in Seq(Blocks), blocks' \in Seq(Blocks), Len(blocks) > 0,
           Len(blocks') = Len(blocks) - 1,
           \A k \in 1 .. Len(blocks) - 1 : blocks'[k] = blocks[k]
    PROVE  Settled'
<1>1. DOMAIN blocks' = 1 .. Len(blocks) - 1 /\ DOMAIN blocks = 1 .. Len(blocks) /\ Len(blocks) \in Nat
  BY LenProperties
<1>. QED  BY <1>1 DEF Settled

\* A new top must not be a capturing #for without iterations.
LEMMA SettledPush ==
    ASSUME Settled, blocks \in Seq(Blocks), blocks' \in Seq(Blocks), NEW b,
           Len(blocks') = Len(blocks) + 1,
           \A k \in 1 .. Len(blocks) : blocks'[k] = blocks[k],
           blocks'[Len(blocks) + 1] = b,
           b.kind = "for" /\ b.capturing => b.body = <<>> /\ b.left > 0
    PROVE  Settled'
<1>1. DOMAIN blocks' = 1 .. Len(blocks) + 1 /\ DOMAIN blocks = 1 .. Len(blocks) /\ Len(blocks) \in Nat
  BY LenProperties
<1>2. \A k \in DOMAIN blocks' : k \in DOMAIN blocks \/ k = Len(blocks) + 1
  BY <1>1
<1>. QED  BY <1>1, <1>2 DEF Settled

LEMMA SettledSet ==
    ASSUME Settled, blocks \in Seq(Blocks), blocks' \in Seq(Blocks), NEW b,
           Len(blocks') = Len(blocks),
           \A k \in 1 .. Len(blocks) - 1 : blocks'[k] = blocks[k],
           blocks'[Len(blocks)] = b,
           b.kind = "for" /\ b.capturing => b.body = <<>> /\ b.left > 0
    PROVE  Settled'
<1>1. DOMAIN blocks' = 1 .. Len(blocks) /\ DOMAIN blocks = 1 .. Len(blocks) /\ Len(blocks) \in Nat
  BY LenProperties
<1>2. \A k \in DOMAIN blocks' : k \in 1 .. Len(blocks) - 1 \/ k = Len(blocks)
  BY <1>1
<1>. QED  BY <1>1, <1>2 DEF Settled

LEMMA BeginEvalStep ==
    ASSUME IInv, BeginEval, pc = "line", UNCHANGED frames, pending' \in Nat,
           line.dir \notin {"while", "again", "elif"}, line.dir = "return" => calls # <<>>
    PROVE  IInv'
<1>1. TypeOK /\ PcShape /\ CaptureShape
  BY DEF IInv
<1>2. UNCHANGED <<frames, scopes, blocks, calls, line, unterm>> /\ pc' = "eval"
  BY DEF BeginEval, Rest
<1>3. CallsKept
  BY <1>1, <1>2, SameCalls
<1>4. Scalars'
  BY <1>1, <1>2 DEF BeginEval, Rest, TypeOK, Scalars, Charge, DIR_OPS, EXPR_OPS, Running
<1>5. PcShape'
  BY <1>1, <1>2 DEF PcShape, Evaluating
<1>6. Settled
  BY <1>1, SettledNow
<1>. QED  BY <1>2, <1>3, <1>4, <1>5, <1>6, QuietStep

LEMMA ChargeType ==
    ASSUME TypeOK, NEW ops \in {0, EXPR_OPS}, Charge(ops)
    PROVE  opCount' \in Nat
BY DEF TypeOK, Charge, DIR_OPS, EXPR_OPS

LEMMA HandleQuietStep ==
    ASSUME IInv,
           \/ OpLimitExceeded \/ HandleOperand \/ HandleStrayReturn \/ HandleUnknown
           \/ HandleElif \/ HandleLeave \/ HandleEmit \/ HandleSet
    PROVE  IInv'
<1>1. TypeOK /\ FrameShape /\ BlockShape /\ PcShape /\ CaptureShape /\ CallShape /\ Balance
  BY DEF IInv
<1>2. CASE OpLimitExceeded
  BY <1>1, <1>2, SettledNow, FailStep, ChargeType DEF OpLimitExceeded
<1>3. CASE HandleOperand
  <2>1. /\ BeginEval /\ pc = "line" /\ UNCHANGED frames /\ pending' \in Nat
        /\ line.dir \notin {"while", "again", "elif"}
        /\ line.dir = "return" => calls # <<>>
    BY <1>1, <1>3 DEF HandleOperand, Active, TypeOK
  <2>. QED  BY <2>1, BeginEvalStep
<1>4. CASE HandleStrayReturn
  BY <1>1, <1>4, SettledNow, FailStep, ChargeType DEF HandleStrayReturn, Active
<1>5. CASE HandleUnknown
  BY <1>1, <1>5, SettledNow, FailStep, ChargeType DEF HandleUnknown, Active
<1>6. CASE HandleElif
  <2>1. pc = "line" /\ opCount' \in Nat /\ Settled
    BY <1>1, <1>6, ChargeType, SettledNow DEF HandleElif, Active
  <2>2. CASE ReportAndFail
    BY <2>1, <2>2, FailStep
  <2>3. CASE ~ReportAndFail
    <3>1. /\ UNCHANGED <<line, frames, scopes, blocks, calls, skipCapture, captureBuf,
                         pending, errored, includeDepth, input, ragged, unterm>>
          /\ pc' \in {"run", "fail"} /\ skipDepth' \in {skipDepth, skipDepth + 1}
      BY <1>6, <2>3 DEF HandleElif, Rest, Fail
    <3>2. CallsKept
      BY <1>1, <3>1, SameCalls
    <3>3. Scalars' /\ PcShape'
      BY <1>1, <2>1, <3>1, PlainPc DEF TypeOK, Scalars, Running, Plain
    <3>. QED  BY <2>1, <3>1, <3>2, <3>3, QuietStep
  <2>. QED  BY <2>2, <2>3
<1>7. CASE HandleLeave
  <2>1. pc = "line" /\ opCount' \in Nat /\ Settled
    BY <1>1, <1>7, ChargeType, SettledNow DEF HandleLeave, Active
  <2>2. CASE ReportAndFail
    BY <2>1, <2>2, FailStep
  <2>3. CASE ~ReportAndFail
    <3>1. /\ UNCHANGED <<line, frames, scopes, blocks, calls, skipDepth, skipCapture,
                         captureBuf, pending, errored, includeDepth, input, ragged, unterm>>
          /\ pc' = "leave"
      BY <1>7, <2>3 DEF HandleLeave, Rest
    <3>2. CallsKept
      BY <1>1, <3>1, SameCalls
    <3>3. Scalars' /\ PcShape'
      BY <1>1, <2>1, <3>1, PlainPc DEF TypeOK, Scalars, Running, Plain
    <3>. QED  BY <2>1, <3>1, <3>2, <3>3, QuietStep
  <2>. QED  BY <2>2, <2>3
<1>8. CASE HandleEmit
  <2>1. pc = "line" /\ line.dir = "emit" /\ UNCHANGED frames /\ pending' \in Nat /\ Settled
    BY <1>1, <1>8, SettledNow DEF HandleEmit, Active, TypeOK
  <2>2. CASE BeginEval
    BY <2>1, <2>2, BeginEvalStep
  <2>3. CASE ~BeginEval
    <3>1. /\ UNCHANGED <<line, frames, scopes, blocks, calls, skipDepth, skipCapture,
                         captureBuf, errored, includeDepth, input, ragged, unterm>>
          /\ pc' = "run" /\ Charge(0)
      BY <1>8, <2>3 DEF HandleEmit, Rest
    <3>2. CallsKept
      BY <1>1, <3>1, SameCalls
    <3>3. Scalars' /\ PcShape'
      BY <1>1, <2>1, <3>1, PlainPc, ChargeType DEF TypeOK, Scalars, Running, Plain
    <3>. QED  BY <2>1, <3>1, <3>2, <3>3, QuietStep
  <2>. QED  BY <2>2, <2>3
<1>9. CASE HandleSet
  <2>1. pc = "line" /\ line.dir = "set"
    BY <1>9 DEF HandleSet, Active
  <2>2. CASE Visible("x")
    <3>1. BeginEval /\ UNCHANGED <<frames, pending>>
      BY <1>9, <2>2 DEF HandleSet
    <3>. QED  BY <1>1, <2>1, <3>1, BeginEvalStep DEF TypeOK
  <2>3. CASE ~Visible("x")
    BY <1>1, <1>9, <2>1, <2>3, SettledNow, FailStep, ChargeType DEF HandleSet
  <2>. QED  BY <2>2, <2>3
<1>. QED  BY <1>2, <1>3, <1>4, <1>5, <1>6, <1>7, <1>8, <1>9

LEMMA NewBlockType ==
    /\ \A cond \in BOOLEAN : [NewBlock("if") EXCEPT !.taken = cond, !.hasScope = cond] \in Blocks
    /\ \A public \in BOOLEAN : [NewBlock("func") EXCEPT !.public = public] \in Blocks
    /\ \A count \in Nat :
          [NewBlock("for") EXCEPT !.capturing = count # 0, !.left = count] \in Blocks
    /\ \A cond \in BOOLEAN, expr \in Exprs :
          [NewBlock("while") EXCEPT !.capturing = cond, !.cond = expr] \in Blocks
<1>1. <<>> \in Seq(Line)
  BY EmptySeq
<1>. QED  BY <1>1 DEF NewBlock, Blocks, BlockKinds, Exprs

LEMMA HandleBlockStep ==
    ASSUME IInv, HandleElse \/ HandleEnd \/ HandleFunc
    PROVE  IInv'
<1>1. TypeOK /\ FrameShape /\ BlockShape /\ PcShape /\ CaptureShape /\ CallShape /\ Balance
  BY DEF IInv
<1>2. pc = "line" /\ opCount' \in Nat /\ line \in Line
  BY <1>1, ChargeType DEF HandleElse, HandleEnd, HandleFunc, Active, TypeOK
<1>3. Settled
  BY <1>1, <1>2, SettledNow
<1>4. /\ blocks \in Seq(Blocks) /\ Len(blocks) \in Nat /\ Len(scopes) \in Nat /\ Len(scopes) > 1
      /\ HasBlock => Len(blocks) > 0 /\ Top(blocks) \in Blocks
  BY <1>1, BaseFacts, ScopesFact DEF TypeOK
<1>5. CASE ReportAndFail
  BY <1>2, <1>3, <1>5, FailStep
<1>6. CASE /\ pc' = "assert" /\ ragged' \in BOOLEAN
           /\ UNCHANGED <<line, frames, scopes, blocks, calls, skipDepth, skipCapture,
                          captureBuf, pending, errored, includeDepth, input, unterm>>
  <2>1. CallsKept
    BY <1>1, <1>6, SameCalls
  <2>2. Scalars' /\ PcShape'
    BY <1>1, <1>2, <1>6, PlainPc DEF TypeOK, Scalars, Final, Plain
  <2>. QED  BY <1>3, <1>6, <2>1, <2>2, QuietStep
<1>7. CASE HandleElse /\ ~ReportAndFail /\ pc' # "assert"
  <2>. DEFINE else == [Top(blocks) EXCEPT !.hadElse = TRUE, !.hasScope = FALSE]
  <2>1. /\ ~ElseRefused /\ Top(blocks).hasScope /\ blocks' = SetTop(else)
        /\ scopes' = PopScope /\ Report(PromoteClash) /\ skipDepth' = skipDepth + 1 /\ pc' = "run"
        /\ UNCHANGED <<line, frames, skipCapture, captureBuf, pending, includeDepth, input,
                       ragged, unterm>>
    BY <1>7 DEF HandleElse, Rest
  <2>2. HasBlock /\ TopKind = "if" /\ Top(blocks).kind = "if"
    BY <2>1 DEF ElseRefused, TopKind
  <2>3. else \in Blocks /\ else.kind = "if" /\ ~else.hasScope
    BY <1>4, <2>2 DEF Blocks
  <2>4. /\ BlocksKept /\ BlockShape' /\ Len(blocks') = Len(blocks)
        /\ blocks'[Len(blocks)] = else
        /\ \A k \in 1 .. Len(blocks) - 1 : blocks'[k] = blocks[k]
        /\ Cardinality(Branches(blocks')) = Cardinality(Branches(blocks)) - 1
        /\ Cardinality(Branches(blocks)) \in Nat
        /\ Cardinality(Branches(blocks')) \in Nat
    BY <1>1, <2>1, <2>2, <2>3, SetTopStep
  <2>5. scopes' \in Seq(Scopes) /\ Len(scopes') = Len(scopes) - 1 /\ PromoteClash \in BOOLEAN
    BY <1>1, <1>4, <2>1, PopScopeType
  <2>6. CallsKept /\ errored' \in BOOLEAN
    BY <1>1, <2>1, <2>5, ReportStep
  <2>7. FrameShape' /\ frames' \in Seq(Frames) /\ NestedFrames' = NestedFrames /\ NestedFrames \in Nat
    BY <1>1, <2>1, SameFrames
  <2>8. Settled'
    <3>. HIDE DEF else
    <3>. QED  BY <1>3, <1>4, <2>3, <2>4, SettledSet DEF BlocksKept
  <2>9. Scalars' /\ PcShape'
    BY <1>1, <1>2, <2>1, <2>6, PlainPc DEF TypeOK, Scalars, Running, Plain
  <2>10. Len(scopes') - NestedFrames' - Cardinality(Branches(blocks'))
           = Len(scopes) - NestedFrames - Cardinality(Branches(blocks))
    BY <1>4, <2>4, <2>5, <2>7
  <2>. QED  BY <1>3, <2>1, <2>4, <2>5, <2>6, <2>7, <2>8, <2>9, <2>10, SettledNext, MoveStep
<1>8. CASE HandleEnd /\ ~ReportAndFail /\ pc' # "assert"
  <2>1. /\ TopKind = "if" /\ PopIfBlock /\ pc' = "run"
        /\ ragged' \in BOOLEAN
        /\ UNCHANGED <<line, frames, skipDepth, skipCapture, captureBuf, pending,
                       includeDepth, input, unterm>>
    BY <1>8 DEF HandleEnd, ClosingRest
  <2>2. HasBlock
    BY <2>1 DEF TopKind
  <2>3. /\ BlocksKept /\ BlockShape' /\ CallsKept /\ errored' \in BOOLEAN
        /\ Len(blocks') = Len(blocks) - 1
        /\ \A k \in 1 .. Len(blocks) - 1 : blocks'[k] = blocks[k]
        /\ scopes' \in Seq(Scopes)
        /\ Cardinality(Branches(blocks)) \in Nat
        /\ Cardinality(Branches(blocks')) \in Nat
        /\ Len(scopes') - Cardinality(Branches(blocks'))
             = Len(scopes) - Cardinality(Branches(blocks))
    BY <1>1, <2>1, <2>2, PopIfBlockStep
  <2>4. FrameShape' /\ frames' \in Seq(Frames) /\ NestedFrames' = NestedFrames /\ NestedFrames \in Nat
    BY <1>1, <2>1, SameFrames
  <2>5. Settled'
    BY <1>3, <1>4, <2>2, <2>3, SettledPop DEF BlocksKept
  <2>6. Scalars' /\ PcShape'
    BY <1>1, <1>2, <2>1, <2>3, PlainPc DEF TypeOK, Scalars, Running, Plain
  <2>7. Len(scopes') \in Nat
    BY <2>3, LenProperties
  <2>8. Len(scopes') - NestedFrames' - Cardinality(Branches(blocks'))
          = Len(scopes) - NestedFrames - Cardinality(Branches(blocks))
    <3>1. /\ Len(scopes) \in Nat /\ NestedFrames \in Nat /\ NestedFrames' = NestedFrames
          /\ Cardinality(Branches(blocks)) \in Nat /\ Cardinality(Branches(blocks')) \in Nat
          /\ Len(scopes') - Cardinality(Branches(blocks'))
               = Len(scopes) - Cardinality(Branches(blocks))
      BY <1>4, <2>3, <2>4
    <3>. QED  BY ONLY <2>7, <3>1
  <2>. QED  BY <1>3, <2>1, <2>3, <2>4, <2>5, <2>6, <2>8, SettledNext, MoveStep
<1>9. CASE HandleFunc /\ ~ReportAndFail
  <2>. DEFINE func == [NewBlock("func") EXCEPT !.public = line.public]
  <2>1. /\ blocks' = Append(blocks, func) /\ captureBuf' = <<>> /\ skipCapture' = TRUE
        /\ skipDepth' = skipDepth + 1 /\ pc' = "run"
        /\ UNCHANGED <<line, frames, scopes, calls, pending, errored, includeDepth, input,
                       ragged, unterm>>
    BY <1>9 DEF HandleFunc, Rest
  <2>2. func \in Blocks /\ func.kind = "func" /\ ~func.hasScope
    BY <1>2, NewBlockType DEF Line, NewBlock
  <2>3. /\ BlocksKept /\ BlockShape' /\ Len(blocks') = Len(blocks) + 1
        /\ \A k \in 1 .. Len(blocks) : blocks'[k] = blocks[k]
        /\ blocks'[Len(blocks) + 1] = func
        /\ Cardinality(Branches(blocks')) = Cardinality(Branches(blocks))
        /\ Cardinality(Branches(blocks)) \in Nat
    BY <1>1, <2>1, <2>2, PushTopStep
  <2>4. Settled'
    <3>. HIDE DEF func
    <3>. QED  BY <1>3, <1>4, <2>2, <2>3, SettledPush DEF BlocksKept
  <2>5. FrameShape' /\ frames' \in Seq(Frames) /\ NestedFrames' = NestedFrames /\ NestedFrames \in Nat
    BY <1>1, <2>1, SameFrames
  <2>6. CallsKept
    BY <1>1, <2>1, SameCalls
  <2>7. captureBuf' \in Seq(Line)
    BY <2>1, EmptySeq
  <2>8. Scalars' /\ PcShape'
    BY <1>1, <1>2, <2>1, <2>7, PlainPc DEF TypeOK, Scalars, Running, Plain
  <2>. QED  BY <1>1, <1>3, <2>1, <2>3, <2>4, <2>5, <2>6, <2>8, SettledNext, MoveStep DEF TypeOK
<1>10. HandleElse \/ HandleEnd =>
          \/ ReportAndFail \/ pc' # "assert"
          \/ /\ pc' = "assert" /\ ragged' \in BOOLEAN
             /\ UNCHANGED <<line, frames, scopes, blocks, calls, skipDepth, skipCapture,
                            captureBuf, pending, errored, includeDepth, input, unterm>>
  BY <1>1 DEF HandleElse, HandleEnd, Rest, ClosingRest, TypeOK
<1>. QED  BY <1>5, <1>6, <1>7, <1>8, <1>9, <1>10

\* The condition frame of a #while, first and again.
LEMMA PushCondStep ==
    ASSUME IInv, frames # <<>>, PushCondFrame
    PROVE  /\ frames' \in Seq(Frames) /\ Len(frames') > 1 /\ frames' # <<>>
           /\ FrameShape' /\ scopes' \in Seq(Scopes)
           /\ Len(scopes') - NestedFrames' = Len(scopes) - NestedFrames
           /\ NestedFrames \in Nat /\ NestedFrames' \in Nat
<1>1. TypeOK /\ FrameShape /\ <<>> \in Seq(Line)
  BY EmptySeq DEF IInv
<1>2. /\ frames' = Append(frames, NewFrame("FRAME_CALL", FALSE, <<>>))
      /\ scopes' = PushScope(FALSE, NoSyms)
  BY DEF PushCondFrame
<1>. QED  BY <1>1, <1>2, SymsType, PushFrameStep

LEMMA HandleFrameStep ==
    ASSUME IInv, HandleWhile \/ HandleInclude \/ HandleVar
    PROVE  IInv'
<1>1. TypeOK /\ FrameShape /\ BlockShape /\ PcShape /\ CaptureShape /\ CallShape /\ Balance
  BY DEF IInv
<1>2. pc = "line" /\ line \in Line /\ frames # <<>>
  BY <1>1 DEF HandleWhile, HandleInclude, HandleVar, Active, TypeOK, PcShape
<1>3. Settled
  BY <1>1, <1>2, SettledNow
<1>4. Len(scopes) \in Nat /\ Len(scopes) > 1 /\ <<>> \in Seq(Line)
  BY <1>1, ScopesFact, EmptySeq
<1>5. CASE HandleWhile
  <2>1. CASE line.expr = "bad"
    BY <1>1, <1>3, <1>5, <2>1, FailStep, ChargeType DEF HandleWhile
  <2>2. CASE line.expr # "bad"
    <3>1. /\ PushCondFrame /\ Charge(EXPR_OPS) /\ pc' = "eval" /\ line.dir = "while"
          /\ UNCHANGED <<line, blocks, calls, skipDepth, skipCapture, captureBuf, pending,
                         errored, includeDepth, input, ragged, unterm>>
      BY <1>5, <2>2 DEF HandleWhile, Active, Rest
    <3>2. /\ frames' \in Seq(Frames) /\ Len(frames') > 1 /\ frames' # <<>>
          /\ FrameShape' /\ scopes' \in Seq(Scopes)
          /\ Len(scopes') - NestedFrames' = Len(scopes) - NestedFrames
          /\ NestedFrames \in Nat /\ NestedFrames' \in Nat
      BY <1>2, <3>1, PushCondStep
    <3>3. /\ BlocksKept /\ BlockShape'
          /\ Cardinality(Branches(blocks')) = Cardinality(Branches(blocks))
          /\ Cardinality(Branches(blocks)) \in Nat
      BY <1>1, <3>1, SameBlocks
    <3>4. CallsKept
      BY <1>1, <3>1, SameCalls
    <3>5. Scalars'
      BY <1>1, <3>1, ChargeType DEF TypeOK, Scalars, Running
    <3>6. PcShape'
      BY <3>1, <3>2 DEF PcShape, Evaluating
    <3>. QED  BY <1>3, <3>1, <3>2, <3>3, <3>4, <3>5, <3>6, SettledNext, MoveStep
  <2>. QED  BY <2>1, <2>2
<1>6. CASE HandleInclude
  <2>1. opCount' \in Nat
    BY <1>1, <1>6, ChargeType DEF HandleInclude
  <2>2. CASE ReportAndFail
    BY <1>3, <2>1, <2>2, FailStep
  <2>3. CASE ~ReportAndFail /\ line.expr \in {"bad", "unread"}
    <3>1. /\ pc' = "fail"
          /\ UNCHANGED <<line, frames, scopes, blocks, calls, skipDepth, skipCapture,
                         captureBuf, pending, errored, includeDepth, input, ragged, unterm>>
      BY <1>6, <2>3 DEF HandleInclude, Fail, Rest
    <3>2. CallsKept
      BY <1>1, <3>1, SameCalls
    <3>3. Scalars' /\ PcShape'
      BY <1>1, <2>1, <3>1, PlainPc DEF TypeOK, Scalars, Running, Plain
    <3>. QED  BY <1>3, <3>1, <3>2, <3>3, QuietStep
  <2>4. CASE ~ReportAndFail /\ line.expr \notin {"bad", "unread"}
    <3>1. /\ includeDepth' = includeDepth + 1 /\ pc' = "run"
          /\ frames' = Append(frames, NewFrame("FRAME_CALL", TRUE, <<>>))
          /\ scopes' = PushScope(TRUE, NoSyms)
          /\ UNCHANGED <<line, blocks, calls, skipDepth, skipCapture, captureBuf,
                         pending, errored, input, ragged, unterm>>
      BY <1>6, <2>4 DEF HandleInclude
    <3>2. /\ frames' \in Seq(Frames)
          /\ FrameShape' /\ scopes' \in Seq(Scopes)
          /\ Len(scopes') - NestedFrames' = Len(scopes) - NestedFrames
          /\ NestedFrames \in Nat /\ NestedFrames' \in Nat
      BY <1>1, <1>2, <1>4, <3>1, SymsType, PushFrameStep
    <3>3. /\ BlocksKept /\ BlockShape'
          /\ Cardinality(Branches(blocks')) = Cardinality(Branches(blocks))
          /\ Cardinality(Branches(blocks)) \in Nat
      BY <1>1, <3>1, SameBlocks
    <3>4. CallsKept
      BY <1>1, <3>1, SameCalls
    <3>5. Scalars' /\ PcShape'
      BY <1>1, <2>1, <3>1, PlainPc DEF TypeOK, Scalars, Running, Plain
    <3>. QED  BY <1>3, <3>1, <3>2, <3>3, <3>4, <3>5, SettledNext, MoveStep
  <2>. QED  BY <2>2, <2>3, <2>4
<1>7. CASE HandleVar
  <2>1. CASE ReportAndFail
    <3>1. opCount' \in Nat
      BY <1>1, <1>7, <2>1, ChargeType DEF HandleVar, BeginEval
    <3>. QED  BY <1>3, <2>1, <3>1, FailStep
  <2>2. CASE BeginEval
    <3>1. line.dir = "var" /\ UNCHANGED <<frames, pending>>
      BY <1>7, <2>2 DEF HandleVar, Active, BeginEval, ReportAndFail, Fail
    <3>. QED  BY <1>1, <1>2, <2>2, <3>1, BeginEvalStep DEF TypeOK
  <2>3. CASE ~ReportAndFail /\ ~BeginEval
    <3>1. /\ Charge(0) /\ scopes' = Assign("x", line.public, <<>>) /\ pc' = "run"
          /\ UNCHANGED <<line, frames, blocks, calls, skipDepth, skipCapture, captureBuf,
                         pending, errored, includeDepth, input, ragged, unterm>>
      BY <1>7, <2>3 DEF HandleVar, Rest
    <3>2. scopes' \in Seq(Scopes) /\ Len(scopes') = Len(scopes)
      BY <1>1, <1>2, <1>4, <3>1, AssignType DEF Line, Names
    <3>3. /\ BlocksKept /\ BlockShape'
          /\ Cardinality(Branches(blocks')) = Cardinality(Branches(blocks))
          /\ Cardinality(Branches(blocks)) \in Nat
      BY <1>1, <3>1, SameBlocks
    <3>4. CallsKept
      BY <1>1, <3>1, SameCalls
    <3>5. FrameShape' /\ frames' \in Seq(Frames) /\ NestedFrames' = NestedFrames /\ NestedFrames \in Nat
      BY <1>1, <3>1, SameFrames
    <3>6. Scalars' /\ PcShape'
      BY <1>1, <3>1, ChargeType, PlainPc DEF TypeOK, Scalars, Running, Plain
    <3>. QED  BY <1>3, <3>1, <3>2, <3>3, <3>4, <3>5, <3>6, SettledNext, MoveStep
  <2>. QED  BY <2>1, <2>2, <2>3
<1>. QED  BY <1>5, <1>6, <1>7

-----------------------------------------------------------------------------
(* Evaluation, and the handlers that waited for it *)

\* What a lookup finds is an entry of some scope.
LEMMA VisibleFound ==
    ASSUME TypeOK, NEW name \in Names, Visible(name)
    PROVE  \E k \in DOMAIN scopes : Lookup(name) = scopes[k].syms[name]
<1>1. /\ DOMAIN scopes = 1 .. Len(scopes) /\ Len(scopes) \in Nat
      /\ \A k \in 1 .. Len(scopes) : scopes[k] \in Scopes
  BY LenProperties, ElementOfSeq DEF TypeOK
<1>2. \E k \in 1 .. Len(scopes) :
         /\ Defined(scopes[k], name)
         /\ \A j \in k + 1 .. Len(scopes) : ~Defined(scopes[j], name)
  <2>. DEFINE holds == {k \in 1 .. Len(scopes) : Defined(scopes[k], name)}
  <2>1. holds # {}
    BY DEF Visible
  <2>2. PICK k \in holds : \A j \in holds : j <= k
    BY <1>1, <2>1, Innermost
  <2>3. \A j \in k + 1 .. Len(scopes) : j \in 1 .. Len(scopes) /\ ~(j <= k)
    BY <1>1, <2>2
  <2>. QED  BY <2>2, <2>3
<1>. DEFINE k == CHOOSE k \in 1 .. Len(scopes) :
                    /\ Defined(scopes[k], name)
                    /\ \A j \in k + 1 .. Len(scopes) : ~Defined(scopes[j], name)
<1>3. k \in 1 .. Len(scopes) /\ Lookup(name) = scopes[k].syms[name]
  BY <1>2 DEF Lookup
<1>. HIDE DEF k
<1>. QED  BY <1>1, <1>3

LEMMA VisibleBody ==
    ASSUME TypeOK, NEW name \in Names, Visible(name)
    PROVE  Lookup(name).body \in Seq(Line)
<1>1. PICK k \in DOMAIN scopes : Lookup(name) = scopes[k].syms[name]
  BY VisibleFound
<1>2. scopes[k] \in Scopes
  BY LenProperties, ElementOfSeq DEF TypeOK
<1>3. scopes[k].syms[name] \in Symbols
  BY <1>2 DEF Scopes
<1>. QED  BY <1>1, <1>3 DEF Symbols

LEMMA EvalCallStep ==
    ASSUME IInv, EvalCall
    PROVE  IInv'
<1>1. TypeOK /\ FrameShape /\ BlockShape /\ PcShape /\ CaptureShape /\ CallShape /\ Balance
  BY DEF IInv
<1>. DEFINE call == [line |-> line, base |-> Len(blocks), skip |-> skipDepth,
                     caller |-> Len(frames), gone |-> FALSE, returned |-> FALSE,
                     clean |-> TRUE]
<1>2. /\ pc = "eval" /\ frames # <<>> /\ Visible("f") /\ calls' = Append(calls, call)
      /\ skipDepth' = 0
      /\ frames' = Append(frames, NewFrame("FRAME_CALL", FALSE, Lookup("f").body))
      /\ scopes' = PushScope(FALSE, Binding("p"))
      /\ opCount' = opCount + EXPR_OPS /\ pc' = "run"
      /\ UNCHANGED <<line, blocks, skipCapture, captureBuf, pending, errored,
                     includeDepth, input, ragged, unterm>>
  BY <1>1 DEF EvalCall, Rest, PcShape
<1>3. /\ Len(frames) \in Nat /\ Len(blocks) \in Nat /\ Len(scopes) \in Nat /\ Len(calls) \in Nat
      /\ DOMAIN calls = 1 .. Len(calls)
      /\ Cardinality(Branches(blocks)) \in Nat
  BY <1>1, LenProperties, BranchCount DEF TypeOK
<1>4. call \in CallFrames
  BY <1>1, <1>3 DEF CallFrames, TypeOK
<1>5. Lookup("f").body \in Seq(Line)
  BY <1>1, <1>2, VisibleBody DEF Names
<1>6. Binding("p") \in [Names -> Symbols]
  <2>1. Len(scopes) + 1 \in Nat
    BY <1>3
  <2>. QED  BY <2>1, SymsType DEF Binding, Names
<1>7. /\ frames' \in Seq(Frames) /\ FrameShape' /\ scopes' \in Seq(Scopes)
      /\ Len(scopes') - NestedFrames' = Len(scopes) - NestedFrames
      /\ NestedFrames \in Nat /\ NestedFrames' \in Nat
  BY <1>1, <1>2, <1>5, <1>6, PushFrameStep
<1>8. /\ BlockShape' /\ blocks' \in Seq(Blocks)
      /\ Cardinality(Branches(blocks')) = Cardinality(Branches(blocks))
  BY <1>1, <1>2, SameBlocks DEF BlocksKept
<1>9. Balance'
  BY <1>1, <1>2, <1>3, <1>7, <1>8, BalanceStep DEF TypeOK
<1>10. Scalars' /\ PcShape'
  BY <1>1, <1>2, PlainPc DEF TypeOK, Scalars, Running, Plain, EXPR_OPS
<1>11. CaptureShape'
  BY <1>1, <1>2, SettledNow, SettledNext
<1>12. /\ calls' \in Seq(CallFrames) /\ Len(calls') = Len(calls) + 1
       /\ \A c \in 1 .. Len(calls) : calls'[c] = calls[c]
       /\ calls'[Len(calls) + 1] = call
  BY <1>1, <1>2, <1>4, AppendProperties DEF TypeOK
<1>13. DOMAIN calls' = 1 .. Len(calls) + 1
  BY <1>12, LenProperties
<1>14. /\ BlockBase \in Nat /\ BlockBase <= Len(blocks)
       /\ \A c \in 1 .. Len(calls) : calls[c].base \in Nat /\ calls[c].base <= BlockBase
       /\ calls # <<>> => Len(calls) > 0 /\ BlockBase = calls[Len(calls)].base
  BY <1>1, BaseFacts
<1>15. /\ call.base = Len(blocks) /\ call.line = line /\ call.caller = Len(frames)
  OBVIOUS
<1>. HIDE DEF call
<1>16. ASSUME NEW c \in 1 .. Len(calls)
       PROVE  /\ calls'[c].base <= Len(blocks')
              /\ \A d \in 1 .. c : calls'[d].base <= calls'[c].base
              /\ calls'[c].line.dir = "return" => c > 1
              /\ calls'[c].line.dir \in {"while", "again"} => calls'[c].caller > 1
              /\ calls'[c].line.dir \in {"again", "elif"} =>
                    /\ calls'[c].base > 0 /\ (c > 1 => calls'[c].base > calls'[c - 1].base)
                    /\ blocks'[calls'[c].base].kind =
                         IF calls'[c].line.dir = "again" THEN "while" ELSE "if"
  <2>1. /\ \A d \in 1 .. c : d \in 1 .. Len(calls)
        /\ c > 1 => c - 1 \in 1 .. Len(calls)
    BY <1>3
  <2>. QED  BY <1>1, <1>2, <1>3, <1>12, <2>1 DEF CallShape
<1>17. ASSUME NEW c, c = Len(calls) + 1
       PROVE  /\ calls'[c].base <= Len(blocks')
              /\ \A d \in 1 .. c : calls'[d].base <= calls'[c].base
              /\ calls'[c].line.dir = "return" => c > 1
              /\ calls'[c].line.dir \in {"while", "again"} => calls'[c].caller > 1
              /\ calls'[c].line.dir \in {"again", "elif"} =>
                    /\ calls'[c].base > 0 /\ (c > 1 => calls'[c].base > calls'[c - 1].base)
                    /\ blocks'[calls'[c].base].kind =
                         IF calls'[c].line.dir = "again" THEN "while" ELSE "if"
  <2>1. /\ calls'[c].base = Len(blocks) /\ calls'[c].line = line /\ calls'[c].caller = Len(frames)
        /\ Len(blocks') = Len(blocks)
    BY <1>2, <1>12, <1>15, <1>17
  <2>2. \A d \in 1 .. c : calls'[d].base <= Len(blocks)
    <3>1. \A d \in 1 .. c : d \in 1 .. Len(calls) \/ d = c
      BY <1>3, <1>17
    <3>. QED  BY <1>3, <1>12, <1>14, <2>1, <3>1
  <2>3. line.dir = "return" => c > 1
    BY <1>1, <1>2, <1>3, <1>14, <1>17 DEF PcShape, Evaluating
  <2>4. line.dir \in {"while", "again"} => Len(frames) > 1
    BY <1>1, <1>2 DEF PcShape, Evaluating
  <2>5. ASSUME line.dir \in {"again", "elif"}
        PROVE  /\ Len(blocks) > BlockBase
               /\ blocks[Len(blocks)].kind = IF line.dir = "again" THEN "while" ELSE "if"
    BY <1>1, <1>2, <2>5 DEF PcShape, Evaluating, TopKind, HasBlock, Top
  <2>6. ASSUME c > 1, Len(blocks) > BlockBase
        PROVE  Len(blocks) > calls'[c - 1].base
    <3>1. c - 1 \in 1 .. Len(calls)
      BY <1>3, <1>17, <2>6
    <3>. QED  BY <1>3, <1>12, <1>14, <2>6, <3>1
  <2>7. ASSUME line.dir \in {"again", "elif"}
        PROVE  /\ Len(blocks) > 0 /\ (c > 1 => Len(blocks) > calls'[c - 1].base)
               /\ blocks'[Len(blocks)].kind = IF line.dir = "again" THEN "while" ELSE "if"
    <3>1. Len(blocks) > BlockBase
      BY <2>5, <2>7
    <3>2. blocks'[Len(blocks)].kind = IF line.dir = "again" THEN "while" ELSE "if"
      BY <1>2, <2>5, <2>7
    <3>3. Len(blocks) > 0 /\ (c > 1 => Len(blocks) > calls'[c - 1].base)
      BY <1>3, <1>14, <2>6, <3>1
    <3>. QED  BY <3>2, <3>3
  <2>8. Len(blocks) <= Len(blocks')
    BY <1>3, <2>1
  <2>. QED  BY ONLY <2>1, <2>2, <2>3, <2>4, <2>7, <2>8
<1>18. CallShape'
  <2>1. \A c \in DOMAIN calls' : c \in 1 .. Len(calls) \/ c = Len(calls) + 1
    BY <1>3, <1>13
  <2>. QED  BY <1>16, <1>17, <2>1 DEF CallShape
<1>19. TypeOK'
  BY <1>7, <1>8, <1>10, <1>12, TypeStep
<1>. QED  BY <1>7, <1>8, <1>9, <1>10, <1>11, <1>18, <1>19 DEF IInv

LEMMA EvalQuietStep ==
    ASSUME IInv, EvalRejected \/ CondFrameGone \/ ReturnValue \/ ErrorDirective
    PROVE  IInv'
<1>1. TypeOK /\ FrameShape /\ BlockShape /\ PcShape /\ CaptureShape /\ CallShape /\ Balance
  BY DEF IInv
<1>2. pc \in {"eval", "value"} /\ Settled
  BY <1>1, SettledNow DEF EvalRejected, CondFrameGone, ReturnValue, ErrorDirective, ValueOf
<1>3. CASE EvalRejected
  <2>1. /\ Report(TRUE) /\ pc' = "evalfail" /\ pc = "eval"
        /\ UNCHANGED <<line, frames, scopes, blocks, skipDepth, skipCapture, captureBuf,
                       pending, opCount, includeDepth, input, ragged, unterm>>
    BY <1>3 DEF EvalRejected, Rest
  <2>2. CallsKept /\ errored' \in BOOLEAN
    BY <1>1, <2>1, ReportStep
  <2>3. TopKind' = TopKind /\ (calls' = <<>> <=> calls = <<>>)
    BY <2>1, <2>2, StillStep
  <2>4. Scalars'
    BY <1>1, <2>1, <2>2 DEF TypeOK, Scalars, Running
  <2>5. PcShape'
    BY <1>1, <2>1, <2>3 DEF PcShape, Evaluating
  <2>. QED  BY <1>2, <2>1, <2>2, <2>4, <2>5, QuietStep
<1>4. CASE CondFrameGone
  <2>1. /\ pc' = "crash"
        /\ UNCHANGED <<line, frames, scopes, blocks, calls, skipDepth, skipCapture,
                       captureBuf, pending, opCount, errored, includeDepth, input, ragged, unterm>>
    BY <1>4 DEF CondFrameGone, Rest
  <2>2. CallsKept
    BY <1>1, <2>1, SameCalls
  <2>3. Scalars' /\ PcShape'
    BY <1>1, <2>1, PlainPc DEF TypeOK, Scalars, Final, Plain
  <2>. QED  BY <1>2, <2>1, <2>2, <2>3, QuietStep
<1>5. CASE ReturnValue
  <2>. DEFINE top == [calls[Len(calls)] EXCEPT !.returned = TRUE]
  <2>1. /\ calls' = [calls EXCEPT ![Len(calls)].returned = TRUE]
        /\ pc' = "cleanup" /\ line.dir = "return"
        /\ UNCHANGED <<line, frames, scopes, blocks, skipDepth, skipCapture, captureBuf,
                       pending, opCount, errored, includeDepth, input, ragged, unterm>>
    BY <1>5 DEF ReturnValue, ValueOf, Rest
  <2>2. calls # <<>>
    BY <1>1, <1>2, <2>1 DEF PcShape, Evaluating
  <2>3. /\ Len(calls) \in 1 .. Len(calls) /\ Len(calls) > 0
        /\ \A c \in 1 .. Len(calls) : calls[c] \in CallFrames
    BY <1>1, <2>2, EmptySeq, LenProperties, ElementOfSeq DEF TypeOK
  <2>4. /\ top \in CallFrames /\ top.base = calls[Len(calls)].base
        /\ top.line = calls[Len(calls)].line /\ top.caller = calls[Len(calls)].caller
    BY <2>3 DEF CallFrames
  <2>5. calls' = [calls EXCEPT ![Len(calls)] = top]
    BY <2>1, <2>3
  <2>. HIDE DEF top
  <2>6. /\ calls' \in Seq(CallFrames) /\ Len(calls') = Len(calls)
        /\ \A c \in 1 .. Len(calls) : calls'[c] = IF c = Len(calls) THEN top ELSE calls[c]
    BY <1>1, <2>3, <2>4, <2>5, ExceptSeq DEF TypeOK
  <2>7. CallsKept
    BY <2>4, <2>6 DEF CallsKept
  <2>8. calls' # <<>>
    BY <2>1, <2>2, <2>7, StillStep
  <2>9. Scalars' /\ PcShape'
    BY <1>1, <2>1, <2>8 DEF TypeOK, Scalars, Running, PcShape, Evaluating
  <2>. QED  BY <1>2, <2>1, <2>7, <2>9, QuietStep
<1>6. CASE ErrorDirective
  BY <1>1, <1>2, <1>6, FailStep DEF ErrorDirective, TypeOK
<1>. QED  BY <1>3, <1>4, <1>5, <1>6

LEMMA EvalFailedStep ==
    ASSUME IInv, EvalFailed
    PROVE  IInv'
<1>1. TypeOK /\ FrameShape /\ BlockShape /\ PcShape /\ CaptureShape /\ CallShape /\ Balance
  BY DEF IInv
<1>2. /\ pc = "evalfail"
      /\ UNCHANGED <<line, blocks, skipDepth, skipCapture, captureBuf, pending, opCount,
                     input, ragged, unterm>>
  BY DEF EvalFailed
<1>3. Settled
  BY <1>1, <1>2, SettledNow
<1>4. CASE frames # <<>> /\ PopFrame /\ pc' = "fail"
  <2>1. /\ frames' \in Seq(Frames) /\ FrameShape' /\ scopes' \in Seq(Scopes)
        /\ Len(scopes') - NestedFrames' = Len(scopes) - NestedFrames
        /\ NestedFrames \in Nat /\ NestedFrames' \in Nat
        /\ includeDepth' \in Nat /\ errored' \in BOOLEAN /\ CallsKept
    BY <1>1, <1>4, PopFrameStep
  <2>2. /\ BlocksKept /\ BlockShape'
        /\ Cardinality(Branches(blocks')) = Cardinality(Branches(blocks))
        /\ Cardinality(Branches(blocks)) \in Nat
    BY <1>1, <1>2, SameBlocks
  <2>3. Scalars' /\ PcShape'
    BY <1>1, <1>2, <1>4, <2>1, PlainPc DEF TypeOK, Scalars, Running, Plain
  <2>. QED  BY <1>2, <1>3, <2>1, <2>2, <2>3, SettledNext, MoveStep
<1>5. CASE /\ pc' \in {"fail", "crash"}
           /\ UNCHANGED <<frames, scopes, calls, errored, includeDepth>>
  <2>1. CallsKept
    BY <1>1, <1>5, SameCalls
  <2>2. Scalars' /\ PcShape'
    BY <1>1, <1>2, <1>5, PlainPc DEF TypeOK, Scalars, Running, Final, Plain
  <2>. QED  BY <1>2, <1>3, <1>5, <2>1, <2>2, QuietStep
<1>. QED  BY <1>4, <1>5 DEF EvalFailed, Fail

LEMMA DirectiveValueStep ==
    ASSUME IInv, DirectiveValue
    PROVE  IInv'
<1>1. TypeOK /\ FrameShape /\ BlockShape /\ PcShape /\ CaptureShape /\ CallShape /\ Balance
  BY DEF IInv
<1>2. /\ pc \in {"eval", "value"} /\ pc' = "run"
      /\ scopes' = IF line.dir = "var" THEN Assign("x", line.public, <<>>) ELSE scopes
      /\ pending' = IF line.dir = "emit" THEN pending + 1 ELSE pending
      /\ UNCHANGED <<line, frames, blocks, calls, skipDepth, skipCapture, captureBuf,
                     opCount, errored, includeDepth, input, ragged, unterm>>
  BY DEF DirectiveValue, ValueOf, Rest
<1>3. Settled
  BY <1>1, <1>2, SettledNow
<1>4. Len(scopes) \in Nat /\ Len(scopes) > 1 /\ <<>> \in Seq(Line) /\ line.public \in BOOLEAN
  BY <1>1, ScopesFact, EmptySeq DEF TypeOK, Line
<1>5. scopes' \in Seq(Scopes) /\ Len(scopes') = Len(scopes)
  BY <1>1, <1>2, <1>4, AssignType DEF Names, TypeOK
<1>6. /\ BlocksKept /\ BlockShape'
      /\ Cardinality(Branches(blocks')) = Cardinality(Branches(blocks))
      /\ Cardinality(Branches(blocks)) \in Nat
  BY <1>1, <1>2, SameBlocks
<1>7. CallsKept
  BY <1>1, <1>2, SameCalls
<1>8. FrameShape' /\ frames' \in Seq(Frames) /\ NestedFrames' = NestedFrames /\ NestedFrames \in Nat
  BY <1>1, <1>2, SameFrames
<1>9. Scalars' /\ PcShape'
  BY <1>1, <1>2, PlainPc DEF TypeOK, Scalars, Running, Plain
<1>. QED  BY <1>2, <1>3, <1>4, <1>5, <1>6, <1>7, <1>8, <1>9, SettledNext, MoveStep

LEMMA DirectiveCondStep ==
    ASSUME IInv, DirectiveCond
    PROVE  IInv'
<1>1. TypeOK /\ FrameShape /\ BlockShape /\ PcShape /\ CaptureShape /\ CallShape /\ Balance
  BY DEF IInv
<1>2. pc \in {"eval", "value"} /\ Settled
  BY <1>1, SettledNow DEF DirectiveCond, ValueOf
<1>3. /\ Len(scopes) \in Nat /\ blocks \in Seq(Blocks) /\ <<>> \in Seq(Line) /\ line.expr \in Exprs
      /\ Len(blocks) \in Nat
  BY <1>1, ScopesFact, EmptySeq, LenProperties DEF TypeOK, Line
<1>4. ASSUME NEW cond \in BOOLEAN, IfBranch(cond)
      PROVE  IInv'
  <2>. DEFINE if == [NewBlock("if") EXCEPT !.taken = cond, !.hasScope = cond]
  <2>1. /\ blocks' = Append(blocks, if) /\ pc' = "run"
        /\ scopes' = IF cond THEN PushScope(TRUE, NoSyms) ELSE scopes
        /\ skipDepth' = IF cond THEN skipDepth ELSE skipDepth + 1
        /\ UNCHANGED <<line, frames, calls, skipCapture, captureBuf, pending, opCount,
                       errored, includeDepth, input, ragged, unterm>>
    BY <1>4 DEF IfBranch, Rest
  <2>2. if \in Blocks /\ if.kind = "if" /\ (if.hasScope <=> cond)
    BY NewBlockType DEF NewBlock
  <2>. HIDE DEF if
  <2>3. /\ BlocksKept /\ BlockShape' /\ Len(blocks') = Len(blocks) + 1
        /\ \A k \in 1 .. Len(blocks) : blocks'[k] = blocks[k]
        /\ blocks'[Len(blocks) + 1] = if
        /\ if.hasScope => Cardinality(Branches(blocks')) = Cardinality(Branches(blocks)) + 1
        /\ ~if.hasScope => Cardinality(Branches(blocks')) = Cardinality(Branches(blocks))
        /\ Cardinality(Branches(blocks)) \in Nat /\ Cardinality(Branches(blocks')) \in Nat
    BY <1>1, <2>1, <2>2, PushTopStep
  <2>4. Settled'
    BY <1>2, <1>3, <2>2, <2>3, SettledPush DEF BlocksKept
  <2>5. FrameShape' /\ frames' \in Seq(Frames) /\ NestedFrames' = NestedFrames /\ NestedFrames \in Nat
    BY <1>1, <2>1, SameFrames
  <2>6. CallsKept
    BY <1>1, <2>1, SameCalls
  <2>7. Scalars' /\ PcShape'
    BY <1>1, <2>1, PlainPc DEF TypeOK, Scalars, Running, Plain
  <2>8. CASE cond
    <3>1. scopes' \in Seq(Scopes) /\ Len(scopes') = Len(scopes) + 1
      BY <1>1, <2>1, <2>8, SymsType, PushScopeType
    <3>2. Cardinality(Branches(blocks')) = Cardinality(Branches(blocks)) + 1
      BY <2>2, <2>3, <2>8
    <3>3. Len(scopes') - NestedFrames' - Cardinality(Branches(blocks'))
            = Len(scopes) - NestedFrames - Cardinality(Branches(blocks))
      BY <1>3, <2>3, <2>5, <3>1, <3>2
    <3>. QED  BY <1>2, <2>1, <2>3, <2>4, <2>5, <2>6, <2>7, <3>1, <3>3, SettledNext, MoveStep
  <2>9. CASE ~cond
    <3>1. scopes' = scopes
      BY <2>1, <2>9
    <3>2. Cardinality(Branches(blocks')) = Cardinality(Branches(blocks))
      BY <2>2, <2>3, <2>9
    <3>. QED  BY <1>1, <1>2, <2>1, <2>3, <2>4, <2>5, <2>6, <2>7, <3>1, <3>2, SettledNext,
                 MoveStep DEF TypeOK
  <2>. QED  BY <2>8, <2>9
<1>5. ASSUME NEW loop \in Blocks, BeginLoop(loop), ~loop.hasScope,
             loop.kind = "for" /\ loop.capturing => loop.body = <<>> /\ loop.left > 0,
             FrameShape', frames' \in Seq(Frames), scopes' \in Seq(Scopes), CallsKept,
             NestedFrames \in Nat, NestedFrames' \in Nat,
             Len(scopes') - NestedFrames' = Len(scopes) - NestedFrames,
             errored' \in BOOLEAN, includeDepth' \in Nat
      PROVE  IInv'
  <2>1. /\ blocks' = Append(blocks, loop) /\ skipDepth' = skipDepth + 1 /\ pc' = "run"
        /\ captureBuf' = IF loop.capturing THEN <<>> ELSE captureBuf
        /\ skipCapture' = IF loop.capturing THEN TRUE ELSE skipCapture
        /\ UNCHANGED <<line, pending, opCount, input, ragged, unterm>>
    BY <1>5 DEF BeginLoop
  <2>2. /\ BlocksKept /\ BlockShape' /\ Len(blocks') = Len(blocks) + 1
        /\ \A k \in 1 .. Len(blocks) : blocks'[k] = blocks[k]
        /\ blocks'[Len(blocks) + 1] = loop
        /\ Cardinality(Branches(blocks')) = Cardinality(Branches(blocks))
        /\ Cardinality(Branches(blocks)) \in Nat
    BY <1>1, <1>5, <2>1, PushTopStep
  <2>3. Settled'
    BY <1>2, <1>3, <1>5, <2>2, SettledPush DEF BlocksKept
  <2>4. captureBuf' \in Seq(Line) /\ skipCapture' \in BOOLEAN
    BY <1>1, <1>3, <2>1 DEF TypeOK
  <2>5. Scalars' /\ PcShape'
    <3>1. errored' \in BOOLEAN /\ includeDepth' \in Nat
      BY <1>5
    <3>2. pc' = "run" /\ skipDepth' = skipDepth + 1
          /\ UNCHANGED <<line, pending, opCount, input, ragged, unterm>>
      BY <2>1
    <3>. QED  BY <1>1, <2>4, <3>1, <3>2, PlainPc DEF TypeOK, Scalars, Running, Plain
  <2>. QED  BY <1>2, <1>5, <2>1, <2>2, <2>3, <2>5, SettledNext, MoveStep
<1>6. ASSUME NEW cond \in BOOLEAN, WhileFirst(cond)
      PROVE  IInv'
  <2>. DEFINE loop == [NewBlock("while") EXCEPT !.capturing = cond, !.cond = line.expr]
  <2>1. frames # <<>> /\ BeginLoop(loop) /\ PopFrame
    BY <1>6 DEF WhileFirst
  <2>2. loop \in Blocks /\ loop.kind = "while" /\ ~loop.hasScope
    BY <1>3, NewBlockType DEF NewBlock
  <2>. HIDE DEF loop
  <2>3. /\ frames' \in Seq(Frames) /\ FrameShape' /\ scopes' \in Seq(Scopes)
        /\ Len(scopes') - NestedFrames' = Len(scopes) - NestedFrames
        /\ NestedFrames \in Nat /\ NestedFrames' \in Nat
        /\ includeDepth' \in Nat /\ errored' \in BOOLEAN /\ CallsKept
    BY <1>1, <2>1, PopFrameStep
  <2>. QED  BY <1>5, <2>1, <2>2, <2>3
<1>7. ASSUME NEW count \in 0 .. MaxItems, ForItems(count)
      PROVE  IInv'
  <2>. DEFINE loop == [NewBlock("for") EXCEPT !.capturing = count # 0, !.left = count]
  <2>1. BeginLoop(loop) /\ UNCHANGED <<frames, scopes, calls, errored, includeDepth>>
    BY <1>7 DEF ForItems
  <2>2. count \in Nat
    BY LimitAssumption
  <2>3. /\ loop \in Blocks /\ loop.kind = "for" /\ ~loop.hasScope
        /\ loop.body = <<>> /\ (loop.capturing => loop.left > 0)
    <3>1. loop \in Blocks
      BY <2>2, NewBlockType
    <3>2. loop.kind = "for" /\ ~loop.hasScope /\ loop.body = <<>> /\ loop.left = count
      BY DEF NewBlock
    <3>3. loop.capturing => count # 0
      BY DEF NewBlock
    <3>. HIDE DEF loop
    <3>. QED  BY <2>2, <3>1, <3>2, <3>3
  <2>. HIDE DEF loop
  <2>4. FrameShape' /\ frames' \in Seq(Frames) /\ NestedFrames' = NestedFrames /\ NestedFrames \in Nat
    BY <1>1, <2>1, SameFrames
  <2>5. CallsKept /\ scopes' \in Seq(Scopes) /\ errored' \in BOOLEAN /\ includeDepth' \in Nat
    BY <1>1, <2>1, SameCalls DEF TypeOK
  <2>6. Len(scopes') - NestedFrames' = Len(scopes) - NestedFrames
    BY <2>1, <2>4
  <2>. QED  BY <1>5, <2>1, <2>3, <2>4, <2>5, <2>6
<1>. QED  BY <1>4, <1>6, <1>7 DEF DirectiveCond

\* _el_pp_enter_if_branch opens the branch's scope.
LEMMA EnterIfBranchStep ==
    ASSUME IInv, Settled, TopKind = "if", ~Top(blocks).hasScope,
           NEW state \in Blocks, state.kind = "if", EnterIfBranch(state)
    PROVE  /\ BlocksKept /\ BlockShape' /\ Settled' /\ scopes' \in Seq(Scopes)
           /\ Cardinality(Branches(blocks)) \in Nat /\ Cardinality(Branches(blocks')) \in Nat
           /\ Len(scopes') = Len(scopes) + 1 /\ Len(scopes) \in Nat
           /\ Cardinality(Branches(blocks')) = Cardinality(Branches(blocks)) + 1
<1>1. TypeOK /\ BlockShape /\ CallShape /\ Balance
  BY DEF IInv
<1>. DEFINE if == [state EXCEPT !.taken = TRUE, !.hasScope = TRUE]
<1>2. blocks' = SetTop(if) /\ scopes' = PushScope(TRUE, NoSyms)
  BY DEF EnterIfBranch
<1>3. if \in Blocks /\ if.kind = "if" /\ if.hasScope
  BY DEF Blocks
<1>. HIDE DEF if
<1>4. HasBlock /\ Top(blocks).kind = "if"
  BY DEF TopKind
<1>5. /\ BlocksKept /\ BlockShape' /\ Len(blocks') = Len(blocks)
      /\ blocks'[Len(blocks)] = if
      /\ \A k \in 1 .. Len(blocks) - 1 : blocks'[k] = blocks[k]
      /\ Cardinality(Branches(blocks')) = Cardinality(Branches(blocks)) + 1
      /\ Cardinality(Branches(blocks)) \in Nat
      /\ Cardinality(Branches(blocks')) \in Nat
  BY <1>1, <1>2, <1>3, <1>4, SetTopStep
<1>6. Settled'
  BY <1>1, <1>3, <1>5, SettledSet DEF BlocksKept, TypeOK
<1>7. scopes' \in Seq(Scopes) /\ Len(scopes') = Len(scopes) + 1
  BY <1>1, <1>2, SymsType, PushScopeType
<1>. QED  BY <1>1, <1>5, <1>6, <1>7, ScopesFact

LEMMA ElifCondStep ==
    ASSUME IInv, ElifCond
    PROVE  IInv'
<1>1. TypeOK /\ FrameShape /\ BlockShape /\ PcShape /\ CaptureShape /\ CallShape /\ Balance
  BY DEF IInv
<1>2. /\ pc \in {"eval", "value"} /\ line.dir = "elif"
      /\ UNCHANGED <<line, frames, calls, skipCapture, captureBuf, pending, opCount,
                     errored, includeDepth, input, ragged, unterm>>
  BY DEF ElifCond, ValueOf, Rest
<1>3. Settled /\ TopKind = "if"
  BY <1>1, <1>2, SettledNow DEF PcShape, Evaluating
<1>4. CallsKept
  BY <1>1, <1>2, SameCalls
<1>5. CASE UNCHANGED <<scopes, blocks, skipDepth>> /\ pc' \in {"run", "assert"}
  <2>1. Scalars' /\ PcShape'
    BY <1>1, <1>2, <1>5, PlainPc DEF TypeOK, Scalars, Running, Final, Plain
  <2>. QED  BY <1>2, <1>3, <1>4, <1>5, <2>1, QuietStep
<1>6. CASE ~Top(blocks).hasScope /\ EnterIfBranch(Top(blocks)) /\ pc' = "run"
  <2>1. Top(blocks) \in Blocks /\ Top(blocks).kind = "if"
    BY <1>1, <1>3, BaseFacts DEF TopKind
  <2>2. /\ BlocksKept /\ BlockShape' /\ Settled' /\ scopes' \in Seq(Scopes)
        /\ Cardinality(Branches(blocks)) \in Nat /\ Cardinality(Branches(blocks')) \in Nat
        /\ Len(scopes') = Len(scopes) + 1 /\ Len(scopes) \in Nat
        /\ Cardinality(Branches(blocks')) = Cardinality(Branches(blocks)) + 1
    BY <1>3, <1>6, <2>1, EnterIfBranchStep
  <2>3. FrameShape' /\ frames' \in Seq(Frames) /\ NestedFrames' = NestedFrames /\ NestedFrames \in Nat
    BY <1>1, <1>2, SameFrames
  <2>4. skipDepth' \in Nat
    BY <1>6 DEF EnterIfBranch
  <2>5. Scalars' /\ PcShape'
    BY <1>1, <1>2, <1>6, <2>4, PlainPc DEF TypeOK, Scalars, Running, Plain
  <2>. QED  BY <1>2, <1>3, <1>4, <2>2, <2>3, <2>5, SettledNext, MoveStep
<1>. QED  BY <1>5, <1>6 DEF ElifCond

LEMMA EvaluateStep ==
    ASSUME IInv, Evaluate
    PROVE  IInv'
BY EvalQuietStep, EvalFailedStep, EvalCallStep, DirectiveCondStep, DirectiveValueStep,
   ElifCondStep DEF Evaluate

-----------------------------------------------------------------------------
(* Loop bodies *)

LEMMA LoopFrameNested ==
    ASSUME TypeOK, FrameShape, frames # <<>>, Top(frames).type = "FRAME_LOOP_BODY"
    PROVE  Len(frames) > 1
<1>1. Len(frames) \in Nat /\ Len(frames) > 0 /\ Top(frames) = frames[Len(frames)]
  BY EmptySeq, LenProperties DEF TypeOK, Top
<1>2. Len(frames) # 1
  BY <1>1, SMTT(30) DEF FrameShape
<1>. QED  BY ONLY <1>1, <1>2

LEMMA EnterLoopBodyStep ==
    ASSUME IInv, EnterLoopBody
    PROVE  IInv'
<1>1. TypeOK /\ FrameShape /\ BlockShape /\ PcShape /\ CaptureShape /\ CallShape /\ Balance
  BY DEF IInv
<1>2. /\ pc = "enter" /\ frames # <<>> /\ opCount' \in Nat
      /\ TopKind \in LoopKinds /\ (TopKind = "for" => Top(blocks).left > 0)
  BY <1>1 DEF EnterLoopBody, ITER_OPS, TypeOK, PcShape
<1>3. Settled
  BY <1>1, <1>2, SettledNow
<1>4. HasBlock /\ Top(blocks).kind = TopKind
  BY <1>2 DEF TopKind, LoopKinds
<1>5. /\ Len(blocks) > 0 /\ Len(blocks) \in Nat /\ Top(blocks) \in Blocks
      /\ Top(blocks) = blocks[Len(blocks)] /\ DOMAIN blocks = 1 .. Len(blocks)
      /\ Len(blocks) > BlockBase /\ Len(scopes) \in Nat /\ Top(blocks).body \in Seq(Line)
  BY <1>1, <1>4, BaseFacts, ScopesFact DEF Top, HasBlock, Blocks
<1>6. CASE ReportAndFail
  BY <1>2, <1>3, <1>6, FailStep
<1>7. CASE ~ReportAndFail
  <2>1. /\ frames' = Append(frames, NewFrame("FRAME_LOOP_BODY", FALSE, Top(blocks).body))
        /\ scopes' = PushScope(FALSE, IF TopKind = "for" THEN Binding("i") ELSE NoSyms)
        /\ blocks' = IF TopKind = "for"
                     THEN SetTop([Top(blocks) EXCEPT !.left = Top(blocks).left - 1]) ELSE blocks
        /\ pc' = "run"
        /\ UNCHANGED <<line, calls, skipDepth, skipCapture, captureBuf, pending, errored,
                       includeDepth, input, ragged, unterm>>
    BY <1>7 DEF EnterLoopBody, Rest
  <2>2. (IF TopKind = "for" THEN Binding("i") ELSE NoSyms) \in [Names -> Symbols]
    <3>1. Len(scopes) + 1 \in Nat
      BY <1>5
    <3>. QED  BY <3>1, SymsType DEF Binding, Names
  <2>3. /\ frames' \in Seq(Frames) /\ frames' # <<>>
        /\ Top(frames') = NewFrame("FRAME_LOOP_BODY", FALSE, Top(blocks).body)
        /\ FrameShape' /\ scopes' \in Seq(Scopes)
        /\ Len(scopes') - NestedFrames' = Len(scopes) - NestedFrames
        /\ NestedFrames \in Nat /\ NestedFrames' \in Nat
    BY <1>1, <1>2, <1>5, <2>1, <2>2, PushFrameStep
  <2>4. CallsKept
    BY <1>1, <2>1, SameCalls
  <2>5. Scalars' /\ PcShape'
    BY <1>1, <1>2, <2>1, PlainPc DEF TypeOK, Scalars, Running, Plain
  <2>6. CASE TopKind # "for"
    <3>1. blocks' = blocks
      BY <2>1, <2>6
    <3>2. /\ BlocksKept /\ BlockShape'
          /\ Cardinality(Branches(blocks')) = Cardinality(Branches(blocks))
          /\ Cardinality(Branches(blocks)) \in Nat
      BY <1>1, <3>1, SameBlocks
    <3>. QED  BY <1>3, <2>1, <2>3, <2>4, <2>5, <3>1, <3>2, SettledNext, MoveStep
  <2>7. CASE TopKind = "for"
    <3>. DEFINE loop == [Top(blocks) EXCEPT !.left = Top(blocks).left - 1]
    <3>1. loop \in Blocks /\ loop.kind = "for" /\ loop.body = Top(blocks).body
      BY <1>2, <1>4, <1>5, <2>7 DEF Blocks
    <3>2. (loop.hasScope <=> Top(blocks).hasScope) /\ (loop.capturing <=> Top(blocks).capturing)
      BY <1>5 DEF Blocks
    <3>3. ~Top(blocks).hasScope
      BY <1>1, <1>4, <1>5, <2>7 DEF BlockShape
    <3>4. blocks' = SetTop(loop)
      BY <2>1, <2>7
    <3>. HIDE DEF loop
    <3>5. /\ BlocksKept /\ BlockShape' /\ Len(blocks') = Len(blocks)
          /\ blocks'[Len(blocks)] = loop
          /\ \A k \in 1 .. Len(blocks) - 1 : blocks'[k] = blocks[k]
          /\ Cardinality(Branches(blocks')) = Cardinality(Branches(blocks))
          /\ Cardinality(Branches(blocks)) \in Nat
          /\ Cardinality(Branches(blocks')) \in Nat
      BY <1>1, <1>4, <2>7, <3>1, <3>2, <3>3, <3>4, SetTopStep
    <3>6. BlockBase' = BlockBase
      BY <1>1, <2>4, <3>5, KeptCalls
    <3>7. DOMAIN blocks' = 1 .. Len(blocks)
      BY <3>5, LenProperties DEF BlocksKept
    <3>8. ASSUME loop.capturing
          PROVE  loop.body = <<>> /\ Replayed'
      <4>1. loop.body = <<>>
        BY <1>3, <1>4, <1>5, <2>7, <3>1, <3>2, <3>8 DEF Settled
      <4>. QED  BY <2>3, <3>1, <4>1 DEF Replayed, NewFrame
    <3>9. CaptureShape'
      <4>1. ASSUME NEW k \in 1 .. Len(blocks) - 1, blocks'[k].kind = "for", blocks'[k].capturing
            PROVE  blocks'[k].body = <<>> /\ blocks'[k].left > 0
        BY <1>3, <1>5, <3>5, <4>1 DEF Settled
      <4>2. \A k \in DOMAIN blocks' : k \in 1 .. Len(blocks) - 1 \/ k = Len(blocks)
        BY <1>5, <3>7
      <4>3. HasBlock'
        BY <1>5, <3>5, <3>6 DEF HasBlock
      <4>. QED  BY <2>1, <3>5, <3>8, <4>1, <4>2, <4>3 DEF CaptureShape
    <3>. QED  BY <1>3, <2>1, <2>3, <2>4, <2>5, <3>5, <3>9, MoveStep
  <2>. QED  BY <2>6, <2>7
<1>. QED  BY <1>6, <1>7

\* Popping the top block leaves settled ones, whatever the top was.
LEMMA SettledUnder ==
    ASSUME TypeOK, CaptureShape, blocks' \in Seq(Blocks), Len(blocks) > 0,
           Len(blocks') = Len(blocks) - 1,
           \A k \in 1 .. Len(blocks) - 1 : blocks'[k] = blocks[k]
    PROVE  Settled' /\ CaptureShape'
<1>1. DOMAIN blocks' = 1 .. Len(blocks) - 1 /\ DOMAIN blocks = 1 .. Len(blocks) /\ Len(blocks) \in Nat
  BY LenProperties DEF TypeOK
<1>2. \A k \in DOMAIN blocks' : k \in DOMAIN blocks /\ k # Len(blocks) /\ blocks'[k] = blocks[k]
  BY <1>1
<1>3. Settled'
  BY <1>2 DEF CaptureShape, Settled
<1>. QED  BY <1>3 DEF CaptureShape, Settled

\* Only a #for on top can still be about to be popped.
LEMMA SettledTop ==
    ASSUME CaptureShape, TopKind # "for" \/ Top(blocks).left > 0
    PROVE  Settled
<1>1. ASSUME HasBlock, blocks[Len(blocks)].kind = "for"
      PROVE  blocks[Len(blocks)].left > 0
  BY <1>1 DEF TopKind, Top
<1>. QED  BY <1>1 DEF CaptureShape, Settled

\* A block without a scope is popped and the handler is done.
LEMMA PopBlockStep ==
    ASSUME IInv, HasBlock, TopKind # "if", PopBlock, CallsKept, FrameShape',
           frames' \in Seq(Frames), scopes' \in Seq(Scopes),
           NestedFrames \in Nat, NestedFrames' \in Nat,
           Len(scopes') - NestedFrames' = Len(scopes) - NestedFrames,
           Scalars', PcShape', unterm' = unterm
    PROVE  IInv'
<1>1. TypeOK /\ BlockShape /\ CaptureShape /\ CallShape /\ Balance
  BY DEF IInv
<1>2. /\ BlocksKept /\ BlockShape' /\ Len(blocks') = Len(blocks) - 1
      /\ \A k \in 1 .. Len(blocks) - 1 : blocks'[k] = blocks[k]
      /\ Cardinality(Branches(blocks')) = Cardinality(Branches(blocks))
      /\ Cardinality(Branches(blocks)) \in Nat
  BY <1>1, PopTopStep DEF PopBlock
<1>3. CaptureShape'
  BY <1>1, <1>2, BaseFacts, SettledUnder DEF BlocksKept
<1>. QED  BY <1>2, <1>3, MoveStep

LEMMA AssertStep ==
    ASSUME IInv, Settled, AssertFails
    PROVE  IInv'
<1>1. TypeOK
  BY DEF IInv
<1>2. /\ pc' = "assert"
      /\ UNCHANGED <<line, frames, scopes, blocks, calls, skipDepth, skipCapture, captureBuf,
                     pending, opCount, errored, includeDepth, input, ragged, unterm>>
  BY DEF AssertFails, Rest
<1>3. CallsKept
  BY <1>1, <1>2, SameCalls
<1>4. Scalars' /\ PcShape'
  BY <1>1, <1>2, PlainPc DEF TypeOK, Scalars, Final, Plain
<1>. QED  BY <1>2, <1>3, <1>4, QuietStep

LEMMA LoopBodyExhaustedStep ==
    ASSUME IInv, LoopBodyExhausted
    PROVE  IInv'
<1>1. TypeOK /\ FrameShape /\ BlockShape /\ PcShape /\ CaptureShape /\ CallShape /\ Balance
  BY DEF IInv
<1>2. pc = "exhausted" /\ frames # <<>>
  BY <1>1 DEF LoopBodyExhausted, PcShape
<1>3. CASE TopKind \notin LoopKinds
  BY <1>1, <1>3, SettledTop, AssertStep DEF LoopBodyExhausted, LoopKinds
<1>4. CASE TopKind = "for"
  <2>1. /\ HasBlock
        /\ UNCHANGED <<line, frames, scopes, calls, skipDepth, skipCapture, captureBuf,
                       pending, opCount, errored, includeDepth, input, ragged, unterm>>
        /\ \/ PopBlock /\ pc' = "run"
           \/ ~ForDone /\ pc' = "enter" /\ UNCHANGED blocks
    BY <1>4 DEF LoopBodyExhausted, LoopKinds, TopKind, Rest
  <2>2. CallsKept
    BY <1>1, <2>1, SameCalls
  <2>3. Scalars'
    BY <1>1, <2>1 DEF TypeOK, Scalars, Running
  <2>4. FrameShape' /\ frames' \in Seq(Frames) /\ NestedFrames' = NestedFrames /\ NestedFrames \in Nat
    BY <1>1, <2>1, SameFrames
  <2>5. CASE PopBlock /\ pc' = "run"
    <3>1. PcShape'
      BY <2>5, PlainPc DEF Plain
    <3>. QED  BY <1>1, <1>4, <2>1, <2>2, <2>3, <2>4, <2>5, <3>1, PopBlockStep DEF TypeOK
  <2>6. CASE ~ForDone /\ pc' = "enter" /\ UNCHANGED blocks
    <3>1. Top(blocks).left > 0
      BY <1>1, <2>1, <2>6, BaseFacts DEF ForDone, Blocks
    <3>2. TopKind' = TopKind
      BY <2>1, <2>2, <2>6, StillStep
    <3>3. PcShape'
      BY <1>2, <1>4, <2>1, <2>6, <3>1, <3>2 DEF PcShape, Evaluating, LoopKinds, Top
    <3>. QED  BY <1>1, <2>1, <2>2, <2>3, <2>6, <3>1, <3>3, SettledTop, QuietStep
  <2>. QED  BY <2>1, <2>5, <2>6
<1>5. CASE TopKind = "while"
  <2>1. /\ PushCondFrame /\ opCount' = opCount + EXPR_OPS /\ pc' = "eval"
        /\ line' = [dir |-> "again", expr |-> Top(blocks).cond, public |-> TRUE]
        /\ UNCHANGED <<blocks, calls, skipDepth, skipCapture, captureBuf, pending, errored,
                       includeDepth, input, ragged, unterm>>
    BY <1>5 DEF LoopBodyExhausted, LoopKinds, Rest
  <2>2. /\ frames' \in Seq(Frames) /\ Len(frames') > 1 /\ frames' # <<>>
        /\ FrameShape' /\ scopes' \in Seq(Scopes)
        /\ Len(scopes') - NestedFrames' = Len(scopes) - NestedFrames
        /\ NestedFrames \in Nat /\ NestedFrames' \in Nat
    BY <1>2, <2>1, PushCondStep
  <2>3. /\ BlocksKept /\ BlockShape'
        /\ Cardinality(Branches(blocks')) = Cardinality(Branches(blocks))
        /\ Cardinality(Branches(blocks)) \in Nat
    BY <1>1, <2>1, SameBlocks
  <2>4. CallsKept
    BY <1>1, <2>1, SameCalls
  <2>5. HasBlock /\ Top(blocks).cond \in Exprs
    BY <1>1, <1>5, BaseFacts DEF TopKind, Blocks
  <2>6. line' \in Line /\ line'.dir = "again"
    BY <2>1, <2>5 DEF Line, Dirs
  <2>7. Scalars'
    BY <1>1, <2>1, <2>6 DEF TypeOK, Scalars, Running, EXPR_OPS
  <2>8. BlockBase' = BlockBase
    BY <1>1, <2>3, <2>4, KeptCalls
  <2>9. TopKind' = "while"
    BY <1>5, <2>1, <2>8 DEF TopKind, HasBlock, Top
  <2>10. PcShape'
    BY <2>1, <2>2, <2>6, <2>9 DEF PcShape, Evaluating
  <2>11. Settled
    BY <1>1, <1>5, SettledTop
  <2>. QED  BY <2>1, <2>2, <2>3, <2>4, <2>7, <2>10, <2>11, SettledNext, MoveStep
<1>. QED  BY <1>3, <1>4, <1>5 DEF LoopKinds

LEMMA WhileAgainStep ==
    ASSUME IInv, WhileAgain
    PROVE  IInv'
<1>1. TypeOK /\ FrameShape /\ BlockShape /\ PcShape /\ CaptureShape /\ CallShape /\ Balance
  BY DEF IInv
<1>2. /\ pc \in {"eval", "value"} /\ line.dir = "again" /\ frames # <<>> /\ PopFrame
      /\ UNCHANGED <<line, skipDepth, skipCapture, captureBuf, pending, opCount,
                     input, ragged, unterm>>
      /\ \/ pc' = "enter" /\ UNCHANGED blocks
         \/ pc' = "run" /\ PopBlock
  BY DEF WhileAgain, ValueOf
<1>3. TopKind = "while" /\ HasBlock /\ Len(frames) > 1
  BY <1>1, <1>2 DEF PcShape, Evaluating, TopKind
<1>4. /\ frames' \in Seq(Frames) /\ Len(frames') = Len(frames) - 1
      /\ FrameShape' /\ scopes' \in Seq(Scopes)
      /\ Len(scopes') - NestedFrames' = Len(scopes) - NestedFrames
      /\ NestedFrames \in Nat /\ NestedFrames' \in Nat
      /\ includeDepth' \in Nat /\ errored' \in BOOLEAN /\ CallsKept
  BY <1>1, <1>2, PopFrameStep
<1>5. frames' # <<>>
  BY <1>3, <1>4, EmptySeq, LenProperties DEF TypeOK
<1>6. Scalars'
  BY <1>1, <1>2, <1>4 DEF TypeOK, Scalars, Running
<1>7. CASE pc' = "enter" /\ UNCHANGED blocks
  <2>1. /\ BlocksKept /\ BlockShape'
        /\ Cardinality(Branches(blocks')) = Cardinality(Branches(blocks))
        /\ Cardinality(Branches(blocks)) \in Nat
    BY <1>1, <1>7, SameBlocks
  <2>2. BlockBase' = BlockBase
    BY <1>1, <1>4, <2>1, KeptCalls
  <2>3. TopKind' = "while"
    BY <1>3, <1>7, <2>2 DEF TopKind, HasBlock, Top
  <2>4. PcShape'
    BY <1>5, <1>7, <2>3 DEF PcShape, Evaluating, LoopKinds
  <2>. QED  BY <1>1, <1>2, <1>3, <1>4, <1>6, <1>7, <2>1, <2>4, SettledTop, SettledNext, MoveStep
<1>8. CASE pc' = "run" /\ PopBlock
  <2>1. PcShape'
    BY <1>8, PlainPc DEF Plain
  <2>. QED  BY <1>2, <1>3, <1>4, <1>6, <1>8, <2>1, PopBlockStep
<1>. QED  BY <1>2, <1>7, <1>8

\* An #if of this call is popped with its scope; the handler goes on.
LEMMA PopIfStep ==
    ASSUME IInv, HasBlock, PopIfBlock, UNCHANGED <<frames, unterm>>,
           errored' \in BOOLEAN => Scalars', CallsKept => PcShape'
    PROVE  IInv'
<1>1. TypeOK /\ FrameShape /\ BlockShape /\ CaptureShape /\ CallShape /\ Balance
  BY DEF IInv
<1>2. /\ BlocksKept /\ BlockShape' /\ CallsKept /\ errored' \in BOOLEAN
      /\ Len(blocks') = Len(blocks) - 1
      /\ \A k \in 1 .. Len(blocks) - 1 : blocks'[k] = blocks[k]
      /\ scopes' \in Seq(Scopes)
      /\ Cardinality(Branches(blocks)) \in Nat
      /\ Cardinality(Branches(blocks')) \in Nat
      /\ Len(scopes') - Cardinality(Branches(blocks'))
           = Len(scopes) - Cardinality(Branches(blocks))
  BY <1>1, PopIfBlockStep
<1>3. FrameShape' /\ frames' \in Seq(Frames) /\ NestedFrames' = NestedFrames /\ NestedFrames \in Nat
  BY <1>1, SameFrames
<1>4. CaptureShape'
  BY <1>1, <1>2, BaseFacts, SettledUnder DEF BlocksKept
<1>5. Len(scopes') - NestedFrames' - Cardinality(Branches(blocks'))
        = Len(scopes) - NestedFrames - Cardinality(Branches(blocks))
  <2>1. /\ Len(scopes) \in Nat /\ Len(scopes') \in Nat
        /\ NestedFrames \in Nat /\ NestedFrames' = NestedFrames
        /\ Cardinality(Branches(blocks)) \in Nat /\ Cardinality(Branches(blocks')) \in Nat
        /\ Len(scopes') - Cardinality(Branches(blocks'))
             = Len(scopes) - Cardinality(Branches(blocks))
    BY <1>1, <1>2, <1>3, LenProperties DEF TypeOK
  <2>. QED  BY ONLY <2>1
<1>. QED  BY <1>2, <1>3, <1>4, <1>5, MoveStep

LEMMA LeaveIfBlockStep ==
    ASSUME IInv, LeaveIfBlock
    PROVE  IInv'
<1>1. TypeOK /\ CaptureShape /\ pc = "leave" /\ Settled
  BY SettledNow DEF IInv, LeaveIfBlock
<1>2. CASE TopKind = "if"
  <2>1. /\ PopIfBlock /\ HasBlock
        /\ UNCHANGED <<pc, line, frames, skipDepth, skipCapture, captureBuf, pending,
                       opCount, includeDepth, input, ragged, unterm>>
    BY <1>2 DEF LeaveIfBlock, Rest, TopKind
  <2>2. errored' \in BOOLEAN => Scalars'
    BY <1>1, <2>1 DEF TypeOK, Scalars
  <2>3. PcShape'
    BY <1>1, <2>1, PlainPc DEF Plain
  <2>. QED  BY <2>1, <2>2, <2>3, PopIfStep
<1>3. CASE TopKind # "if"
  BY <1>1, <1>3, AssertStep DEF LeaveIfBlock
<1>. QED  BY <1>2, <1>3

LEMMA LeaveFrameStep ==
    ASSUME IInv, LeaveFrame
    PROVE  IInv'
<1>1. TypeOK /\ FrameShape /\ BlockShape /\ PcShape /\ CaptureShape /\ CallShape /\ Balance
  BY DEF IInv
<1>2. /\ pc = "leave" /\ TopKind \in LoopKinds
      /\ UNCHANGED <<line, skipDepth, skipCapture, captureBuf, pending, opCount,
                     input, ragged, unterm>>
  BY DEF LeaveFrame
<1>3. Settled /\ HasBlock /\ TopKind # "if"
  BY <1>1, <1>2, SettledNow DEF LoopKinds, TopKind
<1>4. CASE frames = <<>>
  <2>1. pc' = "crash" /\ UNCHANGED <<frames, scopes, blocks, calls, errored, includeDepth>>
    BY <1>4 DEF LeaveFrame
  <2>2. CallsKept
    BY <1>1, <2>1, SameCalls
  <2>3. Scalars' /\ PcShape'
    BY <1>1, <1>2, <2>1, PlainPc DEF TypeOK, Scalars, Final, Plain
  <2>. QED  BY <1>2, <1>3, <2>1, <2>2, <2>3, QuietStep
<1>5. CASE frames # <<>>
  <2>1. /\ PopFrame
        /\ \/ UNCHANGED <<pc, blocks>>
           \/ /\ Top(frames).type = "FRAME_LOOP_BODY"
              /\ (pc' = "exhausted" /\ UNCHANGED blocks) \/ (pc' = "run" /\ PopBlock)
    BY <1>5 DEF LeaveFrame
  <2>2. /\ frames' \in Seq(Frames) /\ Len(frames') = Len(frames) - 1
        /\ FrameShape' /\ scopes' \in Seq(Scopes)
        /\ Len(scopes') - NestedFrames' = Len(scopes) - NestedFrames
        /\ NestedFrames \in Nat /\ NestedFrames' \in Nat
        /\ includeDepth' \in Nat /\ errored' \in BOOLEAN /\ CallsKept
    BY <1>1, <1>5, <2>1, PopFrameStep
  <2>3. Scalars'
    <3>1. pc' \in {"leave", "exhausted", "run"}
      BY <1>2, <2>1
    <3>. QED  BY <1>1, <1>2, <2>2, <3>1 DEF TypeOK, Scalars, Running
  <2>4. CASE UNCHANGED blocks
    <3>1. /\ BlocksKept /\ BlockShape'
          /\ Cardinality(Branches(blocks')) = Cardinality(Branches(blocks))
          /\ Cardinality(Branches(blocks)) \in Nat
      BY <1>1, <2>4, SameBlocks
    <3>2. ASSUME pc' = "exhausted"
          PROVE  frames' # <<>>
      <4>1. Top(frames).type = "FRAME_LOOP_BODY"
        BY <1>2, <2>1, <3>2
      <4>2. Len(frames) > 1
        BY <1>1, <1>5, <4>1, LoopFrameNested
      <4>. QED  BY <1>1, <2>2, <4>2, EmptySeq, LenProperties DEF TypeOK
    <3>3. PcShape'
      <4>1. pc' \in {"leave", "exhausted", "run"}
        BY <1>2, <2>1
      <4>. QED  BY <3>2, <4>1 DEF PcShape, Evaluating
    <3>. QED  BY <1>2, <1>3, <2>2, <2>3, <2>4, <3>1, <3>3, SettledNext, MoveStep
  <2>5. CASE pc' = "run" /\ PopBlock
    <3>1. PcShape'
      BY <2>5, PlainPc DEF Plain
    <3>. QED  BY <1>2, <1>3, <2>2, <2>3, <2>5, <3>1, PopBlockStep
  <2>. QED  BY <2>1, <2>4, <2>5
<1>. QED  BY <1>4, <1>5

LEMMA LoopsStep ==
    ASSUME IInv, Loops
    PROVE  IInv'
BY EnterLoopBodyStep, LoopBodyExhaustedStep, WhileAgainStep, LeaveIfBlockStep, LeaveFrameStep
   DEF Loops

-----------------------------------------------------------------------------
(* The end of a call *)

LEMMA CleanupBlockStep ==
    ASSUME IInv, CleanupBlock
    PROVE  IInv'
<1>1. TypeOK /\ FrameShape /\ BlockShape /\ PcShape /\ CaptureShape /\ CallShape /\ Balance
  BY DEF IInv
<1>2. /\ pc = "cleanup" /\ HasBlock /\ calls # <<>>
      /\ UNCHANGED <<pc, line, frames, skipDepth, pending, opCount, includeDepth, input,
                     ragged, unterm>>
  BY <1>1 DEF CleanupBlock, Rest, PcShape
<1>3. ASSUME CallsKept
      PROVE  PcShape'
  <2>1. calls' # <<>>
    BY <1>1, <1>2, <1>3, EmptySeq DEF CallsKept, TypeOK
  <2>. QED  BY <1>2, <2>1 DEF PcShape, Evaluating
<1>4. CASE TopKind = "if"
  <2>1. PopIfBlock /\ UNCHANGED <<skipCapture, captureBuf>>
    BY <1>4 DEF CleanupBlock
  <2>2. errored' \in BOOLEAN => Scalars'
    BY <1>1, <1>2, <2>1 DEF TypeOK, Scalars
  <2>. QED  BY <1>2, <1>3, <2>1, <2>2, PopIfStep
<1>5. CASE TopKind # "if"
  <2>1. /\ PopBlock /\ skipCapture' = FALSE /\ captureBuf' = <<>>
        /\ UNCHANGED <<scopes, calls, errored>>
    BY <1>5 DEF CleanupBlock
  <2>2. CallsKept /\ captureBuf' \in Seq(Line)
    BY <1>1, <2>1, SameCalls, EmptySeq
  <2>3. Scalars'
    BY <1>1, <1>2, <2>1, <2>2 DEF TypeOK, Scalars
  <2>4. FrameShape' /\ frames' \in Seq(Frames) /\ NestedFrames' = NestedFrames /\ NestedFrames \in Nat
    BY <1>1, <1>2, SameFrames
  <2>5. scopes' \in Seq(Scopes) /\ Len(scopes') - NestedFrames' = Len(scopes) - NestedFrames
    BY <1>1, <2>1, <2>4 DEF TypeOK
  <2>. QED  BY <1>2, <1>3, <1>5, <2>1, <2>2, <2>3, <2>4, <2>5, PopBlockStep
<1>. QED  BY <1>4, <1>5

LEMMA CleanupFrameStep ==
    ASSUME IInv, CleanupFrame
    PROVE  IInv'
<1>1. TypeOK /\ FrameShape /\ BlockShape /\ PcShape /\ CaptureShape /\ CallShape /\ Balance
  BY DEF IInv
<1>2. /\ pc = "cleanup" /\ ~HasBlock /\ calls # <<>> /\ frames # <<>> /\ PopFrame
      /\ UNCHANGED <<pc, line, blocks, skipDepth, skipCapture, captureBuf, pending,
                     opCount, input, ragged, unterm>>
  BY <1>1 DEF CleanupFrame, AtCaller, PcShape
<1>3. /\ frames' \in Seq(Frames)
      /\ FrameShape' /\ scopes' \in Seq(Scopes)
      /\ Len(scopes') - NestedFrames' = Len(scopes) - NestedFrames
      /\ NestedFrames \in Nat /\ NestedFrames' \in Nat
      /\ includeDepth' \in Nat /\ errored' \in BOOLEAN /\ CallsKept
  BY <1>1, <1>2, PopFrameStep
<1>4. /\ BlocksKept /\ BlockShape'
      /\ Cardinality(Branches(blocks')) = Cardinality(Branches(blocks))
      /\ Cardinality(Branches(blocks)) \in Nat
  BY <1>1, <1>2, SameBlocks
<1>5. calls' # <<>>
  BY <1>1, <1>2, <1>3, <1>4, KeptCalls
<1>6. Scalars' /\ PcShape'
  BY <1>1, <1>2, <1>3, <1>5 DEF TypeOK, Scalars, PcShape, Evaluating
<1>7. CaptureShape'
  BY <1>1, <1>2, SettledNow, SettledNext
<1>. QED  BY <1>2, <1>3, <1>4, <1>6, <1>7, MoveStep

LEMMA HandlerFailedStep ==
    ASSUME IInv, HandlerFailed
    PROVE  IInv'
<1>1. TypeOK /\ CaptureShape
  BY DEF IInv
<1>2. /\ pc = "fail"
      /\ pc' = "failed" \/ (pc' = "cleanup" /\ calls # <<>>)
      /\ UNCHANGED <<line, frames, scopes, blocks, calls, skipDepth, skipCapture, captureBuf,
                     pending, opCount, errored, includeDepth, input, ragged, unterm>>
  BY DEF HandlerFailed, Rest
<1>3. CallsKept /\ Settled
  BY <1>1, <1>2, SameCalls, SettledNow
<1>4. Scalars'
  BY <1>1, <1>2 DEF TypeOK, Scalars, Running, Final
<1>5. PcShape'
  BY <1>2 DEF PcShape, Evaluating
<1>. QED  BY <1>2, <1>3, <1>4, <1>5, QuietStep

\* The caller's handler gets back the block and the frame it had.
LEMMA FinishCallStep ==
    ASSUME IInv, FinishCall
    PROVE  IInv'
<1>1. TypeOK /\ FrameShape /\ BlockShape /\ PcShape /\ CaptureShape /\ CallShape /\ Balance
  BY DEF IInv
<1>. DEFINE call == Top(calls)
            silent == call.returned \/ ~call.clean
<1>2. /\ pc = "cleanup" /\ ~HasBlock /\ AtCaller /\ calls # <<>>
      /\ calls' = Dirty(Under(calls), ~silent)
      /\ errored' = (errored \/ ~silent)
      /\ skipDepth' = call.skip /\ line' = call.line
      /\ pc' \in {"value", "evalfail"}
      /\ UNCHANGED <<frames, scopes, blocks, skipCapture, captureBuf, pending, opCount,
                     includeDepth, input, ragged, unterm>>
  BY <1>1 DEF FinishCall, Rest, PcShape
<1>3. /\ Len(calls) \in Nat /\ Len(calls) > 0 /\ DOMAIN calls = 1 .. Len(calls)
      /\ Len(calls) \in DOMAIN calls
      /\ call = calls[Len(calls)] /\ call \in CallFrames
  BY <1>1, <1>2, EmptySeq, LenProperties, TopType DEF TypeOK
<1>4. /\ Under(calls) \in Seq(CallFrames) /\ Len(Under(calls)) = Len(calls) - 1
      /\ \A c \in 1 .. Len(calls) - 1 : Under(calls)[c] = calls[c]
  BY <1>1, <1>3, UnderType DEF TypeOK
<1>5. silent \in BOOLEAN /\ (~silent) \in BOOLEAN
  OBVIOUS
<1>. HIDE DEF silent
<1>6. /\ calls' \in Seq(CallFrames) /\ Len(calls') = Len(calls) - 1
      /\ \A c \in 1 .. Len(calls) - 1 : /\ calls'[c].line = calls[c].line
                                        /\ calls'[c].base = calls[c].base
                                        /\ calls'[c].caller = calls[c].caller
  <2>. DEFINE below == Under(calls)
              dirty == Dirty(below, ~silent)
  <2>1. below \in Seq(CallFrames) /\ (~silent) \in BOOLEAN
    BY <1>4, <1>5
  <2>2. /\ dirty \in Seq(CallFrames) /\ Len(dirty) = Len(below)
        /\ \A c \in 1 .. Len(below) : /\ dirty[c].line = below[c].line
                                      /\ dirty[c].base = below[c].base
                                      /\ dirty[c].caller = below[c].caller
    <3>. HIDE DEF below
    <3>. QED  BY <2>1, DirtyFlags
  <2>3. calls' = dirty
    BY <1>2
  <2>. HIDE DEF dirty
  <2>. QED  BY <1>4, <2>2, <2>3
<1>7. DOMAIN calls' = 1 .. Len(calls) - 1
  BY <1>6, LenProperties
<1>8. CallShape'
  <2>1. ASSUME NEW c \in 1 .. Len(calls) - 1
        PROVE  /\ calls'[c].base <= Len(blocks')
               /\ \A d \in 1 .. c : calls'[d].base <= calls'[c].base
               /\ calls'[c].line.dir = "return" => c > 1
               /\ calls'[c].line.dir \in {"while", "again"} => calls'[c].caller > 1
               /\ calls'[c].line.dir \in {"again", "elif"} =>
                     /\ calls'[c].base > 0 /\ (c > 1 => calls'[c].base > calls'[c - 1].base)
                     /\ blocks'[calls'[c].base].kind =
                          IF calls'[c].line.dir = "again" THEN "while" ELSE "if"
    <3>1. c \in DOMAIN calls /\ \A d \in 1 .. c : d \in 1 .. Len(calls) - 1
      BY <1>3
    <3>2. c > 1 => c - 1 \in 1 .. Len(calls) - 1
      BY <1>3
    <3>. QED  BY <1>1, <1>2, <1>6, <3>1, <3>2 DEF CallShape
  <2>. QED  BY <1>7, <2>1 DEF CallShape
<1>9. Len(blocks) = call.base /\ call.base \in Nat
  BY <1>1, <1>2, <1>3, BaseFacts DEF HasBlock
<1>10. /\ Len(calls) = 1 => BlockBase' = 0
       /\ Len(calls) > 1 => calls' # <<>> /\ BlockBase' = calls[Len(calls) - 1].base
  <2>1. Len(calls) = 1 => calls' = <<>>
    BY <1>6, EmptySeq
  <2>2. Len(calls) > 1 => calls' # <<>> /\ Len(calls) - 1 \in 1 .. Len(calls) - 1
    BY <1>3, <1>6, EmptySeq
  <2>. QED  BY <1>6, <2>1, <2>2 DEF BlockBase, Top
<1>11. FrameShape' /\ frames' \in Seq(Frames) /\ NestedFrames' = NestedFrames /\ NestedFrames \in Nat
  BY <1>1, <1>2, SameFrames
<1>12. PcShape'
  <2>1. ASSUME line'.dir \in {"while", "again"}
        PROVE  frames' = <<>> \/ Len(frames') > 1
    BY <1>1, <1>2, <1>3, <2>1 DEF AtCaller, CallShape
  <2>2. ASSUME line'.dir \in {"again", "elif"}
        PROVE  TopKind' = IF line'.dir = "again" THEN "while" ELSE "if"
    <3>1. /\ call.base > 0 /\ (Len(calls) > 1 => call.base > calls[Len(calls) - 1].base)
          /\ blocks[call.base].kind = IF line'.dir = "again" THEN "while" ELSE "if"
      BY <1>1, <1>2, <1>3, <2>2 DEF CallShape
    <3>2. Len(calls) = 1 \/ Len(calls) > 1
      BY <1>3
    <3>3. HasBlock'
      BY <1>2, <1>9, <1>10, <3>1, <3>2 DEF HasBlock
    <3>. QED  BY <1>2, <1>9, <3>1, <3>3 DEF TopKind, Top
  <2>3. ASSUME line'.dir = "return"
        PROVE  calls' # <<>>
    BY <1>1, <1>2, <1>3, <1>10, <2>3 DEF CallShape
  <2>. QED  BY <1>2, <2>1, <2>2, <2>3 DEF PcShape, Evaluating
<1>13. CaptureShape'
  BY <1>1, <1>2, SettledNow, SettledNext
<1>14. BlockShape' /\ blocks' \in Seq(Blocks)
  BY <1>1, <1>2 DEF BlockShape, TypeOK
<1>15. Balance'
  BY <1>1, <1>2, <1>11, BranchCount, BalanceStep DEF TypeOK
<1>16. Scalars'
  <2>1. skipDepth' \in Nat /\ line' \in Line /\ errored' \in BOOLEAN
    BY <1>1, <1>2, <1>3, <1>5 DEF CallFrames, TypeOK
  <2>. QED  BY <1>1, <1>2, <2>1 DEF TypeOK, Scalars, Running
<1>17. TypeOK'
  BY <1>1, <1>2, <1>6, <1>11, <1>14, <1>16, TypeStep DEF TypeOK
<1>. QED  BY <1>8, <1>11, <1>12, <1>13, <1>14, <1>15, <1>17 DEF IInv

LEMMA CallsStep ==
    ASSUME IInv, Calls
    PROVE  IInv'
BY CleanupBlockStep, CleanupFrameStep, FinishCallStep, HandlerFailedStep DEF Calls

-----------------------------------------------------------------------------
(* Directives that are skipped *)

LEMMA CaptureType ==
    ASSUME TypeOK, Capture
    PROVE  captureBuf' \in Seq(Line)
BY AppendProperties DEF TypeOK, Capture

\* Directives that only count, capture and report.
LEMMA SkipQuietStep ==
    ASSUME IInv,
           SkipFails \/ SkipLine \/ SkipOpen \/ SkipUnknown \/ SkipInner \/ SkipInnerEnd
    PROVE  IInv'
<1>1. TypeOK /\ CaptureShape
  BY DEF IInv
<1>2. /\ pc = "line" /\ Capture /\ pc' \in {"run", "fail"}
      /\ UNCHANGED <<line, frames, scopes, blocks, skipCapture, pending, opCount,
                     includeDepth, input, ragged, unterm>>
  BY DEF SkipFails, SkipLine, SkipOpen, SkipUnknown, SkipInner, SkipInnerEnd, Skipping, Fail, Rest
<1>3. Settled /\ captureBuf' \in Seq(Line)
  BY <1>1, <1>2, SettledNow, CaptureType
<1>4. CallsKept /\ errored' \in BOOLEAN
  <2>1. Report(FuncTokenDir) \/ Report(TRUE) \/ UNCHANGED <<calls, errored>>
    BY DEF SkipFails, SkipLine, SkipOpen, SkipUnknown, SkipInner, SkipInnerEnd
  <2>2. FuncTokenDir \in BOOLEAN
    BY DEF FuncTokenDir
  <2>3. CASE Report(FuncTokenDir)
    BY <1>1, <2>2, <2>3, ReportStep
  <2>4. CASE Report(TRUE)
    BY <1>1, <2>4, ReportStep
  <2>5. CASE UNCHANGED <<calls, errored>>
    BY <1>1, <2>5, SameCalls DEF TypeOK
  <2>. QED  BY <2>1, <2>3, <2>4, <2>5
<1>5. skipDepth' \in Nat
  <2>1. SkipInnerEnd => skipDepth > 1 /\ skipDepth' = skipDepth - 1
    BY DEF SkipInnerEnd
  <2>2. SkipOpen => skipDepth' = skipDepth + 1
    BY DEF SkipOpen
  <2>3. SkipFails \/ SkipLine \/ SkipUnknown \/ SkipInner => skipDepth' = skipDepth
    BY DEF SkipFails, SkipLine, SkipUnknown, SkipInner
  <2>4. skipDepth \in Nat
    BY <1>1 DEF TypeOK
  <2>. QED  BY <2>1, <2>2, <2>3, <2>4
<1>6. Scalars' /\ PcShape'
  BY <1>1, <1>2, <1>3, <1>4, <1>5, PlainPc DEF TypeOK, Scalars, Running, Plain
<1>. QED  BY <1>2, <1>3, <1>4, <1>6, QuietStep

LEMMA SkipElseStep ==
    ASSUME IInv, SkipElse
    PROVE  IInv'
<1>1. TypeOK /\ FrameShape /\ BlockShape /\ PcShape /\ CaptureShape /\ CallShape /\ Balance
  BY DEF IInv
<1>2. /\ pc = "line" /\ Capture
      /\ UNCHANGED <<line, frames, skipCapture, pending, opCount, includeDepth, input,
                     ragged, unterm>>
  BY DEF SkipElse, Skipping, Rest
<1>3. Settled /\ captureBuf' \in Seq(Line)
  BY <1>1, <1>2, SettledNow, CaptureType
<1>4. FrameShape' /\ frames' \in Seq(Frames) /\ NestedFrames' = NestedFrames /\ NestedFrames \in Nat
  BY <1>1, <1>2, SameFrames
<1>5. ASSUME CallsKept, errored' \in BOOLEAN, skipDepth' \in Nat,
             pc' \in {"run", "fail", "assert"}
      PROVE  Scalars' /\ PcShape'
  BY <1>1, <1>2, <1>3, <1>5, PlainPc DEF TypeOK, Scalars, Running, Final, Plain
<1>6. CASE ElseRefused
  <2>1. Report(TRUE) /\ pc' = "fail" /\ UNCHANGED <<scopes, blocks, skipDepth>>
    BY <1>6 DEF SkipElse, Fail
  <2>2. CallsKept /\ errored' \in BOOLEAN
    BY <1>1, <2>1, ReportStep
  <2>3. Scalars' /\ PcShape'
    BY <1>1, <1>5, <2>1, <2>2 DEF TypeOK
  <2>. QED  BY <1>2, <1>3, <2>1, <2>2, <2>3, QuietStep
<1>7. CASE ~ElseRefused
  <2>. DEFINE else == [Top(blocks) EXCEPT !.hadElse = TRUE]
  <2>1. TopKind = "if" /\ HasBlock /\ Top(blocks).kind = "if" /\ UNCHANGED <<calls, errored>>
    BY <1>7 DEF SkipElse, ElseRefused, TopKind
  <2>2. /\ Top(blocks) \in Blocks /\ else \in Blocks /\ else.kind = "if"
        /\ else.hasScope <=> Top(blocks).hasScope
    BY <1>1, <2>1, BaseFacts DEF Blocks
  <2>3. CallsKept /\ errored' \in BOOLEAN
    BY <1>1, <2>1, SameCalls DEF TypeOK
  <2>4. \/ blocks' = SetTop(else) /\ pc' = "run" /\ UNCHANGED <<scopes, skipDepth>>
        \/ pc' = "assert" /\ UNCHANGED <<scopes, blocks, skipDepth>>
        \/ ~Top(blocks).hasScope /\ EnterIfBranch(else) /\ pc' = "run"
    BY <1>7 DEF SkipElse
  <2>. HIDE DEF else
  <2>5. CASE blocks' = SetTop(else) /\ pc' = "run" /\ UNCHANGED <<scopes, skipDepth>>
    <3>1. /\ BlocksKept /\ BlockShape' /\ Len(blocks') = Len(blocks)
          /\ blocks'[Len(blocks)] = else
          /\ \A k \in 1 .. Len(blocks) - 1 : blocks'[k] = blocks[k]
          /\ Cardinality(Branches(blocks')) = Cardinality(Branches(blocks))
          /\ Cardinality(Branches(blocks)) \in Nat
      BY <1>1, <2>1, <2>2, <2>5, SetTopStep
    <3>2. Settled'
      BY <1>1, <1>3, <2>2, <3>1, SettledSet DEF BlocksKept, TypeOK
    <3>3. Scalars' /\ PcShape'
      BY <1>1, <1>5, <2>3, <2>5 DEF TypeOK
    <3>. QED  BY <1>1, <1>2, <1>3, <1>4, <2>3, <2>5, <3>1, <3>2, <3>3, SettledNext,
                 MoveStep DEF TypeOK
  <2>6. CASE pc' = "assert" /\ UNCHANGED <<scopes, blocks, skipDepth>>
    <3>1. Scalars' /\ PcShape'
      BY <1>1, <1>5, <2>3, <2>6 DEF TypeOK
    <3>. QED  BY <1>2, <1>3, <2>3, <2>6, <3>1, QuietStep
  <2>7. CASE ~Top(blocks).hasScope /\ EnterIfBranch(else) /\ pc' = "run"
    <3>1. /\ BlocksKept /\ BlockShape' /\ Settled' /\ scopes' \in Seq(Scopes)
          /\ Cardinality(Branches(blocks)) \in Nat /\ Cardinality(Branches(blocks')) \in Nat
          /\ Len(scopes') = Len(scopes) + 1 /\ Len(scopes) \in Nat
          /\ Cardinality(Branches(blocks')) = Cardinality(Branches(blocks)) + 1
      BY <1>3, <2>1, <2>2, <2>7, EnterIfBranchStep
    <3>2. skipDepth' \in Nat
      BY <2>7 DEF EnterIfBranch
    <3>3. Scalars' /\ PcShape'
      BY <1>5, <2>3, <2>7, <3>2
    <3>. QED  BY <1>2, <1>3, <1>4, <2>3, <2>7, <3>1, <3>3, SettledNext, MoveStep
  <2>. QED  BY <2>4, <2>5, <2>6, <2>7
<1>. QED  BY <1>6, <1>7

LEMMA SkipElifStep ==
    ASSUME IInv, SkipElif
    PROVE  IInv'
<1>1. TypeOK /\ PcShape /\ CaptureShape
  BY DEF IInv
<1>2. /\ pc = "line" /\ line.dir = "elif" /\ Capture
      /\ UNCHANGED <<line, frames, scopes, blocks, skipDepth, skipCapture, pending,
                     includeDepth, input, ragged, unterm>>
  BY DEF SkipElif, Skipping, Rest
<1>3. Settled /\ captureBuf' \in Seq(Line)
  BY <1>1, <1>2, SettledNow, CaptureType
<1>4. CASE ElseRefused
  <2>1. Report(TRUE) /\ pc' = "fail" /\ UNCHANGED opCount
    BY <1>4 DEF SkipElif, Fail
  <2>2. CallsKept /\ errored' \in BOOLEAN
    BY <1>1, <2>1, ReportStep
  <2>3. Scalars' /\ PcShape'
    BY <1>1, <1>2, <1>3, <2>1, <2>2, PlainPc DEF TypeOK, Scalars, Running, Plain
  <2>. QED  BY <1>2, <1>3, <2>2, <2>3, QuietStep
<1>5. CASE ~ElseRefused
  <2>1. /\ TopKind = "if" /\ UNCHANGED <<calls, errored>>
        /\ \/ pc' \in {"run", "fail"} /\ UNCHANGED opCount
           \/ pc' = "eval" /\ opCount' = opCount + EXPR_OPS
    BY <1>5 DEF SkipElif, ElseRefused
  <2>2. CallsKept
    BY <1>1, <2>1, SameCalls
  <2>3. TopKind' = "if" /\ frames' # <<>>
    <3>1. TopKind' = TopKind
      BY <1>2, <2>2, StillStep
    <3>. QED  BY <1>1, <1>2, <2>1, <3>1 DEF PcShape
  <2>4. PcShape'
    BY <1>2, <2>1, <2>3 DEF PcShape, Evaluating
  <2>5. Scalars'
    BY <1>1, <1>2, <1>3, <2>1 DEF TypeOK, Scalars, Running, EXPR_OPS
  <2>. QED  BY <1>2, <1>3, <2>2, <2>4, <2>5, QuietStep
<1>. QED  BY <1>4, <1>5

\* The open block is over: #if popped, function defined, loop started.
LEMMA SkipEndStep ==
    ASSUME IInv, SkipEnd
    PROVE  IInv'
<1>1. TypeOK /\ FrameShape /\ BlockShape /\ PcShape /\ CaptureShape /\ CallShape /\ Balance
  BY DEF IInv
<1>2. /\ pc = "line" /\ skipDepth' = 0 /\ skipCapture' = FALSE
      /\ UNCHANGED <<line, frames, pending, opCount, includeDepth, input, unterm>>
      /\ ragged' \in BOOLEAN
  BY DEF SkipEnd, Skipping, ClosingRest
<1>3. Settled /\ frames # <<>> /\ <<>> \in Seq(Line)
  BY <1>1, <1>2, SettledNow, EmptySeq DEF PcShape
<1>4. FrameShape' /\ frames' \in Seq(Frames) /\ NestedFrames' = NestedFrames /\ NestedFrames \in Nat
  BY <1>1, <1>2, SameFrames
<1>5. CASE TopKind = "if"
  <2>1. PopIfBlock /\ pc' = "run" /\ UNCHANGED captureBuf /\ HasBlock
    BY <1>5 DEF SkipEnd, LoopKinds, TopKind
  <2>2. errored' \in BOOLEAN => Scalars'
    BY <1>1, <1>2, <2>1 DEF TypeOK, Scalars, Running
  <2>3. PcShape'
    BY <2>1, PlainPc DEF Plain
  <2>. QED  BY <1>2, <2>1, <2>2, <2>3, PopIfStep
<1>6. CASE TopKind = "func"
  <2>1. /\ HasBlock /\ PopBlock /\ captureBuf' = <<>> /\ pc' = "run"
        /\ scopes' = Assign("f", Top(blocks).public, captureBuf)
        /\ UNCHANGED <<calls, errored>>
    BY <1>6 DEF SkipEnd, FinishPendingFunc, TopKind, LoopKinds
  <2>2. Top(blocks).public \in BOOLEAN /\ captureBuf \in Seq(Line)
    BY <1>1, <2>1, BaseFacts DEF Blocks, TypeOK
  <2>3. scopes' \in Seq(Scopes) /\ Len(scopes') = Len(scopes)
    BY <1>1, <2>1, <2>2, ScopesFact, AssignType DEF Names
  <2>4. CallsKept
    BY <1>1, <2>1, SameCalls
  <2>5. Scalars' /\ PcShape'
    BY <1>1, <1>2, <1>3, <2>1, PlainPc DEF TypeOK, Scalars, Running, Plain
  <2>. QED  BY <1>2, <1>4, <1>6, <2>1, <2>3, <2>4, <2>5, PopBlockStep
<1>7. CASE TopKind \in LoopKinds
  <2>1. FinishLoop
    BY <1>7 DEF SkipEnd, LoopKinds
  <2>2. HasBlock /\ TopKind # "if" /\ Top(blocks).kind = TopKind
    BY <1>7 DEF TopKind, LoopKinds
  <2>3. CallsKept /\ errored' \in BOOLEAN /\ scopes' \in Seq(Scopes)
        /\ Len(scopes') - NestedFrames' = Len(scopes) - NestedFrames
    BY <1>1, <1>4, <2>1, SameCalls DEF TypeOK, FinishLoop
  <2>4. CASE ~Top(blocks).capturing
    <3>1. PopBlock /\ pc' = "run" /\ UNCHANGED captureBuf
      BY <2>1, <2>4 DEF FinishLoop
    <3>2. Scalars' /\ PcShape'
      BY <1>1, <1>2, <2>3, <3>1, PlainPc DEF TypeOK, Scalars, Running, Plain
    <3>. QED  BY <1>2, <1>4, <2>2, <2>3, <3>1, <3>2, PopBlockStep
  <2>5. CASE Top(blocks).capturing
    <3>. DEFINE loop == [Top(blocks) EXCEPT !.body = captureBuf, !.capturing = FALSE]
    <3>1. blocks' = SetTop(loop) /\ captureBuf' = <<>> /\ pc' = "enter"
      BY <2>1, <2>5 DEF FinishLoop
    <3>2. Top(blocks) \in Blocks /\ Len(blocks) \in DOMAIN blocks /\ Top(blocks) = blocks[Len(blocks)]
      BY <1>1, <2>2, BaseFacts DEF Top
    <3>3. /\ loop \in Blocks /\ loop.kind = Top(blocks).kind /\ ~loop.capturing
          /\ loop.left = Top(blocks).left
      BY <1>1, <3>2 DEF Blocks, TypeOK
    <3>4. ~Top(blocks).hasScope /\ ~loop.hasScope
      BY <1>1, <2>2, <3>2 DEF BlockShape, Blocks
    <3>5. TopKind = "for" => Top(blocks).left > 0
      BY <1>3, <2>2, <2>5, <3>2 DEF Settled
    <3>. HIDE DEF loop
    <3>6. /\ BlocksKept /\ BlockShape' /\ Len(blocks') = Len(blocks)
          /\ blocks'[Len(blocks)] = loop
          /\ \A k \in 1 .. Len(blocks) - 1 : blocks'[k] = blocks[k]
          /\ Cardinality(Branches(blocks')) = Cardinality(Branches(blocks))
          /\ Cardinality(Branches(blocks)) \in Nat
      BY <1>1, <2>2, <3>1, <3>3, <3>4, SetTopStep
    <3>7. Settled'
      BY <1>1, <1>3, <3>3, <3>6, SettledSet DEF BlocksKept, TypeOK
    <3>8. BlockBase' = BlockBase
      BY <1>1, <2>3, <3>6, KeptCalls
    <3>9. TopKind' = TopKind /\ Top(blocks)'.left = Top(blocks).left
      BY <2>2, <3>3, <3>6, <3>8 DEF TopKind, HasBlock, Top
    <3>10. PcShape'
      BY <1>2, <1>3, <1>7, <3>1, <3>5, <3>9 DEF PcShape, Evaluating
    <3>11. Scalars'
      BY <1>1, <1>2, <1>3, <2>3, <3>1 DEF TypeOK, Scalars, Running
    <3>. QED  BY <1>2, <1>3, <1>4, <2>3, <3>6, <3>7, <3>10, <3>11, SettledNext, MoveStep
  <2>. QED  BY <2>4, <2>5
<1>8. CASE TopKind \notin LoopKinds \cup {"if", "func"}
  <2>1. pc' = "assert" /\ UNCHANGED <<scopes, blocks, calls, errored, captureBuf>>
    BY <1>8 DEF SkipEnd, LoopKinds
  <2>2. CallsKept
    BY <1>1, <2>1, SameCalls
  <2>3. Scalars' /\ PcShape'
    BY <1>1, <1>2, <2>1, PlainPc DEF TypeOK, Scalars, Final, Plain
  <2>. QED  BY <1>2, <1>3, <2>1, <2>2, <2>3, QuietStep
<1>. QED  BY <1>5, <1>6, <1>7, <1>8

LEMMA SkipStep ==
    ASSUME IInv, Skip
    PROVE  IInv'
BY SkipQuietStep, SkipElseStep, SkipElifStep, SkipEndStep DEF Skip

-----------------------------------------------------------------------------
(* The invariant and the theorems *)

LEMMA HandleStep ==
    ASSUME IInv, Handle
    PROVE  IInv'
BY HandleQuietStep, HandleBlockStep, HandleFrameStep DEF Handle

LEMMA StutterStep ==
    ASSUME IInv, UNCHANGED vars
    PROVE  IInv'
<1>1. TypeOK /\ FrameShape /\ BlockShape /\ PcShape /\ CaptureShape /\ CallShape /\ Balance
  BY DEF IInv
<1>2. UNCHANGED <<pc, line, frames, scopes, blocks, calls, skipDepth, skipCapture,
                  captureBuf, pending, opCount, includeDepth, errored, input, ragged, unterm>>
  BY DEF vars
<1>3. CallsKept
  BY <1>1, <1>2, SameCalls
<1>4. /\ FrameShape' /\ BlockShape' /\ CallShape' /\ Balance'
      /\ frames' \in Seq(Frames) /\ scopes' \in Seq(Scopes) /\ blocks' \in Seq(Blocks)
      /\ (HasBlock' <=> HasBlock) /\ TopKind' = TopKind
      /\ calls' \in Seq(CallFrames)
  BY <1>2, <1>3, StillStep
<1>5. Scalars'
  BY <1>1, <1>2 DEF TypeOK, Scalars
<1>6. PcShape'
  BY <1>1, <1>2, <1>4 DEF PcShape, Top
<1>7. CaptureShape'
  BY <1>1, <1>2, <1>4 DEF CaptureShape, Replayed
<1>. QED  BY <1>4, <1>5, <1>6, <1>7, TypeStep DEF IInv

LEMMA NextStep ==
    ASSUME IInv, [Next]_vars
    PROVE  IInv'
<1>1. CASE Next
  BY <1>1, FetchStep, HandleStep, EvaluateStep, CallsStep, LoopsStep, SkipStep, StutterStep
     DEF Next, Ended
<1>. QED  BY <1>1, StutterStep

LEMMA InitStep ==
    ASSUME Init
    PROVE  IInv
<1>. DEFINE root == [type |-> "FRAME_CALL", file |-> TRUE, rest |-> <<>>, base |-> 0]
            global == [promote |-> TRUE, syms |-> NoSyms]
<1>1. /\ pc = "run" /\ line = NoLine /\ frames = <<root>> /\ scopes = <<global, global>>
      /\ blocks = <<>> /\ calls = <<>> /\ skipDepth = 0 /\ skipCapture = FALSE
      /\ captureBuf = <<>> /\ pending = 0 /\ opCount = 0 /\ includeDepth = 1
      /\ errored = FALSE /\ input = 0 /\ ragged = FALSE /\ unterm = FALSE
  BY DEF Init
<1>2. /\ <<>> \in Seq(Line) /\ <<>> \in Seq(Blocks) /\ <<>> \in Seq(CallFrames)
      /\ NoLine \in Line
  BY EmptySeq DEF NoLine, Line, Dirs, Exprs
<1>3. root \in Frames /\ root.type = "FRAME_CALL"
  BY <1>2 DEF Frames, FrameTypes
<1>4. global \in Scopes
  BY SymsType DEF Scopes
<1>. HIDE DEF root, global
<1>5. frames \in Seq(Frames) /\ Len(frames) = 1 /\ frames[1] = root /\ frames # <<>>
  BY <1>1, <1>3
<1>6. scopes \in Seq(Scopes) /\ Len(scopes) = 2
  BY <1>1, <1>4
<1>7. TypeOK
  BY <1>1, <1>2, <1>5, <1>6 DEF TypeOK, Running
<1>8. DOMAIN blocks = {} /\ DOMAIN calls = {} /\ DOMAIN frames = {1}
  BY <1>1, <1>5
<1>9. FrameShape /\ BlockShape /\ CaptureShape /\ CallShape
  BY <1>3, <1>5, <1>8 DEF FrameShape, BlockShape, CaptureShape, CallShape
<1>10. PcShape
  BY <1>1 DEF PcShape, Evaluating
<1>11. Balance
  <2>1. Branches(blocks) = {}
    BY <1>8 DEF Branches
  <2>2. Cardinality(Branches(blocks)) = 0
    BY <2>1, FS_EmptySet
  <2>3. NestedFrames = 0
    BY <1>5 DEF NestedFrames
  <2>. QED  BY <1>6, <2>2, <2>3 DEF Balance, Owned
<1>. QED  BY <1>7, <1>9, <1>10, <1>11 DEF IInv

\* The strengthened invariant holds in every state of the preprocessor.
THEOREM Invariance == Spec => []IInv
<1>1. Init => IInv
  BY InitStep
<1>2. IInv /\ [Next]_vars => IInv'
  BY NextStep
<1>. QED  BY <1>1, <1>2, PTL DEF Spec

\* Every variable keeps its type, whatever the lines, the limits and the
\* nesting: no stack is popped when it is empty, no counter goes below zero,
\* and a handler that resumes still finds what it reads.
THEOREM TypeCorrect == Spec => []TypeOK
<1>1. IInv => TypeOK
  BY DEF IInv
<1>. QED  BY <1>1, Invariance, PTL

\* The scopes always match the frames and the open #if branches: no handler,
\* early exit or failed call loses or leaks one.
THEOREM ScopesBalanced == Spec => []ScopeBalance
<1>1. IInv => ScopeBalance
  BY DEF IInv, Balance, Owned, ScopeBalance
<1>. QED  BY <1>1, Invariance, PTL

-----------------------------------------------------------------------------
(* Promotion *)

\* What a step does to the scopes.
ScopeMove ==
    \/ scopes' = scopes
    \/ \E promote \in BOOLEAN : pc # "cleanup" /\ scopes' = PushScope(promote, NoSyms)
    \/ \E name \in Names : pc # "cleanup" /\ scopes' = PushScope(FALSE, Binding(name))
    \/ Len(scopes) > 2 /\ scopes' = PopScope
    \/ \E public \in BOOLEAN : /\ (pc = "line" /\ ~DefinedHere("x")) \/ ValueOf({"var"})
                              /\ scopes' = Assign("x", public, <<>>)
    \/ \E public \in BOOLEAN : /\ SkipEnd /\ TopKind = "func"
                              /\ scopes' = Assign("f", public, captureBuf)

\* The floor of a definition does not promote its symbols (the global scope,
\* 2, is never popped), so no definition gets below it.
FloorShape ==
    \A k \in DOMAIN scopes : \A n \in Names :
        /\ scopes[k].syms[n].floor <= k
        /\ scopes[k].syms[n].floor > 2 => ~scopes[scopes[k].syms[n].floor].promote

LEMMA PopFrameMove ==
    ASSUME IInv, frames # <<>>, PopFrame
    PROVE  ScopeMove
<1>1. TypeOK /\ Balance
  BY DEF IInv
<1>2. /\ Len(frames) \in Nat /\ Len(scopes) \in Nat
      /\ Cardinality(Branches(blocks)) \in Nat
  BY <1>1, LenProperties, BranchCount DEF TypeOK
<1>3. Len(frames) > 1 => Len(scopes) > 2
  BY <1>1, <1>2 DEF Balance, Owned, NestedFrames
<1>. QED  BY <1>3 DEF PopFrame, ScopeMove

LEMMA BranchScopeNested ==
    ASSUME IInv, HasBlock, Top(blocks).hasScope
    PROVE  Len(scopes) > 2
<1>1. TypeOK /\ Balance /\ CallShape
  BY DEF IInv
<1>2. Len(blocks) > 0 /\ Len(frames) \in Nat /\ Len(scopes) \in Nat
  BY <1>1, BaseFacts, LenProperties DEF TypeOK
<1>3. /\ Cardinality(Branches(Under(blocks))) = Cardinality(Branches(blocks)) - 1
      /\ Under(blocks) \in Seq(Blocks)
  BY <1>1, <1>2, BranchPop, UnderType DEF TypeOK
<1>4. Cardinality(Branches(Under(blocks))) \in Nat /\ Cardinality(Branches(blocks)) \in Nat
  BY <1>1, <1>3, BranchCount DEF TypeOK
<1>5. NestedFrames \in Nat
  BY <1>1, <1>2, EmptySeq DEF NestedFrames, TypeOK
<1>6. Len(scopes) >= 2 + NestedFrames + Cardinality(Branches(blocks))
  BY <1>1 DEF Balance, Owned
<1>. QED  BY ONLY <1>2, <1>3, <1>4, <1>5, <1>6

LEMMA PopIfMove ==
    ASSUME IInv, HasBlock, PopIfBlock
    PROVE  ScopeMove
BY BranchScopeNested DEF PopIfBlock, ScopeMove

LEMMA StepMove ==
    ASSUME IInv, Next
    PROVE  ScopeMove
<1>1. TypeOK /\ FrameShape /\ BlockShape /\ PcShape /\ CaptureShape /\ CallShape /\ Balance
  BY DEF IInv
<1>2. /\ TRUE \in BOOLEAN /\ FALSE \in BOOLEAN /\ line.public \in BOOLEAN
      /\ <<>> \in Seq(Line) /\ captureBuf \in Seq(Line)
      /\ HasBlock => Top(blocks).public \in BOOLEAN
  BY <1>1, EmptySeq, BaseFacts DEF TypeOK, Line, Blocks
<1>3. CASE Fetch
  BY <1>3, PopFrameMove
     DEF Fetch, FetchPending, FetchLine, FrameExhausted, EndOfInput, UnterminatedBlock,
         PlainToken, ScopeMove
<1>4. CASE Handle
  <2>1. CASE ReportAndFail \/ BeginEval
    BY <2>1 DEF ReportAndFail, BeginEval, ScopeMove
  <2>2. CASE HandleElse /\ ~ReportAndFail
    <3>1. \/ scopes' = scopes
          \/ Top(blocks).hasScope /\ scopes' = PopScope /\ HasBlock
      BY <2>2 DEF HandleElse, ElseRefused, TopKind
    <3>. QED  BY <3>1, BranchScopeNested DEF ScopeMove
  <2>3. CASE HandleEnd /\ ~ReportAndFail
    <3>1. scopes' = scopes \/ (PopIfBlock /\ HasBlock)
      BY <2>3 DEF HandleEnd, TopKind
    <3>. QED  BY <3>1, PopIfMove DEF ScopeMove
  <2>4. CASE HandleWhile \/ HandleInclude
    BY <1>2, <2>1, <2>4 DEF HandleWhile, HandleInclude, PushCondFrame, Active, ScopeMove
  <2>5. CASE HandleVar
    BY <1>2, <2>1, <2>5 DEF HandleVar, Active, ScopeMove
  <2>6. CASE \/ OpLimitExceeded \/ HandleOperand \/ HandleStrayReturn \/ HandleUnknown
             \/ HandleElif \/ HandleFunc \/ HandleLeave \/ HandleEmit \/ HandleSet
    BY <2>1, <2>6
       DEF OpLimitExceeded, HandleOperand, HandleStrayReturn, HandleUnknown, HandleElif,
           HandleFunc, HandleLeave, HandleEmit, HandleSet, ScopeMove
  <2>. QED  BY <1>4, <2>1, <2>2, <2>3, <2>4, <2>5, <2>6 DEF Handle
<1>5. CASE Evaluate
  <2>1. CASE DirectiveCond
    <3>1. ASSUME NEW cond \in BOOLEAN, pc # "cleanup", IfBranch(cond)
          PROVE  ScopeMove
      BY <1>2, <3>1 DEF IfBranch, ScopeMove
    <3>2. ASSUME NEW cond \in BOOLEAN, WhileFirst(cond)
          PROVE  ScopeMove
      BY <3>2, PopFrameMove DEF WhileFirst
    <3>3. ASSUME NEW count \in 0 .. MaxItems, ForItems(count)
          PROVE  ScopeMove
      BY <3>3 DEF ForItems, ScopeMove
    <3>. QED  BY <2>1, <3>1, <3>2, <3>3 DEF DirectiveCond, ValueOf
  <2>2. CASE DirectiveValue
    BY <1>2, <2>2 DEF DirectiveValue, ValueOf, ScopeMove
  <2>3. CASE EvalCall
    BY <2>3 DEF EvalCall, ScopeMove, Names
  <2>4. CASE EvalFailed
    BY <2>4, PopFrameMove DEF EvalFailed, ScopeMove
  <2>5. CASE ElifCond
    BY <1>2, <2>5 DEF ElifCond, EnterIfBranch, ValueOf, ScopeMove
  <2>6. CASE EvalRejected \/ CondFrameGone \/ ReturnValue \/ ErrorDirective
    BY <2>6 DEF EvalRejected, CondFrameGone, ReturnValue, ErrorDirective, ReportAndFail, ScopeMove
  <2>. QED  BY <1>5, <2>1, <2>2, <2>3, <2>4, <2>5, <2>6 DEF Evaluate
<1>6. CASE Calls
  <2>1. CASE CleanupBlock
    BY <2>1, PopIfMove DEF CleanupBlock, ScopeMove
  <2>2. CASE CleanupFrame
    BY <2>2, PopFrameMove DEF CleanupFrame, AtCaller
  <2>3. CASE FinishCall \/ HandlerFailed
    BY <2>3 DEF FinishCall, HandlerFailed, ScopeMove
  <2>. QED  BY <1>6, <2>1, <2>2, <2>3 DEF Calls
<1>7. CASE Loops
  <2>1. CASE EnterLoopBody
    BY <1>2, <2>1 DEF EnterLoopBody, ReportAndFail, ScopeMove, Names
  <2>2. CASE LoopBodyExhausted
    BY <1>2, <2>2 DEF LoopBodyExhausted, AssertFails, PushCondFrame, LoopKinds, ScopeMove
  <2>3. CASE WhileAgain
    BY <2>3, PopFrameMove DEF WhileAgain
  <2>4. CASE LeaveIfBlock
    <3>1. scopes' = scopes \/ (PopIfBlock /\ HasBlock)
      BY <2>4 DEF LeaveIfBlock, AssertFails, TopKind
    <3>. QED  BY <3>1, PopIfMove DEF ScopeMove
  <2>5. CASE LeaveFrame
    BY <2>5, PopFrameMove DEF LeaveFrame, ScopeMove
  <2>. QED  BY <1>7, <2>1, <2>2, <2>3, <2>4, <2>5 DEF Loops
<1>8. CASE Skip
  <2>1. CASE SkipElse \/ SkipElif
    BY <1>2, <2>1 DEF SkipElse, SkipElif, EnterIfBranch, Skipping, ScopeMove
  <2>2. CASE SkipEnd
    <3>1. CASE TopKind = "if"
      BY <2>2, <3>1, PopIfMove DEF SkipEnd, TopKind, LoopKinds
    <3>2. CASE TopKind = "func"
      BY <1>2, <2>2, <3>2 DEF SkipEnd, FinishPendingFunc, TopKind, LoopKinds, ScopeMove, Names
    <3>3. CASE TopKind \notin {"if", "func"}
      BY <2>2, <3>3 DEF SkipEnd, FinishLoop, ScopeMove
    <3>. QED  BY <3>1, <3>2, <3>3
  <2>3. CASE SkipFails \/ SkipLine \/ SkipOpen \/ SkipUnknown \/ SkipInner \/ SkipInnerEnd
    BY <2>3 DEF SkipFails, SkipLine, SkipOpen, SkipUnknown, SkipInner, SkipInnerEnd, ScopeMove
  <2>. QED  BY <1>8, <2>1, <2>2, <2>3 DEF Skip
<1>9. CASE Ended
  BY <1>9 DEF Ended, vars, ScopeMove
<1>. QED  BY <1>3, <1>4, <1>5, <1>6, <1>7, <1>8, <1>9 DEF Next

LEMMA FloorStep ==
    ASSUME TypeOK, TypeOK', Balance, FloorShape, ScopeMove
    PROVE  FloorShape'
<1>1. /\ Len(scopes) \in Nat /\ Len(scopes) > 1 /\ DOMAIN scopes = 1 .. Len(scopes)
      /\ \A k \in 1 .. Len(scopes) : scopes[k] \in Scopes
      /\ \A k \in 1 .. Len(scopes), n \in Names :
            scopes[k].syms[n] \in Symbols /\ scopes[k].syms[n].floor \in Nat
  <2>1. /\ Len(scopes) \in Nat /\ Len(scopes) > 1 /\ DOMAIN scopes = 1 .. Len(scopes)
        /\ \A k \in 1 .. Len(scopes) : scopes[k] \in Scopes
    BY ScopesFact, LenProperties, ElementOfSeq DEF TypeOK
  <2>2. \A k \in 1 .. Len(scopes), n \in Names : scopes[k].syms[n] \in Symbols
    BY <2>1 DEF Scopes
  <2>. QED  BY <2>1, <2>2 DEF Symbols
<1>0. Len(scopes) \in Nat /\ Len(scopes) > 1 /\ scopes \in Seq(Scopes)
  BY <1>1 DEF TypeOK
\* It is enough that each definition is an old one that did not go below its
\* floor, or a new one whose floor is below it and does not promote.
<1>2. ASSUME DOMAIN scopes' = 1 .. Len(scopes'), Len(scopes') \in Nat,
             \A k \in 1 .. Len(scopes') :
                k <= Len(scopes) => (scopes'[k].promote <=> scopes[k].promote),
             \A k \in 1 .. Len(scopes'), n \in Names :
                \/ scopes'[k].syms[n].floor = 0
                \/ \E j \in 1 .. Len(scopes) :
                      /\ scopes'[k].syms[n] = scopes[j].syms[n]
                      /\ j <= k \/ scopes[j].syms[n].floor <= k
                \/ /\ scopes'[k].syms[n].floor \in 2 .. k
                   /\ scopes'[k].syms[n].floor > 2 =>
                        ~scopes'[scopes'[k].syms[n].floor].promote
      PROVE  FloorShape'
  <2>1. ASSUME NEW k \in 1 .. Len(scopes'), NEW n \in Names
        PROVE  /\ scopes'[k].syms[n].floor <= k
               /\ scopes'[k].syms[n].floor > 2 => ~scopes'[scopes'[k].syms[n].floor].promote
    <3>1. CASE scopes'[k].syms[n].floor = 0
      BY <1>2, <3>1
    <3>2. ASSUME NEW j \in 1 .. Len(scopes),
                 scopes'[k].syms[n] = scopes[j].syms[n],
                 j <= k \/ scopes[j].syms[n].floor <= k
          PROVE  /\ scopes'[k].syms[n].floor <= k
                 /\ scopes'[k].syms[n].floor > 2 =>
                      ~scopes'[scopes'[k].syms[n].floor].promote
      <4>. DEFINE f == scopes[j].syms[n].floor
      <4>1. f \in Nat /\ f <= j /\ (f > 2 => ~scopes[f].promote) /\ scopes'[k].syms[n].floor = f
        BY <1>1, <3>2 DEF FloorShape
      <4>. HIDE DEF f
      <4>2. f <= k
        <5>1. j <= k \/ f <= k
          BY <3>2 DEF f
        <5>2. j \in Nat /\ k \in Nat
          BY <1>1, <1>2
        <5>. QED  BY <4>1, <5>1, <5>2
      <4>3. f > 2 => f \in 1 .. Len(scopes') /\ f <= Len(scopes)
        BY <1>1, <1>2, <4>1, <4>2
      <4>. QED  BY <1>2, <4>1, <4>2, <4>3
    <3>3. CASE /\ scopes'[k].syms[n].floor \in 2 .. k
               /\ scopes'[k].syms[n].floor > 2 => ~scopes'[scopes'[k].syms[n].floor].promote
      BY <3>3
    <3>. QED  BY <1>2, <3>1, <3>2, <3>3
  <2>. QED  BY <1>2, <2>1 DEF FloorShape
<1>3. CASE scopes' = scopes
  BY <1>3 DEF FloorShape
<1>4. \A n \in Names : NoSyms[n].floor = 0
  BY DEF NoSyms, Absent
<1>5. ASSUME NEW promote \in BOOLEAN, NEW syms \in [Names -> Symbols],
             scopes' = PushScope(promote, syms),
             \A n \in Names : \/ syms[n].floor = 0
                              \/ ~promote /\ syms[n].floor = Len(scopes) + 1
      PROVE  FloorShape'
  <2>. DEFINE top == [promote |-> promote, syms |-> syms]
  <2>1. top \in Scopes /\ (top.promote <=> promote) /\ top.syms = syms
    BY DEF Scopes
  <2>2. scopes' = Append(scopes, top)
    BY <1>5 DEF PushScope
  <2>. HIDE DEF top
  <2>3. /\ Len(scopes') = Len(scopes) + 1 /\ scopes'[Len(scopes) + 1] = top
        /\ \A k \in 1 .. Len(scopes) : scopes'[k] = scopes[k]
        /\ DOMAIN scopes' = 1 .. Len(scopes')
    BY <2>1, <2>2, AppendProperties, LenProperties DEF TypeOK
  <2>4. ASSUME NEW k \in 1 .. Len(scopes'), NEW n \in Names
        PROVE  \/ scopes'[k].syms[n].floor = 0
               \/ \E j \in 1 .. Len(scopes) :
                     /\ scopes'[k].syms[n] = scopes[j].syms[n]
                     /\ j <= k \/ scopes[j].syms[n].floor <= k
               \/ /\ scopes'[k].syms[n].floor \in 2 .. k
                  /\ scopes'[k].syms[n].floor > 2 =>
                       ~scopes'[scopes'[k].syms[n].floor].promote
    <3>1. CASE k <= Len(scopes)
      <4>1. k \in 1 .. Len(scopes) /\ scopes'[k] = scopes[k] /\ k <= k
        BY <1>1, <2>3, <3>1
      <4>. QED  BY <4>1
    <3>2. CASE k = Len(scopes) + 1
      <4>1. scopes'[k].syms[n] = syms[n] /\ (scopes'[k].promote <=> promote)
        BY <2>1, <2>3, <3>2
      <4>. QED  BY <1>1, <1>5, <3>2, <4>1
    <3>. QED  BY <1>1, <2>3, <3>1, <3>2
  <2>5. \A k \in 1 .. Len(scopes') :
           k <= Len(scopes) => (scopes'[k].promote <=> scopes[k].promote)
    BY <1>1, <2>3
  <2>6. Len(scopes') \in Nat
    BY <1>1, <2>3
  <2>. QED  BY <1>2, <2>3, <2>4, <2>5, <2>6
<1>6. ASSUME NEW promote \in BOOLEAN, scopes' = PushScope(promote, NoSyms)
      PROVE  FloorShape'
  BY <1>4, <1>5, <1>6, SymsType
<1>7. ASSUME NEW name \in Names, scopes' = PushScope(FALSE, Binding(name))
      PROVE  FloorShape'
  <2>. DEFINE syms == Binding(name)
  <2>1. syms \in [Names -> Symbols]
    <3>1. Len(scopes) + 1 \in Nat
      BY <1>1
    <3>. QED  BY <3>1, SymsType, SMTT(30) DEF Binding
  <2>2. \A n \in Names : syms[n].floor = 0 \/ syms[n].floor = Len(scopes) + 1
    BY <1>4, SymsType DEF Binding
  <2>3. scopes' = PushScope(FALSE, syms)
    BY <1>7
  <2>. HIDE DEF syms
  <2>4. \A n \in Names : \/ syms[n].floor = 0
                         \/ ~FALSE /\ syms[n].floor = Len(scopes) + 1
    BY <2>2
  <2>5. FALSE \in BOOLEAN
    OBVIOUS
  <2>. QED  BY ONLY <1>5, <2>1, <2>3, <2>4, <2>5, Zenon
<1>8. ASSUME NEW name \in Names, NEW public \in BOOLEAN, NEW body \in Seq(Line),
             scopes' = Assign(name, public, body)
      PROVE  FloorShape'
  <2>. DEFINE symbol == [public |-> public, body |-> body, floor |-> Floor]
              top == [Top(scopes) EXCEPT !.syms[name] = symbol]
  <2>1. /\ Floor \in 2 .. Len(scopes)
        /\ Floor > 2 => ~scopes[Floor].promote
    BY <1>1, FloorFacts
  <2>2. /\ Len(scopes) \in 1 .. Len(scopes) /\ Top(scopes) = scopes[Len(scopes)]
        /\ Top(scopes) \in Scopes
    BY <1>1, TopType, SMTT(40) DEF TypeOK
  <2>3. symbol \in Symbols /\ symbol.floor = Floor
    BY <2>1 DEF Symbols
  <2>4. /\ top \in Scopes /\ (top.promote <=> scopes[Len(scopes)].promote)
        /\ top.syms[name] = symbol
        /\ \A n \in Names \ {name} : top.syms[n] = scopes[Len(scopes)].syms[n]
    BY <2>2, <2>3 DEF Scopes
  <2>5. scopes' = [scopes EXCEPT ![Len(scopes)] = top]
    BY <1>8, <2>2 DEF Assign
  <2>. HIDE DEF top, symbol
  <2>6. /\ Len(scopes') = Len(scopes) /\ scopes'[Len(scopes)] = top
        /\ \A k \in 1 .. Len(scopes) - 1 : scopes'[k] = scopes[k]
        /\ DOMAIN scopes' = 1 .. Len(scopes)
    BY <1>0, <2>2, <2>4, <2>5, ExceptSeq, LenProperties
  <2>7. \A k \in 1 .. Len(scopes) : scopes'[k].promote <=> scopes[k].promote
    <3>1. \A k \in 1 .. Len(scopes) : k = Len(scopes) \/ k \in 1 .. Len(scopes) - 1
      BY <1>0
    <3>. QED  BY <2>4, <2>6, <3>1
  <2>8. ASSUME NEW k \in 1 .. Len(scopes'), NEW n \in Names
        PROVE  \/ scopes'[k].syms[n].floor = 0
               \/ \E j \in 1 .. Len(scopes) :
                     /\ scopes'[k].syms[n] = scopes[j].syms[n]
                     /\ j <= k \/ scopes[j].syms[n].floor <= k
               \/ /\ scopes'[k].syms[n].floor \in 2 .. k
                  /\ scopes'[k].syms[n].floor > 2 =>
                       ~scopes'[scopes'[k].syms[n].floor].promote
    <3>1. CASE k = Len(scopes) /\ n = name
      BY <1>1, <2>1, <2>3, <2>4, <2>6, <2>7, <3>1
    <3>2. CASE k # Len(scopes) \/ n # name
      <4>1. k \in 1 .. Len(scopes) /\ k <= k /\ (k = Len(scopes) \/ k \in 1 .. Len(scopes) - 1)
        <5>1. k \in 1 .. Len(scopes)
          BY <2>6
        <5>. QED  BY <1>0, <5>1
      <4>2. scopes'[k].syms[n] = scopes[k].syms[n]
        BY <2>4, <2>6, <3>2, <4>1
      <4>. QED  BY <4>1, <4>2
    <3>. QED  BY <3>1, <3>2
  <2>. QED  BY <1>1, <1>2, <2>6, <2>7, <2>8
<1>9. ASSUME Len(scopes) > 2, scopes' = PopScope
      PROVE  FloorShape'
  <2>. DEFINE below == Under(scopes)
              top == Top(scopes)
              parent == Top(below)
              merged == [parent EXCEPT !.syms =
                          [n \in Names |-> IF n \in Promoted(top, parent)
                                           THEN top.syms[n] ELSE parent.syms[n]]]
              depth == Len(scopes) - 1
  <2>1. /\ below \in Seq(Scopes) /\ Len(below) = depth
        /\ \A k \in 1 .. depth : below[k] = scopes[k]
    BY <1>0, UnderType
  <2>2. depth \in 1 .. Len(scopes) /\ depth \in 1 .. depth /\ depth \in Nat /\ depth > 1
    BY <1>1, <1>9
  <2>3. parent = scopes[depth] /\ top = scopes[Len(scopes)] /\ parent \in Scopes /\ top \in Scopes
    BY <1>1, <2>1, <2>2 DEF Top
  <2>4. /\ merged \in Scopes /\ (merged.promote <=> parent.promote)
        /\ \A n \in Names : merged.syms[n] = top.syms[n] \/ merged.syms[n] = parent.syms[n]
    BY <2>3 DEF Scopes
  <2>5. \/ scopes' = below
        \/ top.promote /\ scopes' = [below EXCEPT ![depth] = merged]
    <3>1. PromoteInto(below, top) = [below EXCEPT ![depth] = merged]
      BY <2>1, <2>2 DEF PromoteInto, Top
    <3>. QED  BY <1>9, <3>1 DEF PopScope
  <2>. HIDE DEF merged
  <2>6. /\ Len(scopes') = depth /\ DOMAIN scopes' = 1 .. depth
        /\ \A k \in 1 .. depth - 1 : scopes'[k] = scopes[k]
        /\ scopes'[depth] = parent \/ (top.promote /\ scopes'[depth] = merged)
    <3>. HIDE DEF below, top, parent, depth
    <3>1. CASE scopes' = below
      <4>1. below[depth] = parent
        BY <2>1, <2>2, <2>3
      <4>. QED  BY <2>1, <2>2, <3>1, <4>1, LenProperties
    <3>2. CASE top.promote /\ scopes' = [below EXCEPT ![depth] = merged]
      BY <2>1, <2>2, <2>4, <3>2, ExceptSeq
    <3>. QED  BY <2>5, <3>1, <3>2
  <2>7. \A k \in 1 .. depth : scopes'[k].promote <=> scopes[k].promote
    <3>1. \A k \in 1 .. depth : k = depth \/ k \in 1 .. depth - 1
      BY <2>2
    <3>. QED  BY <2>3, <2>4, <2>6, <3>1
  <2>8. ASSUME NEW k \in 1 .. depth, NEW n \in Names
        PROVE  \E j \in 1 .. Len(scopes) :
                  /\ scopes'[k].syms[n] = scopes[j].syms[n]
                  /\ j <= k \/ scopes[j].syms[n].floor <= k
    <3>1. CASE scopes'[k].syms[n] = scopes[k].syms[n]
      <4>1. k \in 1 .. Len(scopes) /\ k <= k
        BY <1>1, <2>2
      <4>. QED  BY <3>1, <4>1
    <3>2. CASE scopes'[k].syms[n] # scopes[k].syms[n]
      <4>1. k = depth /\ top.promote /\ scopes'[k].syms[n] = top.syms[n]
        <5>1. k = depth
          BY <2>2, <2>6, <3>2
        <5>. QED  BY <2>3, <2>4, <2>6, <3>2, <5>1
      \* The top promotes, so it is not the floor of what it holds.
      <4>2. top.syms[n].floor <= depth
        <5>1. /\ scopes[Len(scopes)].syms[n].floor <= Len(scopes)
              /\ scopes[Len(scopes)].syms[n].floor > 2 =>
                   ~scopes[scopes[Len(scopes)].syms[n].floor].promote
              /\ scopes[Len(scopes)].syms[n].floor \in Nat
          <6>1. Len(scopes) \in 1 .. Len(scopes)
            BY <1>1
          <6>. QED  BY <1>1, <6>1 DEF FloorShape
        <5>2. scopes[Len(scopes)].syms[n].floor # Len(scopes)
          BY <1>9, <2>3, <4>1, <5>1
        <5>. QED  BY <1>1, <2>3, <5>1, <5>2
      <4>3. Len(scopes) \in 1 .. Len(scopes) /\ top = scopes[Len(scopes)]
        BY <1>1, <2>3
      <4>. QED  BY <4>1, <4>2, <4>3
    <3>. QED  BY <3>1, <3>2
  <2>. HIDE DEF depth
  <2>. QED  BY <1>2, <2>2, <2>6, <2>7, <2>8
<1>10. <<>> \in Seq(Line) /\ captureBuf \in Seq(Line) /\ {"f", "x"} \subseteq Names
  BY EmptySeq DEF TypeOK, Names
<1>. QED  BY <1>3, <1>6, <1>7, <1>8, <1>9, <1>10 DEF ScopeMove

\* A definition made under the scope of a function or loop body is never
\* promoted past it.
THEOREM LocalsContained == Spec => []LocalsStayLocal
<1>1. Init => FloorShape
  <2>1. ASSUME Init
        PROVE  /\ DOMAIN scopes = {1, 2}
               /\ \A k \in {1, 2}, n \in Names : scopes[k].syms[n].floor = 0
    <3>1. scopes = <<[promote |-> TRUE, syms |-> NoSyms], [promote |-> TRUE, syms |-> NoSyms]>>
      BY <2>1 DEF Init
    <3>. QED  BY <3>1 DEF NoSyms, Absent
  <2>. QED  BY <2>1 DEF FloorShape
<1>2. IInv /\ IInv' /\ FloorShape /\ [Next]_vars => FloorShape'
  <2>1. ASSUME IInv, IInv', FloorShape, Next
        PROVE  FloorShape'
    BY <2>1, StepMove, FloorStep DEF IInv
  <2>2. ASSUME FloorShape, UNCHANGED vars
        PROVE  FloorShape'
    BY <2>2 DEF FloorShape, vars
  <2>. QED  BY <2>1, <2>2
<1>3. FloorShape => LocalsStayLocal
  BY DEF FloorShape, LocalsStayLocal
<1>. QED  BY <1>1, <1>2, <1>3, Invariance, PTL DEF Spec

-----------------------------------------------------------------------------
(* What a step does to the calls under way *)

\* Calls and what they wait for stay; an error makes them unclean, a popped
\* frame may be the one a call has to return to.
Steady ==
    /\ calls' \in Seq(CallFrames) /\ Len(calls') = Len(calls)
    /\ errored => errored'
    /\ \A c \in 1 .. Len(calls) :
          /\ calls'[c].line = calls[c].line
          /\ calls'[c].base = calls[c].base
          /\ calls'[c].skip = calls[c].skip
          /\ calls'[c].caller = calls[c].caller
          /\ ~calls'[c].clean => ~calls[c].clean \/ errored'
          /\ calls'[c].gone => \/ calls[c].gone
                               \/ /\ frames # <<>> /\ frames' = Under(frames)
                                  /\ calls[c].caller >= Len(frames)

LEMMA DirtySteady ==
    ASSUME NEW cs \in Seq(CallFrames), NEW r \in BOOLEAN
    PROVE  \A c \in 1 .. Len(cs) : /\ Dirty(cs, r)[c].skip = cs[c].skip
                                   /\ Dirty(cs, r)[c].gone = cs[c].gone
                                   /\ Dirty(cs, r)[c].clean <=> cs[c].clean /\ ~r
<1>1. DOMAIN cs = 1 .. Len(cs) /\ \A c \in DOMAIN cs : cs[c] \in CallFrames
  BY LenProperties, ElementOfSeq
<1>. QED  BY <1>1 DEF Dirty, CallFrames

LEMMA OrphanSteady ==
    ASSUME NEW cs \in Seq(CallFrames), NEW n \in Nat
    PROVE  \A c \in 1 .. Len(cs) : /\ Orphan(cs, n)[c].skip = cs[c].skip
                                   /\ Orphan(cs, n)[c].gone <=> cs[c].gone \/ cs[c].caller > n
                                   /\ Orphan(cs, n)[c].clean = cs[c].clean
<1>1. DOMAIN cs = 1 .. Len(cs) /\ \A c \in DOMAIN cs : cs[c] \in CallFrames
  BY LenProperties, ElementOfSeq
<1>. QED  BY <1>1 DEF Orphan, CallFrames

LEMMA ClashBoolean == PromoteClash \in BOOLEAN
BY Zenon DEF PromoteClash

LEMMA SameSteady ==
    ASSUME TypeOK, UNCHANGED <<calls, errored>>
    PROVE  Steady
BY DEF TypeOK, Steady

LEMMA ReportSteady ==
    ASSUME TypeOK, NEW r \in BOOLEAN, Report(r)
    PROVE  Steady
<1>1. /\ calls' = Dirty(calls, r) /\ errored' = (errored \/ r)
      /\ calls \in Seq(CallFrames)
  BY DEF Report, TypeOK
<1>2. /\ calls' \in Seq(CallFrames) /\ Len(calls') = Len(calls)
      /\ \A c \in 1 .. Len(calls) : /\ calls'[c].line = calls[c].line
                                    /\ calls'[c].base = calls[c].base
                                    /\ calls'[c].caller = calls[c].caller
  BY <1>1, DirtyFlags
<1>3. \A c \in 1 .. Len(calls) : /\ calls'[c].skip = calls[c].skip
                                 /\ calls'[c].gone = calls[c].gone
                                 /\ calls'[c].clean <=> calls[c].clean /\ ~r
  BY <1>1, DirtySteady
<1>4. r => errored'
  BY <1>1
<1>. QED  BY <1>1, <1>2, <1>3, <1>4 DEF Steady

LEMMA PopFrameSteady ==
    ASSUME TypeOK, frames # <<>>, PopFrame
    PROVE  Steady /\ frames' = Under(frames)
<1>1. /\ Len(frames) \in Nat /\ Len(frames) > 0 /\ calls \in Seq(CallFrames)
      /\ DOMAIN calls = 1 .. Len(calls)
      /\ \A c \in 1 .. Len(calls) : calls[c].caller \in Nat
  <2>1. \A c \in DOMAIN calls : calls[c] \in CallFrames
    BY ElementOfSeq, LenProperties DEF TypeOK
  <2>. QED  BY <2>1, LenProperties, EmptySeq DEF TypeOK, CallFrames
<1>. DEFINE clash == Len(frames) > 1 /\ PromoteClash
            dirty == IF Len(frames) > 1 THEN Dirty(calls, PromoteClash) ELSE calls
<1>2. /\ calls' = Orphan(dirty, Len(frames) - 1)
      /\ errored' = IF Len(frames) > 1 THEN errored \/ PromoteClash ELSE errored
      /\ frames' = Under(frames)
  BY DEF PopFrame
<1>3. /\ dirty \in Seq(CallFrames) /\ Len(dirty) = Len(calls)
      /\ \A c \in 1 .. Len(calls) : /\ dirty[c].line = calls[c].line
                                    /\ dirty[c].base = calls[c].base
                                    /\ dirty[c].skip = calls[c].skip
                                    /\ dirty[c].caller = calls[c].caller
                                    /\ dirty[c].gone = calls[c].gone
                                    /\ ~dirty[c].clean => ~calls[c].clean \/ errored'
  <2>1. CASE Len(frames) > 1
    <3>1. /\ Dirty(calls, PromoteClash) \in Seq(CallFrames)
          /\ Len(Dirty(calls, PromoteClash)) = Len(calls)
          /\ \A c \in 1 .. Len(calls) :
                /\ Dirty(calls, PromoteClash)[c].line = calls[c].line
                /\ Dirty(calls, PromoteClash)[c].base = calls[c].base
                /\ Dirty(calls, PromoteClash)[c].caller = calls[c].caller
      BY ONLY <1>1, ClashBoolean, DirtyFlags
    <3>2. \A c \in 1 .. Len(calls) :
                /\ Dirty(calls, PromoteClash)[c].skip = calls[c].skip
                /\ Dirty(calls, PromoteClash)[c].gone = calls[c].gone
                /\ Dirty(calls, PromoteClash)[c].clean <=> calls[c].clean /\ ~PromoteClash
      BY ONLY <1>1, ClashBoolean, DirtySteady
    <3>3. dirty = Dirty(calls, PromoteClash) /\ errored' = (errored \/ PromoteClash)
      BY <1>2, <2>1
    <3>. QED  BY <3>1, <3>2, <3>3
  <2>2. CASE ~(Len(frames) > 1)
    BY <1>1, <2>2
  <2>. QED  BY <2>1, <2>2
<1>. HIDE DEF dirty
<1>4. Len(frames) - 1 \in Nat
  BY <1>1
<1>5. /\ calls' \in Seq(CallFrames) /\ Len(calls') = Len(dirty)
      /\ \A c \in 1 .. Len(dirty) : /\ calls'[c].line = dirty[c].line
                                    /\ calls'[c].base = dirty[c].base
                                    /\ calls'[c].caller = dirty[c].caller
  BY <1>2, <1>3, <1>4, OrphanFlags
<1>6. \A c \in 1 .. Len(dirty) : /\ calls'[c].skip = dirty[c].skip
                                 /\ calls'[c].gone <=> dirty[c].gone \/ dirty[c].caller > Len(frames) - 1
                                 /\ calls'[c].clean = dirty[c].clean
  BY <1>2, <1>3, <1>4, OrphanSteady
<1>7. errored => errored'
  BY <1>2
<1>8. \A c \in 1 .. Len(calls) : calls'[c].gone => calls[c].gone \/ calls[c].caller >= Len(frames)
  BY <1>1, <1>3, <1>6
<1>. QED  BY <1>2, <1>3, <1>5, <1>6, <1>7, <1>8 DEF Steady

LEMMA PopIfSteady ==
    ASSUME TypeOK, PopIfBlock
    PROVE  Steady
<1>1. CASE Top(blocks).hasScope
  BY <1>1, ClashBoolean, ReportSteady DEF PopIfBlock
<1>2. CASE ~Top(blocks).hasScope
  BY <1>2, SameSteady DEF PopIfBlock
<1>. QED  BY <1>1, <1>2

LEMMA YieldSteady ==
    ASSUME TypeOK, YieldToken
    PROVE  Steady
BY ReportSteady, SameSteady DEF YieldToken

LEMMA CallMove ==
    ASSUME IInv, Next
    PROVE  Steady \/ EvalCall \/ ReturnValue \/ FinishCall
<1>1. TypeOK /\ PcShape
  BY DEF IInv
<1>2. CASE Fetch
  <2>1. FetchPending \/ PlainToken => Steady
    BY <1>1, YieldSteady DEF FetchPending, PlainToken
  <2>2. FetchLine \/ EndOfInput => Steady
    BY <1>1, SameSteady DEF FetchLine, EndOfInput
  <2>3. FrameExhausted => Steady
    BY <1>1, PopFrameSteady DEF FrameExhausted
  <2>4. UnterminatedBlock => Steady
    BY <1>1, ReportSteady DEF UnterminatedBlock
  <2>. QED  BY <1>2, <2>1, <2>2, <2>3, <2>4 DEF Fetch
<1>3. ReportAndFail => Steady
  BY <1>1, ReportSteady DEF ReportAndFail
<1>4. CASE Handle
  <2>1. OpLimitExceeded \/ HandleOperand \/ HandleStrayReturn \/ HandleUnknown => Steady
    BY <1>1, <1>3, SameSteady
       DEF OpLimitExceeded, HandleOperand, HandleStrayReturn, HandleUnknown, BeginEval
  <2>2. HandleElse => Steady
    BY <1>1, <1>3, SameSteady, ReportSteady, ClashBoolean DEF HandleElse
  <2>3. HandleElif => Steady
    BY <1>1, <1>3, SameSteady DEF HandleElif
  <2>4. HandleEnd => Steady
    BY <1>1, <1>3, SameSteady, PopIfSteady DEF HandleEnd
  <2>5. HandleFunc \/ HandleWhile \/ HandleLeave => Steady
    BY <1>1, <1>3, SameSteady DEF HandleFunc, HandleWhile, HandleLeave
  <2>6. HandleInclude \/ HandleEmit => Steady
    BY <1>1, <1>3, SameSteady DEF HandleInclude, HandleEmit, BeginEval
  <2>7. HandleVar \/ HandleSet => Steady
    BY <1>1, <1>3, SameSteady DEF HandleVar, HandleSet, BeginEval
  <2>. QED  BY <1>4, <2>1, <2>2, <2>3, <2>4, <2>5, <2>6, <2>7 DEF Handle
<1>5. CASE Evaluate
  <2>1. EvalRejected => Steady
    BY <1>1, ReportSteady DEF EvalRejected
  <2>2. EvalFailed => Steady
    BY <1>1, SameSteady, PopFrameSteady DEF EvalFailed
  <2>3. CondFrameGone \/ DirectiveValue \/ ElifCond => Steady
    BY <1>1, SameSteady DEF CondFrameGone, DirectiveValue, ElifCond
  <2>4. ErrorDirective => Steady
    BY <1>3 DEF ErrorDirective
  <2>5. DirectiveCond => Steady
    BY <1>1, SameSteady, PopFrameSteady DEF DirectiveCond, IfBranch, WhileFirst, ForItems
  <2>. QED  BY <1>5, <2>1, <2>2, <2>3, <2>4, <2>5 DEF Evaluate
<1>6. CASE Calls
  <2>1. CleanupBlock => Steady
    BY <1>1, SameSteady, PopIfSteady DEF CleanupBlock
  <2>2. CleanupFrame => Steady
    BY <1>1, PopFrameSteady DEF CleanupFrame, AtCaller
  <2>3. HandlerFailed => Steady
    BY <1>1, SameSteady DEF HandlerFailed
  <2>. QED  BY <1>6, <2>1, <2>2, <2>3 DEF Calls
<1>7. CASE Loops
  <2>1. EnterLoopBody => Steady
    BY <1>1, <1>3, SameSteady DEF EnterLoopBody
  <2>2. LoopBodyExhausted => Steady
    BY <1>1, SameSteady DEF LoopBodyExhausted, AssertFails, LoopKinds
  <2>3. WhileAgain => Steady
    BY <1>1, PopFrameSteady DEF WhileAgain
  <2>4. LeaveIfBlock => Steady
    BY <1>1, SameSteady, PopIfSteady DEF LeaveIfBlock, AssertFails
  <2>5. LeaveFrame => Steady
    BY <1>1, SameSteady, PopFrameSteady DEF LeaveFrame
  <2>. QED  BY <1>7, <2>1, <2>2, <2>3, <2>4, <2>5 DEF Loops
<1>8. CASE Skip
  <2>1. SkipFails \/ SkipLine \/ SkipUnknown => Steady
    <3>1. FuncTokenDir \in BOOLEAN
      BY Zenon DEF FuncTokenDir
    <3>. QED  BY <1>1, <3>1, ReportSteady DEF SkipFails, SkipLine, SkipUnknown
  <2>2. SkipOpen \/ SkipInner \/ SkipInnerEnd => Steady
    BY <1>1, SameSteady DEF SkipOpen, SkipInner, SkipInnerEnd
  <2>3. SkipElse \/ SkipElif => Steady
    BY <1>1, SameSteady, ReportSteady DEF SkipElse, SkipElif
  <2>4. SkipEnd => Steady
    BY <1>1, SameSteady, PopIfSteady DEF SkipEnd, FinishPendingFunc, FinishLoop
  <2>. QED  BY <1>8, <2>1, <2>2, <2>3, <2>4 DEF Skip
<1>9. CASE Ended
  BY <1>1, <1>9, SameSteady DEF Ended, vars
<1>. QED  BY <1>2, <1>4, <1>5, <1>6, <1>7, <1>8, <1>9 DEF Next, Evaluate, Calls

-----------------------------------------------------------------------------
(* What a step does to the blocks *)

\* The blocks of the suspended callers stay as they are.
BlocksBelow ==
    /\ blocks' \in Seq(Blocks) /\ BlockBase <= Len(blocks')
    /\ \A k \in 1 .. BlockBase : blocks'[k] = blocks[k]

LEMMA PopBelow ==
    ASSUME IInv, HasBlock, blocks' = Under(blocks)
    PROVE  /\ BlocksBelow /\ Len(blocks') = Len(blocks) - 1
           /\ \A k \in 1 .. Len(blocks) - 1 : blocks'[k] = blocks[k]
<1>1. /\ TypeOK /\ CallShape /\ BlockShape
      /\ BlockBase \in Nat /\ Len(blocks) \in Nat /\ Len(blocks) > BlockBase
  BY BaseFacts DEF IInv, HasBlock
<1>2. /\ BlocksKept /\ Len(blocks') = Len(blocks) - 1
      /\ \A k \in 1 .. Len(blocks) - 1 : blocks'[k] = blocks[k]
  BY <1>1, PopTopStep
<1>. QED  BY <1>1, <1>2 DEF BlocksBelow, BlocksKept

LEMMA PushBelow ==
    ASSUME IInv, NEW b \in Blocks, blocks' = Append(blocks, b)
    PROVE  /\ BlocksBelow /\ Len(blocks') = Len(blocks) + 1
           /\ blocks'[Len(blocks) + 1] = b
           /\ \A k \in 1 .. Len(blocks) : blocks'[k] = blocks[k]
<1>1. /\ BlockBase \in Nat /\ Len(blocks) \in Nat /\ BlockBase <= Len(blocks)
      /\ blocks \in Seq(Blocks)
  BY BaseFacts DEF IInv, TypeOK
<1>2. /\ blocks' \in Seq(Blocks) /\ Len(blocks') = Len(blocks) + 1
      /\ blocks'[Len(blocks) + 1] = b
      /\ \A k \in 1 .. Len(blocks) : blocks'[k] = blocks[k]
  BY <1>1, AppendProperties
<1>. QED  BY <1>1, <1>2 DEF BlocksBelow

LEMMA SetBelow ==
    ASSUME IInv, HasBlock, NEW b \in Blocks, blocks' = SetTop(b)
    PROVE  /\ BlocksBelow /\ Len(blocks') = Len(blocks)
           /\ blocks'[Len(blocks)] = b
           /\ \A k \in 1 .. Len(blocks) - 1 : blocks'[k] = blocks[k]
<1>1. /\ BlockBase \in Nat /\ Len(blocks) \in Nat /\ BlockBase < Len(blocks)
      /\ blocks \in Seq(Blocks)
  BY BaseFacts DEF IInv, TypeOK, HasBlock
<1>2. /\ blocks' \in Seq(Blocks) /\ Len(blocks') = Len(blocks)
      /\ blocks'[Len(blocks)] = b
      /\ \A k \in 1 .. Len(blocks) - 1 : blocks'[k] = blocks[k]
  BY <1>1, ExceptSeq DEF SetTop
<1>. QED  BY <1>1, <1>2 DEF BlocksBelow

LEMMA CutBelow ==
    ASSUME IInv, blocks' = SubSeq(blocks, 1, BlockBase)
    PROVE  BlocksBelow /\ Len(blocks') = BlockBase
<1>1. /\ BlockBase \in Nat /\ BlockBase <= Len(blocks) /\ blocks \in Seq(Blocks)
  BY BaseFacts DEF IInv, TypeOK
<1>. QED  BY <1>1, PrefixType DEF BlocksBelow

LEMMA SameBelow ==
    ASSUME IInv, blocks' = blocks
    PROVE  BlocksBelow
BY BaseFacts DEF IInv, TypeOK, BlocksBelow

\* The top block is a block of the running call, whatever fields are replaced.
LEMMA TopFields ==
    ASSUME IInv, HasBlock
    PROVE  /\ Top(blocks) \in Blocks /\ TopKind = Top(blocks).kind
           /\ Top(blocks) = blocks[Len(blocks)] /\ Len(blocks) \in DOMAIN blocks
           /\ \A b \in BOOLEAN : [Top(blocks) EXCEPT !.hadElse = b] \in Blocks
           /\ [Top(blocks) EXCEPT !.hadElse = TRUE, !.hasScope = FALSE] \in Blocks
           /\ [Top(blocks) EXCEPT !.taken = TRUE, !.hasScope = TRUE] \in Blocks
           /\ [[Top(blocks) EXCEPT !.hadElse = TRUE] EXCEPT !.taken = TRUE, !.hasScope = TRUE]
                 \in Blocks
           /\ [Top(blocks) EXCEPT !.body = captureBuf, !.capturing = FALSE] \in Blocks
<1>1. /\ Top(blocks) \in Blocks /\ captureBuf \in Seq(Line) /\ Len(blocks) > 0
      /\ DOMAIN blocks = 1 .. Len(blocks) /\ Len(blocks) \in Nat
  BY BaseFacts DEF IInv, TypeOK
<1>2. TopKind = Top(blocks).kind /\ Top(blocks) = blocks[Len(blocks)]
  BY DEF TopKind, Top
<1>. DEFINE top == Top(blocks)
<1>3. top \in Blocks
  BY <1>1
<1>. HIDE DEF top
<1>4. \A b \in BOOLEAN : [top EXCEPT !.hadElse = b] \in Blocks
  BY <1>3 DEF Blocks
<1>5. [top EXCEPT !.hadElse = TRUE, !.hasScope = FALSE] \in Blocks
  BY <1>3 DEF Blocks
<1>6. \A t \in Blocks : [t EXCEPT !.taken = TRUE, !.hasScope = TRUE] \in Blocks
  BY DEF Blocks
<1>7. [top EXCEPT !.body = captureBuf, !.capturing = FALSE] \in Blocks
  BY <1>1, <1>3 DEF Blocks
<1>8. [[top EXCEPT !.hadElse = TRUE] EXCEPT !.taken = TRUE, !.hasScope = TRUE] \in Blocks
  BY <1>4, <1>6
<1>9. /\ \A b \in BOOLEAN : [Top(blocks) EXCEPT !.hadElse = b] \in Blocks
      /\ [Top(blocks) EXCEPT !.taken = TRUE, !.hasScope = TRUE] \in Blocks
  BY <1>3, <1>4, <1>6 DEF top
<1>. QED  BY <1>1, <1>2, <1>5, <1>7, <1>8, <1>9 DEF top

-----------------------------------------------------------------------------
(* Failures are reported. *)

\* A call that is no longer clean has seen an error, and so has every handler
\* that gives up, unless it gives up silently.
Reported ==
    /\ pc = "evalfail" => errored
    /\ pc \in {"fail", "failed"} => errored \/ GivesUpSilently
    /\ \A c \in DOMAIN calls : ~calls[c].clean => errored

\* The call that ends is reported or not.
LEMMA FinishDirty ==
    ASSUME IInv, FinishCall
    PROVE  \E r \in BOOLEAN : /\ calls' = Dirty(Under(calls), r)
                              /\ errored' = (errored \/ r)
                              /\ pc' \in {"value", "evalfail"}
                              /\ pc' = "evalfail" => ~Top(calls).clean \/ r
<1>. DEFINE r == ~(Top(calls).returned \/ ~Top(calls).clean)
<1>1. Top(calls) \in CallFrames
  BY TopType, EmptySeq DEF IInv, TypeOK, PcShape, FinishCall
<1>2. Top(calls).returned \in BOOLEAN /\ Top(calls).clean \in BOOLEAN
  BY <1>1 DEF CallFrames
<1>3. /\ r \in BOOLEAN
      /\ calls' = Dirty(Under(calls), r) /\ errored' = (errored \/ r)
      /\ pc' \in {"value", "evalfail"}
      /\ pc' = "evalfail" => ~Top(calls).clean \/ r
  BY <1>2 DEF FinishCall
<1>. HIDE DEF r
<1>. QED  BY <1>3

\* The calls of a step that has reported nothing are still clean.
LEMMA CleanCalls ==
    ASSUME IInv, Reported, Next, ~errored'
    PROVE  ~errored /\ \A c \in DOMAIN calls' : calls'[c].clean
<1>1. /\ TypeOK /\ PcShape /\ calls \in Seq(CallFrames)
      /\ DOMAIN calls = 1 .. Len(calls) /\ Len(calls) \in Nat
      /\ \A c \in DOMAIN calls : calls[c] \in CallFrames
  BY LenProperties, ElementOfSeq DEF IInv, TypeOK
<1>2. CASE Steady
  <2>1. DOMAIN calls' = 1 .. Len(calls)
    BY <1>2, LenProperties DEF Steady
  <2>. QED  BY <1>1, <1>2, <2>1 DEF Steady, Reported
<1>3. CASE EvalCall
  <2>. DEFINE call == [line |-> line, base |-> Len(blocks), skip |-> skipDepth,
                       caller |-> Len(frames), gone |-> FALSE, returned |-> FALSE,
                       clean |-> TRUE]
  <2>1. calls' = Append(calls, call) /\ errored' = errored /\ call.clean
    BY <1>3 DEF EvalCall
  <2>. HIDE DEF call
  <2>2. DOMAIN calls' = 1 .. Len(calls) + 1 /\ calls'[Len(calls) + 1] = call
        /\ \A c \in 1 .. Len(calls) : calls'[c] = calls[c]
    BY <1>1, <2>1
  <2>. QED  BY <1>1, <2>1, <2>2 DEF Reported
<1>4. CASE ReturnValue
  <2>1. calls # <<>> /\ errored' = errored
        /\ calls' = [calls EXCEPT ![Len(calls)].returned = TRUE]
    BY <1>1, <1>4 DEF ReturnValue, ValueOf, PcShape, Evaluating
  <2>2. DOMAIN calls' = DOMAIN calls /\ \A c \in DOMAIN calls : calls'[c].clean = calls[c].clean
    BY <1>1, <2>1 DEF CallFrames
  <2>. QED  BY <2>1, <2>2 DEF Reported
<1>5. CASE FinishCall
  <2>1. calls # <<>>
    BY <1>1, <1>5 DEF FinishCall, PcShape
  <2>2. /\ Under(calls) \in Seq(CallFrames) /\ Len(Under(calls)) = Len(calls) - 1
        /\ \A c \in 1 .. Len(calls) - 1 : Under(calls)[c] = calls[c]
    <3>1. Len(calls) > 0
      BY <1>1, <2>1, EmptySeq
    <3>. QED  BY <1>1, <3>1, UnderType
  <2>3. PICK r \in BOOLEAN : /\ calls' = Dirty(Under(calls), r)
                             /\ errored' = (errored \/ r)
                             /\ pc' \in {"value", "evalfail"}
                             /\ pc' = "evalfail" => ~Top(calls).clean \/ r
    BY <1>5, FinishDirty
  <2>6. ~r /\ ~errored
    <3>1. errored \in BOOLEAN /\ errored' = (errored \/ r)
      BY <1>1, <2>3 DEF TypeOK
    <3>. QED  BY ONLY r \in BOOLEAN, ~errored', <3>1
  <2>4. /\ DOMAIN calls' = 1 .. Len(calls) - 1
        /\ \A c \in 1 .. Len(calls) - 1 : calls'[c].clean <=> calls[c].clean
    <3>1. Len(calls') = Len(calls) - 1 /\ calls' \in Seq(CallFrames)
      BY <2>2, <2>3, DirtyFlags
    <3>2. \A c \in 1 .. Len(calls) - 1 : calls'[c].clean <=> calls[c].clean
      BY <2>2, <2>3, <2>6, DirtySteady
    <3>. QED  BY <3>1, <3>2, LenProperties
  <2>. QED  BY <1>1, <2>4, <2>6 DEF Reported
<1>. QED  BY <1>2, <1>3, <1>4, <1>5, CallMove

LEMMA ReportedStep ==
    ASSUME IInv, Reported, Next
    PROVE  Reported'
<1>1. SUFFICES ASSUME ~errored'
               PROVE  pc' # "evalfail" /\ (pc' \in {"fail", "failed"} => GivesUpSilently')
  BY CleanCalls DEF Reported
<1>2. ~errored /\ TypeOK /\ PcShape
  BY <1>1, CleanCalls DEF IInv
<1>3. ~ReportAndFail /\ ~Report(TRUE)
  BY <1>1 DEF ReportAndFail, Report
<1>4. CASE Fetch
  BY <1>3, <1>4 DEF Fetch, FetchPending, FetchLine, FrameExhausted, EndOfInput,
     UnterminatedBlock, PlainToken, YieldToken
<1>5. CASE Handle
  BY <1>3, <1>5 DEF Handle, OpLimitExceeded, HandleOperand, HandleStrayReturn, HandleUnknown,
     HandleElse, HandleElif, HandleEnd, HandleFunc, HandleWhile, HandleLeave, HandleInclude,
     HandleEmit, HandleVar, HandleSet, BeginEval, Fail, Active, GivesUpSilently
<1>6. CASE Evaluate /\ ~EvalFailed
  BY <1>3, <1>6 DEF Evaluate, EvalRejected, CondFrameGone, EvalCall, ReturnValue, DirectiveCond,
     DirectiveValue, ErrorDirective, ElifCond, IfBranch, WhileFirst, ForItems, BeginLoop
<1>7. CASE EvalFailed
  BY <1>2, <1>7 DEF EvalFailed, Reported
<1>8. CASE FinishCall
  <2>1. PICK r \in BOOLEAN : /\ errored' = (errored \/ r) /\ pc' \in {"value", "evalfail"}
                             /\ pc' = "evalfail" => ~Top(calls).clean \/ r
    BY <1>8, FinishDirty
  <2>2. calls # <<>>
    BY <1>2, <1>8 DEF FinishCall, PcShape
  <2>3. Len(calls) \in DOMAIN calls
    BY <1>2, <2>2, LenProperties, EmptySeq DEF TypeOK
  <2>4. Top(calls).clean /\ ~r
    BY <1>1, <1>2, <2>1, <2>3 DEF Reported, Top
  <2>. QED  BY <2>1, <2>4
<1>9. CASE Calls /\ ~FinishCall
  BY <1>2, <1>9 DEF Calls, CleanupBlock, CleanupFrame, HandlerFailed, Reported, GivesUpSilently
<1>10. CASE Loops
  BY <1>3, <1>10 DEF Loops, EnterLoopBody, LoopBodyExhausted, WhileAgain, LeaveIfBlock,
     LeaveFrame, AssertFails, LoopKinds
<1>11. CASE Skip
  <2>1. CASE SkipFails \/ SkipLine \/ SkipOpen \/ SkipUnknown \/ SkipInner \/ SkipInnerEnd
    BY <1>3, <2>1 DEF SkipFails, SkipLine, SkipOpen, SkipUnknown, SkipInner, SkipInnerEnd, Fail,
       Skipping, GivesUpSilently
  <2>2. CASE SkipElse \/ SkipElif
    BY <1>3, <2>2 DEF SkipElse, SkipElif, Skipping, GivesUpSilently
  <2>3. CASE SkipEnd
    BY <2>3 DEF SkipEnd, FinishPendingFunc, FinishLoop, LoopKinds
  <2>. QED  BY <1>11, <2>1, <2>2, <2>3 DEF Skip
<1>12. CASE Ended
  BY <1>2, <1>12 DEF Ended, vars, Reported, GivesUpSilently
<1>. QED  BY <1>4, <1>5, <1>6, <1>7, <1>8, <1>9, <1>10, <1>11, <1>12 DEF Next

\* A stream that stops before its end has said why, but for an #include that
\* cannot be read or has no path, and a directive that is skipped, or an #elif
\* after a taken branch, without its operand: every other failing path of the
\* handlers, of the evaluator and of failed calls has reported an error.
THEOREM FailuresReported == Spec => []FailureReported
<1>1. Init => Reported
  BY DEF Init, Reported
<1>2. IInv /\ Reported /\ [Next]_vars => Reported'
  <2>1. ASSUME UNCHANGED vars, Reported
        PROVE  Reported'
    BY <2>1 DEF vars, Reported, GivesUpSilently
  <2>. QED  BY <2>1, ReportedStep
<1>3. Reported => FailureReported
  BY DEF Reported, FailureReported
<1>. QED  BY <1>1, <1>2, <1>3, Invariance, PTL DEF Spec

-----------------------------------------------------------------------------
(* Branches and the scopes they own *)

\* A handler waits for its operand while nothing is skipped, but for #elif: it
\* reads its condition at the #if that is being skipped.  #break and #continue
\* leave a loop of the running call.
HandlerSkip ==
    /\ pc \in Evaluating =>
          /\ line.dir = "elif" => skipDepth = 1 /\ ~Top(blocks).hasScope
          /\ line.dir \notin {"elif", "again"} => skipDepth = 0
    /\ pc = "leave" => skipDepth = 0 /\ InsideLoop

\* So do the handlers that wait for a call.
CallerSkip ==
    \A c \in DOMAIN calls :
        /\ calls[c].line.dir = "elif" =>
              calls[c].skip = 1 /\ ~blocks[calls[c].base].hasScope
        /\ calls[c].line.dir \notin {"elif", "again"} => calls[c].skip = 0

\* BranchScopes, with the one call whose base a skipped branch can be.
BranchOwned ==
    \A k \in DOMAIN blocks : blocks[k].kind = "if" =>
        /\ blocks[k].hasScope => blocks[k].taken
        /\ ~blocks[k].hasScope =>
              \/ k = Len(blocks) /\ k > BlockBase /\ skipDepth > 0
              \/ \E c \in DOMAIN calls : /\ calls[c].base = k /\ calls[c].skip > 0
                                         /\ c > 1 => calls[c - 1].base < k

SkipInv == HandlerSkip /\ CallerSkip /\ BranchOwned

\* The open branches of the running call: the top one at most has no scope.
LEMMA OwnedNow ==
    ASSUME IInv, BranchOwned, NEW k \in BlockBase + 1 .. Len(blocks), blocks[k].kind = "if"
    PROVE  /\ blocks[k].hasScope => blocks[k].taken
           /\ ~blocks[k].hasScope => k = Len(blocks) /\ skipDepth > 0
<1>1. /\ BlockBase \in Nat /\ DOMAIN blocks = 1 .. Len(blocks) /\ Len(blocks) \in Nat
      /\ \A c \in DOMAIN calls : calls[c].base \in Nat /\ calls[c].base <= BlockBase
  BY BaseFacts DEF IInv
<1>2. k \in 1 .. Len(blocks) /\ k > BlockBase
  BY <1>1
<1>3. k \in DOMAIN blocks
  BY <1>1, <1>2
<1>4. \A c \in DOMAIN calls : calls[c].base # k
  BY <1>1, <1>2
<1>. QED  BY <1>2, <1>3, <1>4 DEF BranchOwned

LEMMA SteadyKept ==
    ASSUME IInv, Steady, BlocksBelow
    PROVE  /\ BlockBase' = BlockBase /\ (calls' = <<>> <=> calls = <<>>)
           /\ DOMAIN calls' = DOMAIN calls /\ DOMAIN calls = 1 .. Len(calls)
           /\ DOMAIN blocks' = 1 .. Len(blocks') /\ Len(blocks') \in Nat
<1>1. TypeOK /\ CallShape /\ CallsKept /\ BlocksKept
  BY DEF IInv, Steady, CallsKept, BlocksBelow, BlocksKept
<1>2. DOMAIN calls' = 1 .. Len(calls) /\ DOMAIN calls = 1 .. Len(calls)
  BY <1>1, LenProperties DEF Steady, TypeOK
<1>3. DOMAIN blocks' = 1 .. Len(blocks') /\ Len(blocks') \in Nat
  BY LenProperties DEF BlocksBelow
<1>4. BlockBase' = BlockBase /\ (calls' = <<>> <=> calls = <<>>)
  BY <1>1, KeptCalls
<1>. QED  BY <1>2, <1>3, <1>4

\* Only the blocks of the running call have to be looked at.
LEMMA OwnedStep ==
    ASSUME IInv, BranchOwned, Steady, BlocksBelow,
           \A k \in BlockBase + 1 .. Len(blocks') : blocks'[k].kind = "if" =>
              /\ blocks'[k].hasScope => blocks'[k].taken
              /\ ~blocks'[k].hasScope => k = Len(blocks') /\ skipDepth' > 0
    PROVE  BranchOwned'
<1>1. /\ BlockBase \in Nat /\ DOMAIN blocks = 1 .. Len(blocks) /\ Len(blocks) \in Nat
      /\ BlockBase <= Len(blocks)
  BY BaseFacts DEF IInv
<1>2. /\ BlockBase' = BlockBase /\ DOMAIN calls' = DOMAIN calls /\ DOMAIN calls = 1 .. Len(calls)
      /\ DOMAIN blocks' = 1 .. Len(blocks') /\ Len(blocks') \in Nat
      /\ Len(calls) \in Nat
  BY SteadyKept, LenProperties DEF IInv, TypeOK
<1>3. ASSUME NEW k \in 1 .. Len(blocks'), blocks'[k].kind = "if"
      PROVE  /\ blocks'[k].hasScope => blocks'[k].taken
             /\ ~blocks'[k].hasScope =>
                   \/ k = Len(blocks') /\ k > BlockBase /\ skipDepth' > 0
                   \/ \E c \in DOMAIN calls' : /\ calls'[c].base = k /\ calls'[c].skip > 0
                                               /\ c > 1 => calls'[c - 1].base < k
  <2>1. CASE k > BlockBase
    <3>1. BlockBase \in Nat /\ Len(blocks') \in Nat
      BY <1>1, <1>2
    <3>2. k \in BlockBase + 1 .. Len(blocks')
      BY <2>1, <3>1
    <3>. QED  BY <1>3, <2>1, <3>2
  <2>2. CASE ~(k > BlockBase)
    <3>0. BlockBase \in Nat /\ Len(blocks) \in Nat /\ BlockBase <= Len(blocks)
          /\ Len(blocks') \in Nat
      BY <1>1, <1>2
    <3>1. k \in 1 .. BlockBase /\ k \in 1 .. Len(blocks)
      BY <2>2, <3>0
    <3>2. blocks'[k] = blocks[k] /\ k \in DOMAIN blocks
      BY <1>1, <3>1 DEF BlocksBelow
    <3>3. blocks[k].hasScope => blocks[k].taken
      BY <1>3, <3>2 DEF BranchOwned
    <3>4. ASSUME ~blocks[k].hasScope
          PROVE  \E c \in DOMAIN calls' : /\ calls'[c].base = k /\ calls'[c].skip > 0
                                          /\ c > 1 => calls'[c - 1].base < k
      <4>1. PICK c \in DOMAIN calls : /\ calls[c].base = k /\ calls[c].skip > 0
                                      /\ c > 1 => calls[c - 1].base < k
        BY <1>3, <2>2, <3>2, <3>4 DEF BranchOwned
      <4>2. c \in 1 .. Len(calls)
        BY <1>2, <4>1
      <4>0. Len(calls) \in Nat
        BY <1>2
      <4>3. c > 1 => c - 1 \in 1 .. Len(calls)
        BY <4>0, <4>2
      <4>4. /\ calls'[c].base = calls[c].base /\ calls'[c].skip = calls[c].skip
            /\ c > 1 => calls'[c - 1].base = calls[c - 1].base
        BY <4>2, <4>3 DEF Steady
      <4>. QED  BY <1>2, <4>1, <4>4
    <3>. QED  BY <3>2, <3>3, <3>4
  <2>. QED  BY <2>1, <2>2
<1>4. BlockBase' = BlockBase /\ DOMAIN blocks' = 1 .. Len(blocks')
  BY <1>2
<1>. QED  BY <1>3, <1>4 DEF BranchOwned

LEMMA OwnedSame ==
    ASSUME IInv, BranchOwned, Steady, blocks' = blocks,
           HasBlock /\ skipDepth > 0 => skipDepth' > 0
    PROVE  BranchOwned'
<1>1. ASSUME NEW k \in BlockBase + 1 .. Len(blocks), blocks[k].kind = "if"
      PROVE  /\ blocks[k].hasScope => blocks[k].taken
             /\ ~blocks[k].hasScope => k = Len(blocks) /\ skipDepth > 0 /\ HasBlock
  <2>1. HasBlock
    BY BaseFacts DEF IInv, HasBlock
  <2>. QED  BY <1>1, <2>1, OwnedNow
<1>. QED  BY <1>1, SameBelow, OwnedStep

LEMMA OwnedPop ==
    ASSUME IInv, BranchOwned, Steady, HasBlock, blocks' = Under(blocks)
    PROVE  BranchOwned'
<1>1. /\ BlocksBelow /\ Len(blocks') = Len(blocks) - 1
      /\ \A k \in 1 .. Len(blocks) - 1 : blocks'[k] = blocks[k]
      /\ BlockBase \in Nat /\ Len(blocks) \in Nat
  BY PopBelow, BaseFacts DEF IInv
<1>2. ASSUME NEW k \in BlockBase + 1 .. Len(blocks'), blocks'[k].kind = "if"
      PROVE  blocks'[k].hasScope /\ blocks'[k].taken
  <2>1. k \in BlockBase + 1 .. Len(blocks) /\ k # Len(blocks) /\ blocks'[k] = blocks[k]
    BY <1>1
  <2>. QED  BY <1>2, <2>1, OwnedNow
<1>. QED  BY <1>1, <1>2, OwnedStep

LEMMA OwnedPush ==
    ASSUME IInv, BranchOwned, Steady, NEW b \in Blocks, blocks' = Append(blocks, b),
           skipDepth = 0,
           b.kind = "if" => (b.hasScope => b.taken) /\ (~b.hasScope => skipDepth' > 0)
    PROVE  BranchOwned'
<1>1. /\ BlocksBelow /\ Len(blocks') = Len(blocks) + 1
      /\ \A k \in 1 .. Len(blocks) : blocks'[k] = blocks[k]
      /\ blocks'[Len(blocks) + 1] = b
      /\ BlockBase \in Nat /\ Len(blocks) \in Nat
  BY PushBelow, BaseFacts DEF IInv
<1>2. ASSUME NEW k \in BlockBase + 1 .. Len(blocks), blocks'[k].kind = "if"
      PROVE  blocks'[k].hasScope /\ blocks'[k].taken
  <2>1. blocks'[k] = blocks[k]
    BY <1>1
  <2>2. ~(skipDepth > 0)
    OBVIOUS
  <2>. QED  BY <1>2, <2>1, <2>2, OwnedNow
<1>. QED  BY <1>1, <1>2, OwnedStep

LEMMA OwnedSet ==
    ASSUME IInv, BranchOwned, Steady, HasBlock, NEW b \in Blocks, blocks' = SetTop(b),
           b.kind = "if" => (b.hasScope => b.taken) /\ (~b.hasScope => skipDepth' > 0)
    PROVE  BranchOwned'
<1>1. /\ BlocksBelow /\ Len(blocks') = Len(blocks)
      /\ \A k \in 1 .. Len(blocks) - 1 : blocks'[k] = blocks[k]
      /\ blocks'[Len(blocks)] = b
      /\ BlockBase \in Nat /\ Len(blocks) \in Nat
  BY SetBelow, BaseFacts DEF IInv
<1>2. ASSUME NEW k \in BlockBase + 1 .. Len(blocks), blocks'[k].kind = "if", k # Len(blocks)
      PROVE  blocks'[k].hasScope /\ blocks'[k].taken
  <2>1. blocks'[k] = blocks[k]
    BY <1>1, <1>2
  <2>. QED  BY <1>2, <2>1, OwnedNow
<1>. QED  BY <1>1, <1>2, OwnedStep

\* A top block that is known to have no scope, or to be taken.
LEMMA TopBranch ==
    ASSUME IInv, BranchOwned, TopKind = "if"
    PROVE  /\ HasBlock /\ Top(blocks).kind = "if"
           /\ Top(blocks).hasScope => Top(blocks).taken
           /\ ~Top(blocks).hasScope => skipDepth > 0
<1>1. HasBlock /\ Top(blocks).kind = "if"
  BY DEF TopKind
<1>2. Len(blocks) \in BlockBase + 1 .. Len(blocks) /\ Top(blocks) = blocks[Len(blocks)]
  BY <1>1, BaseFacts DEF IInv, HasBlock, Top
<1>3. blocks[Len(blocks)].kind = "if"
  BY <1>1, <1>2
<1>. QED  BY <1>1, <1>2, <1>3, OwnedNow

LEMMA NewBlockFacts ==
    /\ \A cond \in BOOLEAN :
          LET b == [NewBlock("if") EXCEPT !.taken = cond, !.hasScope = cond]
          IN  b \in Blocks /\ b.taken = cond /\ b.hasScope = cond
    /\ \A p \in BOOLEAN :
          LET b == [NewBlock("func") EXCEPT !.public = p]
          IN  b \in Blocks /\ b.kind = "func"
    /\ \A n \in Nat :
          LET b == [NewBlock("for") EXCEPT !.capturing = n # 0, !.left = n]
          IN  b \in Blocks /\ b.kind = "for"
    /\ \A c \in BOOLEAN : \A e \in Exprs :
          LET b == [NewBlock("while") EXCEPT !.capturing = c, !.cond = e]
          IN  b \in Blocks /\ b.kind = "while"
<1>1. <<>> \in Seq(Line)
  BY EmptySeq
<1>2. "none" \in Exprs /\ 0 \in Nat /\ TRUE \in BOOLEAN /\ FALSE \in BOOLEAN
      /\ {"if", "func", "while", "for"} \subseteq BlockKinds
  BY DEF Exprs, BlockKinds
<1>3. ASSUME NEW n \in Nat
      PROVE  LET b == [NewBlock("for") EXCEPT !.capturing = n # 0, !.left = n]
             IN  b \in Blocks /\ b.kind = "for"
  <2>1. (n # 0) \in BOOLEAN
    OBVIOUS
  <2>. QED  BY <1>1, <1>2, <2>1 DEF NewBlock, Blocks
<1>4. ASSUME NEW cond \in BOOLEAN
      PROVE  LET b == [NewBlock("if") EXCEPT !.taken = cond, !.hasScope = cond]
             IN  b \in Blocks /\ b.taken = cond /\ b.hasScope = cond
  BY <1>1, <1>2 DEF NewBlock, Blocks
<1>5. ASSUME NEW p \in BOOLEAN
      PROVE  LET b == [NewBlock("func") EXCEPT !.public = p]
             IN  b \in Blocks /\ b.kind = "func"
  BY <1>1, <1>2 DEF NewBlock, Blocks
<1>6. ASSUME NEW c \in BOOLEAN, NEW e \in Exprs
      PROVE  LET b == [NewBlock("while") EXCEPT !.capturing = c, !.cond = e]
             IN  b \in Blocks /\ b.kind = "while"
  BY <1>1, <1>2 DEF NewBlock, Blocks
<1>. QED  BY <1>3, <1>4, <1>5, <1>6

LEMMA OwnedCut ==
    ASSUME IInv, BranchOwned, Steady, blocks' = SubSeq(blocks, 1, BlockBase)
    PROVE  BranchOwned'
<1>1. BlocksBelow /\ Len(blocks') = BlockBase /\ BlockBase \in Nat
  BY CutBelow, BaseFacts DEF IInv
<1>2. \A k \in BlockBase + 1 .. Len(blocks') : FALSE
  BY <1>1
<1>. QED  BY <1>1, <1>2, OwnedStep

\* A call whose operand an #elif waits for takes the skipped branch with it.
LEMMA OwnedCall ==
    ASSUME IInv, BranchOwned, EvalCall
    PROVE  BranchOwned'
<1>. DEFINE call == [line |-> line, base |-> Len(blocks), skip |-> skipDepth,
                     caller |-> Len(frames), gone |-> FALSE, returned |-> FALSE,
                     clean |-> TRUE]
<1>1. calls' = Append(calls, call) /\ blocks' = blocks /\ call.base = Len(blocks)
      /\ call.skip = skipDepth
  BY DEF EvalCall
<1>. HIDE DEF call
<1>2. /\ BlockBase \in Nat /\ DOMAIN blocks = 1 .. Len(blocks) /\ Len(blocks) \in Nat
      /\ BlockBase <= Len(blocks) /\ DOMAIN calls = 1 .. Len(calls) /\ Len(calls) \in Nat
      /\ calls # <<>> => Len(calls) > 0 /\ BlockBase = calls[Len(calls)].base
      /\ calls \in Seq(CallFrames)
  BY BaseFacts DEF IInv, TypeOK
<1>3. /\ DOMAIN calls' = 1 .. Len(calls) + 1 /\ calls'[Len(calls) + 1] = call
      /\ \A c \in 1 .. Len(calls) : calls'[c] = calls[c]
  BY <1>1, <1>2
<1>4. ASSUME NEW k \in DOMAIN blocks, blocks[k].kind = "if", ~blocks[k].hasScope
      PROVE  \E c \in DOMAIN calls' : /\ calls'[c].base = k /\ calls'[c].skip > 0
                                      /\ c > 1 => calls'[c - 1].base < k
  <2>1. CASE k = Len(blocks) /\ k > BlockBase /\ skipDepth > 0
    <3>. DEFINE c == Len(calls) + 1
    <3>1. c \in DOMAIN calls' /\ calls'[c].base = k /\ calls'[c].skip > 0
      BY <1>1, <1>2, <1>3, <2>1
    <3>2. ASSUME c > 1
          PROVE  calls'[c - 1].base < k
      <4>1. Len(calls) > 0 /\ Len(calls) \in 1 .. Len(calls) /\ calls # <<>>
        BY <1>2, <3>2, EmptySeq
      <4>. QED  BY <1>2, <1>3, <2>1, <4>1
    <3>. QED  BY <3>1, <3>2
  <2>2. CASE \E c \in DOMAIN calls : /\ calls[c].base = k /\ calls[c].skip > 0
                                     /\ c > 1 => calls[c - 1].base < k
    <3>1. PICK c \in 1 .. Len(calls) : /\ calls[c].base = k /\ calls[c].skip > 0
                                       /\ c > 1 => calls[c - 1].base < k
      BY <1>2, <2>2
    <3>2. c \in 1 .. Len(calls) + 1 /\ (c > 1 => c - 1 \in 1 .. Len(calls))
      BY <1>2
    <3>. QED  BY <1>3, <3>1, <3>2
  <2>. QED  BY <1>4, <2>1, <2>2 DEF BranchOwned
<1>. QED  BY <1>1, <1>4 DEF BranchOwned

LEMMA OwnedReturn ==
    ASSUME IInv, BranchOwned, ReturnValue
    PROVE  BranchOwned'
<1>1. /\ calls # <<>> /\ blocks' = blocks /\ skipDepth' = skipDepth
      /\ calls' = [calls EXCEPT ![Len(calls)].returned = TRUE]
      /\ DOMAIN calls = 1 .. Len(calls) /\ Len(calls) \in Nat
      /\ \A c \in DOMAIN calls : calls[c] \in CallFrames
  BY LenProperties, ElementOfSeq DEF IInv, TypeOK, PcShape, ReturnValue, ValueOf, Evaluating
<1>2. /\ DOMAIN calls' = 1 .. Len(calls)
      /\ \A c \in 1 .. Len(calls) : calls'[c].base = calls[c].base /\ calls'[c].skip = calls[c].skip
  BY <1>1 DEF CallFrames
<1>3. calls' # <<>> /\ Len(calls') = Len(calls) /\ Len(calls) \in 1 .. Len(calls)
  BY <1>1, <1>2, EmptySeq, LenProperties DEF IInv, TypeOK
<1>4. BlockBase' = BlockBase
  BY <1>1, <1>2, <1>3 DEF BlockBase, Top
<1>5. \A c \in 1 .. Len(calls) : c > 1 => c - 1 \in 1 .. Len(calls)
  BY <1>1
<1>6. ASSUME NEW k \in DOMAIN blocks,
             \E c \in DOMAIN calls : /\ calls[c].base = k /\ calls[c].skip > 0
                                     /\ c > 1 => calls[c - 1].base < k
      PROVE  \E c \in DOMAIN calls' : /\ calls'[c].base = k /\ calls'[c].skip > 0
                                      /\ c > 1 => calls'[c - 1].base < k
  <2>1. PICK c \in 1 .. Len(calls) : /\ calls[c].base = k /\ calls[c].skip > 0
                                     /\ c > 1 => calls[c - 1].base < k
    BY <1>1, <1>6
  <2>. QED  BY <1>2, <1>5, <2>1
<1>. QED  BY <1>1, <1>4, <1>6 DEF BranchOwned

\* What a call that ends leaves of the stacks.
LEMMA FinishFacts ==
    ASSUME IInv, FinishCall
    PROVE  /\ Len(calls) \in Nat /\ Len(calls) > 0 /\ DOMAIN calls = 1 .. Len(calls)
           /\ calls' \in Seq(CallFrames) /\ Len(calls') = Len(calls) - 1
           /\ DOMAIN calls' = 1 .. Len(calls) - 1
           /\ \A c \in 1 .. Len(calls) - 1 : /\ calls'[c].line = calls[c].line
                                             /\ calls'[c].base = calls[c].base
                                             /\ calls'[c].skip = calls[c].skip
                                             /\ calls'[c].caller = calls[c].caller
                                             /\ calls'[c].gone = calls[c].gone
           /\ Len(calls) = 1 => BlockBase' = 0
           /\ Len(calls) > 1 => BlockBase' = calls[Len(calls) - 1].base
           /\ Len(blocks) = BlockBase /\ BlockBase = calls[Len(calls)].base
           /\ blocks' = blocks /\ line' = calls[Len(calls)].line
           /\ skipDepth' = calls[Len(calls)].skip
           /\ BlockBase' \in Nat /\ BlockBase' <= BlockBase
<1>1. /\ calls # <<>> /\ calls \in Seq(CallFrames) /\ Len(calls) \in Nat /\ Len(calls) > 0
      /\ DOMAIN calls = 1 .. Len(calls)
  BY LenProperties, EmptySeq DEF IInv, TypeOK, PcShape, FinishCall
<1>2. /\ Under(calls) \in Seq(CallFrames) /\ Len(Under(calls)) = Len(calls) - 1
      /\ \A c \in 1 .. Len(calls) - 1 : Under(calls)[c] = calls[c]
  BY <1>1, UnderType
<1>3. PICK r \in BOOLEAN : /\ calls' = Dirty(Under(calls), r)
                           /\ errored' = (errored \/ r)
                           /\ pc' \in {"value", "evalfail"}
                           /\ pc' = "evalfail" => ~Top(calls).clean \/ r
  BY FinishDirty
<1>4. /\ calls' \in Seq(CallFrames) /\ Len(calls') = Len(calls) - 1
      /\ \A c \in 1 .. Len(calls) - 1 : /\ calls'[c].line = calls[c].line
                                        /\ calls'[c].base = calls[c].base
                                        /\ calls'[c].caller = calls[c].caller
  BY <1>2, <1>3, DirtyFlags
<1>5. \A c \in 1 .. Len(calls) - 1 : calls'[c].skip = calls[c].skip /\ calls'[c].gone = calls[c].gone
  BY <1>2, <1>3, DirtySteady
<1>6. DOMAIN calls' = 1 .. Len(calls) - 1
  BY <1>4, LenProperties
<1>7. Len(blocks) = BlockBase /\ BlockBase = calls[Len(calls)].base
  BY <1>1, BaseFacts DEF IInv, FinishCall, HasBlock
<1>8. /\ Len(calls) = 1 => BlockBase' = 0
      /\ Len(calls) > 1 => BlockBase' = calls[Len(calls) - 1].base
  <2>1. ASSUME Len(calls) = 1
        PROVE  BlockBase' = 0
    <3>1. calls' = <<>>
      BY <1>4, <2>1, EmptySeq
    <3>. QED  BY <3>1 DEF BlockBase
  <2>2. ASSUME Len(calls) > 1
        PROVE  BlockBase' = calls[Len(calls) - 1].base
    <3>1. calls' # <<>> /\ Len(calls) - 1 \in 1 .. Len(calls) - 1
      BY <1>1, <1>4, <2>2, EmptySeq
    <3>. QED  BY <1>4, <3>1 DEF BlockBase, Top
  <2>. QED  BY <2>1, <2>2
<1>9. blocks' = blocks /\ line' = calls[Len(calls)].line /\ skipDepth' = calls[Len(calls)].skip
  BY DEF FinishCall, Top
<1>10. \A c \in 1 .. Len(calls) : calls[c].base \in Nat /\ calls[c].base <= BlockBase
  BY BaseFacts DEF IInv
<1>11. BlockBase' \in Nat /\ BlockBase' <= BlockBase
  <2>1. Len(calls) = 1 \/ (Len(calls) > 1 /\ Len(calls) - 1 \in 1 .. Len(calls))
    BY <1>1
  <2>. QED  BY <1>8, <1>10, <2>1, BaseFacts DEF IInv
<1>. QED  BY <1>1, <1>4, <1>5, <1>6, <1>7, <1>8, <1>9, <1>11

LEMMA OwnedFinish ==
    ASSUME IInv, BranchOwned, FinishCall
    PROVE  BranchOwned'
<1>1. /\ Len(calls) \in Nat /\ Len(calls) > 0 /\ DOMAIN calls = 1 .. Len(calls)
      /\ DOMAIN calls' = 1 .. Len(calls) - 1
      /\ \A c \in 1 .. Len(calls) - 1 : calls'[c].base = calls[c].base /\ calls'[c].skip = calls[c].skip
      /\ Len(calls) = 1 => BlockBase' = 0
      /\ Len(calls) > 1 => BlockBase' = calls[Len(calls) - 1].base
      /\ Len(blocks) = BlockBase /\ BlockBase = calls[Len(calls)].base
      /\ blocks' = blocks /\ skipDepth' = calls[Len(calls)].skip
  BY FinishFacts
<1>2. DOMAIN blocks = 1 .. Len(blocks)
  BY BaseFacts DEF IInv
<1>3. ASSUME NEW k \in DOMAIN blocks, blocks[k].kind = "if", ~blocks[k].hasScope
      PROVE  \/ k = Len(blocks) /\ k > BlockBase' /\ skipDepth' > 0
             \/ \E c \in DOMAIN calls' : /\ calls'[c].base = k /\ calls'[c].skip > 0
                                         /\ c > 1 => calls'[c - 1].base < k
  <2>1. k \in 1 .. Len(blocks) /\ ~(k > BlockBase)
    BY <1>1, <1>2
  <2>2. PICK c \in DOMAIN calls : /\ calls[c].base = k /\ calls[c].skip > 0
                                  /\ c > 1 => calls[c - 1].base < k
    BY <1>3, <2>1 DEF BranchOwned
  <2>3. CASE c = Len(calls)
    BY <1>1, <2>1, <2>2, <2>3
  <2>4. CASE c # Len(calls)
    <3>1. c \in 1 .. Len(calls) - 1 /\ (c > 1 => c - 1 \in 1 .. Len(calls) - 1)
      BY <1>1, <2>4
    <3>. QED  BY <1>1, <2>2, <3>1
  <2>. QED  BY <2>3, <2>4
<1>. QED  BY <1>1, <1>3 DEF BranchOwned

\* The handlers suspended in a call keep what they rely on.
LEMMA CallerSkipStep ==
    ASSUME IInv, HandlerSkip, CallerSkip, BlocksBelow,
           Steady \/ EvalCall \/ ReturnValue \/ FinishCall
    PROVE  CallerSkip'
<1>1. /\ DOMAIN calls = 1 .. Len(calls) /\ Len(calls) \in Nat /\ calls \in Seq(CallFrames)
      /\ \A c \in 1 .. Len(calls) : calls[c].base \in Nat /\ calls[c].base <= BlockBase
      /\ BlockBase \in Nat /\ TypeOK /\ PcShape /\ CallShape
  BY BaseFacts DEF IInv, TypeOK
<1>2. \A c \in 1 .. Len(calls) : calls[c].line.dir = "elif" => calls[c].base \in 1 .. BlockBase
  BY <1>1 DEF CallShape
<1>3. \A c \in 1 .. Len(calls) : calls[c].line.dir = "elif" =>
          blocks'[calls[c].base] = blocks[calls[c].base]
  BY <1>2 DEF BlocksBelow
<1>4. CASE Steady
  <2>1. DOMAIN calls' = 1 .. Len(calls)
    BY <1>4, LenProperties DEF Steady
  <2>. QED  BY <1>1, <1>3, <1>4, <2>1 DEF Steady, CallerSkip
<1>5. CASE EvalCall
  <2>. DEFINE call == [line |-> line, base |-> Len(blocks), skip |-> skipDepth,
                       caller |-> Len(frames), gone |-> FALSE, returned |-> FALSE,
                       clean |-> TRUE]
  <2>1. /\ calls' = Append(calls, call) /\ blocks' = blocks /\ call.base = Len(blocks)
        /\ call.skip = skipDepth /\ call.line = line /\ pc \in Evaluating
    BY <1>5 DEF EvalCall, Evaluating
  <2>. HIDE DEF call
  <2>2. /\ DOMAIN calls' = 1 .. Len(calls) + 1 /\ calls'[Len(calls) + 1] = call
        /\ \A c \in 1 .. Len(calls) : calls'[c] = calls[c]
    BY <1>1, <2>1
  <2>3. ASSUME NEW c \in 1 .. Len(calls) + 1
        PROVE  /\ calls'[c].line.dir = "elif" =>
                     calls'[c].skip = 1 /\ ~blocks'[calls'[c].base].hasScope
               /\ calls'[c].line.dir \notin {"elif", "again"} => calls'[c].skip = 0
    <3>1. CASE c \in 1 .. Len(calls)
      BY <1>1, <2>1, <2>2, <3>1 DEF CallerSkip
    <3>2. CASE c = Len(calls) + 1
      BY <2>1, <2>2, <3>2 DEF HandlerSkip, Top
    <3>. QED  BY <1>1, <3>1, <3>2
  <2>. QED  BY <2>2, <2>3 DEF CallerSkip
<1>6. CASE ReturnValue
  <2>1. calls # <<>> /\ blocks' = blocks
        /\ calls' = [calls EXCEPT ![Len(calls)].returned = TRUE]
    BY <1>1, <1>6 DEF ReturnValue, ValueOf, PcShape, Evaluating
  <2>2. /\ DOMAIN calls' = DOMAIN calls
        /\ \A c \in DOMAIN calls : /\ calls'[c].line = calls[c].line
                                   /\ calls'[c].base = calls[c].base
                                   /\ calls'[c].skip = calls[c].skip
    <3>1. \A c \in DOMAIN calls : calls[c] \in CallFrames
      BY <1>1, ElementOfSeq
    <3>. QED  BY <1>1, <2>1, <3>1 DEF CallFrames
  <2>. QED  BY <2>1, <2>2 DEF CallerSkip
<1>7. CASE FinishCall
  <2>1. /\ DOMAIN calls' = 1 .. Len(calls) - 1 /\ blocks' = blocks
        /\ \A c \in 1 .. Len(calls) - 1 : /\ calls'[c].line = calls[c].line
                                          /\ calls'[c].base = calls[c].base
                                          /\ calls'[c].skip = calls[c].skip
    BY <1>7, FinishFacts
  <2>2. \A c \in 1 .. Len(calls) - 1 : c \in DOMAIN calls
    BY <1>1
  <2>. QED  BY <2>1, <2>2 DEF CallerSkip
<1>. QED  BY <1>4, <1>5, <1>6, <1>7

\* What a step may do to the blocks, as far as branches are concerned.
BranchMove ==
    \/ blocks' = blocks /\ (HasBlock /\ skipDepth > 0 => skipDepth' > 0)
    \/ HasBlock /\ blocks' = Under(blocks)
    \/ blocks' = SubSeq(blocks, 1, BlockBase)
    \/ /\ skipDepth = 0
       /\ \E b \in Blocks : /\ blocks' = Append(blocks, b)
                            /\ b.kind = "if" => /\ b.hasScope => b.taken
                                                /\ ~b.hasScope => skipDepth' > 0
    \/ /\ HasBlock
       /\ \E b \in Blocks : /\ blocks' = SetTop(b)
                            /\ b.kind = "if" => /\ b.hasScope => b.taken
                                                /\ ~b.hasScope => skipDepth' > 0

LEMMA BranchMoved ==
    ASSUME IInv, BranchOwned, Steady, BranchMove
    PROVE  BranchOwned' /\ BlocksBelow
<1>1. CASE blocks' = blocks /\ (HasBlock /\ skipDepth > 0 => skipDepth' > 0)
  BY <1>1, SameBelow, OwnedSame
<1>2. CASE HasBlock /\ blocks' = Under(blocks)
  BY <1>2, PopBelow, OwnedPop
<1>3. CASE blocks' = SubSeq(blocks, 1, BlockBase)
  BY <1>3, CutBelow, OwnedCut
<1>4. CASE /\ skipDepth = 0
           /\ \E b \in Blocks : /\ blocks' = Append(blocks, b)
                                /\ b.kind = "if" => /\ b.hasScope => b.taken
                                                    /\ ~b.hasScope => skipDepth' > 0
  <2>1. PICK b \in Blocks : /\ blocks' = Append(blocks, b)
                            /\ b.kind = "if" => /\ b.hasScope => b.taken
                                                /\ ~b.hasScope => skipDepth' > 0
    BY <1>4
  <2>2. BlocksBelow
    BY <2>1, PushBelow
  <2>3. BranchOwned'
    BY <1>4, <2>1, OwnedPush
  <2>. QED  BY <2>2, <2>3
<1>5. CASE /\ HasBlock
           /\ \E b \in Blocks : /\ blocks' = SetTop(b)
                                /\ b.kind = "if" => /\ b.hasScope => b.taken
                                                    /\ ~b.hasScope => skipDepth' > 0
  <2>1. PICK b \in Blocks : /\ blocks' = SetTop(b)
                            /\ b.kind = "if" => /\ b.hasScope => b.taken
                                                /\ ~b.hasScope => skipDepth' > 0
    BY <1>5
  <2>2. BlocksBelow
    BY <1>5, <2>1, SetBelow
  <2>3. BranchOwned'
    BY <1>5, <2>1, OwnedSet
  <2>. QED  BY <2>2, <2>3
<1>. QED  BY <1>1, <1>2, <1>3, <1>4, <1>5 DEF BranchMove

LEMMA BranchMoves ==
    ASSUME IInv, SkipInv, Next, ~EvalCall, ~ReturnValue, ~FinishCall
    PROVE  BranchMove
<1>1. /\ TypeOK /\ PcShape /\ BranchOwned /\ HandlerSkip
      /\ skipDepth \in Nat /\ line \in Line /\ captureBuf \in Seq(Line)
      /\ line.expr \in Exprs /\ line.public \in BOOLEAN
  BY DEF IInv, SkipInv, TypeOK, Line
<1>2. ReportAndFail => BranchMove
  BY DEF ReportAndFail, BranchMove
<1>3. TopKind # "none" => HasBlock /\ TopKind = Top(blocks).kind
  BY DEF TopKind
<1>4. CASE Fetch
  BY <1>4 DEF Fetch, FetchPending, FetchLine, FrameExhausted, EndOfInput, UnterminatedBlock,
     PlainToken, BranchMove
<1>5. CASE Handle
  <2>1. CASE \/ OpLimitExceeded \/ HandleOperand \/ HandleStrayReturn \/ HandleUnknown
             \/ HandleWhile \/ HandleLeave \/ HandleInclude \/ HandleEmit \/ HandleVar
             \/ HandleSet
    BY <1>2, <2>1 DEF OpLimitExceeded, HandleOperand, HandleStrayReturn, HandleUnknown,
       HandleWhile, HandleLeave, HandleInclude, HandleEmit, HandleVar, HandleSet, BeginEval,
       BranchMove
  <2>2. CASE HandleElse
    <3>. DEFINE b == [Top(blocks) EXCEPT !.hadElse = TRUE, !.hasScope = FALSE]
    <3>1. \/ ReportAndFail
          \/ blocks' = blocks /\ skipDepth' = skipDepth
          \/ ~ElseRefused /\ blocks' = SetTop(b) /\ skipDepth' = skipDepth + 1
      BY <2>2 DEF HandleElse
    <3>2. ~ElseRefused => HasBlock
      BY <1>3 DEF ElseRefused
    <3>3. HasBlock => b \in Blocks /\ ~b.hasScope
      BY TopFields DEF Blocks
    <3>. HIDE DEF b
    <3>. QED  BY <1>1, <1>2, <3>1, <3>2, <3>3 DEF BranchMove
  <2>3. CASE HandleElif
    BY <1>1, <1>2, <2>3 DEF HandleElif, BranchMove
  <2>4. CASE HandleEnd
    BY <1>2, <1>3, <2>4 DEF HandleEnd, PopIfBlock, BranchMove
  <2>5. CASE HandleFunc
    <3>. DEFINE b == [NewBlock("func") EXCEPT !.public = line.public]
    <3>1. b \in Blocks /\ b.kind = "func"
      BY <1>1, NewBlockFacts
    <3>2. ReportAndFail \/ blocks' = Append(blocks, b)
      BY <2>5 DEF HandleFunc
    <3>3. skipDepth = 0
      BY <2>5 DEF HandleFunc, Active
    <3>. HIDE DEF b
    <3>. QED  BY <1>2, <3>1, <3>2, <3>3 DEF BranchMove
  <2>. QED  BY <1>5, <2>1, <2>2, <2>3, <2>4, <2>5 DEF Handle
<1>6. CASE Evaluate
  <2>1. CASE EvalRejected \/ EvalFailed \/ CondFrameGone \/ DirectiveValue \/ ErrorDirective
    BY <1>2, <2>1 DEF EvalRejected, EvalFailed, CondFrameGone, DirectiveValue, ErrorDirective,
       BranchMove
  <2>2. CASE DirectiveCond
    <3>1. skipDepth = 0
      BY <1>1, <2>2 DEF DirectiveCond, ValueOf, HandlerSkip, Evaluating
    <3>2. CASE \E cond \in BOOLEAN : IfBranch(cond)
      <4>1. PICK cond \in BOOLEAN : IfBranch(cond)
        BY <3>2
      <4>. DEFINE b == [NewBlock("if") EXCEPT !.taken = cond, !.hasScope = cond]
      <4>2. b \in Blocks /\ b.taken = cond /\ b.hasScope = cond
        BY NewBlockFacts
      <4>3. blocks' = Append(blocks, b) /\ (~cond => skipDepth' = skipDepth + 1)
        BY <4>1 DEF IfBranch
      <4>. HIDE DEF b
      <4>. QED  BY <1>1, <3>1, <4>2, <4>3 DEF BranchMove
    <3>3. CASE \E cond \in BOOLEAN : WhileFirst(cond)
      <4>1. PICK cond \in BOOLEAN : WhileFirst(cond)
        BY <3>3
      <4>. DEFINE b == [NewBlock("while") EXCEPT !.capturing = cond, !.cond = line.expr]
      <4>2. b \in Blocks /\ b.kind = "while"
        BY <1>1, NewBlockFacts, ZenonT(60)
      <4>3. blocks' = Append(blocks, b)
        BY <4>1 DEF WhileFirst, BeginLoop
      <4>. HIDE DEF b
      <4>. QED  BY <3>1, <4>2, <4>3 DEF BranchMove
    <3>4. CASE \E count \in 0 .. MaxItems : ForItems(count)
      <4>1. PICK count \in 0 .. MaxItems : ForItems(count)
        BY <3>4
      <4>. DEFINE b == [NewBlock("for") EXCEPT !.capturing = count # 0, !.left = count]
      <4>2. b \in Blocks /\ b.kind = "for"
        <5>1. count \in Nat
          BY LimitAssumption
        <5>. QED  BY <5>1, NewBlockFacts
      <4>3. blocks' = Append(blocks, b)
        BY <4>1 DEF ForItems, BeginLoop
      <4>. HIDE DEF b
      <4>. QED  BY <3>1, <4>2, <4>3 DEF BranchMove
    <3>. QED  BY <2>2, <3>2, <3>3, <3>4 DEF DirectiveCond
  <2>3. CASE ElifCond
    <3>. DEFINE b == [Top(blocks) EXCEPT !.taken = TRUE, !.hasScope = TRUE]
    <3>1. TopKind = "if"
      BY <1>1, <2>3 DEF ElifCond, ValueOf, PcShape, Evaluating
    <3>2. HasBlock
      BY <1>3, <3>1
    <3>3. b \in Blocks /\ b.taken
      BY <3>2, TopFields DEF Blocks
    <3>4. (blocks' = blocks /\ skipDepth' = skipDepth) \/ blocks' = SetTop(b)
      BY <2>3 DEF ElifCond, EnterIfBranch
    <3>5. b.hasScope
      BY <3>2, TopFields DEF Blocks
    <3>. HIDE DEF b
    <3>. QED  BY <3>2, <3>3, <3>4, <3>5 DEF BranchMove
  <2>. QED  BY <1>6, <2>1, <2>2, <2>3 DEF Evaluate
<1>7. CASE Calls
  BY <1>7 DEF Calls, CleanupBlock, CleanupFrame, HandlerFailed, PopIfBlock, PopBlock, BranchMove
<1>8. CASE Loops
  <2>1. CASE EnterLoopBody
    <3>. DEFINE b == [Top(blocks) EXCEPT !.left = @ - 1]
    <3>1. \/ ReportAndFail
          \/ blocks' = blocks /\ skipDepth' = skipDepth
          \/ TopKind = "for" /\ blocks' = SetTop(b)
      BY <2>1 DEF EnterLoopBody
    <3>2. ASSUME TopKind = "for"
          PROVE  b \in Blocks /\ b.kind = "for"
      <4>1. Top(blocks) \in Blocks /\ Top(blocks).kind = "for" /\ Top(blocks).left > 0
        BY <1>1, <1>3, <2>1, <3>2, TopFields DEF EnterLoopBody, PcShape
      <4>2. Top(blocks).left - 1 \in Nat
        BY <4>1 DEF Blocks
      <4>. QED  BY <4>1, <4>2 DEF Blocks
    <3>. HIDE DEF b
    <3>. QED  BY <1>2, <1>3, <3>1, <3>2 DEF BranchMove
  <2>2. CASE LoopBodyExhausted
    BY <1>3, <2>2 DEF LoopBodyExhausted, AssertFails, PopBlock, BranchMove, LoopKinds
  <2>3. CASE WhileAgain
    <3>1. TopKind = "while"
      BY <1>1, <2>3 DEF WhileAgain, ValueOf, PcShape, Evaluating
    <3>. QED  BY <1>3, <2>3, <3>1 DEF WhileAgain, PopBlock, BranchMove
  <2>4. CASE LeaveIfBlock
    BY <1>3, <2>4 DEF LeaveIfBlock, AssertFails, PopIfBlock, BranchMove
  <2>5. CASE LeaveFrame
    BY <1>3, <2>5 DEF LeaveFrame, PopBlock, BranchMove, LoopKinds
  <2>. QED  BY <1>8, <2>1, <2>2, <2>3, <2>4, <2>5 DEF Loops
<1>9. CASE Skip
  <2>1. CASE SkipFails \/ SkipLine \/ SkipUnknown \/ SkipInner \/ SkipElif
    <3>1. blocks' = blocks /\ skipDepth' = skipDepth
      BY <2>1 DEF SkipFails, SkipLine, SkipUnknown, SkipInner, SkipElif
    <3>. QED  BY <3>1 DEF BranchMove
  <2>5. CASE SkipOpen
    BY <1>1, <2>5 DEF SkipOpen, BranchMove
  <2>2. CASE SkipInnerEnd
    BY <1>1, <2>2 DEF SkipInnerEnd, BranchMove
  <2>3. CASE SkipElse
    <3>. DEFINE top == [Top(blocks) EXCEPT !.hadElse = TRUE]
                open == [[Top(blocks) EXCEPT !.hadElse = TRUE] EXCEPT !.taken = TRUE, !.hasScope = TRUE]
    <3>1. \/ blocks' = blocks /\ skipDepth' = skipDepth
          \/ ~ElseRefused /\ Top(blocks).taken /\ blocks' = SetTop(top) /\ skipDepth' = skipDepth
          \/ ~ElseRefused /\ blocks' = SetTop(open)
      BY <2>3 DEF SkipElse, EnterIfBranch
    <3>2. ~ElseRefused => HasBlock
      BY <1>3 DEF ElseRefused
    <3>3. HasBlock => top \in Blocks /\ open \in Blocks /\ open.taken /\ open.hasScope
                      /\ top.taken = Top(blocks).taken
      BY TopFields DEF Blocks
    <3>4. skipDepth > 0
      BY <2>3 DEF SkipElse, Skipping
    <3>. HIDE DEF top, open
    <3>. QED  BY <3>1, <3>2, <3>3, <3>4 DEF BranchMove
  <2>4. CASE SkipEnd
    <3>. DEFINE b == [Top(blocks) EXCEPT !.body = captureBuf, !.capturing = FALSE]
    <3>1. \/ TopKind \in BlockKinds /\ blocks' = Under(blocks)
          \/ blocks' = blocks /\ TopKind \notin BlockKinds
          \/ TopKind \in LoopKinds /\ blocks' = SetTop(b)
      BY <2>4 DEF SkipEnd, PopIfBlock, FinishPendingFunc, FinishLoop, PopBlock, LoopKinds, BlockKinds
    <3>2. ASSUME TopKind \in LoopKinds
          PROVE  b \in Blocks /\ b.kind # "if" /\ HasBlock
      <4>1. HasBlock /\ Top(blocks).kind # "if"
        BY <1>3, <3>2 DEF LoopKinds
      <4>2. b \in Blocks
        BY <4>1, TopFields
      <4>3. b.kind = Top(blocks).kind
        BY <4>1, TopFields DEF Blocks
      <4>. QED  BY <4>1, <4>2, <4>3
    <3>. HIDE DEF b
    <3>3. TopKind \in BlockKinds => HasBlock
      BY <1>3 DEF BlockKinds
    <3>4. ASSUME TopKind \notin BlockKinds, blocks' = blocks
          PROVE  BranchMove
      <4>1. ~HasBlock
        BY <3>4, TopFields DEF Blocks
      <4>. QED  BY <3>4, <4>1 DEF BranchMove
    <3>. QED  BY <3>1, <3>2, <3>3, <3>4 DEF BranchMove
  <2>. QED  BY <1>9, <2>1, <2>2, <2>3, <2>4, <2>5 DEF Skip
<1>10. CASE Ended
  BY <1>10 DEF Ended, vars, BranchMove
<1>. QED  BY <1>4, <1>5, <1>6, <1>7, <1>8, <1>9, <1>10 DEF Next, Calls, Evaluate

\* Every step keeps the blocks of the suspended callers and who owns a scope.
LEMMA BlocksStep ==
    ASSUME IInv, SkipInv, Next
    PROVE  BlocksBelow /\ BranchOwned'
<1>1. CASE EvalCall
  BY <1>1, SameBelow, OwnedCall DEF SkipInv, EvalCall
<1>2. CASE ReturnValue
  BY <1>2, SameBelow, OwnedReturn DEF SkipInv, ReturnValue
<1>3. CASE FinishCall
  BY <1>3, SameBelow, OwnedFinish DEF SkipInv, FinishCall
<1>4. CASE ~EvalCall /\ ~ReturnValue /\ ~FinishCall
  <2>1. Steady /\ BranchMove
    BY <1>4, CallMove, BranchMoves
  <2>. QED  BY <2>1, BranchMoved DEF SkipInv
<1>. QED  BY <1>1, <1>2, <1>3, <1>4

LEMMA HandlerSkipStep ==
    ASSUME IInv, SkipInv, Next
    PROVE  HandlerSkip'
<1>1. /\ TypeOK /\ PcShape /\ BranchOwned /\ HandlerSkip /\ CallerSkip
      /\ skipDepth \in Nat
  BY DEF IInv, SkipInv, TypeOK
<1>. DEFINE Elsewhere == pc' \notin Evaluating /\ pc' # "leave"
<1>2. Elsewhere => HandlerSkip'
  BY DEF HandlerSkip
<1>3. ReportAndFail => Elsewhere
  BY DEF ReportAndFail, Fail, Evaluating
<1>. HIDE DEF Elsewhere
<1>4. CASE Fetch
  <2>1. pc' \notin Evaluating /\ pc' # "leave"
    BY <1>4 DEF Fetch, FetchPending, FetchLine, FrameExhausted, EndOfInput, UnterminatedBlock,
       PlainToken, YieldToken, Evaluating
  <2>. QED  BY <1>2, <2>1 DEF Elsewhere
<1>5. CASE Handle
  <2>1. BeginEval /\ skipDepth = 0 /\ line.dir \notin {"elif"} => HandlerSkip'
    BY DEF BeginEval, HandlerSkip
  <2>2. CASE HandleOperand
    BY <2>1, <2>2 DEF HandleOperand, Active
  <2>3. CASE OpLimitExceeded \/ HandleStrayReturn \/ HandleUnknown
    BY <1>2, <1>3, <2>3 DEF OpLimitExceeded, HandleStrayReturn, HandleUnknown
  <2>4. CASE HandleElse \/ HandleElif \/ HandleEnd \/ HandleFunc \/ HandleInclude
    <3>1. ReportAndFail \/ (pc' \notin Evaluating /\ pc' # "leave")
      BY <2>4 DEF HandleElse, HandleElif, HandleEnd, HandleFunc, HandleInclude, Fail, Evaluating
    <3>. QED  BY <1>2, <1>3, <3>1 DEF Elsewhere
  <2>5. CASE HandleWhile
    <3>1. ReportAndFail \/ (skipDepth' = skipDepth /\ skipDepth = 0 /\ line' = line /\ pc' = "eval")
      BY <2>5 DEF HandleWhile, Active
    <3>2. line.dir = "while"
      BY <2>5 DEF HandleWhile, Active
    <3>. QED  BY <1>2, <1>3, <3>1, <3>2 DEF HandlerSkip
  <2>6. CASE HandleLeave
    <3>1. CASE ReportAndFail
      BY <1>2, <1>3, <3>1
    <3>2. CASE ~ReportAndFail
      <4>1. /\ InsideLoop /\ pc' = "leave" /\ skipDepth' = 0
            /\ blocks' = blocks /\ calls' = calls
        BY <2>6, <3>2 DEF HandleLeave, Active
      <4>2. InsideLoop'
        BY <4>1 DEF InsideLoop, BlockBase
      <4>. QED  BY <4>1, <4>2 DEF HandlerSkip, Evaluating
    <3>. QED  BY <3>1, <3>2
  <2>7. CASE HandleEmit \/ HandleVar \/ HandleSet
    <3>1. ReportAndFail \/ pc' = "run" \/ BeginEval
      BY <2>7 DEF HandleEmit, HandleVar, HandleSet
    <3>2. skipDepth = 0 /\ line.dir \in {"emit", "var", "set"}
      BY <2>7 DEF HandleEmit, HandleVar, HandleSet, Active
    <3>. QED  BY <1>2, <1>3, <2>1, <3>1, <3>2 DEF Elsewhere, Evaluating
  <2>. QED  BY <1>5, <2>2, <2>3, <2>4, <2>5, <2>6, <2>7 DEF Handle
<1>6. CASE Evaluate
  <2>1. CASE EvalRejected
    <3>1. /\ pc \in Evaluating /\ line' = line /\ skipDepth' = skipDepth /\ blocks' = blocks
          /\ pc' = "evalfail"
      BY <2>1 DEF EvalRejected, Evaluating
    <3>. QED  BY <1>1, <3>1 DEF HandlerSkip
  <2>2. CASE EvalFailed \/ CondFrameGone \/ EvalCall \/ ReturnValue \/ DirectiveValue \/ ElifCond
    <3>1. pc' \notin Evaluating /\ pc' # "leave"
      BY <2>2 DEF EvalFailed, CondFrameGone, EvalCall, ReturnValue, DirectiveValue, ElifCond,
         Fail, Evaluating
    <3>. QED  BY <1>2, <3>1 DEF Elsewhere
  <2>3. CASE DirectiveCond
    <3>1. pc' = "run"
      BY <2>3 DEF DirectiveCond, IfBranch, WhileFirst, ForItems, BeginLoop
    <3>. QED  BY <1>2, <3>1 DEF Elsewhere, Evaluating
  <2>4. CASE ErrorDirective
    BY <1>2, <1>3, <2>4 DEF ErrorDirective
  <2>. QED  BY <1>6, <2>1, <2>2, <2>3, <2>4 DEF Evaluate
<1>7. CASE FinishCall
  <2>1. /\ Len(calls) \in Nat /\ Len(calls) > 0 /\ DOMAIN calls = 1 .. Len(calls)
        /\ Len(blocks) = BlockBase /\ BlockBase = calls[Len(calls)].base
        /\ blocks' = blocks /\ line' = calls[Len(calls)].line
        /\ skipDepth' = calls[Len(calls)].skip
    BY <1>7, FinishFacts
  <2>2. pc' \in Evaluating
    BY <1>7 DEF FinishCall, Evaluating
  <2>3. Len(calls) \in DOMAIN calls
    BY <2>1
  <2>4. Top(blocks)' = blocks[calls[Len(calls)].base]
    BY <2>1 DEF Top
  <2>5. pc' # "leave"
    BY <2>2 DEF Evaluating
  <2>. QED  BY <1>1, <2>1, <2>2, <2>3, <2>4, <2>5 DEF HandlerSkip, CallerSkip
<1>8. CASE CleanupBlock \/ CleanupFrame \/ HandlerFailed
  <2>1. pc' \notin Evaluating /\ pc' # "leave"
    BY <1>8 DEF CleanupBlock, CleanupFrame, HandlerFailed, Evaluating
  <2>. QED  BY <1>2, <2>1 DEF Elsewhere
<1>9. CASE Loops
  <2>1. CASE EnterLoopBody \/ WhileAgain
    <3>1. ReportAndFail \/ (pc' \notin Evaluating /\ pc' # "leave")
      BY <2>1 DEF EnterLoopBody, WhileAgain, Evaluating
    <3>. QED  BY <1>2, <1>3, <3>1 DEF Elsewhere
  <2>2. CASE LoopBodyExhausted
    <3>1. (pc' \notin Evaluating /\ pc' # "leave") \/ (pc' = "eval" /\ line'.dir = "again")
      <4>1. TopKind \notin LoopKinds \/ TopKind = "for" \/ TopKind = "while"
        BY DEF LoopKinds
      <4>2. CASE TopKind \notin LoopKinds
        BY <2>2, <4>2 DEF LoopBodyExhausted, AssertFails, Evaluating, LoopKinds
      <4>3. CASE TopKind = "for"
        BY <2>2, <4>3 DEF LoopBodyExhausted, Evaluating, LoopKinds
      <4>4. CASE TopKind = "while"
        BY <2>2, <4>4 DEF LoopBodyExhausted, LoopKinds
      <4>. QED  BY <4>1, <4>2, <4>3, <4>4
    <3>. QED  BY <1>2, <3>1 DEF Elsewhere, HandlerSkip
  <2>3. CASE LeaveIfBlock \/ LeaveFrame
    <3>1. pc = "leave" /\ skipDepth' = skipDepth /\ skipDepth = 0 /\ InsideLoop
      BY <1>1, <2>3 DEF LeaveIfBlock, LeaveFrame, AssertFails, HandlerSkip
    <3>2. pc' \notin Evaluating
      BY <2>3, <3>1 DEF LeaveIfBlock, LeaveFrame, AssertFails, Evaluating
    <3>3. ASSUME pc' = "leave"
          PROVE  InsideLoop'
      <4>1. ~EvalCall /\ ~ReturnValue /\ ~FinishCall
        BY <3>1 DEF EvalCall, ReturnValue, ValueOf, FinishCall
      <4>2. Steady /\ BlocksBelow
        BY <4>1, CallMove, BlocksStep
      <4>3. BlockBase' = BlockBase
        BY <4>2, SteadyKept
      <4>4. /\ BlockBase \in Nat /\ Len(blocks) \in Nat /\ BlockBase <= Len(blocks)
        BY BaseFacts DEF IInv
      <4>5. CASE LeaveIfBlock
        <5>1. HasBlock /\ Top(blocks).kind = "if" /\ blocks' = Under(blocks)
          BY <3>3, <4>5 DEF LeaveIfBlock, AssertFails, TopKind, PopIfBlock
        <5>2. /\ Len(blocks') = Len(blocks) - 1
              /\ \A k \in 1 .. Len(blocks) - 1 : blocks'[k] = blocks[k]
          BY <5>1, PopBelow
        <5>3. PICK k \in BlockBase + 1 .. Len(blocks) : blocks[k].kind \in LoopKinds
          BY <3>1 DEF InsideLoop
        <5>4. k # Len(blocks)
          BY <5>1, <5>3 DEF Top, LoopKinds
        <5>5. k \in BlockBase' + 1 .. Len(blocks') /\ blocks'[k] = blocks[k]
          BY <4>3, <4>4, <5>2, <5>4
        <5>. QED  BY <5>3, <5>5 DEF InsideLoop
      <4>6. CASE LeaveFrame
        <5>1. blocks' = blocks
          BY <3>3, <4>6 DEF LeaveFrame
        <5>. QED  BY <3>1, <4>3, <5>1 DEF InsideLoop
      <4>. QED  BY <2>3, <4>5, <4>6
    <3>. QED  BY <3>1, <3>2, <3>3 DEF HandlerSkip
  <2>. QED  BY <1>9, <2>1, <2>2, <2>3 DEF Loops
<1>10. CASE Skip
  <2>1. CASE SkipElif
    <3>1. /\ skipDepth = 1 /\ skipDepth' = 1 /\ line' = line /\ blocks' = blocks
      BY <2>1 DEF SkipElif, Skipping
    <3>2. pc' = "eval" => TopKind = "if" /\ ~Top(blocks).taken
      BY <2>1 DEF SkipElif, Fail, ElseRefused
    <3>3. pc' = "eval" => ~Top(blocks).hasScope
      BY <1>1, <3>2, TopBranch
    <3>4. pc' # "leave" /\ pc' \notin {"value", "evalfail"}
      BY <2>1 DEF SkipElif, Fail
    <3>5. line.dir = "elif"
      BY <2>1 DEF SkipElif, Skipping
    <3>. QED  BY <3>1, <3>3, <3>4, <3>5 DEF HandlerSkip, Evaluating, Top
  <2>2. CASE ~SkipElif
    <3>1. pc' \notin Evaluating /\ pc' # "leave"
      <4>1. CASE \/ SkipFails \/ SkipLine \/ SkipOpen \/ SkipUnknown \/ SkipInner
                 \/ SkipElse \/ SkipInnerEnd
        BY <4>1 DEF SkipFails, SkipLine, SkipOpen, SkipUnknown, SkipInner, SkipElse,
           SkipInnerEnd, Fail, Evaluating
      <4>2. CASE SkipEnd
        BY <4>2 DEF SkipEnd, FinishPendingFunc, FinishLoop, LoopKinds, Evaluating
      <4>. QED  BY <1>10, <2>2, <4>1, <4>2 DEF Skip
    <3>. QED  BY <1>2, <3>1 DEF Elsewhere
  <2>. QED  BY <2>1, <2>2
<1>11. CASE Ended
  BY <1>1, <1>11 DEF Ended, vars, HandlerSkip, InsideLoop, BlockBase, Top
<1>. QED  BY <1>4, <1>5, <1>6, <1>7, <1>8, <1>9, <1>10, <1>11 DEF Next, Calls

LEMMA SkipInvStep ==
    ASSUME IInv, SkipInv, Next
    PROVE  SkipInv'
<1>1. BlocksBelow /\ BranchOwned'
  BY BlocksStep
<1>2. HandlerSkip'
  BY HandlerSkipStep
<1>3. CallerSkip'
  BY <1>1, CallMove, CallerSkipStep DEF SkipInv
<1>. QED  BY <1>1, <1>2, <1>3 DEF SkipInv

LEMMA SkipInvInit ==
    ASSUME Init
    PROVE  SkipInv
<1>1. DOMAIN blocks = {} /\ DOMAIN calls = {} /\ pc = "run"
  BY EmptySeq DEF Init
<1>. QED  BY <1>1 DEF SkipInv, HandlerSkip, CallerSkip, BranchOwned, Evaluating

LEMMA SkipInvStutter ==
    ASSUME UNCHANGED vars, SkipInv
    PROVE  SkipInv'
<1>1. /\ pc' = pc /\ line' = line /\ skipDepth' = skipDepth /\ blocks' = blocks /\ calls' = calls
  BY DEF vars
<1>. QED  BY <1>1 DEF SkipInv, HandlerSkip, CallerSkip, BranchOwned, InsideLoop, BlockBase, Top

\* The branches, and the scopes #if, #elif and #else opened for them.
THEOREM SkippingInvariant == Spec => []SkipInv
<1>1. IInv /\ SkipInv /\ [Next]_vars => SkipInv'
  BY SkipInvStep, SkipInvStutter
<1>. QED  BY <1>1, SkipInvInit, Invariance, PTL DEF Spec

\* An #if without an open branch scope is the top of its block stack and is
\* being skipped: enter_if_branch, leave_if_branch and #else never fail their
\* assertions on hasScope, however calls, loops and files interleave.
THEOREM BranchesOwned == Spec => []BranchScopes
<1>1. IInv /\ SkipInv => BranchScopes
  <2>1. SUFFICES ASSUME IInv, SkipInv, NEW k \in DOMAIN blocks, blocks[k].kind = "if"
                 PROVE  /\ blocks[k].hasScope => blocks[k].taken
                        /\ ~blocks[k].hasScope =>
                              IF k > BlockBase
                              THEN k = Len(blocks) /\ skipDepth > 0
                              ELSE \E c \in DOMAIN calls : calls[c].base = k /\ calls[c].skip > 0
    BY DEF BranchScopes
  <2>2. BranchOwned
    BY <2>1 DEF SkipInv
  <2>3. CASE k > BlockBase
    <3>1. k \in BlockBase + 1 .. Len(blocks)
      BY <2>1, <2>3, BaseFacts DEF IInv
    <3>. QED  BY <2>1, <2>2, <2>3, <3>1, OwnedNow
  <2>4. CASE ~(k > BlockBase)
    BY <2>1, <2>2, <2>4 DEF BranchOwned
  <2>. QED  BY <2>3, <2>4
<1>. QED  BY <1>1, SkippingInvariant, Invariance, PTL

-----------------------------------------------------------------------------
(* The nesting of a body *)

LEMMA SmallestOf ==
    ASSUME NEW T \in SUBSET Nat, T # {}
    PROVE  \E m \in T : \A n \in T : m <= n
<1>1. PICK m \in T : \A y \in T : ~ (<<y, m>> \in OpToRel(<, Nat))
  BY Zenon, NatLessThanWellFounded, WFMin
<1>2. \A y \in T : ~(y < m)
  BY <1>1 DEF OpToRel
<1>. QED  BY <1>2

\* What a line adds to the number of open blocks.
Delta(l) == IF l.dir \in BlockKinds THEN 1 ELSE IF l.dir = "end" THEN -1 ELSE 0

\* A function that counts the blocks opened minus those closed.
Counts(f, body, n) ==
    /\ f \in [0 .. n -> Int]
    /\ f[0] = 0
    /\ \A k \in 1 .. n : f[k] = f[k - 1] + Delta(body[k])

LEMMA DeltaType == \A l : Delta(l) \in Int
BY DEF Delta

LEMMA CountsExist ==
    ASSUME NEW body, NEW len \in Nat
    PROVE  \E f : Counts(f, body, len)
<1>. DEFINE T == {n \in 0 .. len : ~ \E f : Counts(f, body, n)}
<1>1. SUFFICES ASSUME T # {}
               PROVE  FALSE
  BY DEF T
<1>2. T \in SUBSET Nat
  OBVIOUS
<1>3. PICK m \in T : \A n \in T : m <= n
  BY <1>1, <1>2, SmallestOf
<1>4. m # 0
  <2>1. Counts([k \in 0 .. 0 |-> 0], body, 0)
    BY DEF Counts
  <2>. QED  BY <1>3, <2>1
<1>5. m \in Nat /\ m - 1 \in 0 .. len /\ m - 1 \notin T
  BY <1>3, <1>4
<1>6. PICK f : Counts(f, body, m - 1)
  BY <1>5
<1>. DEFINE g == [k \in 0 .. m |-> IF k = m THEN f[m - 1] + Delta(body[m]) ELSE f[k]]
<1>7. /\ f \in [0 .. m - 1 -> Int] /\ f[0] = 0
      /\ \A k \in 1 .. m - 1 : f[k] = f[k - 1] + Delta(body[k])
  BY <1>6 DEF Counts
<1>8. g \in [0 .. m -> Int] /\ g[0] = 0
  BY <1>4, <1>5, <1>7, DeltaType
<1>9. \A k \in 1 .. m : g[k] = g[k - 1] + Delta(body[k])
  BY <1>4, <1>5, <1>7
<1>10. Counts(g, body, m)
  BY <1>8, <1>9 DEF Counts
<1>. QED  BY <1>3, <1>10

LEMMA NestingCounts ==
    ASSUME NEW body \in Seq(Line)
    PROVE  Counts(Nesting(body), body, Len(body))
<1>1. Len(body) \in Nat
  BY LenProperties
<1>. DEFINE Step(d) == [k \in 0 .. Len(body) |->
                IF k = 0 THEN 0
                ELSE IF body[k].dir \in BlockKinds THEN d[k - 1] + 1
                ELSE IF body[k].dir = "end" THEN d[k - 1] - 1
                ELSE d[k - 1]]
<1>2. PICK f : Counts(f, body, Len(body))
  BY <1>1, CountsExist
<1>3. f = Step(f)
  <2>1. \A k \in 0 .. Len(body) : f[k] = Step(f)[k]
    <3>1. f \in [0 .. Len(body) -> Int] /\ f[0] = 0
      BY <1>2 DEF Counts
    <3>2. ASSUME NEW k \in 1 .. Len(body)
          PROVE  f[k] = Step(f)[k]
      <4>1. k \in 0 .. Len(body) /\ k # 0 /\ k - 1 \in 0 .. Len(body)
        BY <1>1
      <4>2. f[k] = f[k - 1] + Delta(body[k]) /\ f[k - 1] \in Int
        BY <1>2, <3>1, <4>1 DEF Counts
      <4>. QED  BY <4>1, <4>2 DEF Delta
    <3>3. f[0] = Step(f)[0]
      BY <1>1, <3>1
    <3>4. \A k \in 0 .. Len(body) : k = 0 \/ k \in 1 .. Len(body)
      BY <1>1
    <3>. HIDE DEF Step
    <3>. QED  BY <3>2, <3>3, <3>4
  <2>2. f \in [0 .. Len(body) -> Int]
    BY <1>2 DEF Counts
  <2>. QED  BY <2>1, <2>2
<1>4. Nesting(body) = Step(Nesting(body))
  <2>1. \E d : d = Step(d)
    BY <1>3
  <2>. QED  BY <2>1, Zenon DEF Nesting
<1>. DEFINE n == Nesting(body)
<1>. HIDE DEF n
<1>5. n = Step(n)
  BY <1>4 DEF n
<1>6. n[0] = 0
  BY <1>1, <1>5
<1>7. ASSUME NEW k \in 1 .. Len(body), n[k - 1] \in Int
      PROVE  n[k] = n[k - 1] + Delta(body[k])
  <2>1. k \in 0 .. Len(body) /\ k # 0
    BY <1>1
  <2>2. n[k] = Step(n)[k]
    BY <1>5
  <2>. QED  BY <1>7, <2>1, <2>2 DEF Delta
<1>8. \A k \in 0 .. Len(body) : n[k] \in Int
  <2>. DEFINE T == {k \in 0 .. Len(body) : n[k] \notin Int}
  <2>1. SUFFICES ASSUME T # {}
                 PROVE  FALSE
    OBVIOUS
  <2>2. PICK m \in T : \A k \in T : m <= k
    <3>1. T \in SUBSET Nat
      OBVIOUS
    <3>. QED  BY <2>1, <3>1, SmallestOf
  <2>3. m # 0
    BY <1>6, <2>2
  <2>4. m \in 1 .. Len(body) /\ m - 1 \in 0 .. Len(body) /\ m - 1 \notin T
    BY <1>1, <2>2, <2>3
  <2>5. n[m] = n[m - 1] + Delta(body[m]) /\ n[m - 1] \in Int
    BY <1>7, <2>4
  <2>. QED  BY <2>2, <2>5, DeltaType
<1>9. \A k \in 1 .. Len(body) : n[k] = n[k - 1] + Delta(body[k])
  <2>1. \A k \in 1 .. Len(body) : k - 1 \in 0 .. Len(body)
    BY <1>1
  <2>. QED  BY <1>7, <1>8, <2>1
<1>10. n \in [0 .. Len(body) -> Int]
  BY <1>5, <1>8
<1>. QED  BY <1>6, <1>9, <1>10 DEF Counts, n

\* Two bodies that agree from some place on nest alike from there.
LEMMA NestingShift ==
    ASSUME NEW b \in Seq(Line), NEW c \in Seq(Line), NEW s \in Nat, NEW n \in Nat,
           n <= Len(c), s + n <= Len(b),
           \A k \in 1 .. n : c[k] = b[k + s]
    PROVE  \A k \in 0 .. n : Nesting(b)[k + s] = Nesting(b)[s] + Nesting(c)[k]
<1>. DEFINE nb == Nesting(b)
            nc == Nesting(c)
            T == {k \in 0 .. n : nb[k + s] # nb[s] + nc[k]}
<1>1. /\ Counts(nb, b, Len(b)) /\ Counts(nc, c, Len(c))
      /\ Len(b) \in Nat /\ Len(c) \in Nat
  BY NestingCounts, LenProperties
<1>. HIDE DEF nb, nc
<1>2. SUFFICES ASSUME T # {}
               PROVE  FALSE
  BY DEF nb, nc
<1>3. PICK m \in T : \A k \in T : m <= k
  <2>1. T \in SUBSET Nat
    OBVIOUS
  <2>. QED  BY <1>2, <2>1, SmallestOf
<1>4. m # 0
  <2>0. s \in 0 .. Len(b)
    BY <1>1
  <2>1. nc[0] = 0 /\ nb[s] \in Int
    BY <1>1, <2>0 DEF Counts
  <2>. QED  BY <1>3, <2>1
<1>5. /\ m \in 1 .. n /\ m - 1 \in 0 .. n /\ m - 1 \notin T
      /\ m \in 1 .. Len(c) /\ m + s \in 1 .. Len(b) /\ (m - 1) + s = (m + s) - 1
      /\ (m - 1) + s \in 0 .. Len(b) /\ s \in 0 .. Len(b) /\ m - 1 \in 0 .. Len(c)
  BY <1>1, <1>3, <1>4
<1>6. nb[(m - 1) + s] = nb[s] + nc[m - 1]
  BY <1>5
<1>7. nb[m + s] = nb[(m + s) - 1] + Delta(b[m + s]) /\ nc[m] = nc[m - 1] + Delta(c[m])
  BY <1>1, <1>5 DEF Counts
<1>8. c[m] = b[m + s]
  BY <1>5
<1>9. nb[s] \in Int /\ nc[m - 1] \in Int /\ Delta(c[m]) \in Int
  BY <1>1, <1>5, DeltaType DEF Counts
<1>10. nb[m + s] = nb[s] + nc[m]
  BY <1>5, <1>6, <1>7, <1>8, <1>9, SMTT(40)
<1>. QED  BY <1>3, <1>10

-----------------------------------------------------------------------------
(* Balanced bodies *)

\* The blocks a body leaves open, and a body that closes no block of whoever
\* replays it with d blocks of its own open.
Net(body)     == Nesting(body)[Len(body)]
Safe(body, d) == \A k \in DOMAIN body : body[k].dir = "end" => d + Nesting(body)[k - 1] > 0

LEMMA BalancedNet ==
    ASSUME NEW body \in Seq(Line)
    PROVE  Balanced(body) <=> Net(body) = 0 /\ Safe(body, 0)
<1>1. /\ Counts(Nesting(body), body, Len(body)) /\ Len(body) \in Nat
      /\ DOMAIN body = 1 .. Len(body)
  BY NestingCounts, LenProperties
<1>2. \A k \in DOMAIN body : k - 1 \in 0 .. Len(body)
  BY <1>1
<1>3. \A k \in DOMAIN body : 0 + Nesting(body)[k - 1] = Nesting(body)[k - 1]
  BY <1>1, <1>2 DEF Counts
<1>. QED  BY <1>3 DEF Balanced, Net, Safe

LEMMA EmptyBody == Net(<<>>) = 0 /\ Balanced(<<>>) /\ \A d : Safe(<<>>, d)
<1>1. <<>> \in Seq(Line) /\ Len(<<>>) = 0
  BY EmptySeq
<1>2. Counts(Nesting(<<>>), <<>>, 0)
  BY <1>1, NestingCounts
<1>3. DOMAIN <<>> = {}
  BY EmptySeq
<1>4. \A d : Safe(<<>>, d)
  BY <1>3 DEF Safe
<1>5. Net(<<>>) = 0
  BY <1>1, <1>2 DEF Counts, Net
<1>6. Safe(<<>>, 0)
  BY ONLY <1>4, Zenon
<1>7. Balanced(<<>>)
  BY <1>1, <1>5, <1>6, BalancedNet
<1>. QED  BY <1>4, <1>5, <1>7

LEMMA AppendBody ==
    ASSUME NEW body \in Seq(Line), NEW l \in Line, NEW d \in Int, Safe(body, d),
           l.dir = "end" => d + Net(body) > 0
    PROVE  /\ Append(body, l) \in Seq(Line)
           /\ Safe(Append(body, l), d)
           /\ Net(body) \in Int /\ Net(Append(body, l)) = Net(body) + Delta(l)
<1>. DEFINE more == Append(body, l)
            len == Len(body)
<1>1. /\ more \in Seq(Line) /\ Len(more) = len + 1 /\ more[len + 1] = l
      /\ \A k \in 1 .. len : more[k] = body[k]
      /\ len \in Nat /\ DOMAIN body = 1 .. len /\ DOMAIN more = 1 .. len + 1
  BY AppendProperties, LenProperties
<1>. HIDE DEF more
<1>2. Counts(Nesting(body), body, len) /\ Counts(Nesting(more), more, len + 1)
  BY <1>1, NestingCounts
<1>3. \A k \in 0 .. len : Nesting(more)[k + 0] = Nesting(more)[0] + Nesting(body)[k]
  <2>1. \A k \in 1 .. len : body[k] = more[k + 0]
    BY <1>1
  <2>2. 0 \in Nat /\ len \in Nat /\ len <= Len(body) /\ 0 + len <= Len(more)
    BY <1>1
  <2>. QED  BY <1>1, <2>1, <2>2, NestingShift
<1>4. \A k \in 0 .. len : Nesting(more)[k] = Nesting(body)[k] /\ Nesting(body)[k] \in Int
  <2>1. Nesting(more)[0] = 0 /\ \A k \in 0 .. len : Nesting(body)[k] \in Int
    BY <1>2 DEF Counts
  <2>2. \A k \in 0 .. len : k + 0 = k
    BY <1>1
  <2>. QED  BY <1>3, <2>1, <2>2
<1>5. Net(body) \in Int /\ Net(more) = Net(body) + Delta(l)
  <2>1. len + 1 \in 1 .. len + 1 /\ (len + 1) - 1 = len /\ len \in 0 .. len
    BY <1>1
  <2>2. Nesting(more)[len + 1] = Nesting(more)[len] + Delta(l)
    BY <1>1, <1>2, <2>1 DEF Counts
  <2>. QED  BY <1>1, <1>4, <2>1, <2>2 DEF Net
<1>6. ASSUME NEW k \in 1 .. len + 1, more[k].dir = "end"
      PROVE  d + Nesting(more)[k - 1] > 0
  <2>1. CASE k \in 1 .. len
    <3>1. k - 1 \in 0 .. len /\ body[k].dir = "end"
      BY <1>1, <1>6, <2>1
    <3>. QED  BY <1>1, <1>4, <2>1, <3>1 DEF Safe
  <2>2. CASE k = len + 1
    <3>1. k - 1 = len /\ len \in 0 .. len /\ l.dir = "end"
      BY <1>1, <1>6, <2>2
    <3>. QED  BY <1>4, <3>1 DEF Net
  <2>. QED  BY <1>1, <2>1, <2>2
<1>. QED  BY <1>1, <1>5, <1>6 DEF Safe, more

-----------------------------------------------------------------------------
(* Captures *)

\* A block whose body is being collected, by #func or by a loop.
Collects(b) == b.kind = "func" \/ b.capturing

\* The stages of a capture, the top block being b: the lines captured so far
\* are those of the blocks opened while skipping; or its file has ended under
\* it, and the block waits, for an iteration without lines or to be dropped.
Collected(b) ==
    \/ pc \in {"fail", "cleanup", "exhausted"}
    \/ /\ pc \in {"run", "line"} /\ skipDepth > 0 /\ skipCapture
       /\ Safe(captureBuf, 0) /\ Net(captureBuf) = skipDepth - 1
    \/ /\ b.capturing
       /\ \/ pc = "enter"
          \/ pc \in Evaluating /\ line.dir = "again"
          \/ pc = "run" /\ Replayed

\* The condition of the loop k is evaluated by a call.
Saved(k) ==
    \E c \in DOMAIN calls : /\ calls[c].base = k /\ calls[c].line.dir = "again"
                            /\ c > 1 => calls[c - 1].base < k

Captures ==
    pc \notin Final =>
        \A k \in DOMAIN blocks : Collects(blocks[k]) =>
            \/ k = Len(blocks) /\ k > BlockBase /\ Collected(blocks[k])
            \/ blocks[k].capturing /\ Saved(k)

\* What is replayed is balanced, and a loop has no body before it is captured.
Replayable(b) ==
    /\ Balanced(b.body)
    /\ b.capturing => b.kind \in LoopKinds /\ b.body = <<>>

BlocksReplayable == \A k \in DOMAIN blocks : Replayable(blocks[k])
ScopesReplayable == \A k \in DOMAIN scopes : \A n \in Names : Balanced(scopes[k].syms[n].body)

BodyInv == Captures /\ BlocksReplayable /\ ScopesReplayable

LEMMA CaptureNow ==
    ASSUME IInv, Captures, pc \notin Final, NEW k \in BlockBase + 1 .. Len(blocks),
           Collects(blocks[k])
    PROVE  k = Len(blocks) /\ HasBlock /\ Top(blocks) = blocks[k] /\ Collected(blocks[k])
<1>1. /\ BlockBase \in Nat /\ DOMAIN blocks = 1 .. Len(blocks) /\ Len(blocks) \in Nat
      /\ \A c \in DOMAIN calls : calls[c].base \in Nat /\ calls[c].base <= BlockBase
  BY BaseFacts DEF IInv
<1>2. k \in 1 .. Len(blocks) /\ k > BlockBase /\ HasBlock
  BY <1>1 DEF HasBlock
<1>3. k \in DOMAIN blocks
  BY <1>1, <1>2
<1>4. \A c \in DOMAIN calls : calls[c].base # k
  BY <1>1, <1>2
<1>. QED  BY <1>2, <1>3, <1>4 DEF Captures, Saved, Top

LEMMA TopCaptured ==
    ASSUME IInv, Captures, pc \notin Final, HasBlock, Collects(Top(blocks))
    PROVE  Collected(Top(blocks))
<1>1. Len(blocks) \in BlockBase + 1 .. Len(blocks) /\ Top(blocks) = blocks[Len(blocks)]
  BY BaseFacts DEF IInv, HasBlock, Top
<1>. QED  BY <1>1, CaptureNow

LEMMA SavedKept ==
    ASSUME IInv, Steady, NEW k, Saved(k)
    PROVE  Saved(k)'
<1>1. /\ DOMAIN calls = 1 .. Len(calls) /\ Len(calls) \in Nat
      /\ DOMAIN calls' = 1 .. Len(calls)
  BY LenProperties DEF IInv, TypeOK, Steady
<1>2. PICK c \in 1 .. Len(calls) : /\ calls[c].base = k /\ calls[c].line.dir = "again"
                                   /\ c > 1 => calls[c - 1].base < k
  BY <1>1 DEF Saved
<1>3. c > 1 => c - 1 \in 1 .. Len(calls)
  BY <1>1
<1>4. /\ calls'[c].base = calls[c].base /\ calls'[c].line = calls[c].line
      /\ c > 1 => calls'[c - 1].base = calls[c - 1].base
  BY <1>3 DEF Steady
<1>. QED  BY <1>1, <1>2, <1>4 DEF Saved

\* Only the blocks of the running call have to be looked at.
LEMMA CapturesStep ==
    ASSUME IInv, Captures, pc \notin Final, Steady, BlocksBelow,
           pc' \notin Final =>
              \A k \in BlockBase + 1 .. Len(blocks') : Collects(blocks'[k]) =>
                  k = Len(blocks') /\ Collected(blocks[k])'
    PROVE  Captures'
<1>1. /\ BlockBase \in Nat /\ DOMAIN blocks = 1 .. Len(blocks) /\ Len(blocks) \in Nat
      /\ BlockBase <= Len(blocks)
      /\ BlockBase' = BlockBase /\ DOMAIN blocks' = 1 .. Len(blocks') /\ Len(blocks') \in Nat
  BY BaseFacts, SteadyKept DEF IInv
<1>2. SUFFICES ASSUME pc' \notin Final, NEW k \in 1 .. Len(blocks'), Collects(blocks'[k])
               PROVE  \/ k = Len(blocks') /\ k > BlockBase /\ Collected(blocks[k])'
                      \/ blocks'[k].capturing /\ Saved(k)'
  BY <1>1 DEF Captures
<1>5. /\ BlockBase \in Nat /\ Len(blocks) \in Nat /\ BlockBase <= Len(blocks)
      /\ Len(blocks') \in Nat /\ k \in Nat /\ 1 <= k /\ k <= Len(blocks')
  <2>1. k \in 1 .. Len(blocks') /\ Len(blocks') \in Nat
    BY ONLY <1>1, <1>2
  <2>2. BlockBase \in Nat /\ Len(blocks) \in Nat /\ BlockBase <= Len(blocks)
    BY ONLY <1>1
  <2>. QED  BY ONLY <2>1, <2>2
<1>3. CASE k > BlockBase
  <2>1. k \in BlockBase + 1 .. Len(blocks')
    BY <1>3, <1>5
  <2>. QED  BY <1>2, <1>3, <2>1
<1>4. CASE ~(k > BlockBase)
  <2>1. k \in 1 .. BlockBase /\ k \in 1 .. Len(blocks)
    BY <1>4, <1>5
  <2>2. blocks'[k] = blocks[k] /\ k \in DOMAIN blocks
    BY <1>1, <2>1 DEF BlocksBelow
  <2>3. blocks[k].capturing /\ Saved(k)
    BY <1>2, <1>4, <2>2 DEF Captures
  <2>4. Saved(k)'
    BY <2>3, SavedKept
  <2>. QED  BY <2>2, <2>3, <2>4
<1>. QED  BY <1>3, <1>4

\* What a step may do to the blocks, as far as captures are concerned.
CaptureMove ==
    \/ /\ blocks' = blocks
       /\ HasBlock /\ Collects(Top(blocks)) => pc' \in Final \/ Collected(Top(blocks))'
    \/ HasBlock /\ blocks' = Under(blocks)
    \/ blocks' = SubSeq(blocks, 1, BlockBase)
    \/ /\ ~(HasBlock /\ Collects(Top(blocks)))
       /\ \E b \in Blocks : /\ blocks' = Append(blocks, b) /\ Replayable(b)
                            /\ Collects(b) => Collected(b)'
    \/ /\ HasBlock
       /\ \E b \in Blocks : /\ blocks' = SetTop(b) /\ Replayable(b)
                            /\ Collects(b) => Collected(b)'

LEMMA CaptureSame ==
    ASSUME IInv, Captures, BlocksReplayable, pc \notin Final, Steady, blocks' = blocks,
           HasBlock /\ Collects(Top(blocks)) => pc' \in Final \/ Collected(Top(blocks))'
    PROVE  Captures' /\ BlocksReplayable'
<1>1. BlocksBelow /\ BlocksReplayable'
  BY SameBelow DEF BlocksReplayable
<1>2. ASSUME pc' \notin Final, NEW k \in BlockBase + 1 .. Len(blocks), Collects(blocks[k])
      PROVE  k = Len(blocks') /\ Collected(blocks[k])'
  <2>1. k = Len(blocks) /\ HasBlock /\ Top(blocks) = blocks[k]
    BY <1>2, CaptureNow
  <2>2. Collected(Top(blocks))'
    BY <1>2, <2>1
  <2>. QED  BY <2>1, <2>2 DEF Top
<1>3. \A k \in BlockBase + 1 .. Len(blocks') : blocks'[k] = blocks[k]
  OBVIOUS
<1>. QED  BY <1>1, <1>2, <1>3, CapturesStep

LEMMA CapturePop ==
    ASSUME IInv, Captures, BlocksReplayable, pc \notin Final, Steady, HasBlock,
           blocks' = Under(blocks)
    PROVE  Captures' /\ BlocksReplayable'
<1>1. /\ BlocksBelow /\ Len(blocks') = Len(blocks) - 1
      /\ \A k \in 1 .. Len(blocks) - 1 : blocks'[k] = blocks[k]
      /\ BlockBase \in Nat /\ Len(blocks) \in Nat /\ DOMAIN blocks = 1 .. Len(blocks)
  BY PopBelow, BaseFacts DEF IInv
<1>2. ASSUME NEW k \in BlockBase + 1 .. Len(blocks'), Collects(blocks'[k])
      PROVE  FALSE
  <2>1. k \in BlockBase + 1 .. Len(blocks) /\ k # Len(blocks) /\ k \in 1 .. Len(blocks) - 1
    BY <1>1, <1>2
  <2>2. blocks'[k] = blocks[k]
    BY <1>1, <2>1
  <2>. QED  BY <1>2, <2>1, <2>2, CaptureNow
<1>3. Captures'
  BY <1>1, <1>2, CapturesStep
<1>4. BlocksReplayable'
  <2>1. DOMAIN blocks' = 1 .. Len(blocks')
    BY <1>1, LenProperties DEF BlocksBelow
  <2>2. ASSUME NEW k \in 1 .. Len(blocks')
        PROVE  Replayable(blocks'[k])
    <3>1. k \in 1 .. Len(blocks) - 1 /\ k \in 1 .. Len(blocks)
      BY <1>1, <2>2
    <3>. QED  BY <1>1, <3>1 DEF BlocksReplayable
  <2>. QED  BY <2>1, <2>2 DEF BlocksReplayable
<1>. QED  BY <1>3, <1>4

LEMMA CaptureCut ==
    ASSUME IInv, Captures, BlocksReplayable, pc \notin Final, Steady,
           blocks' = SubSeq(blocks, 1, BlockBase)
    PROVE  Captures' /\ BlocksReplayable'
<1>1. /\ BlocksBelow /\ Len(blocks') = BlockBase
      /\ BlockBase \in Nat /\ Len(blocks) \in Nat /\ DOMAIN blocks = 1 .. Len(blocks)
      /\ BlockBase <= Len(blocks)
  BY CutBelow, BaseFacts DEF IInv
<1>2. \A k \in BlockBase + 1 .. Len(blocks') : FALSE
  BY <1>1
<1>3. Captures'
  BY <1>1, <1>2, CapturesStep
<1>4. BlocksReplayable'
  <2>1. DOMAIN blocks' = 1 .. BlockBase
    BY <1>1, LenProperties DEF BlocksBelow
  <2>2. \A k \in 1 .. BlockBase : k \in DOMAIN blocks /\ blocks'[k] = blocks[k]
    BY <1>1 DEF BlocksBelow
  <2>. QED  BY <2>1, <2>2 DEF BlocksReplayable
<1>. QED  BY <1>3, <1>4

LEMMA CapturePush ==
    ASSUME IInv, Captures, BlocksReplayable, pc \notin Final, Steady,
           ~(HasBlock /\ Collects(Top(blocks))), NEW b \in Blocks,
           blocks' = Append(blocks, b), Replayable(b), Collects(b) => Collected(b)'
    PROVE  Captures' /\ BlocksReplayable'
<1>1. /\ BlocksBelow /\ Len(blocks') = Len(blocks) + 1
      /\ blocks'[Len(blocks) + 1] = b
      /\ \A k \in 1 .. Len(blocks) : blocks'[k] = blocks[k]
      /\ BlockBase \in Nat /\ Len(blocks) \in Nat /\ DOMAIN blocks = 1 .. Len(blocks)
      /\ BlockBase <= Len(blocks)
  BY PushBelow, BaseFacts DEF IInv
<1>2. ASSUME NEW k \in BlockBase + 1 .. Len(blocks'), Collects(blocks'[k])
      PROVE  k = Len(blocks') /\ Collected(blocks[k])'
  <2>1. k \in BlockBase + 1 .. Len(blocks) \/ k = Len(blocks) + 1
    BY <1>1, <1>2
  <2>2. CASE k \in BlockBase + 1 .. Len(blocks)
    <3>1. k \in 1 .. Len(blocks)
      BY <1>1, <2>2
    <3>2. blocks'[k] = blocks[k]
      BY <1>1, <3>1
    <3>. QED  BY <1>2, <2>2, <3>2, CaptureNow
  <2>3. CASE k = Len(blocks) + 1
    BY <1>1, <1>2, <2>3 DEF Collected
  <2>. QED  BY <2>1, <2>2, <2>3
<1>3. Captures'
  BY <1>1, <1>2, CapturesStep
<1>4. BlocksReplayable'
  <2>1. DOMAIN blocks' = 1 .. Len(blocks) + 1
    BY <1>1, LenProperties DEF BlocksBelow
  <2>2. \A k \in 1 .. Len(blocks) + 1 : k \in 1 .. Len(blocks) \/ k = Len(blocks) + 1
    BY <1>1
  <2>. QED  BY <1>1, <2>1, <2>2 DEF BlocksReplayable
<1>. QED  BY <1>3, <1>4

LEMMA CaptureSet ==
    ASSUME IInv, Captures, BlocksReplayable, pc \notin Final, Steady, HasBlock,
           NEW b \in Blocks, blocks' = SetTop(b), Replayable(b),
           Collects(b) => Collected(b)'
    PROVE  Captures' /\ BlocksReplayable'
<1>1. /\ BlocksBelow /\ Len(blocks') = Len(blocks)
      /\ blocks'[Len(blocks)] = b
      /\ \A k \in 1 .. Len(blocks) - 1 : blocks'[k] = blocks[k]
      /\ BlockBase \in Nat /\ Len(blocks) \in Nat /\ DOMAIN blocks = 1 .. Len(blocks)
  BY SetBelow, BaseFacts DEF IInv
<1>2. ASSUME NEW k \in BlockBase + 1 .. Len(blocks), Collects(blocks'[k])
      PROVE  k = Len(blocks') /\ Collected(blocks[k])'
  <2>1. CASE k # Len(blocks)
    <3>1. k \in 1 .. Len(blocks) - 1
      BY <1>1, <1>2, <2>1
    <3>2. blocks'[k] = blocks[k]
      BY <1>1, <3>1
    <3>. QED  BY <1>2, <2>1, <3>2, CaptureNow
  <2>2. CASE k = Len(blocks)
    BY <1>1, <1>2, <2>2 DEF Collected
  <2>. QED  BY <2>1, <2>2
<1>3. Captures'
  BY <1>1, <1>2, CapturesStep
<1>4. BlocksReplayable'
  <2>1. DOMAIN blocks' = 1 .. Len(blocks)
    BY <1>1, LenProperties DEF BlocksBelow
  <2>2. \A k \in 1 .. Len(blocks) : k \in 1 .. Len(blocks) - 1 \/ k = Len(blocks)
    BY <1>1
  <2>. QED  BY <1>1, <2>1, <2>2 DEF BlocksReplayable
<1>. QED  BY <1>3, <1>4

LEMMA CaptureMoved ==
    ASSUME IInv, Captures, BlocksReplayable, pc \notin Final, Steady, CaptureMove
    PROVE  Captures' /\ BlocksReplayable'
<1>1. CASE /\ blocks' = blocks
           /\ HasBlock /\ Collects(Top(blocks)) => pc' \in Final \/ Collected(Top(blocks))'
  BY <1>1, CaptureSame
<1>2. CASE HasBlock /\ blocks' = Under(blocks)
  BY <1>2, CapturePop
<1>3. CASE blocks' = SubSeq(blocks, 1, BlockBase)
  BY <1>3, CaptureCut
<1>4. CASE /\ ~(HasBlock /\ Collects(Top(blocks)))
           /\ \E b \in Blocks : /\ blocks' = Append(blocks, b) /\ Replayable(b)
                                /\ Collects(b) => Collected(b)'
  BY <1>4, CapturePush
<1>5. CASE /\ HasBlock
           /\ \E b \in Blocks : /\ blocks' = SetTop(b) /\ Replayable(b)
                                /\ Collects(b) => Collected(b)'
  BY <1>5, CaptureSet
<1>. QED  BY <1>1, <1>2, <1>3, <1>4, <1>5 DEF CaptureMove

\* The fields of a replaced top block that captures depend on.
LEMMA TopReplaced ==
    ASSUME IInv, BlocksReplayable, HasBlock
    PROVE  /\ Replayable(Top(blocks)) /\ Top(blocks) \in Blocks
           /\ LET b == [Top(blocks) EXCEPT !.hadElse = TRUE, !.hasScope = FALSE]
              IN  Replayable(b) /\ (Collects(b) <=> Collects(Top(blocks)))
           /\ LET b == [Top(blocks) EXCEPT !.hadElse = TRUE]
              IN  Replayable(b) /\ (Collects(b) <=> Collects(Top(blocks)))
           /\ LET b == [Top(blocks) EXCEPT !.taken = TRUE, !.hasScope = TRUE]
              IN  Replayable(b) /\ (Collects(b) <=> Collects(Top(blocks)))
           /\ LET b == [[Top(blocks) EXCEPT !.hadElse = TRUE] EXCEPT !.taken = TRUE, !.hasScope = TRUE]
              IN  Replayable(b) /\ (Collects(b) <=> Collects(Top(blocks)))
           /\ LET b == [Top(blocks) EXCEPT !.left = @ - 1]
              IN  Replayable(b) /\ (Collects(b) <=> Collects(Top(blocks)))
                  /\ b.capturing = Top(blocks).capturing
<1>1. /\ Top(blocks) \in Blocks /\ Top(blocks) = blocks[Len(blocks)]
      /\ Len(blocks) \in DOMAIN blocks
  BY TopFields
<1>. DEFINE top == Top(blocks)
<1>2. Replayable(top) /\ top \in Blocks
  BY <1>1 DEF BlocksReplayable
<1>. HIDE DEF top
<1>3. ASSUME NEW b, b.kind = top.kind, b.capturing = top.capturing, b.body = top.body
      PROVE  Replayable(b) /\ (Collects(b) <=> Collects(top))
  BY <1>2, <1>3 DEF Replayable, Collects
<1>4. LET b == [top EXCEPT !.hadElse = TRUE, !.hasScope = FALSE]
      IN  b.kind = top.kind /\ b.capturing = top.capturing /\ b.body = top.body
  BY <1>2 DEF Blocks
<1>5. LET b == [top EXCEPT !.hadElse = TRUE]
      IN  b.kind = top.kind /\ b.capturing = top.capturing /\ b.body = top.body
  BY <1>2 DEF Blocks
<1>6. LET b == [top EXCEPT !.taken = TRUE, !.hasScope = TRUE]
      IN  b.kind = top.kind /\ b.capturing = top.capturing /\ b.body = top.body
  BY <1>2 DEF Blocks
<1>7. LET b == [[top EXCEPT !.hadElse = TRUE] EXCEPT !.taken = TRUE, !.hasScope = TRUE]
      IN  b.kind = top.kind /\ b.capturing = top.capturing /\ b.body = top.body
  BY <1>2 DEF Blocks
<1>8. LET b == [top EXCEPT !.left = @ - 1]
      IN  b.kind = top.kind /\ b.capturing = top.capturing /\ b.body = top.body
  BY <1>2 DEF Blocks
<1>. QED  BY <1>2, <1>3, <1>4, <1>5, <1>6, <1>7, <1>8 DEF top

LEMMA NewReplayable ==
    /\ \A cond \in BOOLEAN :
          LET b == [NewBlock("if") EXCEPT !.taken = cond, !.hasScope = cond]
          IN  Replayable(b) /\ ~Collects(b)
    /\ \A p \in BOOLEAN : Replayable([NewBlock("func") EXCEPT !.public = p])
    /\ \A n \in Nat :
          LET b == [NewBlock("for") EXCEPT !.capturing = n # 0, !.left = n]
          IN  Replayable(b) /\ (Collects(b) <=> b.capturing)
    /\ \A c \in BOOLEAN : \A e \in Exprs :
          LET b == [NewBlock("while") EXCEPT !.capturing = c, !.cond = e]
          IN  Replayable(b) /\ (Collects(b) <=> b.capturing)
<1>1. Balanced(<<>>)
  BY EmptyBody
<1>2. \A cond \in BOOLEAN :
          LET b == [NewBlock("if") EXCEPT !.taken = cond, !.hasScope = cond]
          IN  b.body = <<>> /\ b.capturing = FALSE /\ b.kind = "if"
  BY DEF NewBlock
<1>3. \A p \in BOOLEAN :
          LET b == [NewBlock("func") EXCEPT !.public = p]
          IN  b.body = <<>> /\ b.capturing = FALSE
  BY DEF NewBlock
<1>4. \A n \in Nat :
          LET b == [NewBlock("for") EXCEPT !.capturing = n # 0, !.left = n]
          IN  b.body = <<>> /\ b.kind = "for"
  BY DEF NewBlock
<1>5. \A c \in BOOLEAN : \A e \in Exprs :
          LET b == [NewBlock("while") EXCEPT !.capturing = c, !.cond = e]
          IN  b.body = <<>> /\ b.kind = "while"
  BY DEF NewBlock
<1>6. "for" \in LoopKinds /\ "while" \in LoopKinds
  BY DEF LoopKinds
<1>. QED  BY <1>1, <1>2, <1>3, <1>4, <1>5, <1>6 DEF Replayable, Collects

\* The capture starts with nothing captured and the first block skipped.
LEMMA CaptureStarts ==
    ASSUME NEW b, pc' = "run", skipDepth' = 1, skipCapture' = TRUE, captureBuf' = <<>>
    PROVE  Collected(b)'
<1>1. Net(captureBuf') = 0
  BY EmptyBody
<1>2. Safe(captureBuf', 0)
  <2>1. \A d : Safe(<<>>, d)
    BY EmptyBody
  <2>2. Safe(<<>>, 0)
    BY <2>1, Zenon
  <2>. QED  BY <2>2
<1>. QED  BY <1>1, <1>2 DEF Collected

LEMMA HandleCaptures ==
    ASSUME IInv, BodyInv, Handle
    PROVE  CaptureMove
<1>1. pc = "line" /\ skipDepth = 0
  BY DEF Handle, OpLimitExceeded, HandleOperand, HandleStrayReturn, HandleUnknown, HandleElse,
     HandleElif, HandleEnd, HandleFunc, HandleWhile, HandleLeave, HandleInclude, HandleEmit,
     HandleVar, HandleSet, Active
<1>2. ~(HasBlock /\ Collects(Top(blocks)))
  <2>1. pc \notin Final /\ pc \notin Evaluating
    BY <1>1 DEF Final, Evaluating
  <2>. QED  BY <1>1, <2>1, TopCaptured DEF Collected, BodyInv
<1>3. blocks' = blocks => CaptureMove
  BY <1>2 DEF CaptureMove
<1>4. ReportAndFail => blocks' = blocks
  BY DEF ReportAndFail
<1>5. CASE HandleElse
  <2>1. CASE blocks' = blocks
    BY <1>3, <2>1
  <2>2. CASE blocks' # blocks
    <3>1. ~ElseRefused
          /\ blocks' = SetTop([Top(blocks) EXCEPT !.hadElse = TRUE, !.hasScope = FALSE])
      BY <1>4, <1>5, <2>2 DEF HandleElse
    <3>2. HasBlock
      BY <3>1 DEF ElseRefused, TopKind
    <3>3. PICK b : b = [Top(blocks) EXCEPT !.hadElse = TRUE, !.hasScope = FALSE]
      OBVIOUS
    <3>4. b \in Blocks /\ Replayable(b) /\ (Collects(b) <=> Collects(Top(blocks)))
      BY <3>2, <3>3, TopFields, TopReplaced DEF BodyInv
    <3>5. blocks' = SetTop(b)
      BY <3>1, <3>3
    <3>. QED  BY <1>2, <3>2, <3>4, <3>5 DEF CaptureMove
  <2>. QED  BY <2>1, <2>2
<1>6. CASE HandleEnd
  <2>1. blocks' = blocks \/ (HasBlock /\ blocks' = Under(blocks))
    BY <1>4, <1>6 DEF HandleEnd, PopIfBlock, TopKind
  <2>. QED  BY <1>3, <2>1 DEF CaptureMove
<1>7. CASE HandleFunc
  <2>1. CASE ReportAndFail
    BY <1>3, <1>4, <2>1
  <2>2. CASE ~ReportAndFail
    <3>1. PICK b : b = [NewBlock("func") EXCEPT !.public = line.public]
      OBVIOUS
    <3>2. line.public \in BOOLEAN
      BY DEF IInv, TypeOK, Line
    <3>3. b \in Blocks /\ Replayable(b)
      BY <3>1, <3>2, NewBlockFacts, NewReplayable
    <3>4. /\ blocks' = Append(blocks, b) /\ captureBuf' = <<>> /\ skipCapture' = TRUE
          /\ skipDepth' = 1 /\ pc' = "run"
      BY <1>1, <1>7, <2>2, <3>1 DEF HandleFunc
    <3>5. Collected(b)'
      BY <3>4, CaptureStarts
    <3>. QED  BY <1>2, <3>3, <3>4, <3>5 DEF CaptureMove
  <2>. QED  BY <2>1, <2>2
<1>8. CASE \/ OpLimitExceeded \/ HandleOperand \/ HandleStrayReturn \/ HandleUnknown
           \/ HandleElif \/ HandleWhile \/ HandleLeave \/ HandleInclude \/ HandleEmit
           \/ HandleVar \/ HandleSet
  <2>1. blocks' = blocks
    BY <1>4, <1>8 DEF OpLimitExceeded, HandleOperand, HandleStrayReturn, HandleUnknown,
       HandleElif, HandleWhile, HandleLeave, HandleInclude, HandleEmit, HandleVar, HandleSet,
       BeginEval
  <2>. QED  BY <1>3, <2>1
<1>. QED  BY <1>5, <1>6, <1>7, <1>8 DEF Handle

LEMMA EvaluateCaptures ==
    ASSUME IInv, SkipInv, BodyInv, Evaluate, ~EvalCall, ~ReturnValue
    PROVE  CaptureMove
<1>1. pc \in Evaluating
  BY DEF Evaluate, EvalRejected, EvalFailed, CondFrameGone, DirectiveCond, DirectiveValue,
     ErrorDirective, ElifCond, ValueOf, Evaluating
<1>2. line.dir # "again" => ~(HasBlock /\ Collects(Top(blocks)))
  <2>1. pc \notin Final /\ pc \notin {"fail", "cleanup", "exhausted", "run", "line", "enter"}
    BY <1>1 DEF Final, Evaluating
  <2>. QED  BY <2>1, TopCaptured DEF Collected, BodyInv
<1>3. CASE EvalRejected
  <2>1. /\ blocks' = blocks /\ pc' = "evalfail" /\ line' = line
    BY <1>3 DEF EvalRejected
  <2>2. ASSUME HasBlock, Collects(Top(blocks))
        PROVE  Collected(Top(blocks))'
    <3>1. line.dir = "again"
      BY <1>2, <2>2
    <3>2. Top(blocks).capturing
      <4>1. pc \notin Final /\ pc \notin {"fail", "cleanup", "exhausted", "run", "line", "enter"}
        BY <1>1 DEF Final, Evaluating
      <4>. QED  BY <2>2, <4>1, TopCaptured DEF Collected, BodyInv
    <3>. QED  BY <2>1, <3>1, <3>2 DEF Collected, Evaluating, Top
  <2>. QED  BY <2>1, <2>2 DEF CaptureMove
<1>4. CASE EvalFailed \/ CondFrameGone \/ ErrorDirective
  <2>1. blocks' = blocks /\ (pc' = "fail" \/ pc' = "crash")
    BY <1>4 DEF EvalFailed, CondFrameGone, ErrorDirective, ReportAndFail, Fail
  <2>. QED  BY <2>1 DEF CaptureMove, Collected, Final
<1>5. CASE DirectiveValue
  <2>1. blocks' = blocks /\ line.dir # "again"
    BY <1>5 DEF DirectiveValue, ValueOf
  <2>. QED  BY <1>2, <2>1 DEF CaptureMove
<1>6. CASE DirectiveCond
  <2>1. line.dir # "again" /\ skipDepth = 0
    BY <1>1, <1>6 DEF DirectiveCond, ValueOf, SkipInv, HandlerSkip
  <2>2. CASE \E cond \in BOOLEAN : IfBranch(cond)
    <3>1. PICK cond \in BOOLEAN : IfBranch(cond)
      BY <2>2
    <3>2. PICK b : b = [NewBlock("if") EXCEPT !.taken = cond, !.hasScope = cond]
      OBVIOUS
    <3>3. b \in Blocks /\ Replayable(b) /\ ~Collects(b)
      BY <3>2, NewBlockFacts, NewReplayable
    <3>4. blocks' = Append(blocks, b)
      BY <3>1, <3>2 DEF IfBranch
    <3>. QED  BY <1>2, <2>1, <3>3, <3>4 DEF CaptureMove
  <2>3. ASSUME NEW b \in Blocks, Replayable(b), Collects(b) <=> b.capturing, BeginLoop(b)
        PROVE  CaptureMove
    <3>1. blocks' = Append(blocks, b)
      BY <2>3 DEF BeginLoop
    <3>2. Collects(b) => /\ captureBuf' = <<>> /\ skipCapture' = TRUE
                         /\ skipDepth' = 1 /\ pc' = "run"
      BY <2>1, <2>3 DEF BeginLoop
    <3>3. Collects(b) => Collected(b)'
      BY <3>2, CaptureStarts
    <3>. QED  BY <1>2, <2>1, <2>3, <3>1, <3>3 DEF CaptureMove
  <2>4. CASE \E cond \in BOOLEAN : WhileFirst(cond)
    <3>1. PICK cond \in BOOLEAN : WhileFirst(cond)
      BY <2>4
    <3>2. PICK b : b = [NewBlock("while") EXCEPT !.capturing = cond, !.cond = line.expr]
      OBVIOUS
    <3>3. line.expr \in Exprs
      BY DEF IInv, TypeOK, Line
    <3>4. b \in Blocks /\ Replayable(b) /\ (Collects(b) <=> b.capturing)
      BY <3>2, <3>3, NewBlockFacts, NewReplayable
    <3>5. BeginLoop(b)
      BY <3>1, <3>2 DEF WhileFirst
    <3>. QED  BY <2>3, <3>4, <3>5
  <2>5. CASE \E count \in 0 .. MaxItems : ForItems(count)
    <3>1. PICK count \in 0 .. MaxItems : ForItems(count)
      BY <2>5
    <3>2. PICK b : b = [NewBlock("for") EXCEPT !.capturing = count # 0, !.left = count]
      OBVIOUS
    <3>3. count \in Nat
      BY LimitAssumption
    <3>4. b \in Blocks /\ Replayable(b) /\ (Collects(b) <=> b.capturing)
      BY <3>2, <3>3, NewBlockFacts, NewReplayable
    <3>5. BeginLoop(b)
      BY <3>1, <3>2 DEF ForItems
    <3>. QED  BY <2>3, <3>4, <3>5
  <2>. QED  BY <1>6, <2>2, <2>4, <2>5 DEF DirectiveCond
<1>7. CASE ElifCond
  <2>1. line.dir = "elif"
    BY <1>7 DEF ElifCond, ValueOf
  <2>2. TopKind = "if"
    BY <1>1, <2>1 DEF IInv, PcShape
  <2>3. HasBlock
    BY <2>2 DEF TopKind
  <2>4. CASE blocks' = blocks
    BY <1>2, <2>1, <2>4 DEF CaptureMove
  <2>5. CASE blocks' # blocks
    <3>1. PICK b : b = [Top(blocks) EXCEPT !.taken = TRUE, !.hasScope = TRUE]
      OBVIOUS
    <3>2. blocks' = SetTop(b)
      BY <1>7, <2>5, <3>1 DEF ElifCond, EnterIfBranch
    <3>3. b \in Blocks /\ Replayable(b) /\ (Collects(b) <=> Collects(Top(blocks)))
      BY <2>3, <3>1, TopFields, TopReplaced DEF BodyInv
    <3>. QED  BY <1>2, <2>1, <2>3, <3>2, <3>3 DEF CaptureMove
  <2>. QED  BY <2>4, <2>5
<1>. QED  BY <1>3, <1>4, <1>5, <1>6, <1>7 DEF Evaluate

\* A token adds nothing to the blocks a capture has opened.
LEMMA YieldCaptures ==
    ASSUME IInv, NEW b, pc \in {"run", "line"}, YieldToken, skipCapture' = skipCapture,
           skipDepth' = skipDepth, frames' = frames, Collected(b)
    PROVE  Collected(b)'
<1>1. pc' = "cleanup" \/ pc' = "run"
  BY DEF YieldToken
<1>2. CASE pc' = "cleanup"
  BY <1>2 DEF Collected
<1>3. CASE b.capturing /\ pc = "run" /\ Replayed /\ pc' = "run"
  <2>1. Replayed'
    BY <1>3 DEF Replayed, Top
  <2>. QED  BY <1>3, <2>1 DEF Collected
<1>4. CASE /\ skipDepth > 0 /\ skipCapture /\ Safe(captureBuf, 0)
           /\ Net(captureBuf) = skipDepth - 1 /\ pc' = "run"
  <2>1. captureBuf' = Append(captureBuf, NoLine)
    BY <1>4 DEF YieldToken
  <2>2. captureBuf \in Seq(Line) /\ NoLine \in Line /\ skipDepth \in Nat
    BY DEF IInv, TypeOK, NoLine, Line, Dirs, Exprs
  <2>3. Delta(NoLine) = 0 /\ NoLine.dir # "end"
    BY DEF Delta, NoLine, BlockKinds
  <2>4. /\ Safe(captureBuf', 0)
        /\ Net(captureBuf) \in Int /\ Net(captureBuf') = Net(captureBuf) + Delta(NoLine)
    <3>1. 0 \in Int
      OBVIOUS
    <3>. QED  BY <1>4, <2>1, <2>2, <2>3, <3>1, AppendBody
  <2>5. Net(captureBuf') = skipDepth' - 1
    BY <1>4, <2>2, <2>3, <2>4
  <2>. QED  BY <1>4, <2>4, <2>5 DEF Collected
<1>. QED  BY <1>1, <1>2, <1>3, <1>4 DEF Collected, Evaluating

LEMMA FetchCaptures ==
    ASSUME IInv, BodyInv, Fetch
    PROVE  CaptureMove
<1>1. pc \in {"run", "line"} /\ pc \notin Final
  BY DEF Fetch, FetchPending, FetchLine, FrameExhausted, EndOfInput, UnterminatedBlock,
     PlainToken, Final
<1>2. HasBlock /\ Collects(Top(blocks)) => Collected(Top(blocks))
  BY <1>1, TopCaptured DEF BodyInv
<1>3. blocks' = blocks => Top(blocks)' = Top(blocks)
  BY DEF Top
<1>4. CASE FetchPending \/ PlainToken
  <2>1. /\ YieldToken /\ blocks' = blocks /\ skipCapture' = skipCapture
        /\ skipDepth' = skipDepth /\ frames' = frames
    BY <1>4 DEF FetchPending, PlainToken
  <2>2. PICK b : b = Top(blocks)
    OBVIOUS
  <2>3. Collected(b) => Collected(b)'
    BY <1>1, <2>1, YieldCaptures
  <2>4. Collected(Top(blocks)) => Collected(Top(blocks))'
    <3>1. Top(blocks)' = b
      BY <1>3, <2>1, <2>2
    <3>. QED  BY <2>2, <2>3, <3>1 DEF Collected
  <2>. QED  BY <1>2, <2>1, <2>4 DEF CaptureMove
<1>5. CASE FetchLine
  <2>1. /\ blocks' = blocks /\ pc = "run" /\ pc' = "line" /\ skipDepth' = skipDepth
        /\ skipCapture' = skipCapture /\ captureBuf' = captureBuf /\ ~Replayed
    BY <1>5 DEF FetchLine, Replayed
  <2>2. Collected(Top(blocks)) => Collected(Top(blocks))'
    BY <2>1 DEF Collected, Evaluating
  <2>. QED  BY <1>2, <2>1, <2>2 DEF CaptureMove
<1>6. CASE FrameExhausted
  <2>1. /\ blocks' = blocks /\ pc = "run" /\ skipDepth' = skipDepth
        /\ skipCapture' = skipCapture /\ captureBuf' = captureBuf
        /\ pc' = IF Top(frames).type = "FRAME_LOOP_BODY" THEN "exhausted" ELSE "run"
    BY <1>6 DEF FrameExhausted
  <2>2. Collected(Top(blocks)) => Collected(Top(blocks))'
    BY <2>1 DEF Collected, Evaluating, Replayed
  <2>. QED  BY <1>2, <2>1, <2>2 DEF CaptureMove
<1>7. CASE EndOfInput
  BY <1>7 DEF EndOfInput, CaptureMove
<1>8. CASE UnterminatedBlock
  BY <1>8 DEF UnterminatedBlock, CaptureMove
<1>. QED  BY <1>4, <1>5, <1>6, <1>7, <1>8 DEF Fetch

LEMMA CallsCaptures ==
    ASSUME IInv, BodyInv, Calls, ~FinishCall
    PROVE  CaptureMove
<1>1. CASE CleanupBlock
  BY <1>1 DEF CleanupBlock, PopIfBlock, PopBlock, CaptureMove
<1>2. CASE CleanupFrame
  BY <1>2 DEF CleanupFrame, CaptureMove
<1>3. CASE HandlerFailed
  BY <1>3 DEF HandlerFailed, CaptureMove, Collected, Final
<1>. QED  BY <1>1, <1>2, <1>3 DEF Calls

LEMMA LoopsCaptures ==
    ASSUME IInv, BodyInv, Loops
    PROVE  CaptureMove
<1>1. TypeOK /\ PcShape /\ BlocksReplayable
  BY DEF IInv, BodyInv
<1>2. CASE EnterLoopBody
  <2>1. pc = "enter" /\ pc \notin Final /\ pc \notin Evaluating
    BY <1>2 DEF EnterLoopBody, Final, Evaluating
  <2>2. TopKind \in LoopKinds
    BY <1>1, <2>1 DEF PcShape
  <2>3. HasBlock
    BY <2>2 DEF TopKind, LoopKinds
  <2>4. Collects(Top(blocks)) => Top(blocks).capturing
    BY <2>1, <2>3, TopCaptured DEF Collected, BodyInv
  <2>5. CASE ReportAndFail
    BY <2>5 DEF ReportAndFail, Fail, CaptureMove, Collected
  <2>6. CASE ~ReportAndFail
    <3>1. /\ pc' = "run"
          /\ frames' = Append(frames, NewFrame("FRAME_LOOP_BODY", FALSE, Top(blocks).body))
          /\ \/ blocks' = blocks
             \/ blocks' = SetTop([Top(blocks) EXCEPT !.left = @ - 1]) /\ TopKind = "for"
      BY <1>2, <2>6 DEF EnterLoopBody
    <3>2. Collects(Top(blocks)) => Replayed'
      <4>1. Collects(Top(blocks)) => Top(blocks).body = <<>>
        BY <1>1, <2>3, <2>4, TopReplaced DEF Replayable
      <4>2. PICK f : f = NewFrame("FRAME_LOOP_BODY", FALSE, Top(blocks).body)
        OBVIOUS
      <4>3. f.type = "FRAME_LOOP_BODY" /\ f.file = FALSE /\ f.rest = Top(blocks).body
        BY <4>2 DEF NewFrame
      <4>4. frames \in Seq(Frames) /\ Len(frames) \in Nat
        BY <1>1, LenProperties DEF TypeOK
      <4>5. Len(frames') = Len(frames) + 1 /\ frames'[Len(frames) + 1] = f /\ frames' # <<>>
        <5>1. frames' = Append(frames, f)
          BY <3>1, <4>2
        <5>2. f \in {f}
          OBVIOUS
        <5>3. frames \in Seq(Frames \cup {f})
          BY <4>4, SeqDef
        <5>4. Append(frames, f) \in Seq(Frames \cup {f}) /\ Append(frames, f) # <<>>
          BY <5>3, AppendProperties
        <5>5. /\ Len(Append(frames, f)) = Len(frames) + 1
              /\ Append(frames, f)[Len(frames) + 1] = f
          BY <5>3, AppendProperties
        <5>. QED  BY <5>1, <5>4, <5>5
      <4>. QED  BY <4>1, <4>3, <4>5 DEF Replayed, Top
    <3>3. CASE blocks' = blocks
      BY <2>4, <3>1, <3>2, <3>3 DEF CaptureMove, Collected, Top
    <3>4. CASE blocks' = SetTop([Top(blocks) EXCEPT !.left = @ - 1]) /\ TopKind = "for"
      <4>1. PICK b : b = [Top(blocks) EXCEPT !.left = @ - 1]
        OBVIOUS
      <4>2. Replayable(b) /\ (Collects(b) <=> Collects(Top(blocks)))
            /\ b.capturing = Top(blocks).capturing
        BY <1>1, <2>3, <4>1, TopReplaced
      <4>3. b \in Blocks
        <5>1. Top(blocks) \in Blocks /\ Top(blocks).left > 0
          BY <1>1, <2>1, <2>3, <3>4, TopFields DEF PcShape
        <5>2. Top(blocks).left - 1 \in Nat
          BY <5>1 DEF Blocks
        <5>. QED  BY <4>1, <5>1, <5>2 DEF Blocks
      <4>4. Collects(b) => Collected(b)'
        BY <2>4, <3>1, <3>2, <4>2 DEF Collected
      <4>5. blocks' = SetTop(b)
        BY <3>4, <4>1
      <4>. QED  BY <2>3, <4>2, <4>3, <4>4, <4>5 DEF CaptureMove
    <3>. QED  BY <3>1, <3>3, <3>4
  <2>. QED  BY <2>5, <2>6
<1>3. CASE LoopBodyExhausted
  <2>1. TopKind \notin LoopKinds \/ TopKind = "for" \/ TopKind = "while"
    BY DEF LoopKinds
  <2>2. CASE TopKind \notin LoopKinds
    BY <1>3, <2>2 DEF LoopBodyExhausted, AssertFails, CaptureMove, LoopKinds, Final
  <2>3. TopKind \in {"for", "while"} => HasBlock /\ Top(blocks).kind # "func"
    BY DEF TopKind
  <2>4. CASE TopKind = "for"
    <3>1. (blocks' = Under(blocks)) \/ (blocks' = blocks /\ pc' = "enter")
      BY <1>3, <2>4 DEF LoopBodyExhausted, PopBlock, LoopKinds
    <3>. QED  BY <2>3, <2>4, <3>1 DEF CaptureMove, Collected, Collects, Top
  <2>5. CASE TopKind = "while"
    <3>1. blocks' = blocks /\ pc' = "eval"
      BY <1>3, <2>5 DEF LoopBodyExhausted, LoopKinds
    <3>2. line' = [dir |-> "again", expr |-> Top(blocks).cond, public |-> TRUE]
      BY <1>3, <2>5 DEF LoopBodyExhausted, LoopKinds
    <3>3. line'.dir = "again"
      BY <3>2
    <3>. QED  BY <2>3, <2>5, <3>1, <3>3 DEF CaptureMove, Collected, Collects, Evaluating, Top
  <2>. QED  BY <2>1, <2>2, <2>4, <2>5
<1>4. CASE WhileAgain
  <2>1. TopKind = "while"
    BY <1>1, <1>4 DEF WhileAgain, ValueOf, PcShape, Evaluating
  <2>2. HasBlock /\ Top(blocks).kind # "func"
    BY <2>1 DEF TopKind
  <2>3. (blocks' = blocks /\ pc' = "enter") \/ blocks' = Under(blocks)
    BY <1>4 DEF WhileAgain, PopBlock
  <2>. QED  BY <2>2, <2>3 DEF CaptureMove, Collected, Collects, Top
<1>5. CASE LeaveIfBlock \/ LeaveFrame
  <2>1. pc = "leave" /\ pc \notin Final /\ pc \notin Evaluating
    BY <1>5 DEF LeaveIfBlock, LeaveFrame, Final, Evaluating
  <2>2. ~(HasBlock /\ Collects(Top(blocks)))
    BY <2>1, TopCaptured DEF Collected, BodyInv
  <2>3. blocks' = blocks \/ (HasBlock /\ blocks' = Under(blocks))
    BY <1>5 DEF LeaveIfBlock, LeaveFrame, AssertFails, PopIfBlock, PopBlock, TopKind, LoopKinds
  <2>. QED  BY <2>2, <2>3 DEF CaptureMove
<1>. QED  BY <1>2, <1>3, <1>4, <1>5 DEF Loops

\* A line read while skipping changes the blocks of the capture and the number
\* of blocks skipped alike.
LEMMA SkipCaptured ==
    ASSUME IInv, NEW b, pc = "line", Collected(b), Capture, skipCapture' = skipCapture,
           pc' = "run", skipDepth' > 0, skipDepth' = skipDepth + Delta(line),
           line.dir = "end" => skipDepth > 1
    PROVE  Collected(b)'
<1>1. /\ skipDepth > 0 /\ skipCapture /\ Safe(captureBuf, 0)
      /\ Net(captureBuf) = skipDepth - 1
  BY DEF Collected, Evaluating
<1>2. captureBuf' = Append(captureBuf, line) /\ skipDepth \in Nat
      /\ captureBuf \in Seq(Line) /\ line \in Line
  BY <1>1 DEF Capture, IInv, TypeOK
<1>3. line.dir = "end" => 0 + Net(captureBuf) > 0
  BY <1>1, <1>2
<1>4. /\ Safe(captureBuf', 0)
      /\ Net(captureBuf) \in Int /\ Net(captureBuf') = Net(captureBuf) + Delta(line)
  <2>1. 0 \in Int
    OBVIOUS
  <2>. QED  BY <1>1, <1>2, <1>3, <2>1, AppendBody
<1>5. Net(captureBuf') = skipDepth' - 1
  BY <1>1, <1>2, <1>4, DeltaType
<1>. QED  BY <1>1, <1>4, <1>5 DEF Collected

LEMMA SkipCaptures ==
    ASSUME IInv, BodyInv, Skip
    PROVE  CaptureMove
<1>1. /\ pc = "line" /\ skipDepth > 0 /\ skipDepth \in Nat
      /\ pc \notin Final /\ pc \notin Evaluating
  BY DEF IInv, TypeOK, Skip, SkipFails, SkipLine, SkipOpen, SkipUnknown, SkipInner, SkipElse,
     SkipElif, SkipInnerEnd, SkipEnd, Skipping, Final, Evaluating
<1>2. HasBlock /\ Collects(Top(blocks)) => Collected(Top(blocks))
  BY <1>1, TopCaptured DEF BodyInv
<1>3. pc' = "fail" /\ blocks' = blocks => CaptureMove
  BY DEF CaptureMove, Collected
<1>4. ASSUME blocks' = blocks, Capture, skipCapture' = skipCapture, pc' = "run",
             skipDepth' > 0, skipDepth' = skipDepth + Delta(line),
             line.dir = "end" => skipDepth > 1
      PROVE  CaptureMove
  <2>1. PICK b : b = Top(blocks)
    OBVIOUS
  <2>2. Collected(b) => Collected(b)'
    BY <1>1, <1>4, SkipCaptured
  <2>3. Collected(Top(blocks)) => Collected(Top(blocks))'
    <3>1. Top(blocks)' = b
      BY <1>4, <2>1 DEF Top
    <3>. QED  BY <2>1, <2>2, <3>1 DEF Collected
  <2>. QED  BY <1>2, <1>4, <2>3 DEF CaptureMove
<1>5. CASE SkipFails \/ SkipUnknown
  <2>1. pc' = "fail" /\ blocks' = blocks
    BY <1>5 DEF SkipFails, SkipUnknown, Fail
  <2>. QED  BY <1>3, <2>1
<1>6. CASE SkipLine
  <2>1. /\ blocks' = blocks /\ Capture /\ skipCapture' = skipCapture /\ pc' = "run"
        /\ skipDepth' = skipDepth
    BY <1>6 DEF SkipLine
  <2>2. Delta(line) = 0 /\ line.dir # "end"
    BY <1>6 DEF SkipLine, Skipping, Delta, BlockKinds
  <2>. QED  BY <1>1, <1>4, <2>1, <2>2
<1>7. CASE SkipOpen
  <2>1. /\ blocks' = blocks /\ Capture /\ skipCapture' = skipCapture /\ pc' = "run"
        /\ skipDepth' = skipDepth + 1
    BY <1>7 DEF SkipOpen
  <2>2. Delta(line) = 1 /\ line.dir # "end"
    BY <1>7 DEF SkipOpen, Skipping, Delta, BlockKinds
  <2>. QED  BY <1>1, <1>4, <2>1, <2>2
<1>8. CASE SkipInner
  <2>1. /\ blocks' = blocks /\ Capture /\ skipCapture' = skipCapture
        /\ pc' = "run" \/ pc' = "fail"
        /\ skipDepth' = skipDepth
    BY <1>8 DEF SkipInner
  <2>2. Delta(line) = 0 /\ line.dir # "end"
    BY <1>8 DEF SkipInner, Skipping, Delta, BlockKinds
  <2>. QED  BY <1>1, <1>3, <1>4, <2>1, <2>2
<1>9. CASE SkipInnerEnd
  <2>1. /\ blocks' = blocks /\ Capture /\ skipCapture' = skipCapture /\ pc' = "run"
        /\ skipDepth' = skipDepth - 1 /\ skipDepth > 1
    BY <1>9 DEF SkipInnerEnd
  <2>2. Delta(line) = -1
    BY <1>9 DEF SkipInnerEnd, Skipping, Delta, BlockKinds
  <2>. QED  BY <1>1, <1>4, <2>1, <2>2
<1>10. ~ElseRefused => HasBlock /\ ~Collects(Top(blocks))
  <2>1. SUFFICES ASSUME ~ElseRefused
                 PROVE  HasBlock /\ ~Collects(Top(blocks))
    OBVIOUS
  <2>2. TopKind = "if"
    BY <2>1 DEF ElseRefused
  <2>3. HasBlock
    BY <2>2 DEF TopKind
  <2>4. Replayable(Top(blocks)) /\ Top(blocks).kind = "if"
    BY <2>2, <2>3, TopReplaced DEF BodyInv, TopKind
  <2>. QED  BY <2>3, <2>4 DEF Replayable, Collects, LoopKinds
<1>11. CASE SkipElse
  <2>1. CASE ElseRefused
    BY <1>3, <1>11, <2>1 DEF SkipElse, Fail
  <2>2. CASE ~ElseRefused
    <3>1. CASE blocks' = blocks
      BY <1>10, <2>2, <3>1 DEF CaptureMove
    <3>2. CASE blocks' # blocks
      <4>1. PICK b, c : /\ b = [Top(blocks) EXCEPT !.hadElse = TRUE]
                        /\ c = [[Top(blocks) EXCEPT !.hadElse = TRUE] EXCEPT
                                  !.taken = TRUE, !.hasScope = TRUE]
        OBVIOUS
      <4>2. blocks' = SetTop(b) \/ blocks' = SetTop(c)
        BY <1>11, <2>2, <3>2, <4>1 DEF SkipElse, EnterIfBranch
      <4>3. /\ b \in Blocks /\ Replayable(b) /\ ~Collects(b)
            /\ c \in Blocks /\ Replayable(c) /\ ~Collects(c)
        BY <1>10, <2>2, <4>1, TopFields, TopReplaced DEF BodyInv
      <4>. QED  BY <1>10, <2>2, <4>2, <4>3 DEF CaptureMove
    <3>. QED  BY <3>1, <3>2
  <2>. QED  BY <2>1, <2>2
<1>12. CASE SkipElif
  <2>1. blocks' = blocks /\ (ElseRefused => pc' = "fail")
    BY <1>12 DEF SkipElif, Fail
  <2>. QED  BY <1>3, <1>10, <2>1 DEF CaptureMove
<1>13. CASE SkipEnd
  <2>0. skipDepth = 1
    BY <1>13 DEF SkipEnd
  <2>1. CASE TopKind = "if"
    <3>1. HasBlock
      BY <2>1 DEF TopKind
    <3>2. blocks' = Under(blocks)
      BY <1>13, <2>1 DEF SkipEnd, PopIfBlock, LoopKinds
    <3>. QED  BY <3>1, <3>2 DEF CaptureMove
  <2>2. CASE TopKind = "func"
    <3>1. HasBlock
      BY <2>2 DEF TopKind
    <3>2. blocks' = Under(blocks)
      BY <1>13, <2>2 DEF SkipEnd, FinishPendingFunc, PopBlock, LoopKinds
    <3>. QED  BY <3>1, <3>2 DEF CaptureMove
  <2>3. CASE TopKind \in LoopKinds
    <3>1. FinishLoop
      BY <1>13, <2>3 DEF SkipEnd, LoopKinds
    <3>2. HasBlock /\ Top(blocks).kind \in LoopKinds
      BY <2>3 DEF TopKind, LoopKinds
    <3>3. CASE ~Top(blocks).capturing
      BY <3>1, <3>2, <3>3 DEF FinishLoop, PopBlock, CaptureMove
    <3>4. CASE Top(blocks).capturing
      <4>1. PICK b : b = [Top(blocks) EXCEPT !.body = captureBuf, !.capturing = FALSE]
        OBVIOUS
      <4>2. b \in Blocks /\ Top(blocks) \in Blocks
        BY <3>2, <4>1, TopFields
      <4>3. b.body = captureBuf /\ b.capturing = FALSE /\ b.kind = Top(blocks).kind
        BY <4>1, <4>2 DEF Blocks
      <4>4. Safe(captureBuf, 0) /\ Net(captureBuf) = 0
        BY <1>1, <1>2, <2>0, <3>2, <3>4 DEF Collected, Collects
      <4>5. Balanced(captureBuf)
        BY <4>4, BalancedNet DEF IInv, TypeOK
      <4>6. Replayable(b) /\ ~Collects(b)
        BY <3>2, <4>3, <4>5 DEF Replayable, Collects, LoopKinds
      <4>7. blocks' = SetTop(b)
        BY <3>1, <3>4, <4>1 DEF FinishLoop
      <4>. QED  BY <3>2, <4>2, <4>6, <4>7 DEF CaptureMove
    <3>. QED  BY <3>3, <3>4
  <2>4. CASE TopKind \notin {"if", "func"} /\ TopKind \notin LoopKinds
    <3>1. blocks' = blocks /\ pc' = "assert"
      BY <1>13, <2>4 DEF SkipEnd
    <3>. QED  BY <3>1 DEF CaptureMove, Final
  <2>. QED  BY <2>1, <2>2, <2>3, <2>4
<1>. QED  BY <1>5, <1>6, <1>7, <1>8, <1>9, <1>11, <1>12, <1>13 DEF Skip

LEMMA CaptureCall ==
    ASSUME IInv, BodyInv, EvalCall
    PROVE  Captures' /\ BlocksReplayable'
<1>. DEFINE call == [line |-> line, base |-> Len(blocks), skip |-> skipDepth,
                     caller |-> Len(frames), gone |-> FALSE, returned |-> FALSE,
                     clean |-> TRUE]
<1>1. /\ calls' = Append(calls, call) /\ blocks' = blocks /\ call.base = Len(blocks)
      /\ call.line = line
  BY DEF EvalCall
<1>. HIDE DEF call
<1>2. /\ DOMAIN calls = 1 .. Len(calls) /\ Len(calls) \in Nat
      /\ calls # <<>> => Len(calls) > 0 /\ BlockBase = calls[Len(calls)].base
      /\ calls \in Seq(CallFrames)
  BY BaseFacts DEF IInv, TypeOK
<1>3. /\ DOMAIN calls' = 1 .. Len(calls) + 1 /\ calls'[Len(calls) + 1] = call
      /\ \A c \in 1 .. Len(calls) : calls'[c] = calls[c]
  BY <1>1, <1>2
<1>4. pc = "eval" /\ pc \notin Final
  BY DEF EvalCall, Final
<1>5. ASSUME NEW k \in DOMAIN blocks, Collects(blocks[k])
      PROVE  blocks[k].capturing /\ Saved(k)'
  <2>1. CASE k = Len(blocks) /\ k > BlockBase /\ Collected(blocks[k])
    <3>1. blocks[k].capturing /\ line.dir = "again"
      BY <1>4, <2>1 DEF Collected
    <3>. DEFINE c == Len(calls) + 1
    <3>2. c \in DOMAIN calls' /\ calls'[c].base = k /\ calls'[c].line.dir = "again"
      BY <1>1, <1>2, <1>3, <2>1, <3>1
    <3>3. ASSUME c > 1
          PROVE  calls'[c - 1].base < k
      <4>1. Len(calls) > 0 /\ Len(calls) \in 1 .. Len(calls) /\ calls # <<>>
        BY <1>2, <3>3, EmptySeq
      <4>2. BlockBase < k
        BY <1>5, <2>1, BaseFacts DEF IInv
      <4>. QED  BY <1>2, <1>3, <4>1, <4>2
    <3>4. Saved(k)'
      BY <3>2, <3>3 DEF Saved
    <3>. QED  BY <3>1, <3>4
  <2>2. CASE blocks[k].capturing /\ Saved(k)
    <3>1. PICK c \in 1 .. Len(calls) : /\ calls[c].base = k /\ calls[c].line.dir = "again"
                                       /\ c > 1 => calls[c - 1].base < k
      BY <1>2, <2>2 DEF Saved
    <3>2. c \in 1 .. Len(calls) + 1 /\ (c > 1 => c - 1 \in 1 .. Len(calls))
      BY <1>2
    <3>. QED  BY <1>3, <2>2, <3>1, <3>2 DEF Saved
  <2>. QED  BY <1>4, <1>5, <2>1, <2>2 DEF BodyInv, Captures
<1>. QED  BY <1>1, <1>5 DEF Captures, BlocksReplayable, BodyInv

LEMMA CaptureReturn ==
    ASSUME IInv, BodyInv, ReturnValue
    PROVE  Captures' /\ BlocksReplayable'
<1>1. /\ calls # <<>> /\ blocks' = blocks /\ pc' = "cleanup"
      /\ calls' = [calls EXCEPT ![Len(calls)].returned = TRUE]
      /\ DOMAIN calls = 1 .. Len(calls) /\ Len(calls) \in Nat
      /\ \A c \in DOMAIN calls : calls[c] \in CallFrames
  BY LenProperties, ElementOfSeq DEF IInv, TypeOK, PcShape, ReturnValue, ValueOf, Evaluating
<1>2. /\ DOMAIN calls' = 1 .. Len(calls)
      /\ \A c \in 1 .. Len(calls) : calls'[c].base = calls[c].base /\ calls'[c].line = calls[c].line
  BY <1>1 DEF CallFrames
<1>3. calls' # <<>> /\ Len(calls') = Len(calls) /\ Len(calls) \in 1 .. Len(calls)
  BY <1>1, <1>2, EmptySeq, LenProperties DEF IInv, TypeOK
<1>4. BlockBase' = BlockBase
  BY <1>1, <1>2, <1>3 DEF BlockBase, Top
<1>5. pc \notin Final
  BY DEF ReturnValue, ValueOf, Final
<1>6. ASSUME NEW k, Saved(k)
      PROVE  Saved(k)'
  <2>1. PICK c \in 1 .. Len(calls) : /\ calls[c].base = k /\ calls[c].line.dir = "again"
                                     /\ c > 1 => calls[c - 1].base < k
    BY <1>1, <1>6 DEF Saved
  <2>2. c > 1 => c - 1 \in 1 .. Len(calls)
    BY <1>1
  <2>. QED  BY <1>2, <2>1, <2>2 DEF Saved
<1>7. \A k \in DOMAIN blocks : Collects(blocks[k]) =>
          (k = Len(blocks) /\ k > BlockBase) \/ (blocks[k].capturing /\ Saved(k))
  BY <1>5 DEF BodyInv, Captures
<1>8. Captures'
  <2>1. ASSUME NEW k \in DOMAIN blocks, Collects(blocks[k])
        PROVE  \/ k = Len(blocks) /\ k > BlockBase /\ Collected(blocks[k])'
               \/ blocks[k].capturing /\ Saved(k)'
    <3>1. CASE k = Len(blocks) /\ k > BlockBase
      BY <1>1, <3>1 DEF Collected
    <3>2. CASE blocks[k].capturing /\ Saved(k)
      BY <1>6, <3>2
    <3>. QED  BY <1>7, <2>1, <3>1, <3>2
  <2>. QED  BY <1>1, <1>4, <2>1 DEF Captures, Collected
<1>. QED  BY <1>1, <1>8 DEF BlocksReplayable, BodyInv

LEMMA CaptureFinish ==
    ASSUME IInv, BodyInv, FinishCall
    PROVE  Captures' /\ BlocksReplayable'
<1>1. /\ Len(calls) \in Nat /\ Len(calls) > 0 /\ DOMAIN calls = 1 .. Len(calls)
      /\ DOMAIN calls' = 1 .. Len(calls) - 1
      /\ \A c \in 1 .. Len(calls) - 1 : calls'[c].base = calls[c].base /\ calls'[c].line = calls[c].line
      /\ Len(calls) = 1 => BlockBase' = 0
      /\ Len(calls) > 1 => BlockBase' = calls[Len(calls) - 1].base
      /\ Len(blocks) = BlockBase /\ BlockBase = calls[Len(calls)].base
      /\ blocks' = blocks /\ line' = calls[Len(calls)].line
  BY FinishFacts
<1>2. DOMAIN blocks = 1 .. Len(blocks)
  BY BaseFacts DEF IInv
<1>3. pc \notin Final /\ pc' \in {"value", "evalfail"}
  BY FinishDirty DEF FinishCall, Final
<1>4. ASSUME NEW k \in DOMAIN blocks, Collects(blocks[k])
      PROVE  \/ k = Len(blocks) /\ k > BlockBase' /\ Collected(blocks[k])'
             \/ blocks[k].capturing /\ Saved(k)'
  <2>1. k \in 1 .. Len(blocks) /\ ~(k > BlockBase)
    BY <1>1, <1>2
  <2>2. blocks[k].capturing /\ Saved(k)
    BY <1>3, <1>4, <2>1 DEF BodyInv, Captures
  <2>3. PICK c \in 1 .. Len(calls) : /\ calls[c].base = k /\ calls[c].line.dir = "again"
                                     /\ c > 1 => calls[c - 1].base < k
    BY <1>1, <2>2 DEF Saved
  <2>4. CASE c = Len(calls)
    <3>1. k = Len(blocks) /\ k > BlockBase' /\ line'.dir = "again"
      BY <1>1, <2>1, <2>3, <2>4
    <3>2. Collected(blocks[k])'
      BY <1>1, <1>3, <2>2, <3>1 DEF Collected, Evaluating
    <3>. QED  BY <3>1, <3>2
  <2>5. CASE c # Len(calls)
    <3>0. Len(calls) \in Nat /\ Len(calls) > 0 /\ c \in 1 .. Len(calls)
      BY <1>1, <2>3
    <3>1. c \in 1 .. Len(calls) - 1 /\ (c > 1 => c - 1 \in 1 .. Len(calls) - 1)
      BY ONLY <2>5, <3>0
    <3>2. Saved(k)'
      BY <1>1, <2>3, <3>1 DEF Saved
    <3>. QED  BY <2>2, <3>2
  <2>. QED  BY <2>4, <2>5
<1>5. Captures'
  BY <1>1, <1>4 DEF Captures, Collected
<1>. QED  BY <1>1, <1>5 DEF BlocksReplayable, BodyInv

LEMMA CaptureStep ==
    ASSUME IInv, SkipInv, BodyInv, Next
    PROVE  Captures' /\ BlocksReplayable'
<1>1. CASE EvalCall
  BY <1>1, CaptureCall
<1>2. CASE ReturnValue
  BY <1>2, CaptureReturn
<1>3. CASE FinishCall
  BY <1>3, CaptureFinish
<1>4. CASE Ended
  BY <1>4 DEF Ended, vars, BodyInv, Captures, BlocksReplayable
<1>5. CASE ~EvalCall /\ ~ReturnValue /\ ~FinishCall /\ ~Ended
  <2>1. CaptureMove
    BY <1>5, FetchCaptures, HandleCaptures, EvaluateCaptures, CallsCaptures, LoopsCaptures,
       SkipCaptures DEF Next
  <2>2. Steady
    BY <1>5, CallMove
  <2>3. pc \notin Final
    <3>1. Fetch \/ Handle \/ Evaluate \/ Calls \/ Loops \/ Skip
      BY <1>5 DEF Next
    <3>2. Fetch => pc \in {"run", "line"}
      BY DEF Fetch, FetchPending, FetchLine, FrameExhausted, EndOfInput, UnterminatedBlock,
         PlainToken
    <3>3. Handle => pc = "line"
      BY DEF Handle, OpLimitExceeded, HandleOperand, HandleStrayReturn, HandleUnknown, HandleElse,
         HandleElif, HandleEnd, HandleFunc, HandleWhile, HandleLeave, HandleInclude, HandleEmit,
         HandleVar, HandleSet, Active
    <3>4. Evaluate => pc \in Evaluating
      BY DEF Evaluate, EvalRejected, EvalFailed, CondFrameGone, EvalCall, ReturnValue,
         DirectiveCond, DirectiveValue, ErrorDirective, ElifCond, ValueOf, Evaluating
    <3>5. Calls => pc \in {"cleanup", "fail"}
      BY DEF Calls, CleanupBlock, CleanupFrame, FinishCall, HandlerFailed
    <3>6. Loops => pc \in Evaluating \cup {"enter", "exhausted", "leave"}
      BY DEF Loops, EnterLoopBody, LoopBodyExhausted, WhileAgain, LeaveIfBlock, LeaveFrame,
         ValueOf, Evaluating
    <3>7. Skip => pc = "line"
      BY DEF Skip, SkipFails, SkipLine, SkipOpen, SkipUnknown, SkipInner, SkipElse,
         SkipElif, SkipInnerEnd, SkipEnd, Skipping
    <3>. QED  BY <3>1, <3>2, <3>3, <3>4, <3>5, <3>6, <3>7 DEF Evaluating, Final
  <2>. QED  BY <2>1, <2>2, <2>3, CaptureMoved DEF BodyInv
<1>. QED  BY <1>1, <1>2, <1>3, <1>4, <1>5

-----------------------------------------------------------------------------
(* Definitions *)

LEMMA PushSyms ==
    ASSUME TypeOK, NEW promote \in BOOLEAN, NEW syms \in [Names -> Symbols]
    PROVE  /\ DOMAIN PushScope(promote, syms) = 1 .. Len(scopes) + 1 /\ Len(scopes) \in Nat
           /\ \A k \in 1 .. Len(scopes) : PushScope(promote, syms)[k] = scopes[k]
           /\ PushScope(promote, syms)[Len(scopes) + 1].syms = syms
           /\ PushScope(promote, syms)[Len(scopes) + 1].promote = promote
<1>. DEFINE top == [promote |-> promote, syms |-> syms]
<1>1. top \in Scopes /\ top.syms = syms /\ top.promote = promote
  BY DEF Scopes
<1>2. PushScope(promote, syms) = Append(scopes, top)
  BY DEF PushScope
<1>. HIDE DEF top
<1>. QED  BY <1>1, <1>2, AppendProperties, LenProperties DEF TypeOK

\* A definition changes one symbol of the innermost scope.
LEMMA AssignSyms ==
    ASSUME TypeOK, Balance, NEW name \in Names, NEW public \in BOOLEAN, NEW body \in Seq(Line)
    PROVE  /\ DOMAIN Assign(name, public, body) = 1 .. Len(scopes)
           /\ Len(scopes) \in Nat /\ Len(scopes) > 1
           /\ \A k \in 1 .. Len(scopes) : \A n \in Names :
                 k # Len(scopes) \/ n # name =>
                    Assign(name, public, body)[k].syms[n] = scopes[k].syms[n]
           /\ \A k \in 1 .. Len(scopes) :
                 Assign(name, public, body)[k].promote = scopes[k].promote
           /\ Assign(name, public, body)[Len(scopes)].syms[name]
                 = [public |-> public, body |-> body, floor |-> Floor]
<1>. DEFINE symbol == [public |-> public, body |-> body, floor |-> Floor]
            top == [Top(scopes) EXCEPT !.syms[name] = symbol]
<1>1. Len(scopes) \in Nat /\ Len(scopes) > 1 /\ scopes \in Seq(Scopes)
  BY ScopesFact DEF TypeOK
<1>2. /\ Len(scopes) \in 1 .. Len(scopes) /\ Top(scopes) = scopes[Len(scopes)]
      /\ Top(scopes) \in Scopes
  BY <1>1, TopType
<1>3. symbol \in Symbols
  BY <1>1, FloorFacts DEF Symbols
<1>4. /\ top \in Scopes /\ top.promote = scopes[Len(scopes)].promote
      /\ top.syms[name] = symbol
      /\ \A n \in Names \ {name} : top.syms[n] = scopes[Len(scopes)].syms[n]
  BY <1>2, <1>3 DEF Scopes
<1>5. Assign(name, public, body) = [scopes EXCEPT ![Len(scopes)] = top]
  BY <1>2 DEF Assign
<1>6. PICK new : new = Assign(name, public, body)
  OBVIOUS
<1>. HIDE DEF top, symbol
<1>7. /\ new[Len(scopes)] = top
      /\ \A k \in 1 .. Len(scopes) - 1 : new[k] = scopes[k]
      /\ DOMAIN new = 1 .. Len(scopes)
  BY <1>1, <1>2, <1>4, <1>5, <1>6, ExceptSeq, LenProperties
<1>8. \A k \in 1 .. Len(scopes) : k = Len(scopes) \/ k \in 1 .. Len(scopes) - 1
  BY <1>1
<1>9. new[Len(scopes)].syms[name] = [public |-> public, body |-> body, floor |-> Floor]
  BY <1>4, <1>7 DEF symbol
<1>10. \A k \in 1 .. Len(scopes) : new[k].promote = scopes[k].promote
  BY <1>4, <1>7, <1>8
<1>11. \A k \in 1 .. Len(scopes) : \A n \in Names :
          k # Len(scopes) \/ n # name => new[k].syms[n] = scopes[k].syms[n]
  BY <1>4, <1>7, <1>8
<1>. QED  BY <1>1, <1>6, <1>7, <1>9, <1>10, <1>11

\* A popped scope gives its parent what the parent lacks, or nothing.
LEMMA PopSyms ==
    ASSUME TypeOK, Len(scopes) > 1
    PROVE  /\ DOMAIN PopScope = 1 .. Len(scopes) - 1 /\ Len(scopes) \in Nat
           /\ \A k \in 1 .. Len(scopes) - 1 : PopScope[k].promote = scopes[k].promote
           /\ \A k \in 1 .. Len(scopes) - 1 : \A n \in Names :
                 \/ PopScope[k].syms[n] = scopes[k].syms[n]
                 \/ /\ k = Len(scopes) - 1 /\ ~Defined(scopes[k], n)
                    /\ scopes[Len(scopes)].promote
                    /\ Defined(scopes[Len(scopes)], n)
                    /\ PopScope[k].syms[n] = scopes[Len(scopes)].syms[n]
<1>. DEFINE below == Under(scopes)
            top == Top(scopes)
            parent == Top(below)
            merged == [parent EXCEPT !.syms =
                        [n \in Names |-> IF n \in Promoted(top, parent)
                                         THEN top.syms[n] ELSE parent.syms[n]]]
            depth == Len(scopes) - 1
<1>0. scopes \in Seq(Scopes) /\ Len(scopes) \in Nat
  BY LenProperties DEF TypeOK
<1>1. /\ below \in Seq(Scopes) /\ Len(below) = depth
      /\ \A k \in 1 .. depth : below[k] = scopes[k]
  BY <1>0, UnderType
<1>2. depth \in 1 .. Len(scopes) /\ depth \in 1 .. depth /\ depth \in Nat
  BY <1>0
<1>3. parent = scopes[depth] /\ top = scopes[Len(scopes)] /\ parent \in Scopes /\ top \in Scopes
  <2>1. parent = scopes[depth] /\ top = scopes[Len(scopes)]
    BY <1>1, <1>2 DEF Top
  <2>2. \A k \in 1 .. Len(scopes) : scopes[k] \in Scopes
    BY <1>0, ElementOfSeq
  <2>3. Len(scopes) \in 1 .. Len(scopes)
    BY <1>0
  <2>. QED  BY <1>2, <2>1, <2>2, <2>3
<1>4. /\ merged \in Scopes /\ merged.promote = parent.promote
      /\ \A n \in Names : \/ merged.syms[n] = parent.syms[n]
                          \/ /\ merged.syms[n] = top.syms[n]
                             /\ Defined(top, n) /\ ~Defined(parent, n)
  BY <1>3 DEF Scopes, Promoted
<1>5. PICK new : new = PopScope
  OBVIOUS
<1>6. \/ new = below
      \/ top.promote /\ new = [below EXCEPT ![depth] = merged]
  <2>1. PromoteInto(below, top) = [below EXCEPT ![depth] = merged]
    BY <1>1, <1>2 DEF PromoteInto, Top
  <2>. QED  BY <1>5, <2>1 DEF PopScope
<1>. HIDE DEF merged
<1>7. /\ DOMAIN new = 1 .. depth
      /\ \A k \in 1 .. depth - 1 : new[k] = scopes[k]
      /\ new[depth] = parent \/ (top.promote /\ new[depth] = merged)
  <2>. HIDE DEF below, top, parent, depth
  <2>1. CASE new = below
    <3>1. below[depth] = parent
      BY <1>1, <1>2, <1>3
    <3>. QED  BY <1>1, <1>2, <2>1, <3>1, LenProperties
  <2>2. CASE top.promote /\ new = [below EXCEPT ![depth] = merged]
    BY <1>1, <1>2, <1>4, <2>2, ExceptSeq
  <2>. QED  BY <1>6, <2>1, <2>2
<1>8. \A k \in 1 .. depth : k = depth \/ k \in 1 .. depth - 1
  BY <1>2
<1>. HIDE DEF below, top, parent, depth
<1>9. \A k \in 1 .. depth : new[k].promote = scopes[k].promote
  BY <1>3, <1>4, <1>7, <1>8
<1>10. \A k \in 1 .. depth : \A n \in Names :
          \/ new[k].syms[n] = scopes[k].syms[n]
          \/ /\ k = depth /\ ~Defined(scopes[k], n)
             /\ scopes[Len(scopes)].promote
             /\ Defined(scopes[Len(scopes)], n)
             /\ new[k].syms[n] = scopes[Len(scopes)].syms[n]
  BY <1>3, <1>4, <1>7, <1>8
<1>. QED  BY <1>0, <1>5, <1>7, <1>9, <1>10 DEF depth

\* The body of a definition is empty, was that of another, or is the capture
\* that ends with this step.
LEMMA BodyOrigin ==
    ASSUME TypeOK, Balance, ScopeMove
    PROVE  \A k \in DOMAIN scopes' : \A n \in Names :
              \/ scopes'[k].syms[n].body = <<>>
              \/ \E j \in DOMAIN scopes : scopes'[k].syms[n].body = scopes[j].syms[n].body
              \/ SkipEnd /\ TopKind = "func" /\ scopes'[k].syms[n].body = captureBuf
<1>1. Len(scopes) \in Nat /\ Len(scopes) > 1 /\ DOMAIN scopes = 1 .. Len(scopes)
  BY ScopesFact, LenProperties DEF TypeOK
<1>2. CASE scopes' = scopes
  BY <1>2
<1>3. ASSUME NEW promote \in BOOLEAN, NEW syms \in [Names -> Symbols],
             \A n \in Names : syms[n].body = <<>>, scopes' = PushScope(promote, syms)
      PROVE  \A k \in DOMAIN scopes' : \A n \in Names :
                \/ scopes'[k].syms[n].body = <<>>
                \/ \E j \in DOMAIN scopes : scopes'[k].syms[n].body = scopes[j].syms[n].body
  <2>1. /\ DOMAIN scopes' = 1 .. Len(scopes) + 1
        /\ \A k \in 1 .. Len(scopes) : scopes'[k] = scopes[k]
        /\ scopes'[Len(scopes) + 1].syms = syms
    BY <1>3, PushSyms
  <2>2. \A k \in DOMAIN scopes' : k = Len(scopes) + 1 \/ k \in 1 .. Len(scopes)
    BY <1>1, <2>1
  <2>. QED  BY <1>1, <1>3, <2>1, <2>2
<1>4. CASE \E promote \in BOOLEAN : scopes' = PushScope(promote, NoSyms)
  <2>1. \A n \in Names : NoSyms[n].body = <<>>
    BY DEF NoSyms, Absent
  <2>. QED  BY <1>3, <1>4, <2>1, SymsType
<1>5. CASE \E name \in Names : scopes' = PushScope(FALSE, Binding(name))
  <2>1. PICK name \in Names : scopes' = PushScope(FALSE, Binding(name))
    BY <1>5
  <2>2. Len(scopes) + 1 \in Nat /\ FALSE \in BOOLEAN
    BY <1>1
  <2>3. PICK syms : syms = Binding(name)
    OBVIOUS
  <2>4. syms \in [Names -> Symbols]
    BY <2>2, <2>3, SymsType, SMTT(30) DEF Binding
  <2>5. \A n \in Names : syms[n].body = <<>>
    BY <2>3, SymsType DEF Binding, NoSyms, Absent
  <2>6. scopes' = PushScope(FALSE, syms)
    BY <2>1, <2>3
  <2>. QED  BY <1>3, <2>2, <2>4, <2>5, <2>6
<1>6. CASE Len(scopes) > 2 /\ scopes' = PopScope
  <2>1. /\ DOMAIN scopes' = 1 .. Len(scopes) - 1
        /\ \A k \in 1 .. Len(scopes) - 1 : \A n \in Names :
              \/ scopes'[k].syms[n] = scopes[k].syms[n]
              \/ scopes'[k].syms[n] = scopes[Len(scopes)].syms[n]
    BY <1>1, <1>6, PopSyms
  <2>2. /\ Len(scopes) \in DOMAIN scopes
        /\ \A k \in DOMAIN scopes' : k \in 1 .. Len(scopes) - 1 /\ k \in DOMAIN scopes
    BY <1>1, <2>1
  <2>. QED  BY <2>1, <2>2
<1>7. ASSUME NEW name \in Names, NEW public \in BOOLEAN, NEW body \in Seq(Line),
             scopes' = Assign(name, public, body)
      PROVE  \A k \in DOMAIN scopes' : \A n \in Names :
                \/ scopes'[k].syms[n].body = body
                \/ k \in DOMAIN scopes /\ scopes'[k].syms[n].body = scopes[k].syms[n].body
  <2>1. /\ DOMAIN scopes' = 1 .. Len(scopes)
        /\ \A k \in 1 .. Len(scopes) : \A n \in Names :
              k # Len(scopes) \/ n # name => scopes'[k].syms[n] = scopes[k].syms[n]
        /\ scopes'[Len(scopes)].syms[name]
              = [public |-> public, body |-> body, floor |-> Floor]
    BY <1>7, AssignSyms
  <2>2. scopes'[Len(scopes)].syms[name].body = body
    BY <2>1
  <2>3. ASSUME NEW k \in 1 .. Len(scopes), NEW n \in Names
        PROVE  \/ scopes'[k].syms[n].body = body
               \/ scopes'[k].syms[n].body = scopes[k].syms[n].body
    BY <2>1, <2>2
  <2>. QED  BY <1>1, <2>1, <2>3
<1>8. <<>> \in Seq(Line) /\ captureBuf \in Seq(Line) /\ "f" \in Names /\ "x" \in Names
  BY EmptySeq DEF TypeOK, Names
<1>9. CASE \E name \in Names, public \in BOOLEAN : scopes' = Assign(name, public, <<>>)
  <2>1. PICK name \in Names, public \in BOOLEAN : scopes' = Assign(name, public, <<>>)
    BY <1>9
  <2>2. PICK body : body = <<>>
    OBVIOUS
  <2>3. scopes' = Assign(name, public, body) /\ body \in Seq(Line)
    BY <1>8, <2>1, <2>2
  <2>4. \A k \in DOMAIN scopes' : \A n \in Names :
           \/ scopes'[k].syms[n].body = body
           \/ k \in DOMAIN scopes /\ scopes'[k].syms[n].body = scopes[k].syms[n].body
    BY <1>7, <2>3
  <2>. QED  BY <2>2, <2>4
<1>10. CASE \E public \in BOOLEAN : /\ SkipEnd /\ TopKind = "func"
                                    /\ scopes' = Assign("f", public, captureBuf)
  <2>1. PICK public \in BOOLEAN : /\ SkipEnd /\ TopKind = "func"
                                  /\ scopes' = Assign("f", public, captureBuf)
    BY <1>10
  <2>. QED  BY <1>7, <1>8, <2>1
<1>. QED  BY <1>2, <1>4, <1>5, <1>6, <1>8, <1>9, <1>10 DEF ScopeMove

LEMMA ScopesStep ==
    ASSUME IInv, BodyInv, Next
    PROVE  ScopesReplayable'
<1>1. ScopeMove
  BY StepMove DEF IInv
<1>2. \A k \in DOMAIN scopes' : \A n \in Names :
         \/ scopes'[k].syms[n].body = <<>>
         \/ \E j \in DOMAIN scopes : scopes'[k].syms[n].body = scopes[j].syms[n].body
         \/ SkipEnd /\ TopKind = "func" /\ scopes'[k].syms[n].body = captureBuf
  BY <1>1, BodyOrigin DEF IInv
<1>3. ASSUME SkipEnd, TopKind = "func"
      PROVE  Balanced(captureBuf)
  <2>1. pc = "line" /\ skipDepth = 1 /\ pc \notin Final /\ pc \notin Evaluating
    BY <1>3 DEF SkipEnd, Skipping, Final, Evaluating
  <2>2. HasBlock /\ Collects(Top(blocks))
    BY <1>3 DEF TopKind, Collects
  <2>3. Safe(captureBuf, 0) /\ Net(captureBuf) = 0
    BY <2>1, <2>2, TopCaptured DEF Collected, BodyInv
  <2>. QED  BY <2>3, BalancedNet DEF IInv, TypeOK
<1>4. Balanced(<<>>)
  BY EmptyBody
<1>. QED  BY <1>2, <1>3, <1>4 DEF ScopesReplayable, BodyInv

LEMMA BodyInvInit ==
    ASSUME Init
    PROVE  BodyInv
<1>1. blocks = <<>>
  BY DEF Init
<1>2. DOMAIN blocks = {}
  BY <1>1, EmptySeq
<1>3. \A k \in DOMAIN scopes : \A n \in Names : scopes[k].syms[n].body = <<>>
  <2>1. scopes = <<[promote |-> TRUE, syms |-> NoSyms], [promote |-> TRUE, syms |-> NoSyms]>>
    BY DEF Init
  <2>2. DOMAIN scopes = {1, 2} /\ \A k \in {1, 2} : scopes[k].syms = NoSyms
    BY <2>1
  <2>. QED  BY <2>2 DEF NoSyms, Absent
<1>. QED  BY <1>2, <1>3, EmptyBody DEF BodyInv, Captures, BlocksReplayable, ScopesReplayable

LEMMA BodyInvStutter ==
    ASSUME UNCHANGED vars, BodyInv
    PROVE  BodyInv'
<1>1. Captures'
  BY DEF vars, BodyInv, Captures, Collected, Saved, Replayed, Top, BlockBase
<1>2. BlocksReplayable' /\ ScopesReplayable'
  BY DEF vars, BodyInv, BlocksReplayable, ScopesReplayable
<1>. QED  BY <1>1, <1>2 DEF BodyInv

\* What a capture has collected so far, and that what was captured closes every
\* block it opens and no other.
THEOREM CapturingInvariant == Spec => []BodyInv
<1>1. Init => BodyInv
  BY BodyInvInit
<1>2. IInv /\ SkipInv /\ BodyInv /\ [Next]_vars => BodyInv'
  BY CaptureStep, ScopesStep, BodyInvStutter DEF BodyInv
<1>. QED  BY <1>1, <1>2, Invariance, SkippingInvariant, PTL DEF Spec

\* The body of every function and loop closes every block it opens and no
\* other, so replaying it cannot touch the blocks of whoever replays it.
THEOREM BodiesAreBalanced == Spec => []BodiesBalanced
<1>1. BodyInv => BodiesBalanced
  BY DEF BodyInv, BlocksReplayable, ScopesReplayable, Replayable, BodiesBalanced
<1>. QED  BY <1>1, CapturingInvariant, PTL

=============================================================================
