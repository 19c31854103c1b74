--------------------------- MODULE ElDriver_proofs --------------------------
(***************************************************************************)
(* Every stage that is announced is answered, an assertion of the profiler *)
(* fails only behind a captured stream, the rows of the time report are    *)
(* consistent, the dumps are whole and the exit status tells the truth,    *)
(* for all command lines, documents, stages and substages.                 *)
(***************************************************************************)
EXTENDS ElDriver, Integers, SequenceTheorems, FiniteSetTheorems, WellFoundedInduction, TLAPS

-----------------------------------------------------------------------------
(* The operators of the profiler.                                          *)

StageTimes == [start : Int, total : Int, running : BOOLEAN]
Frames == [sub : Substages, start : Int]
Profilers == [stages : [Stages -> StageTimes], subs : [Substages -> Int],
              active : Stages \cup {NoStage}, frames : Seq(Frames), failed : BOOLEAN]

LEMMA ProfInitType == ProfInit \in Profilers
  BY DEF ProfInit, Profilers, StageTimes, NewStage

LEMMA SeqLen ==
    ASSUME NEW S, NEW q \in Seq(S)
    PROVE  Len(q) \in Nat /\ (q = <<>> <=> Len(q) = 0)
  BY EmptySeq, LenProperties

\* Charging the innermost frame moves no frame and no stage.
LEMMA ChargeTopFacts ==
    ASSUME NEW p \in Profilers, NEW now \in Int
    PROVE  /\ ChargeTop(p, now) \in Profilers
           /\ ChargeTop(p, now).stages = p.stages
           /\ ChargeTop(p, now).active = p.active
           /\ ChargeTop(p, now).failed = p.failed
           /\ Len(ChargeTop(p, now).frames) = Len(p.frames)
<1>. DEFINE n == Len(p.frames)
<1>1. p.frames \in Seq(Frames) /\ n \in Nat
  BY LenProperties DEF Profilers
<1>2. CASE p.frames = <<>>
  BY <1>2 DEF ChargeTop
<1>3. CASE p.frames # <<>>
  <2>1. n \in 1 .. n
    BY <1>1, <1>3, SeqLen
  <2>2. p.frames[n] \in Frames
    BY <1>1, <2>1, ElementOfSeq
  <2>3. /\ [p.frames EXCEPT ![n].start = now] \in Seq(Frames)
        /\ Len([p.frames EXCEPT ![n].start = now]) = n
    <3>1. [p.frames[n] EXCEPT !.start = now] \in Frames
      BY <2>2 DEF Frames
    <3>2. [p.frames EXCEPT ![n].start = now] = [p.frames EXCEPT ![n] = [p.frames[n] EXCEPT !.start = now]]
      BY <1>1, <2>1
    <3>. QED  BY <1>1, <2>1, <3>1, <3>2, ExceptSeq
  <2>4. [p.subs EXCEPT ![p.frames[n].sub] = @ + (now - p.frames[n].start)] \in [Substages -> Int]
    <3>1. p.frames[n].sub \in Substages /\ p.frames[n].start \in Int /\ p.subs \in [Substages -> Int]
      BY <2>2 DEF Frames, Profilers
    <3>. QED  BY <3>1
  <2>5. ChargeTop(p, now) = [p EXCEPT !.subs = [p.subs EXCEPT ![p.frames[n].sub] = @ + (now - p.frames[n].start)],
                                      !.frames = [p.frames EXCEPT ![n].start = now]]
    BY <1>3 DEF ChargeTop, Profilers
  <2>. QED  BY <2>3, <2>4, <2>5 DEF Profilers
<1>. QED  BY <1>2, <1>3

\* The times of a stage that stops, and of one that starts again.
Halted(r, now) == [start |-> r.start, total |-> r.total + (now - r.start), running |-> FALSE]
Resumed(r, now) == [start |-> now, total |-> r.total, running |-> TRUE]

LEMMA SameTimes ==
    ASSUME NEW r \in StageTimes, NEW e \in StageTimes,
           e.start = r.start, e.total = r.total, e.running = r.running
    PROVE  e = r
  BY DEF StageTimes

LEMMA HaltedTimes ==
    ASSUME NEW r \in StageTimes, NEW now \in Int
    PROVE  /\ Halted(r, now) \in StageTimes
           /\ [r EXCEPT !.total = @ + (now - r.start), !.running = FALSE] = Halted(r, now)
<1>1. r.start \in Int /\ r.total \in Int
  BY DEF StageTimes
<1>2. PICK t : t = r.total + (now - r.start)
  OBVIOUS
<1>3. t \in Int
  BY <1>1, <1>2
<1>4. [start |-> r.start, total |-> t, running |-> FALSE] \in StageTimes
  BY <1>1, <1>3 DEF StageTimes
<1>5. [r EXCEPT !.total = t, !.running = FALSE] = [start |-> r.start, total |-> t, running |-> FALSE]
  <2>1. PICK e : e = [r EXCEPT !.total = t, !.running = FALSE]
    OBVIOUS
  <2>2. e \in StageTimes /\ e.start = r.start /\ e.total = t /\ e.running = FALSE
    BY <1>3, <2>1 DEF StageTimes
  <2>3. PICK d : d = [start |-> r.start, total |-> t, running |-> FALSE]
    OBVIOUS
  <2>4. d \in StageTimes /\ d.start = r.start /\ d.total = t /\ d.running = FALSE
    BY <1>4, <2>3
  <2>. QED  BY <2>1, <2>2, <2>3, <2>4, SameTimes
<1>. QED  BY <1>2, <1>4, <1>5 DEF Halted

LEMMA ResumedTimes ==
    ASSUME NEW r \in StageTimes, NEW now \in Int
    PROVE  /\ Resumed(r, now) \in StageTimes
           /\ [r EXCEPT !.start = now, !.running = TRUE] = Resumed(r, now)
<1>1. Resumed(r, now) \in StageTimes
  BY DEF StageTimes, Resumed
<1>2. PICK e : e = [r EXCEPT !.start = now, !.running = TRUE]
  OBVIOUS
<1>3. e \in StageTimes /\ e.start = now /\ e.total = r.total /\ e.running = TRUE
  BY <1>2 DEF StageTimes
<1>4. PICK d : d = Resumed(r, now)
  OBVIOUS
<1>5. d.start = now /\ d.total = r.total /\ d.running = TRUE
  BY <1>4 DEF Resumed
<1>. QED  BY <1>1, <1>2, <1>3, <1>4, <1>5, SameTimes

\* Beginning a stage: only when none is active.
LEMMA ProfBeginFacts ==
    ASSUME NEW p \in Profilers, NEW now \in Int, NEW s \in Stages
    PROVE  /\ ProfBegin(p, now, s) \in Profilers
           /\ ProfBegin(p, now, s).frames = p.frames
           /\ ProfBegin(p, now, s).subs = p.subs
           /\ p.active # NoStage => /\ ProfBegin(p, now, s).failed
                                    /\ ProfBegin(p, now, s).active = p.active
           /\ p.active = NoStage =>
                 /\ ProfBegin(p, now, s).failed = p.failed
                 /\ ProfBegin(p, now, s).active = s
                 /\ ProfBegin(p, now, s).stages[s] = [start |-> now, total |-> 0, running |-> TRUE]
                 /\ \A t \in Stages \ {s} : ProfBegin(p, now, s).stages[t] = p.stages[t]
<1>1. CASE p.active # NoStage
  BY <1>1 DEF ProfBegin, Failed, Profilers
<1>2. CASE p.active = NoStage
  <2>1. [start |-> now, total |-> 0, running |-> TRUE] \in StageTimes
    BY DEF StageTimes
  <2>. QED  BY <1>2, <2>1 DEF ProfBegin, Profilers
<1>. QED  BY <1>1, <1>2

\* Finishing a stage that runs: none is active then.
LEMMA FinishStageFacts ==
    ASSUME NEW p \in Profilers, NEW now \in Int, NEW s \in Stages
    PROVE  /\ FinishStage(p, now, s) \in Profilers
           /\ FinishStage(p, now, s).frames = p.frames
           /\ FinishStage(p, now, s).subs = p.subs
           /\ FinishStage(p, now, s).failed = p.failed
           /\ ~p.stages[s].running => FinishStage(p, now, s) = p
           /\ p.stages[s].running =>
                 /\ FinishStage(p, now, s).active = IF p.active = s THEN NoStage ELSE p.active
                 /\ FinishStage(p, now, s).stages[s] = Halted(p.stages[s], now)
                 /\ \A t \in Stages \ {s} : FinishStage(p, now, s).stages[t] = p.stages[t]
<1>1. CASE ~p.stages[s].running
  BY <1>1 DEF FinishStage
<1>2. CASE p.stages[s].running
  <2>1. p.stages[s] \in StageTimes
    BY DEF Profilers
  <2>2. PICK r : r = [p.stages[s] EXCEPT !.total = @ + (now - p.stages[s].start), !.running = FALSE]
    OBVIOUS
  <2>3. r \in StageTimes /\ r = Halted(p.stages[s], now)
    BY <2>1, <2>2, HaltedTimes
  <2>4. PICK st : st = [p.stages EXCEPT ![s] = r]
    OBVIOUS
  <2>5. st \in [Stages -> StageTimes]
    BY <2>3, <2>4 DEF Profilers
  <2>6. PICK a : a = IF p.active = s THEN NoStage ELSE p.active
    OBVIOUS
  <2>7. a \in Stages \cup {NoStage}
    BY <2>6 DEF Profilers
  <2>8. FinishStage(p, now, s) = [p EXCEPT !.stages = st, !.active = a]
    BY <1>2, <2>1, <2>2, <2>4, <2>6, ZenonT(60) DEF FinishStage, Profilers, StageTimes
  <2>9. PICK q : q = FinishStage(p, now, s)
    OBVIOUS
  <2>10. /\ q \in Profilers /\ q.stages = st /\ q.active = a
         /\ q.subs = p.subs /\ q.frames = p.frames /\ q.failed = p.failed
    BY <2>5, <2>7, <2>8, <2>9 DEF Profilers
  <2>11. st[s] = r /\ \A t \in Stages \ {s} : st[t] = p.stages[t]
    BY <2>4 DEF Profilers
  <2>. QED  BY <1>2, <2>3, <2>6, <2>9, <2>10, <2>11
<1>. QED  BY <1>1, <1>2

\* Entering a stage.
LEMMA EnterStageFacts ==
    ASSUME NEW p \in Profilers, NEW now \in Int, NEW s \in Stages
    PROVE  /\ EnterStage(p, now, s) \in Profilers
           /\ EnterStage(p, now, s).active = s
           /\ EnterStage(p, now, s).failed = p.failed
           /\ EnterStage(p, now, s).frames = ChargeTop(p, now).frames
           /\ EnterStage(p, now, s).subs = ChargeTop(p, now).subs
           /\ EnterStage(p, now, s).stages[s] = Resumed(p.stages[s], now)
           /\ \A t \in Stages \ {s} : EnterStage(p, now, s).stages[t] = p.stages[t]
<1>0. PICK q : q = ChargeTop(p, now)
  OBVIOUS
<1>1. q \in Profilers /\ q.stages = p.stages /\ q.failed = p.failed
  BY <1>0, ChargeTopFacts
<1>2. p.stages[s] \in StageTimes
  BY DEF Profilers
<1>3. PICK st : st = [p.stages EXCEPT ![s] = [p.stages[s] EXCEPT !.start = now, !.running = TRUE]]
  OBVIOUS
<1>4. /\ st \in [Stages -> StageTimes]
      /\ st[s] = Resumed(p.stages[s], now)
      /\ \A t \in Stages \ {s} : st[t] = p.stages[t]
  <2>1. PICK r : r = [p.stages[s] EXCEPT !.start = now, !.running = TRUE]
    OBVIOUS
  <2>2. r \in StageTimes /\ r = Resumed(p.stages[s], now)
    BY <1>2, <2>1, ResumedTimes
  <2>. QED  BY <1>3, <2>1, <2>2 DEF Profilers
<1>5. EnterStage(p, now, s) = [q EXCEPT !.stages = st, !.active = s]
  BY <1>0, <1>1, <1>2, <1>3 DEF EnterStage, Profilers, StageTimes
<1>6. PICK w : w = EnterStage(p, now, s)
  OBVIOUS
<1>7. /\ w \in Profilers /\ w.stages = st /\ w.active = s
      /\ w.subs = q.subs /\ w.frames = q.frames /\ w.failed = q.failed
  BY <1>1, <1>4, <1>5, <1>6 DEF Profilers
<1>. QED  BY <1>0, <1>1, <1>4, <1>6, <1>7

\* Leaving a stage gives the active place back and stops no other stage.
LEMMA LeaveStageFacts ==
    ASSUME NEW p \in Profilers, NEW now \in Int, NEW previous \in Stages \cup {NoStage}
    PROVE  /\ LeaveStage(p, now, previous) \in Profilers
           /\ LeaveStage(p, now, previous).active = previous
           /\ LeaveStage(p, now, previous).failed = p.failed
           /\ LeaveStage(p, now, previous).frames = ChargeTop(p, now).frames
           /\ LeaveStage(p, now, previous).subs = ChargeTop(p, now).subs
           /\ p.active \in Stages =>
                 LeaveStage(p, now, previous).stages[p.active] =
                    IF p.stages[p.active].running THEN Halted(p.stages[p.active], now) ELSE p.stages[p.active]
           /\ \A t \in Stages \ {p.active} : LeaveStage(p, now, previous).stages[t] = p.stages[t]
<1>1. PICK s : s = p.active
  OBVIOUS
<1>2. PICK stopped : stopped = IF s # NoStage /\ p.stages[s].running
                               THEN [p EXCEPT !.stages[s].total = @ + (now - p.stages[s].start),
                                              !.stages[s].running = FALSE]
                               ELSE p
  OBVIOUS
<1>3. /\ stopped \in Profilers
      /\ stopped.frames = p.frames /\ stopped.subs = p.subs /\ stopped.failed = p.failed
      /\ s \in Stages => stopped.stages[s] = IF p.stages[s].running THEN Halted(p.stages[s], now) ELSE p.stages[s]
      /\ \A t \in Stages \ {s} : stopped.stages[t] = p.stages[t]
  <2>1. CASE s # NoStage /\ p.stages[s].running
    <3>1. s \in Stages /\ p.stages[s] \in StageTimes
      BY <1>1, <2>1 DEF Profilers
    <3>2. PICK st : st = [p.stages EXCEPT ![s] = [p.stages[s] EXCEPT !.total = @ + (now - p.stages[s].start),
                                                                     !.running = FALSE]]
      OBVIOUS
    <3>3. /\ st \in [Stages -> StageTimes] /\ st[s] = Halted(p.stages[s], now)
          /\ \A t \in Stages \ {s} : st[t] = p.stages[t]
      <4>1. PICK r : r = [p.stages[s] EXCEPT !.total = @ + (now - p.stages[s].start), !.running = FALSE]
        OBVIOUS
      <4>2. r \in StageTimes /\ r = Halted(p.stages[s], now)
        BY <3>1, <4>1, HaltedTimes, ZenonT(60)
      <4>. QED  BY <3>1, <3>2, <4>1, <4>2 DEF Profilers
    <3>4. stopped = [p EXCEPT !.stages = st]
      BY <1>2, <2>1, <3>1, <3>2 DEF Profilers, StageTimes
    <3>. QED  BY <2>1, <3>3, <3>4 DEF Profilers
  <2>2. CASE ~(s # NoStage /\ p.stages[s].running)
    BY <1>2, <2>2, ProfAssumption
  <2>. QED  BY <2>1, <2>2
<1>4. LeaveStage(p, now, previous) = [ChargeTop(stopped, now) EXCEPT !.active = previous]
  BY <1>1, <1>2 DEF LeaveStage
<1>5. PICK c : c = ChargeTop(stopped, now)
  OBVIOUS
<1>6. /\ c.frames = ChargeTop(p, now).frames
      /\ c.subs = ChargeTop(p, now).subs
  BY <1>3, <1>5 DEF ChargeTop, Profilers
<1>7. c \in Profilers /\ c.stages = stopped.stages /\ c.failed = stopped.failed
  BY <1>3, <1>5, ChargeTopFacts
<1>8. PICK w : w = LeaveStage(p, now, previous)
  OBVIOUS
<1>9. /\ w \in Profilers /\ w.active = previous /\ w.failed = c.failed
      /\ w.stages = c.stages /\ w.frames = c.frames /\ w.subs = c.subs
  BY <1>4, <1>5, <1>7, <1>8 DEF Profilers
<1>. QED  BY <1>1, <1>3, <1>6, <1>7, <1>8, <1>9

\* Beginning a substage of the active stage opens a frame.
LEMMA BeginSubFacts ==
    ASSUME NEW p \in Profilers, NEW now \in Int, NEW b \in Substages, b.pstage = p.active
    PROVE  /\ BeginSub(p, now, b) \in Profilers
           /\ BeginSub(p, now, b).frames = Append(ChargeTop(p, now).frames, [sub |-> b, start |-> now])
           /\ BeginSub(p, now, b).subs = ChargeTop(p, now).subs
           /\ BeginSub(p, now, b).stages = p.stages
           /\ BeginSub(p, now, b).active = p.active
           /\ BeginSub(p, now, b).failed = p.failed
<1>1. PICK q : q = ChargeTop(p, now)
  OBVIOUS
<1>2. q \in Profilers /\ q.stages = p.stages /\ q.active = p.active /\ q.failed = p.failed
  BY <1>1, ChargeTopFacts
<1>3. [sub |-> b, start |-> now] \in Frames
  BY DEF Frames
<1>4. PICK f : f = Append(q.frames, [sub |-> b, start |-> now])
  OBVIOUS
<1>5. f \in Seq(Frames)
  BY <1>2, <1>3, <1>4, AppendProperties DEF Profilers
<1>6. BeginSub(p, now, b) = [q EXCEPT !.frames = f]
  BY <1>1, <1>2, <1>4 DEF BeginSub, Profilers
<1>. QED  BY <1>1, <1>2, <1>4, <1>5, <1>6 DEF Profilers

\* Finishing the innermost one closes it.
LEMMA FinishSubFacts ==
    ASSUME NEW p \in Profilers, NEW now \in Int, p.frames # <<>>
    PROVE  LET n == Len(p.frames)
               q == FinishSub(p, now, p.frames[n].sub)
           IN  /\ q \in Profilers
               /\ Len(q.frames) = n - 1
               /\ \A i \in 1 .. n - 1 : q.frames[i] = IF i = n - 1 THEN [p.frames[i] EXCEPT !.start = now]
                                                                  ELSE p.frames[i]
               /\ q.subs = ChargeTop(p, now).subs
               /\ q.stages = p.stages
               /\ q.active = p.active
               /\ q.failed = p.failed
<1>1. PICK c : c = ChargeTop(p, now)
  OBVIOUS
<1>2. PICK n : n = Len(p.frames)
  OBVIOUS
<1>3. /\ c \in Profilers /\ c.stages = p.stages /\ c.active = p.active /\ c.failed = p.failed
      /\ Len(c.frames) = n
  BY <1>1, <1>2, ChargeTopFacts
<1>4. /\ n \in Nat /\ n # 0
      /\ c.frames \in Seq(Frames) /\ p.frames \in Seq(Frames)
  BY <1>2, <1>3, SeqLen DEF Profilers
<1>5. PICK f : f = SubSeq(c.frames, 1, n - 1)
  OBVIOUS
<1>6. /\ f \in Seq(Frames) /\ Len(f) = n - 1
      /\ \A i \in 1 .. n - 1 : f[i] = c.frames[i]
  <2>1. n - 1 \in Nat /\ n - 1 <= n
    BY <1>4
  <2>2. \A i \in 1 .. n - 1 : c.frames[i] \in Frames
    BY <1>3, <1>4, <2>1, ElementOfSeq
  <2>. QED  BY <1>3, <1>4, <1>5, <2>1, <2>2, SubSeqProperties
<1>7. \A i \in 1 .. n - 1 : c.frames[i] = p.frames[i]
  BY <1>1, <1>2, <1>4 DEF ChargeTop, Profilers
<1>8. PICK q : q = FinishSub(p, now, p.frames[n].sub)
  OBVIOUS
<1>9. q = IF n = 1 THEN [c EXCEPT !.frames = f]
          ELSE [[c EXCEPT !.frames = f] EXCEPT !.frames[n - 1].start = now]
  BY <1>1, <1>2, <1>3, <1>4, <1>5, <1>8 DEF FinishSub, Profilers
<1>10. CASE n = 1
  <2>1. q = [c EXCEPT !.frames = f]
    BY <1>9, <1>10
  <2>2. q \in Profilers /\ q.frames = f /\ q.subs = c.subs /\ q.stages = c.stages /\ q.active = c.active
        /\ q.failed = c.failed
    BY <1>3, <1>6, <2>1 DEF Profilers
  <2>3. 1 .. n - 1 = {}
    BY <1>10
  <2>. QED  BY <1>1, <1>2, <1>3, <1>6, <1>8, <2>2, <2>3
<1>11. CASE n # 1
  <2>1. n - 1 \in 1 .. Len(f)
    BY <1>4, <1>6, <1>11
  <2>2. f[n - 1] \in Frames
    BY <1>6, <2>1, ElementOfSeq
  <2>3. PICK r : r = [f[n - 1] EXCEPT !.start = now]
    OBVIOUS
  <2>4. r \in Frames
    BY <2>2, <2>3 DEF Frames
  <2>5. PICK g : g = [f EXCEPT ![n - 1] = r]
    OBVIOUS
  <2>6. /\ g \in Seq(Frames) /\ Len(g) = n - 1
        /\ \A i \in 1 .. n - 1 : g[i] = IF i = n - 1 THEN r ELSE f[i]
    BY <1>6, <2>1, <2>4, <2>5, ExceptSeq
  <2>7. q = [c EXCEPT !.frames = g]
    BY <1>3, <1>6, <1>9, <1>11, <2>3, <2>5 DEF Profilers
  <2>8. q \in Profilers /\ q.frames = g /\ q.subs = c.subs /\ q.stages = c.stages /\ q.active = c.active
        /\ q.failed = c.failed
    BY <1>3, <2>6, <2>7 DEF Profilers
  <2>9. ASSUME NEW i \in 1 .. n - 1
        PROVE  q.frames[i] = IF i = n - 1 THEN [p.frames[i] EXCEPT !.start = now] ELSE p.frames[i]
    <3>1. f[i] = p.frames[i]
      BY <1>6, <1>7
    <3>. QED  BY <2>3, <2>6, <2>8, <3>1
  <2>. QED  BY <1>1, <1>2, <1>3, <1>8, <2>6, <2>8, <2>9
<1>. QED  BY <1>10, <1>11

-----------------------------------------------------------------------------
(* The events.                                                             *)

\* Before the pipeline is asked for anything.
Unstarted ==
    /\ registry = {} /\ requests = <<>> /\ answer = "pending" /\ executing = None
    /\ told = [k \in MakesOutput |-> "nothing"] /\ errors = 0 /\ calls = <<>>
    /\ prof = ProfInit

\* The stages whose execute makes calls of token_stream_next.
Reader(k) == k = "ast" \/ (k \in {"toks", "pp-toks"} /\ Captures(k))

EventType ==
    /\ told \in [MakesOutput -> {"nothing", "start", "finish", "end"}]
    /\ executing \in MakesOutput \cup {None}
    /\ errors \in Nat

Unanswered(k) == told[k] \in {"start", "finish"}

\* The stage announced last is the one that executes, errors are there before a
\* request has failed only while a stage that reads tokens executes, and nothing
\* happens after a failure.
EventInv ==
    /\ EventType
    /\ phase \in {"arguments", "source"} => Unstarted
    /\ executing # None => told[executing] = "start" /\ answer = "pending"
    /\ errors > 0 => answer = "no" \/ (executing # None /\ Reader(executing))
    /\ calls # <<>> => executing # None /\ Reader(executing)
    /\ \A k \in MakesOutput :
          /\ told[k] = "start" /\ k # executing =>
                /\ k \in {"toks", "pp-toks"} /\ Captures(k)
                /\ errors > 0 /\ answer = "no"
          /\ told[k] = "finish" => errors > 0 /\ answer = "no"
    /\ \A k, l \in MakesOutput : Unanswered(k) /\ Unanswered(l) => k = l
    /\ phase # "exited" => \A k \in MakesOutput : told[k] = "end" <=> k \in registry

LEMMA KindFacts ==
    /\ None \notin MakesOutput
    /\ {"toks", "pp-toks", "ast", "hir"} \subseteq MakesOutput
    /\ "source" \notin MakesOutput
  BY DEF None, MakesOutput, Artifacts

LEMMA StageNames ==
    /\ StageOf("toks").name = "Lexer" /\ StageOf("pp-toks").name = "Preprocessor"
    /\ StageOf("ast").name = "Parser"
    /\ \A k \in MakesOutput : StageOf(k).name \in {"Lexer", "Preprocessor"} => k \in {"toks", "pp-toks"}
    /\ {"Lexer", "Preprocessor", "Parser"} \subseteq Stages
<1>1. /\ StageOf("toks").name = "Lexer" /\ StageOf("pp-toks").name = "Preprocessor"
      /\ StageOf("ast").name = "Parser"
  BY DEF StageOf, StageTable
<1>2. \A k \in MakesOutput : StageOf(k).name \in {"Lexer", "Preprocessor"} => k \in {"toks", "pp-toks"}
  <2>1. ASSUME NEW k \in MakesOutput, StageOf(k).name \in {"Lexer", "Preprocessor"}
        PROVE  k \in {"toks", "pp-toks"}
    <3>1. k \in {"toks", "pp-toks", "ast", "hir", "mir", "ulir", "lir", "asm", "obj"}
      BY DEF MakesOutput, Artifacts
    <3>2. /\ StageOf("ast").name = "Parser" /\ StageOf("hir").name = "Binder"
          /\ StageOf("mir").name = "Lowerer" /\ StageOf("ulir").name = "Codegen"
          /\ StageOf("lir").name = "Optimizer" /\ StageOf("asm").name = "Emit Assembly"
          /\ StageOf("obj").name = "Emit Object File"
      BY DEF StageOf, StageTable
    <3>. QED  BY <2>1, <3>1, <3>2
  <2>. QED  BY <2>1
<1>. QED  BY <1>1, <1>2, StagesAssumption, KindFacts

LEMMA FlawType ==
    ASSUME NEW layer, NEW n
    PROVE  FlawAt(layer, n) \in Nat
  BY DEF FlawAt

\* What EventInv speaks about.
eventVars == <<phase, args, registry, requests, answer, executing, told, errors, calls, prof>>

LEMMA EventInvInit == Init => EventInv
  BY KindFacts DEF Init, InitPipeline, EventInv, EventType, Unstarted, Unanswered

LEMMA EventInvStutter == EventInv /\ UNCHANGED eventVars => EventInv'
  BY DEF eventVars, EventInv, EventType, Unstarted, Unanswered, Reader, Captures

\* main() and elc_driver_run around the pipeline.
LEMMA EventInvDriver ==
    ASSUME EventInv,
           ReadArgument \/ EndArguments \/ OpenSource \/ WriteOutput \/ PrintReports
              \/ Cleanup \/ Abort \/ Stopped
    PROVE  EventInv'
<1>1. CASE ReadArgument \/ Stopped
  <2>1. UNCHANGED eventVars
    BY <1>1 DEF ReadArgument, Stopped, vars, driverVars, pipeVars, eventVars
  <2>. QED  BY <2>1, EventInvStutter
<1>2. CASE EndArguments
  <2>1. /\ Unstarted /\ phase' \in {"exited", "source"}
        /\ UNCHANGED <<registry, requests, answer, executing, told, errors, calls, prof>>
    BY <1>2 DEF EndArguments, EventInv
  <2>2. EventType' /\ Unstarted'
    BY <2>1 DEF Unstarted, EventInv, EventType
  <2>3. \A k \in MakesOutput : told'[k] = "nothing"
    BY <2>2 DEF Unstarted
  <2>. QED  BY <2>1, <2>2, <2>3 DEF Unstarted, EventInv, EventType, Unanswered
<1>3. CASE OpenSource
  <2>1. /\ Unstarted /\ phase' \in {"cleanup", "pipeline"}
        /\ registry' \subseteq {"source"}
        /\ UNCHANGED <<args, answer, executing, told, errors, calls, prof>>
    BY <1>3 DEF OpenSource, EventInv, Unstarted
  <2>2. EventType'
    BY <2>1 DEF EventInv, EventType
  <2>3. \A k \in MakesOutput : told'[k] = "nothing" /\ k \notin registry'
    BY <2>1, KindFacts DEF Unstarted
  <2>. QED  BY <2>1, <2>2, <2>3 DEF Unstarted, EventInv, EventType, Unanswered
<1>4. CASE WriteOutput \/ PrintReports \/ Abort
  <2>1. /\ phase \in {"pipeline", "reports"} /\ phase' \in {"reports", "crashed", "cleanup"}
        /\ UNCHANGED pipeVars
    BY <1>4 DEF WriteOutput, PrintReports, Abort
  <2>. QED  BY <2>1 DEF EventInv, EventType, Unstarted, Unanswered, Reader, Captures, pipeVars
<1>5. CASE Cleanup
  <2>1. /\ phase = "cleanup" /\ phase' = "exited"
        /\ UNCHANGED <<args, answer, executing, told, errors, calls>>
    BY <1>5 DEF Cleanup
  <2>. QED  BY <2>1 DEF EventInv, EventType, Unstarted, Unanswered, Reader, Captures
<1>. QED  BY <1>1, <1>2, <1>3, <1>4, <1>5

\* Requests.
LEMMA EventInvRequests ==
    ASSUME EventInv, phase = "pipeline", phase' = phase,
           RequestInput \/ RequestHit \/ RequestUnknown \/ StartStage
    PROVE  EventInv'
<1>1. CASE RequestInput \/ RequestHit \/ RequestUnknown
  <2>1. /\ executing = None /\ answer = "pending"
        /\ UNCHANGED <<args, registry, executing, told, errors, calls>>
    BY <1>1 DEF RequestInput, RequestHit, RequestUnknown, Running
  <2>2. errors = 0 /\ \A k \in MakesOutput : ~Unanswered(k)
    BY <2>1, KindFacts DEF EventInv, EventType, Unanswered
  <2>. QED  BY <2>1, <2>2 DEF EventInv, EventType, Unanswered, Reader, Captures
<1>2. CASE StartStage
  <2>1. PICK kind : kind = Wanted
    OBVIOUS
  <2>2. /\ executing = None /\ answer = "pending" /\ kind \in MakesOutput /\ kind \notin registry
        /\ told' = [told EXCEPT ![kind] = "start"] /\ executing' = kind
        /\ UNCHANGED <<args, registry, answer, errors, calls>>
    BY <1>2, <2>1 DEF StartStage, Running
  <2>3. /\ errors = 0 /\ calls = <<>>
        /\ \A k \in MakesOutput : ~Unanswered(k)
    BY <2>2, KindFacts DEF EventInv, EventType, Unanswered
  <2>4. \A k \in MakesOutput : told'[k] = IF k = kind THEN "start" ELSE told[k]
    BY <2>2 DEF EventInv, EventType
  <2>5. EventType'
    BY <2>2 DEF EventInv, EventType
  <2>. QED  BY <2>2, <2>3, <2>4, <2>5, KindFacts DEF EventInv, Unanswered
<1>. QED  BY <1>1, <1>2

\* The steps of a stage that executes.
LEMMA EventInvReading ==
    ASSUME EventInv, phase = "pipeline", phase' = phase,
           PullPreproc \/ PullLexer \/ LexToken \/ TakeReplayed \/ ReturnToken \/ ReadReplayed
              \/ BeginSubstage \/ FinishSubstage
    PROVE  EventInv'
<1>1. /\ answer = "pending" /\ executing # None
      /\ UNCHANGED <<args, registry, answer, executing, told>>
  <2>1. /\ answer = "pending"
        /\ UNCHANGED <<args, registry, answer, executing, told>>
    BY DEF PullPreproc, PullLexer, LexToken, TakeReplayed, ReturnToken, ReadReplayed,
           BeginSubstage, FinishSubstage, Running
  <2>2. CASE PullPreproc \/ PullLexer
    BY <2>1, <2>2 DEF PullPreproc, PullLexer, InCall, EventInv, None
  <2>3. CASE LexToken \/ TakeReplayed \/ ReturnToken
    BY <2>1, <2>3 DEF LexToken, TakeReplayed, ReturnToken, InCall, EventInv
  <2>4. CASE ReadReplayed \/ BeginSubstage \/ FinishSubstage
    BY <2>1, <2>4 DEF ReadReplayed, BeginSubstage, FinishSubstage, None
  <2>. QED  BY <2>1, <2>2, <2>3, <2>4
<1>2. errors' \in Nat /\ (errors' > errors => Reader(executing))
  <2>0. errors \in Nat
    BY DEF EventInv, EventType
  <2>1. CASE PullPreproc \/ PullLexer \/ BeginSubstage \/ FinishSubstage
    <3>1. errors' = errors
      BY <2>1 DEF PullPreproc, PullLexer, BeginSubstage, FinishSubstage
    <3>. QED  BY <2>0, <3>1
  <2>2. CASE LexToken
    <3>1. calls # <<>> /\ \E a, b \in Nat : errors' = errors + a + b
      <4>. DEFINE n == streams.lexed + 1
                  b == IF Len(calls) > 1 THEN FlawAt("preprocessor", n) ELSE 0
      <4>1. FlawAt("lexer", n) \in Nat /\ b \in Nat
        BY FlawType
      <4>2. errors' = errors + FlawAt("lexer", n) + b /\ calls # <<>>
        BY <2>2 DEF LexToken, InCall
      <4>. QED  BY <4>1, <4>2
    <3>. QED  BY <2>0, <3>1 DEF EventInv
  <2>3. CASE TakeReplayed
    <3>1. calls # <<>> /\ \E a \in Nat : errors' = errors + a
      <4>1. FlawAt("preprocessor", streams.taken + 1) \in Nat
        BY FlawType
      <4>. QED  BY <2>3, <4>1 DEF TakeReplayed, InCall
    <3>. QED  BY <2>0, <3>1 DEF EventInv
  <2>4. CASE ReturnToken
    <3>1. calls # <<>> /\ \E a \in Nat : errors' = errors + a
      <4>1. FlawAt("parser", streams.hand) \in Nat
        BY FlawType
      <4>2. errors' = errors \/ errors' = errors + FlawAt("parser", streams.hand)
        BY <2>4 DEF ReturnToken
      <4>3. errors = errors + 0
        BY <2>0
      <4>. QED  BY <2>4, <4>1, <4>2, <4>3 DEF ReturnToken, InCall
    <3>. QED  BY <2>0, <3>1 DEF EventInv
  <2>5. CASE ReadReplayed
    <3>1. executing = "ast" /\ \E a \in Nat : errors' = errors + a
      BY <2>5, FlawType DEF ReadReplayed
    <3>. QED  BY <2>0, <3>1 DEF Reader
  <2>. QED  BY <2>1, <2>2, <2>3, <2>4, <2>5
<1>3. calls' # <<>> => Reader(executing)
  <2>1. CASE PullPreproc \/ PullLexer
    <3>1. Reader(executing)
      BY <2>1 DEF PullPreproc, PullLexer, InCall, Reader, EventInv
    <3>. QED  BY <3>1
  <2>2. CASE LexToken \/ ReturnToken
    <3>1. calls # <<>>
      BY <2>2 DEF LexToken, ReturnToken, InCall
    <3>. QED  BY <3>1 DEF EventInv
  <2>3. CASE TakeReplayed \/ ReadReplayed \/ BeginSubstage \/ FinishSubstage
    <3>1. calls' = calls
      BY <2>3 DEF TakeReplayed, ReadReplayed, BeginSubstage, FinishSubstage
    <3>. QED  BY <3>1 DEF EventInv
  <2>. QED  BY <2>1, <2>2, <2>3
<1>4. \A k \in MakesOutput : (told[k] = "start" => k = executing) /\ told[k] # "finish"
  BY <1>1 DEF EventInv
<1>5. errors' > 0 => Reader(executing)
  BY <1>1, <1>2 DEF EventInv, EventType
<1>. QED  BY <1>1, <1>2, <1>3, <1>4, <1>5 DEF EventInv, EventType, Unanswered, Reader, Captures

\* The end of a stage: success, an execute that failed, the check just in case.
LEMMA EventInvEnd ==
    ASSUME EventInv, phase = "pipeline", phase' = phase, EndStage
    PROVE  EventInv'
<1>1. PICK kind : kind = executing
  OBVIOUS
<1>2. /\ answer = "pending" /\ kind # None /\ calls = <<>> /\ executing' = None
      /\ UNCHANGED <<args, calls>>
  BY <1>1 DEF EndStage, Running
<1>3. /\ kind \in MakesOutput /\ told[kind] = "start" /\ errors \in Nat
      /\ kind \in registry <=> FALSE
      /\ told \in [MakesOutput -> {"nothing", "start", "finish", "end"}]
      /\ \A k \in MakesOutput : k # kind => ~Unanswered(k)
  BY <1>1, <1>2 DEF EventInv, EventType, Unanswered
<1>4. PICK e : e = ErrorsThen
  OBVIOUS
<1>5. errors' = e /\ e \in Nat /\ (kind # "hir" => e = errors)
  BY <1>1, <1>2, <1>3, <1>4 DEF EndStage, ErrorsThen, BinderErrors
<1>6. ASSUME NEW event \in {"finish", "end"}, told' = [told EXCEPT ![kind] = event]
      PROVE  /\ told' \in [MakesOutput -> {"nothing", "start", "finish", "end"}]
             /\ \A k \in MakesOutput : told'[k] = IF k = kind THEN event ELSE told[k]
  BY <1>3, <1>6
<1>7. CASE e > 0 /\ kind \in Checks
  <2>1. /\ told' = [told EXCEPT ![kind] = "finish"] /\ answer' = "no" /\ registry' = registry
    BY <1>1, <1>4, <1>5, <1>7 DEF EndStage
  <2>2. /\ told' \in [MakesOutput -> {"nothing", "start", "finish", "end"}]
        /\ \A k \in MakesOutput : told'[k] = IF k = kind THEN "finish" ELSE told[k]
    BY <2>1, <1>6
  <2>. QED  BY <1>2, <1>3, <1>5, <1>7, <2>1, <2>2 DEF EventInv, EventType, Unanswered
<1>8. CASE e > 0 /\ kind \notin Checks
  <2>1. told' = told /\ answer' = "no" /\ registry' = registry
    BY <1>1, <1>4, <1>5, <1>8 DEF EndStage
  <2>2. Reader(kind) /\ kind # "ast"
    BY <1>1, <1>2, <1>5, <1>8 DEF EventInv, Checks
  <2>3. kind \in {"toks", "pp-toks"} /\ Captures(kind)
    BY <2>2 DEF Reader
  <2>. QED  BY <1>1, <1>2, <1>3, <1>5, <1>8, <2>1, <2>3 DEF EventInv, EventType, Unanswered, Captures
<1>9. CASE e = 0
  <2>1. told' = [told EXCEPT ![kind] = "end"] /\ registry' = registry \cup {kind}
    BY <1>1, <1>4, <1>5, <1>9 DEF EndStage
  <2>2. /\ told' \in [MakesOutput -> {"nothing", "start", "finish", "end"}]
        /\ \A k \in MakesOutput : told'[k] = IF k = kind THEN "end" ELSE told[k]
    BY <2>1, <1>6
  <2>. QED  BY <1>2, <1>3, <1>5, <1>9, <2>1, <2>2 DEF EventInv, EventType, Unanswered
<1>. QED  BY <1>5, <1>7, <1>8, <1>9

LEMMA EventInvStep == EventInv /\ [Next]_vars => EventInv'
<1>. SUFFICES ASSUME EventInv, [Next]_vars PROVE EventInv'
  OBVIOUS
<1>1. CASE RunPipeline
  <2>1. phase = "pipeline" /\ phase' = phase /\ PipelineNext
    BY <1>1 DEF RunPipeline, driverVars
  <2>2. \/ RequestInput \/ RequestHit \/ RequestUnknown \/ StartStage
        \/ PullPreproc \/ PullLexer \/ LexToken \/ TakeReplayed \/ ReturnToken \/ ReadReplayed
        \/ BeginSubstage \/ FinishSubstage \/ EndStage
    BY <2>1 DEF PipelineNext
  <2>. QED  BY <2>1, <2>2, EventInvRequests, EventInvReading, EventInvEnd
<1>2. CASE UNCHANGED vars
  <2>1. UNCHANGED eventVars
    BY <1>2 DEF vars, driverVars, pipeVars, eventVars
  <2>. QED  BY <2>1, EventInvStutter
<1>. QED  BY <1>1, <1>2, EventInvDriver DEF Next

\* The events of a run and what they say of the artifacts, the errors and the
\* requests (Running, elc_pipeline_request, the check after execute).
THEOREM EventsInvariant == Spec => []EventInv
<1>. QED  BY EventInvInit, EventInvStep, PTL DEF Spec

LEMMA PairedEvents == EventInv => EventsPaired
<1>. SUFFICES ASSUME EventInv, executing = None PROVE EventsPaired
  BY DEF EventsPaired
<1>. DEFINE open == {k \in MakesOutput : told[k] \in {"start", "finish"}}
<1>1. Cardinality(open) <= 1
  <2>1. CASE open = {}
    BY <2>1, FS_EmptySet
  <2>2. CASE open # {}
    <3>1. PICK k : k \in open
      BY <2>2
    <3>2. open = {k}
      BY <3>1, Zenon DEF EventInv, Unanswered
    <3>. QED  BY <3>2, FS_Singleton
  <2>. QED  BY <2>1, <2>2
<1>2. ASSUME NEW k \in MakesOutput
      PROVE  /\ told[k] = "start" => /\ k \in {"toks", "pp-toks"} /\ Captures(k)
                                    /\ errors > 0 /\ answer = "no"
             /\ told[k] = "finish" => errors > 0 /\ answer = "no"
             /\ phase # "exited" => (told[k] = "end" <=> k \in registry)
  BY KindFacts DEF EventInv
<1>. QED  BY <1>1, <1>2 DEF EventsPaired

\* Every announcement of a stage is answered before anything else is requested:
\* at most one stage is left without its END, only after a failed run, and END
\* came with the artifact.
THEOREM EventsArePaired == Spec => []EventsPaired
<1>. QED  BY EventsInvariant, PairedEvents, PTL

-----------------------------------------------------------------------------
(* The active stage.                                                       *)

Calls == [stage : Stages, previous : Stages \cup {NoStage}, depth : Nat]

ProfType ==
    /\ prof \in Profilers
    /\ clock \in Nat
    /\ calls \in Seq(Calls)

\* The calls in progress: a stage that captures its own stream, or the parser,
\* reads the preprocessor or the lexer, the preprocessor reads the lexer.
CallInv ==
    /\ Len(calls) <= 2
    /\ calls # <<>> =>
          /\ calls[1].stage = IF executing = "toks" THEN "Lexer" ELSE "Preprocessor"
          /\ Timed => calls[1].previous = StageOf(executing).name
    /\ Len(calls) = 2 =>
          /\ executing # "toks" /\ calls[2].stage = "Lexer"
          /\ Timed => calls[2].previous = "Preprocessor"

\* The stage a captured stream left active, with its own timer stopped.
LeftActive == \E k \in {"toks", "pp-toks"} :
                 Captures(k) /\ told[k] = "end" /\ prof.active = StageOf(k).name

\* The active stage is the one whose code runs, and the stage that executes has its
\* own timer running unless it has captured its stream.
ActiveInv ==
    /\ ~Timed => prof = ProfInit
    /\ prof.failed => LeftActive
    /\ Timed /\ ~prof.failed =>
          /\ executing # None =>
                /\ prof.active = Owner
                /\ \/ executing \in {"toks", "pp-toks"} /\ Captures(executing)
                   \/ prof.stages[StageOf(executing).name].running
          /\ executing = None /\ answer = "pending" /\ prof.active # NoStage => LeftActive

ProfInv == ProfType /\ CallInv /\ ActiveInv

profVars == <<args, answer, executing, told, calls, prof, clock>>

LEMMA ProfInvInit == Init => ProfInv
<1>. SUFFICES ASSUME Init PROVE ProfInv
  OBVIOUS
<1>1. /\ prof = ProfInit /\ calls = <<>> /\ executing = None /\ clock = 0
  BY DEF Init, InitPipeline
<1>2. ProfType
  BY <1>1, ProfInitType, EmptySeq DEF ProfType
<1>3. prof.active = NoStage /\ ~prof.failed
  BY <1>1 DEF ProfInit
<1>. QED  BY <1>1, <1>2, <1>3, EmptySeq DEF ProfInv, CallInv, ActiveInv

LEMMA ProfInvStutter == ProfInv /\ UNCHANGED profVars => ProfInv'
  BY DEF profVars, ProfInv, ProfType, CallInv, ActiveInv, LeftActive, Owner, Timed, Captures

\* Nothing has run: the profiler is as it was made.
LEMMA ProfInvUnstarted ==
    ASSUME ProfInv, Unstarted, Unstarted', clock' = clock
    PROVE  ProfInv'
<1>1. /\ prof' = ProfInit /\ calls' = <<>> /\ executing' = None
  BY DEF Unstarted
<1>2. ProfType'
  BY <1>1, ProfInitType, EmptySeq DEF ProfInv, ProfType
<1>3. prof'.active = NoStage /\ ~prof'.failed
  BY <1>1 DEF ProfInit
<1>. QED  BY <1>1, <1>2, <1>3, EmptySeq DEF ProfInv, CallInv, ActiveInv

\* Nothing of what ActiveInv reads moves when the pipeline does not execute.
LEMMA ProfInvAside ==
    ASSUME ProfInv, EventInv,
           ReadArgument \/ EndArguments \/ OpenSource \/ WriteOutput \/ PrintReports
              \/ Cleanup \/ Abort \/ Stopped \/ RequestInput \/ RequestHit \/ RequestUnknown
    PROVE  ProfInv'
<1>1. CASE ReadArgument \/ Stopped \/ OpenSource \/ WriteOutput \/ PrintReports \/ Cleanup \/ Abort
              \/ RequestInput
  <2>1. UNCHANGED profVars
    BY <1>1 DEF ReadArgument, Stopped, OpenSource, WriteOutput, PrintReports, Cleanup, Abort,
                RequestInput, vars, driverVars, pipeVars, profVars
  <2>. QED  BY <2>1, ProfInvStutter
<1>2. CASE EndArguments
  <2>1. /\ Unstarted
        /\ UNCHANGED <<registry, requests, answer, executing, told, errors, calls, prof, clock>>
    BY <1>2 DEF EndArguments, EventInv
  <2>2. Unstarted'
    BY <2>1 DEF Unstarted
  <2>. QED  BY <2>1, <2>2, ProfInvUnstarted
<1>3. CASE RequestHit \/ RequestUnknown
  <2>1. executing = None /\ answer = "pending" /\ UNCHANGED <<args, executing, told, calls, prof, clock>>
    BY <1>3 DEF RequestHit, RequestUnknown, Running
  <2>2. UNCHANGED <<Timed, Owner>> /\ (LeftActive <=> LeftActive')
    BY <2>1 DEF Timed, Owner, LeftActive, Captures
  <2>. QED  BY <2>1, <2>2 DEF ProfInv, ProfType, CallInv, ActiveInv
<1>. QED  BY <1>1, <1>2, <1>3

\* A stage starts: if another one is active, the run ends here.
LEMMA ProfInvStart ==
    ASSUME ProfInv, EventInv, phase = "pipeline", StartStage
    PROVE  ProfInv'
<1>1. PICK kind : kind = Wanted
  OBVIOUS
<1>2. PICK s : s = StageOf(kind).name
  OBVIOUS
<1>3. /\ executing = None /\ answer = "pending" /\ ~prof.failed
      /\ kind \in MakesOutput /\ kind \notin registry
      /\ told' = [told EXCEPT ![kind] = "start"] /\ executing' = kind
      /\ UNCHANGED <<args, answer, calls>>
      /\ prof' = IF Timed THEN ProfBegin(prof, clock, s) ELSE prof
      /\ clock' = IF Timed THEN clock + 1 ELSE clock
  BY <1>1, <1>2 DEF StartStage, Running, ProfCall, Tick
<1>4. s \in Stages /\ kind # None
  BY <1>2, <1>3, StagesAssumption, KindFacts
<1>5. calls = <<>> /\ calls' = <<>>
  BY <1>3 DEF EventInv
<1>6. clock' \in Nat /\ clock \in Int
  BY <1>3 DEF ProfInv, ProfType
<1>7. UNCHANGED Timed
  BY <1>3 DEF Timed
<1>8. CASE ~Timed
  BY <1>3, <1>4, <1>5, <1>6, <1>7, <1>8 DEF ProfInv, ProfType, CallInv, ActiveInv, ProfInit, NoStage
<1>9. CASE Timed
  <2>1. prof' = ProfBegin(prof, clock, s) /\ prof \in Profilers
    BY <1>3, <1>9 DEF ProfInv, ProfType
  <2>2. prof' \in Profilers
    BY <1>4, <1>6, <2>1, ProfBeginFacts
  <2>3. CASE prof.active = NoStage
    <3>1. ~prof'.failed /\ prof'.active = s /\ prof'.stages[s].running
      <4>1. /\ prof'.failed = prof.failed /\ prof'.active = s
            /\ prof'.stages[s] = [start |-> clock, total |-> 0, running |-> TRUE]
        BY <1>4, <1>6, <2>1, <2>3, ProfBeginFacts
      <4>. QED  BY <1>3, <4>1
    <3>2. Owner' = s
      BY <1>2, <1>3, <1>5 DEF Owner
    <3>. QED  BY <1>2, <1>3, <1>4, <1>5, <1>6, <1>7, <1>9, <2>2, <3>1, <3>2, EmptySeq
              DEF ProfInv, ProfType, CallInv, ActiveInv
  <2>4. CASE prof.active # NoStage
    <3>1. prof'.failed /\ prof'.active = prof.active
      BY <1>4, <1>6, <2>1, <2>4, ProfBeginFacts, ZenonT(60)
    <3>2. LeftActive
      BY <1>3, <1>9, <2>4 DEF ProfInv, ActiveInv
    <3>3. PICK k \in {"toks", "pp-toks"} : Captures(k) /\ told[k] = "end" /\ prof.active = StageOf(k).name
      BY <3>2 DEF LeftActive
    <3>4. k \in MakesOutput /\ k # kind
      BY <1>3, <3>3, KindFacts DEF EventInv
    <3>5. told'[k] = "end"
      BY <1>3, <3>3, <3>4 DEF EventInv, EventType
    <3>6. LeftActive'
      BY <1>3, <3>1, <3>3, <3>5 DEF LeftActive, Captures
    <3>. QED  BY <1>5, <1>6, <1>7, <1>9, <2>2, <3>1, <3>6, EmptySeq
              DEF ProfInv, ProfType, CallInv, ActiveInv
  <2>. QED  BY <2>3, <2>4
<1>. QED  BY <1>8, <1>9

LEMMA FramesOpen ==
    ASSUME calls \in Seq(Calls), Depth > Base
    PROVE  prof.frames # <<>>
<1>1. Base \in Nat
  <2>1. CASE calls = <<>>
    BY <2>1 DEF Base
  <2>2. CASE calls # <<>>
    <3>1. Len(calls) \in 1 .. Len(calls)
      BY <2>2, SeqLen
    <3>2. calls[Len(calls)] \in Calls
      BY <3>1, ElementOfSeq
    <3>. QED  BY <2>2, <3>2 DEF Base, Calls
  <2>. QED  BY <2>1, <2>2
<1>. QED  BY <1>1, EmptySeq DEF Depth

\* The steps that neither start a stage nor move between stages.
LEMMA ProfInvInside ==
    ASSUME ProfInv, EventInv, TakeReplayed \/ ReadReplayed \/ BeginSubstage \/ FinishSubstage
    PROVE  ProfInv'
<1>1. /\ UNCHANGED <<args, answer, executing, told, calls>>
      /\ executing # None
      /\ ~prof.failed
      /\ clock' = IF Timed THEN clock + 1 ELSE clock
  <2>1. CASE TakeReplayed
    BY <2>1 DEF TakeReplayed, Running, Tick, InCall, EventInv
  <2>2. CASE ReadReplayed
    BY <2>2, KindFacts DEF ReadReplayed, Running, Tick, None
  <2>3. CASE BeginSubstage \/ FinishSubstage
    BY <2>3 DEF BeginSubstage, FinishSubstage, Running, Tick
  <2>. QED  BY <2>1, <2>2, <2>3
<1>2. clock \in Int /\ clock' \in Nat /\ prof \in Profilers /\ calls \in Seq(Calls)
  BY <1>1 DEF ProfInv, ProfType
<1>3. /\ prof' \in Profilers /\ (~Timed => prof' = prof)
      /\ prof'.active = prof.active /\ prof'.stages = prof.stages /\ prof'.failed = prof.failed
  <2>1. CASE TakeReplayed \/ ReadReplayed \/ ~Timed
    <3>1. prof' = prof
      BY <2>1 DEF TakeReplayed, ReadReplayed, BeginSubstage, FinishSubstage, ProfCall
    <3>. QED  BY <1>2, <3>1
  <2>2. CASE BeginSubstage /\ Timed
    <3>1. PICK b \in Substages : b.pstage = Owner /\ prof' = BeginSub(prof, clock, b)
      BY <2>2 DEF BeginSubstage, ProfCall
    <3>2. b.pstage = prof.active
      BY <1>1, <2>2, <3>1 DEF ProfInv, ActiveInv
    <3>. QED  BY <1>2, <2>2, <3>1, <3>2, BeginSubFacts
  <2>3. CASE FinishSubstage /\ Timed
    <3>1. /\ Depth > Base
          /\ prof' = FinishSub(prof, clock, prof.frames[Len(prof.frames)].sub)
      BY <2>3 DEF FinishSubstage, ProfCall, Depth
    <3>3. prof.frames # <<>>
      BY <1>2, <3>1, FramesOpen
    <3>. QED  BY <1>2, <2>3, <3>1, <3>3, FinishSubFacts
  <2>. QED  BY <2>1, <2>2, <2>3
<1>4. UNCHANGED <<Timed, Owner>> /\ (LeftActive <=> LeftActive')
  BY <1>1, <1>3 DEF Timed, Owner, LeftActive, Captures
<1>. QED  BY <1>1, <1>2, <1>3, <1>4 DEF ProfInv, ProfType, CallInv, ActiveInv, Captures

\* A call enters the stage it is made to.
LEMMA CallEntered ==
    ASSUME ProfInv, NEW stage \in Stages, EnterCall(stage)
    PROVE  /\ ProfType'
           /\ calls' = Append(calls, [stage |-> stage, previous |-> prof.active, depth |-> Depth])
           /\ ~Timed => prof' = prof
           /\ Timed => /\ prof'.active = stage /\ prof'.failed = prof.failed
                       /\ \A t \in Stages : prof.stages[t].running => prof'.stages[t].running
<1>1. /\ clock \in Int /\ prof \in Profilers /\ calls \in Seq(Calls) /\ clock' \in Nat
      /\ calls' = Append(calls, [stage |-> stage, previous |-> prof.active, depth |-> Depth])
      /\ prof' = IF Timed THEN EnterStage(prof, clock, stage) ELSE prof
  BY DEF EnterCall, Tick, ProfCall, ProfInv, ProfType
<1>2. [stage |-> stage, previous |-> prof.active, depth |-> Depth] \in Calls
  <2>1. Depth \in Nat /\ prof.active \in Stages \cup {NoStage}
    BY <1>1, LenProperties DEF Depth, Profilers
  <2>. QED  BY <2>1 DEF Calls
<1>3. calls' \in Seq(Calls)
  BY <1>1, <1>2, AppendProperties
<1>4. CASE Timed
  <2>1. /\ prof' \in Profilers /\ prof'.active = stage /\ prof'.failed = prof.failed
        /\ prof'.stages[stage] = Resumed(prof.stages[stage], clock)
        /\ \A t \in Stages \ {stage} : prof'.stages[t] = prof.stages[t]
    BY <1>1, <1>4, EnterStageFacts
  <2>2. prof'.stages[stage].running
    BY <2>1 DEF Resumed
  <2>3. \A t \in Stages : prof.stages[t].running => prof'.stages[t].running
    BY <2>1, <2>2
  <2>. QED  BY <1>1, <1>3, <1>4, <2>1, <2>3 DEF ProfType
<1>5. CASE ~Timed
  BY <1>1, <1>3, <1>5 DEF ProfType
<1>. QED  BY <1>4, <1>5

\* The end of a call gives the active place back, and stops the stage called.
LEMMA CallLeft ==
    ASSUME ProfInv, calls # <<>>, LeaveCall
    PROVE  /\ ProfType'
           /\ Len(calls') = Len(calls) - 1
           /\ \A i \in 1 .. Len(calls) - 1 : calls'[i] = calls[i]
           /\ ~Timed => prof' = prof
           /\ Timed => /\ prof'.active = calls[Len(calls)].previous /\ prof'.failed = prof.failed
                       /\ \A t \in Stages \ {prof.active} : prof'.stages[t] = prof.stages[t]
<1>1. PICK n : n = Len(calls)
  OBVIOUS
<1>2. /\ clock \in Int /\ prof \in Profilers /\ calls \in Seq(Calls) /\ clock' \in Nat
      /\ calls' = SubSeq(calls, 1, n - 1)
      /\ prof' = IF Timed THEN LeaveStage(prof, clock, calls[n].previous) ELSE prof
  BY <1>1 DEF LeaveCall, Tick, ProfCall, ProfInv, ProfType
<1>3. n \in Nat /\ n # 0
  BY <1>1, <1>2, SeqLen
<1>4. calls[n] \in Calls
  BY <1>1, <1>2, <1>3, ElementOfSeq
<1>5. calls' \in Seq(Calls) /\ Len(calls') = n - 1 /\ \A i \in 1 .. n - 1 : calls'[i] = calls[i]
  <2>1. \A i \in 1 .. n - 1 : calls[i] \in Calls
    BY <1>1, <1>2, <1>3, ElementOfSeq
  <2>. QED  BY <1>2, <1>3, <2>1, SubSeqProperties
<1>6. CASE Timed
  <2>1. calls[n].previous \in Stages \cup {NoStage}
    BY <1>4 DEF Calls
  <2>2. /\ prof' \in Profilers /\ prof'.active = calls[n].previous /\ prof'.failed = prof.failed
        /\ \A t \in Stages \ {prof.active} : prof'.stages[t] = prof.stages[t]
    BY <1>2, <1>6, <2>1, LeaveStageFacts
  <2>. QED  BY <1>1, <1>2, <1>5, <1>6, <2>2 DEF ProfType
<1>7. CASE ~Timed
  BY <1>1, <1>2, <1>5, <1>7 DEF ProfType
<1>. QED  BY <1>6, <1>7

\* A stage that is executing and makes calls is one of the three readers.
LEMMA ProfInvCalls ==
    ASSUME ProfInv, EventInv, PullPreproc \/ PullLexer
    PROVE  ProfInv'
<1>1. /\ UNCHANGED <<args, answer, executing, told>> /\ ~prof.failed
      /\ executing # None
  <2>1. CASE PullPreproc
    BY <2>1 DEF PullPreproc, Running, None
  <2>2. CASE PullLexer
    BY <2>2 DEF PullLexer, Running, None, InCall, EventInv
  <2>. QED  BY <2>1, <2>2
<1>2. PICK stage \in Stages : /\ EnterCall(stage)
                              /\ \/ stage = "Preprocessor" /\ calls = <<>> /\ executing # "toks"
                                 \/ stage = "Lexer" /\ calls = <<>> /\ executing = "toks"
                                 \/ stage = "Lexer" /\ InCall("Preprocessor")
                              /\ calls = <<>> => executing = "ast" \/ (Captures(executing) /\ executing \in {"toks", "pp-toks"})
  <2>1. CASE PullPreproc
    <3>1. /\ EnterCall("Preprocessor") /\ calls = <<>> /\ executing # "toks"
          /\ executing = "ast" \/ (Captures(executing) /\ executing \in {"toks", "pp-toks"})
      BY <2>1 DEF PullPreproc, Captures
    <3>. QED  BY <3>1, StageNames
  <2>2. CASE PullLexer
    BY <2>2, StageNames DEF PullLexer, InCall
  <2>. QED  BY <2>1, <2>2
<1>3. /\ ProfType'
      /\ calls' = Append(calls, [stage |-> stage, previous |-> prof.active, depth |-> Depth])
      /\ ~Timed => prof' = prof
      /\ Timed => /\ prof'.active = stage /\ prof'.failed = prof.failed
                  /\ \A t \in Stages : prof.stages[t].running => prof'.stages[t].running
  BY <1>2, CallEntered
<1>4. calls \in Seq(Calls) /\ Len(calls) \in Nat
  BY LenProperties DEF ProfInv, ProfType
<1>5. PICK new : new = [stage |-> stage, previous |-> prof.active, depth |-> Depth]
  OBVIOUS
<1>6. new \in Calls
  <2>1. Depth \in Nat /\ prof.active \in Stages \cup {NoStage}
    BY LenProperties DEF Depth, Profilers, ProfInv, ProfType
  <2>. QED  BY <1>5, <2>1 DEF Calls
<1>7. /\ Len(calls') = Len(calls) + 1 /\ calls' # <<>>
      /\ \A i \in 1 .. Len(calls) : calls'[i] = calls[i]
      /\ calls'[Len(calls) + 1] = new
  BY <1>3, <1>4, <1>5, <1>6, AppendProperties
<1>8. Owner' = stage
  BY <1>5, <1>7 DEF Owner
<1>9. UNCHANGED Timed
  BY <1>1 DEF Timed
<1>10. Timed => prof.active = Owner
  BY <1>1 DEF ProfInv, ActiveInv
<1>11. CallInv'
  <2>1. CASE calls = <<>>
    <3>1. Len(calls) = 0 /\ Len(calls') = 1 /\ calls'[1] = new
      BY <1>7, <2>1, EmptySeq
    <3>2. Timed => new.previous = StageOf(executing).name
      BY <1>5, <1>10, <2>1 DEF Owner
    <3>. QED  BY <1>1, <1>2, <1>5, <1>9, <2>1, <3>1, <3>2 DEF CallInv, InCall
  <2>2. CASE calls # <<>>
    <3>1. stage = "Lexer" /\ calls[Len(calls)].stage = "Preprocessor"
      BY <1>2, <2>2 DEF InCall
    <3>2. Len(calls) = 1 /\ executing # "toks"
      <4>0. Len(calls) <= 2 /\ Len(calls) # 0
        BY <1>4, <2>2, SeqLen DEF ProfInv, CallInv
      <4>1. Len(calls) \in {1, 2}
        <5>1. PICK n : n = Len(calls)
          OBVIOUS
        <5>2. n \in Nat /\ n <= 2 /\ n # 0
          BY <1>4, <4>0, <5>1
        <5>. QED  BY ONLY <5>1, <5>2
      <4>2. Len(calls) # 2
        BY <2>2, <3>1 DEF ProfInv, CallInv
      <4>. QED  BY <2>2, <3>1, <4>1, <4>2 DEF ProfInv, CallInv
    <3>3. Len(calls') = 2 /\ calls'[1] = calls[1] /\ calls'[2] = new
      BY <1>7, <3>2
    <3>4. Timed => new.previous = "Preprocessor"
      BY <1>5, <1>10, <2>2, <3>1 DEF Owner
    <3>. QED  BY <1>1, <1>5, <1>7, <1>9, <2>2, <3>1, <3>2, <3>3, <3>4 DEF CallInv, ProfInv
  <2>. QED  BY <2>1, <2>2
<1>12. (executing \in {"toks", "pp-toks"} /\ Captures(executing)) \/ executing = "ast"
  BY <1>1, <1>2 DEF EventInv, Reader
<1>13. ActiveInv'
  <2>1. CASE ~Timed
    BY <1>1, <1>3, <1>9, <2>1 DEF ProfInv, ActiveInv, ProfInit
  <2>2. CASE Timed
    <3>1. prof'.active = Owner' /\ ~prof'.failed
      BY <1>1, <1>3, <1>8, <2>2
    <3>2. \/ executing \in {"toks", "pp-toks"} /\ Captures(executing)
          \/ prof.stages[StageOf(executing).name].running
      BY <1>1, <2>2 DEF ProfInv, ActiveInv
    <3>3. \/ executing \in {"toks", "pp-toks"} /\ Captures(executing)
          \/ prof'.stages[StageOf(executing).name].running
      BY <1>3, <1>12, <2>2, <3>2, StageNames
    <3>. QED  BY <1>1, <1>9, <2>2, <3>1, <3>3 DEF ActiveInv, Captures
  <2>. QED  BY <2>1, <2>2
<1>. QED  BY <1>3, <1>11, <1>13 DEF ProfInv

LEMMA ProfInvReturns ==
    ASSUME ProfInv, EventInv, LexToken \/ ReturnToken
    PROVE  ProfInv'
<1>1. /\ UNCHANGED <<args, answer, executing, told>> /\ ~prof.failed
      /\ calls # <<>> /\ LeaveCall
  <2>1. CASE LexToken
    BY <2>1 DEF LexToken, Running, InCall
  <2>2. CASE ReturnToken
    BY <2>2 DEF ReturnToken, Running, InCall
  <2>. QED  BY <2>1, <2>2
<1>2. executing # None
  BY <1>1 DEF EventInv
<1>3. PICK n : n = Len(calls)
  OBVIOUS
<1>4. /\ ProfType'
      /\ Len(calls') = n - 1
      /\ \A i \in 1 .. n - 1 : calls'[i] = calls[i]
      /\ ~Timed => prof' = prof
      /\ Timed => /\ prof'.active = calls[n].previous /\ prof'.failed = prof.failed
                  /\ \A t \in Stages \ {prof.active} : prof'.stages[t] = prof.stages[t]
  BY <1>1, <1>3, CallLeft
<1>5. n \in {1, 2} /\ calls' \in Seq(Calls)
  <2>1. n \in Nat /\ n # 0
    BY <1>1, <1>3, SeqLen DEF ProfInv, ProfType
  <2>2. n <= 2
    BY <1>3 DEF ProfInv, CallInv
  <2>. QED  BY <1>4, <2>1, <2>2 DEF ProfType
<1>6. UNCHANGED Timed
  BY <1>1 DEF Timed
<1>7. (n = 1 => calls' = <<>>) /\ (n = 2 => calls' # <<>> /\ Len(calls') = 1 /\ calls'[1] = calls[1])
  BY <1>4, <1>5, SeqLen
<1>8. CallInv'
  <2>1. Len(calls') <= 2 /\ Len(calls') # 2
    BY <1>4, <1>5
  <2>. QED  BY <1>1, <1>5, <1>6, <1>7, <2>1 DEF CallInv, ProfInv
<1>9. ActiveInv'
  <2>1. CASE ~Timed
    BY <1>1, <1>4, <1>6, <2>1 DEF ProfInv, ActiveInv, ProfInit
  <2>2. CASE Timed
    <3>1. calls[n].previous = Owner'
      <4>1. CASE n = 1
        BY <1>1, <1>3, <1>7, <2>2, <4>1 DEF ProfInv, CallInv, Owner
      <4>2. CASE n = 2
        BY <1>1, <1>3, <1>7, <2>2, <4>2 DEF ProfInv, CallInv, Owner
      <4>. QED  BY <1>5, <4>1, <4>2
    <3>2. prof'.active = Owner' /\ ~prof'.failed
      BY <1>1, <1>4, <2>2, <3>1
    <3>3. (executing \in {"toks", "pp-toks"} /\ Captures(executing)) \/ executing = "ast"
      BY <1>1 DEF EventInv, Reader
    <3>4. prof.active \in {"Lexer", "Preprocessor"}
      <4>1. prof.active = Owner
        BY <1>1, <1>2, <2>2 DEF ProfInv, ActiveInv
      <4>. QED  BY <1>1, <1>3, <1>5, <4>1 DEF Owner, ProfInv, CallInv
    <3>5. \/ executing \in {"toks", "pp-toks"} /\ Captures(executing)
          \/ prof.stages[StageOf(executing).name].running
      BY <1>1, <1>2, <2>2 DEF ProfInv, ActiveInv
    <3>6. \/ executing \in {"toks", "pp-toks"} /\ Captures(executing)
          \/ prof'.stages[StageOf(executing).name].running
      BY <1>4, <2>2, <3>3, <3>4, <3>5, StageNames
    <3>. QED  BY <1>1, <1>2, <1>6, <2>2, <3>2, <3>6 DEF ActiveInv, Captures
  <2>. QED  BY <2>1, <2>2
<1>. QED  BY <1>4, <1>8, <1>9 DEF ProfInv

\* The end of a stage stops its timer; the timer of one that captured its stream
\* was stopped by the last call, and the stage stays active.
LEMMA ProfInvEnd ==
    ASSUME ProfInv, EventInv, EndStage
    PROVE  ProfInv'
<1>1. PICK kind : kind = executing
  OBVIOUS
<1>2. PICK s : s = StageOf(kind).name
  OBVIOUS
<1>3. /\ answer = "pending" /\ kind # None /\ calls = <<>> /\ executing' = None /\ ~prof.failed
      /\ UNCHANGED <<args, calls>>
      /\ clock' = IF Timed THEN clock + 1 ELSE clock
  BY <1>1 DEF EndStage, Running, Tick
<1>4. kind \in MakesOutput /\ s \in Stages
  BY <1>1, <1>2, <1>3, StagesAssumption DEF EventInv, EventType
<1>5. clock \in Int /\ clock' \in Nat /\ prof \in Profilers /\ calls' \in Seq(Calls)
  BY <1>3 DEF ProfInv, ProfType
<1>6. UNCHANGED Timed
  BY <1>3 DEF Timed
<1>7. \/ prof' = prof /\ answer' = "no"
      \/ /\ answer' = "no" \/ told' = [told EXCEPT ![kind] = "end"]
         /\ prof' = IF Timed THEN TimerFinish(kind) ELSE prof
  BY <1>1 DEF EndStage, ProfCall
<1>8. CallInv'
  BY <1>3, EmptySeq DEF CallInv
<1>9. CASE ~Timed
  <2>1. prof' = prof /\ prof = ProfInit
    BY <1>7, <1>9 DEF ProfInv, ActiveInv
  <2>. QED  BY <1>5, <1>6, <1>8, <1>9, <2>1 DEF ProfInv, ProfType, ActiveInv, ProfInit
<1>10. CASE Timed
  <2>1. /\ prof.active = s
        /\ (kind \in {"toks", "pp-toks"} /\ Captures(kind)) \/ prof.stages[s].running
    BY <1>1, <1>2, <1>3, <1>10 DEF ProfInv, ActiveInv, Owner
  <2>2. CASE prof' = prof /\ answer' = "no"
    BY <1>3, <1>5, <1>6, <1>8, <1>10, <2>2 DEF ProfInv, ProfType, ActiveInv
  <2>3. CASE /\ answer' = "no" \/ told' = [told EXCEPT ![kind] = "end"]
             /\ prof' = TimerFinish(kind)
    <3>1. prof' = FinishStage(prof, clock, s)
      BY <1>2, <2>1, <2>3 DEF TimerFinish
    <3>2. /\ prof' \in Profilers /\ prof'.failed = prof.failed
          /\ ~prof.stages[s].running => prof' = prof
          /\ prof.stages[s].running => prof'.active = NoStage
      BY <1>4, <1>5, <2>1, <3>1, FinishStageFacts
    <3>3. told' = [told EXCEPT ![kind] = "end"] /\ ~prof.stages[s].running => LeftActive'
      <4>1. SUFFICES ASSUME told' = [told EXCEPT ![kind] = "end"], ~prof.stages[s].running
                     PROVE  LeftActive'
        OBVIOUS
      <4>2. told'[kind] = "end" /\ prof'.active = s
        BY <1>4, <2>1, <3>2, <4>1 DEF EventInv, EventType
      <4>3. kind \in {"toks", "pp-toks"} /\ kind \in args.dumps /\ args' = args
        BY <1>3, <2>1, <4>1 DEF Captures
      <4>. QED  BY <1>2, <4>2, <4>3 DEF LeftActive, Captures
    <3>. QED  BY <1>3, <1>5, <1>6, <1>8, <1>10, <2>3, <3>2, <3>3 DEF ProfInv, ProfType, ActiveInv
  <2>. QED  BY <1>7, <1>10, <2>2, <2>3
<1>. QED  BY <1>9, <1>10

LEMMA ProfInvStep == ProfInv /\ EventInv /\ [Next]_vars => ProfInv'
<1>. SUFFICES ASSUME ProfInv, EventInv, [Next]_vars PROVE ProfInv'
  OBVIOUS
<1>1. CASE RunPipeline
  <2>1. phase = "pipeline" /\ PipelineNext
    BY <1>1 DEF RunPipeline
  <2>2. \/ RequestInput \/ RequestHit \/ RequestUnknown \/ StartStage
        \/ PullPreproc \/ PullLexer \/ LexToken \/ TakeReplayed \/ ReturnToken \/ ReadReplayed
        \/ BeginSubstage \/ FinishSubstage \/ EndStage
    BY <2>1 DEF PipelineNext
  <2>. QED  BY <2>1, <2>2, ProfInvAside, ProfInvStart, ProfInvInside, ProfInvCalls, ProfInvReturns, ProfInvEnd
<1>2. CASE UNCHANGED vars
  <2>1. UNCHANGED profVars
    BY <1>2 DEF vars, pipeVars, profVars
  <2>. QED  BY <2>1, ProfInvStutter
<1>. QED  BY <1>1, <1>2, ProfInvAside DEF Next

\* The active stage of the profiler is the one whose code runs, across the lazy
\* pulls of the streams (el_prof_enter_stage, el_prof_leave_stage).
THEOREM ActiveStageInvariant == Spec => []ProfInv
<1>. QED  BY ProfInvInit, ProfInvStep, EventsInvariant, PTL DEF Spec

LEMMA AbortCause == ProfInv => AbortsOnlyCaptured
  BY DEF ProfInv, ActiveInv, LeftActive, AbortsOnlyCaptured

\* An assertion of the profiler fails only behind a stage that captured its own
\* stream (el_prof_begin after leave_stage has stopped the timer).
THEOREM AbortsAreCaptured == Spec => []AbortsOnlyCaptured
<1>. QED  BY ActiveStageInvariant, AbortCause, PTL

-----------------------------------------------------------------------------
(* Sums over a finite set.                                                 *)

LEMMA SmallestOf ==
    ASSUME NEW T \in SUBSET Nat, T # {}
    PROVE  \E m \in T : \A n \in T : m <= n
<1>1. PICK m \in T : \A y \in T : ~ (<<y, m>> \in OpToRel(<, Nat))
  BY Zenon, NatLessThanWellFounded, WFMin
<1>2. \A y \in T : ~(y < m)
  BY <1>1 DEF OpToRel
<1>. QED  BY <1>2

Choice(s) == CHOOSE x \in s : TRUE
Fewer(s) == s \ {Choice(s)}

LEMMA ChoiceFacts ==
    ASSUME NEW s, s # {}
    PROVE  Choice(s) \in s /\ Fewer(s) \subseteq s
  BY DEF Choice, Fewer

\* The recursive function behind MapThenSumSet.
Summing(f, g, S) ==
    f = [s \in SUBSET S |-> IF s = {} THEN 0 ELSE g[Choice(s)] + f[Fewer(s)]]

\* What a set loses no element of without being empty is empty.
LEMMA Fewest ==
    ASSUME NEW S, IsFiniteSet(S), NEW T \in SUBSET (SUBSET S),
           {} \notin T, \A s \in T : Fewer(s) \in T
    PROVE  T = {}
<1>1. SUFFICES ASSUME T # {} PROVE FALSE
  OBVIOUS
<1>. DEFINE sizes == {n \in Nat : \E s \in T : Cardinality(s) = n}
<1>2. \A s \in T : IsFiniteSet(s) /\ Cardinality(s) \in Nat
  BY FS_Subset, FS_CardinalityType
<1>3. sizes \in SUBSET Nat /\ sizes # {}
  BY <1>1, <1>2
<1>4. PICK n \in sizes : \A m \in sizes : n <= m
  BY <1>3, SmallestOf
<1>5. PICK s \in T : Cardinality(s) = n
  BY <1>4
<1>6. Choice(s) \in s
  BY <1>5, ChoiceFacts
<1>7. Cardinality(Fewer(s)) = n - 1
  BY <1>2, <1>5, <1>6, FS_RemoveElement DEF Fewer
<1>8. Fewer(s) \in T /\ n - 1 \in Nat
  BY <1>2, <1>5, <1>7
<1>9. n - 1 \in sizes
  BY <1>7, <1>8
<1>. QED  BY <1>4, <1>9

LEMMA SumsExist ==
    ASSUME NEW S, IsFiniteSet(S), NEW g \in [S -> Int]
    PROVE  \E f \in [SUBSET S -> Int] : Summing(f, g, S)
<1>. DEFINE Upto(f, n) == /\ f[{}] = 0
                          /\ \A s \in SUBSET S : s # {} /\ Cardinality(s) <= n
                                                    => f[s] = g[Choice(s)] + f[Fewer(s)]
            T == {n \in Nat : ~ \E f \in [SUBSET S -> Int] : Upto(f, n)}
<1>1. \A s \in SUBSET S : IsFiniteSet(s) /\ Cardinality(s) \in Nat /\ Cardinality(s) <= Cardinality(S)
  BY FS_Subset, FS_CardinalityType
<1>2. \A s \in SUBSET S : s # {} => /\ Choice(s) \in S /\ g[Choice(s)] \in Int /\ Fewer(s) \in SUBSET S
                                    /\ Cardinality(Fewer(s)) = Cardinality(s) - 1
  <2>1. ASSUME NEW s \in SUBSET S, s # {}
        PROVE  /\ Choice(s) \in S /\ g[Choice(s)] \in Int /\ Fewer(s) \in SUBSET S
               /\ Cardinality(Fewer(s)) = Cardinality(s) - 1
    <3>1. Choice(s) \in s /\ Fewer(s) \subseteq s
      BY <2>1, ChoiceFacts
    <3>2. Cardinality(Fewer(s)) = Cardinality(s) - 1
      BY <1>1, <3>1, FS_RemoveElement DEF Fewer
    <3>. QED  BY <3>1, <3>2
  <2>. QED  BY <2>1
<1>3. T = {}
  <2>1. SUFFICES ASSUME T # {} PROVE FALSE
    OBVIOUS
  <2>2. PICK n \in T : \A m \in T : n <= m
    <3>1. T \in SUBSET Nat
      OBVIOUS
    <3>. HIDE DEF T
    <3>. QED  BY <2>1, <3>1, SmallestOf
  <2>3. n # 0
    <3>1. PICK f : f = [s \in SUBSET S |-> 0]
      OBVIOUS
    <3>2. f \in [SUBSET S -> Int] /\ f[{}] = 0
      BY <3>1
    <3>3. \A s \in SUBSET S : s # {} => ~(Cardinality(s) <= 0)
      BY <1>1, FS_EmptySet
    <3>4. Upto(f, 0)
      BY <3>2, <3>3
    <3>. QED  BY <2>2, <3>2, <3>4
  <2>4. n \in Nat /\ n - 1 \in Nat /\ n - 1 \notin T
    <3>1. n \in T /\ T \subseteq Nat
      OBVIOUS
    <3>. HIDE DEF T
    <3>2. n \in Nat /\ n - 1 \in Nat
      BY <2>3, <3>1
    <3>. QED  BY <2>2, <3>2
  <2>5. PICK f \in [SUBSET S -> Int] : Upto(f, n - 1)
    BY <2>4
  <2>6. PICK h : h = [s \in SUBSET S |-> IF Cardinality(s) = n THEN g[Choice(s)] + f[Fewer(s)] ELSE f[s]]
    OBVIOUS
  <2>7. h \in [SUBSET S -> Int]
    <3>1. ASSUME NEW s \in SUBSET S
          PROVE  h[s] \in Int
      <4>1. CASE s = {}
        <5>1. Cardinality(s) # n
          BY <2>3, <2>4, <4>1, FS_EmptySet
        <5>. QED  BY <2>5, <2>6, <5>1
      <4>2. CASE s # {}
        BY <1>2, <2>5, <2>6, <4>2
      <4>. QED  BY <4>1, <4>2
    <3>. QED  BY <2>6, <3>1
  <2>8. h[{}] = 0
    <3>1. Cardinality({}) # n
      BY <2>3, <2>4, FS_EmptySet
    <3>. QED  BY <2>5, <2>6, <3>1
  <2>9. ASSUME NEW s \in SUBSET S, s # {}, Cardinality(s) <= n
        PROVE  h[s] = g[Choice(s)] + h[Fewer(s)]
    <3>1. /\ Fewer(s) \in SUBSET S /\ Cardinality(Fewer(s)) = Cardinality(s) - 1
          /\ Cardinality(s) \in Nat
      BY <1>1, <1>2, <2>9
    <3>2. h[Fewer(s)] = f[Fewer(s)]
      <4>1. Cardinality(Fewer(s)) # n
        BY <2>4, <2>9, <3>1
      <4>. QED  BY <2>6, <3>1, <4>1
    <3>3. CASE Cardinality(s) = n
      BY <2>6, <3>2, <3>3
    <3>4. CASE Cardinality(s) # n
      <4>1. Cardinality(s) <= n - 1
        BY <2>4, <2>9, <3>1, <3>4
      <4>2. f[s] = g[Choice(s)] + f[Fewer(s)]
        BY <2>5, <2>9, <4>1
      <4>. QED  BY <2>6, <3>2, <3>4, <4>2
    <3>. QED  BY <3>3, <3>4
  <2>10. Upto(h, n)
    BY <2>8, <2>9
  <2>. QED  BY <2>2, <2>7, <2>10
<1>4. Cardinality(S) \in Nat
  BY FS_CardinalityType
<1>5. PICK f \in [SUBSET S -> Int] : Upto(f, Cardinality(S))
  BY <1>3, <1>4
<1>6. \A s \in SUBSET S : f[s] = IF s = {} THEN 0 ELSE g[Choice(s)] + f[Fewer(s)]
  BY <1>1, <1>5
<1>7. Summing(f, g, S)
  BY <1>6 DEF Summing
<1>. QED  BY <1>7

\* There is one such function.
LEMMA SumsType ==
    ASSUME NEW S, IsFiniteSet(S), NEW g \in [S -> Int], NEW e, Summing(e, g, S)
    PROVE  e \in [SUBSET S -> Int]
<1>1. PICK f \in [SUBSET S -> Int] : Summing(f, g, S)
  BY SumsExist
<1>2. /\ e = [s \in SUBSET S |-> IF s = {} THEN 0 ELSE g[Choice(s)] + e[Fewer(s)]]
      /\ f = [s \in SUBSET S |-> IF s = {} THEN 0 ELSE g[Choice(s)] + f[Fewer(s)]]
  BY <1>1 DEF Summing
<1>. DEFINE T == {s \in SUBSET S : e[s] # f[s]}
<1>3. {} \notin T
  <2>1. e[{}] = 0 /\ f[{}] = 0
    BY <1>2
  <2>. QED  BY <2>1
<1>4. ASSUME NEW s \in T
      PROVE  Fewer(s) \in T
  <2>1. s \in SUBSET S /\ s # {} /\ Fewer(s) \in SUBSET S
    BY <1>3, <1>4, ChoiceFacts
  <2>2. e[s] = g[Choice(s)] + e[Fewer(s)] /\ f[s] = g[Choice(s)] + f[Fewer(s)]
    BY <1>2, <2>1
  <2>. QED  BY <1>4, <2>1, <2>2
<1>5. T = {}
  <2>1. T \in SUBSET (SUBSET S)
    OBVIOUS
  <2>. HIDE DEF T
  <2>. QED  BY <1>3, <1>4, <2>1, Fewest
<1>6. \A s \in SUBSET S : e[s] = f[s]
  BY <1>5
<1>7. e = [s \in SUBSET S |-> e[s]] /\ f = [s \in SUBSET S |-> f[s]]
  BY <1>2
<1>. QED  BY <1>6, <1>7

Total(g, S) == MapThenSumSet(LAMBDA b : g[b], S)

\* MapThenSumSet of a function is one of its values.
LEMMA SumOf ==
    ASSUME NEW S, IsFiniteSet(S), NEW g \in [S -> Int]
    PROVE  \E f \in [SUBSET S -> Int] : Summing(f, g, S) /\ Total(g, S) = f[S]
<1>. DEFINE iter == CHOOSE f : f = [s \in SUBSET S |-> IF s = {} THEN 0 ELSE g[Choice(s)] + f[Fewer(s)]]
<1>1. Summing(iter, g, S)
  <2>1. \E f : Summing(f, g, S)
    BY SumsExist
  <2>. QED  BY <2>1, Zenon DEF Summing
<1>2. Total(g, S) = iter[S]
  BY Zenon DEF Total, MapThenSumSet, MapThenFoldSet, Choice, Fewer
<1>3. iter \in [SUBSET S -> Int]
  <2>. HIDE DEF iter
  <2>. QED  BY <1>1, SumsType
<1>. QED  BY <1>1, <1>2, <1>3

\* The sum grows by what one of its terms grows by.
LEMMA SumGrows ==
    ASSUME NEW S, IsFiniteSet(S), NEW g \in [S -> Int], NEW b \in S, NEW d \in Int
    PROVE  /\ Total(g, S) \in Int
           /\ \A h : h = [g EXCEPT ![b] = @ + d] =>
                 Total(h, S) = Total(g, S) + d
<1>1. PICK e \in [SUBSET S -> Int] : Summing(e, g, S) /\ Total(g, S) = e[S]
  BY SumOf
<1>2. e[S] \in Int
  OBVIOUS
<1>3. ASSUME NEW h, h = [g EXCEPT ![b] = @ + d]
      PROVE  Total(h, S) = e[S] + d
  <2>1. /\ h \in [S -> Int]
        /\ \A x \in S : h[x] = IF x = b THEN g[x] + d ELSE g[x]
    BY <1>3
  <2>2. PICK f \in [SUBSET S -> Int] : Summing(f, h, S) /\ Total(h, S) = f[S]
    BY <2>1, SumOf
  <2>3. /\ \A s \in SUBSET S : e[s] = IF s = {} THEN 0 ELSE g[Choice(s)] + e[Fewer(s)]
        /\ \A s \in SUBSET S : f[s] = IF s = {} THEN 0 ELSE h[Choice(s)] + f[Fewer(s)]
    BY <1>1, <2>2 DEF Summing
  <2>. DEFINE T == {s \in SUBSET S : f[s] # e[s] + (IF b \in s THEN d ELSE 0)}
  <2>4. {} \notin T
    <3>1. e[{}] = 0 /\ f[{}] = 0
      BY <2>3
    <3>. QED  BY <3>1
  <2>5. ASSUME NEW s \in T
        PROVE  Fewer(s) \in T
    <3>0. s \in SUBSET S /\ s # {}
      BY <2>4, <2>5
    <3>1. s \in SUBSET S /\ s # {} /\ Fewer(s) \in SUBSET S /\ Choice(s) \in s
      BY <3>0, ChoiceFacts
    <3>2. e[s] = g[Choice(s)] + e[Fewer(s)] /\ f[s] = h[Choice(s)] + f[Fewer(s)]
      BY <2>3, <3>1
    <3>3. h[Choice(s)] = IF Choice(s) = b THEN g[Choice(s)] + d ELSE g[Choice(s)]
      BY <2>1, <3>1
    <3>4. b \in Fewer(s) <=> b \in s /\ Choice(s) # b
      BY DEF Fewer
    <3>5. /\ e[Fewer(s)] \in Int /\ f[Fewer(s)] \in Int /\ g[Choice(s)] \in Int
      BY <3>1
    <3>6. f[s] # e[s] + (IF b \in s THEN d ELSE 0)
      BY <2>5
    <3>7. f[Fewer(s)] # e[Fewer(s)] + (IF b \in Fewer(s) THEN d ELSE 0)
      BY ONLY d \in Int, <3>1, <3>2, <3>3, <3>4, <3>5, <3>6
    <3>. QED  BY <3>1, <3>7
  <2>6. T = {}
    <3>1. T \in SUBSET (SUBSET S)
      OBVIOUS
    <3>. HIDE DEF T
    <3>. QED  BY <2>4, <2>5, <3>1, Fewest
  <2>7. f[S] = e[S] + d
    BY <2>6
  <2>. QED  BY <2>2, <2>7
<1>. QED  BY <1>1, <1>2, <1>3

-----------------------------------------------------------------------------
(* Time is charged once.                                                   *)

LEMMA ChargedTotal ==
    ASSUME NEW p, NEW now
    PROVE  Charged(p, now) = Total(p.subs, Substages)
                              + (IF Len(p.frames) = 0 THEN 0 ELSE now - p.frames[Len(p.frames)].start)
  BY Zenon DEF Charged, Total

\* Charging the innermost frame moves its time to the substages.
LEMMA ChargeTopSpends ==
    ASSUME NEW p \in Profilers, NEW now \in Int
    PROVE  /\ Total(p.subs, Substages) \in Int
           /\ Total(ChargeTop(p, now).subs, Substages) = Charged(p, now)
           /\ ChargeTop(p, now).frames # <<>> =>
                 ChargeTop(p, now).frames[Len(ChargeTop(p, now).frames)].start = now
<1>1. p.frames \in Seq(Frames) /\ p.subs \in [Substages -> Int]
  BY DEF Profilers
<1>2. PICK n : n = Len(p.frames)
  OBVIOUS
<1>3. n \in Nat /\ (p.frames = <<>> <=> n = 0)
  BY <1>1, <1>2, SeqLen
<1>4. PICK c : c = ChargeTop(p, now)
  OBVIOUS
<1>5. Total(p.subs, Substages) \in Int
  <2>1. PICK f \in [SUBSET Substages -> Int] : Total(p.subs, Substages) = f[Substages]
    BY <1>1, SumOf, ProfAssumption
  <2>. QED  BY <2>1
<1>6. CASE n = 0
  <2>1. c = p
    BY <1>3, <1>4, <1>6 DEF ChargeTop
  <2>. QED  BY <1>2, <1>3, <1>4, <1>5, <1>6, <2>1, ChargedTotal
<1>7. CASE n # 0
  <2>1. p.frames[n] \in Frames /\ n \in 1 .. n
    BY <1>1, <1>2, <1>3, <1>7, ElementOfSeq
  <2>2. PICK b : b = p.frames[n].sub
    OBVIOUS
  <2>3. PICK d : d = now - p.frames[n].start
    OBVIOUS
  <2>4. b \in Substages /\ d \in Int
    BY <2>1, <2>2, <2>3 DEF Frames
  <2>5. c.subs = [p.subs EXCEPT ![b] = @ + d]
    BY <1>2, <1>3, <1>4, <1>7, <2>2, <2>3 DEF ChargeTop, Profilers
  <2>6. Total(c.subs, Substages) = Total(p.subs, Substages) + d
    BY <1>1, <2>4, <2>5, SumGrows, ProfAssumption
  <2>7. Charged(p, now) = Total(p.subs, Substages) + d
    BY <1>2, <1>7, <2>3, ChargedTotal
  <2>8. c.frames = [p.frames EXCEPT ![n].start = now]
    BY <1>2, <1>3, <1>4, <1>7 DEF ChargeTop, Profilers
  <2>9. Len(c.frames) = n /\ c.frames[n].start = now
    <3>1. Len(c.frames) = n
      BY <1>2, <1>4, ChargeTopFacts
    <3>2. n \in DOMAIN p.frames
      BY <1>1, <1>2, <2>1, LenProperties
    <3>. QED  BY <2>1, <2>8, <3>1, <3>2 DEF Frames
  <2>. QED  BY <1>4, <1>5, <2>6, <2>7, <2>9
<1>. QED  BY <1>6, <1>7

\* The two ways an operator of the profiler leaves the frames.
Spends(p, q, now) ==
    \/ q.subs = p.subs /\ q.frames = p.frames
    \/ /\ q.subs = ChargeTop(p, now).subs
       /\ q.frames # <<>> => q.frames[Len(q.frames)].start = now

LEMMA ChargedSpends ==
    ASSUME NEW p \in Profilers, NEW q \in Profilers, NEW now \in Int, NEW then \in Int, Spends(p, q, now)
    PROVE  Charged(q, then) - Charged(p, now) = IF q.frames = <<>> THEN 0 ELSE then - now
<1>1. PICK n : n = Len(q.frames)
  OBVIOUS
<1>2. n \in Nat /\ (q.frames = <<>> <=> n = 0) /\ q.frames \in Seq(Frames)
  BY <1>1, SeqLen DEF Profilers
<1>3. n # 0 => q.frames[n].start \in Int
  <2>1. SUFFICES ASSUME n # 0 PROVE q.frames[n].start \in Int
    OBVIOUS
  <2>2. n \in 1 .. n
    BY <1>2, <2>1
  <2>3. q.frames[n] \in Frames
    BY <1>1, <1>2, <2>2, ElementOfSeq
  <2>. QED  BY <2>3 DEF Frames
<1>4. CASE q.subs = p.subs /\ q.frames = p.frames
  <2>1. /\ Total(p.subs, Substages) \in Int
        /\ Charged(p, now) = Total(p.subs, Substages) + (IF n = 0 THEN 0 ELSE now - q.frames[n].start)
        /\ Charged(q, then) = Total(p.subs, Substages) + (IF n = 0 THEN 0 ELSE then - q.frames[n].start)
    BY <1>1, <1>4, ChargedTotal, ChargeTopSpends
  <2>. QED  BY ONLY <1>2, <1>3, <2>1, now \in Int, then \in Int
<1>5. CASE /\ q.subs = ChargeTop(p, now).subs
           /\ q.frames # <<>> => q.frames[n].start = now
  <2>1. /\ Total(q.subs, Substages) = Charged(p, now)
        /\ Total(q.subs, Substages) \in Int
        /\ Charged(q, then) = Total(q.subs, Substages) + (IF n = 0 THEN 0 ELSE then - q.frames[n].start)
    BY <1>1, <1>5, ChargedTotal, ChargeTopSpends
  <2>. QED  BY ONLY <1>2, <1>3, <1>5, <2>1, now \in Int, then \in Int
<1>. QED  BY <1>1, <1>4, <1>5 DEF Spends

\* Every step spends the time since the last call on the innermost frame, or none.
LEMMA StepSpends ==
    ASSUME ProfInv, EventInv, [Next]_vars
    PROVE  Spends(prof, prof', clock)
<1>0. prof \in Profilers /\ clock \in Int /\ calls \in Seq(Calls)
  BY DEF ProfInv, ProfType
<1>1. CASE prof' = prof
  BY <1>1 DEF Spends
<1>2. CASE prof' # prof
  <2>1. StartStage \/ PullPreproc \/ PullLexer \/ LexToken \/ ReturnToken
           \/ BeginSubstage \/ FinishSubstage \/ EndStage
    <3>1. CASE ReadArgument \/ EndArguments \/ OpenSource \/ WriteOutput \/ PrintReports
                 \/ Cleanup \/ Abort \/ Stopped \/ UNCHANGED vars
      BY <1>2, <3>1 DEF ReadArgument, EndArguments, OpenSource, WriteOutput, PrintReports, Cleanup,
                        Abort, Stopped, vars, pipeVars
    <3>2. CASE RunPipeline
      <4>1. CASE RequestInput \/ RequestHit \/ RequestUnknown \/ TakeReplayed \/ ReadReplayed
        BY <1>2, <4>1 DEF RequestInput, RequestHit, RequestUnknown, TakeReplayed, ReadReplayed
      <4>. QED  BY <3>2, <4>1 DEF RunPipeline, PipelineNext
    <3>. QED  BY <3>1, <3>2 DEF Next
  <2>2. CASE StartStage
    <3>1. prof' = ProfBegin(prof, clock, StageOf(Wanted).name) /\ Wanted \in MakesOutput
      BY <1>2, <2>2 DEF StartStage, ProfCall
    <3>2. StageOf(Wanted).name \in Stages
      BY <3>1, StagesAssumption
    <3>. QED  BY <1>0, <3>1, <3>2, ProfBeginFacts, ZenonT(60) DEF Spends
  <2>3. CASE PullPreproc \/ PullLexer
    <3>1. PICK stage \in {"Preprocessor", "Lexer"} : prof' = EnterStage(prof, clock, stage)
      BY <1>2, <2>3 DEF PullPreproc, PullLexer, EnterCall, ProfCall
    <3>2. stage \in Stages
      BY <3>1, StageNames
    <3>3. prof'.frames = ChargeTop(prof, clock).frames /\ prof'.subs = ChargeTop(prof, clock).subs
      BY <1>0, <3>1, <3>2, EnterStageFacts
    <3>. QED  BY <1>0, <3>3, ChargeTopSpends DEF Spends
  <2>4. CASE LexToken \/ ReturnToken
    <3>1. PICK previous : previous = calls[Len(calls)].previous
      OBVIOUS
    <3>2. calls # <<>> /\ prof' = LeaveStage(prof, clock, previous)
      <4>1. calls # <<>> /\ LeaveCall
        BY <2>4 DEF LexToken, ReturnToken, InCall
      <4>. QED  BY <1>2, <3>1, <4>1 DEF LeaveCall, ProfCall
    <3>3. previous \in Stages \cup {NoStage}
      <4>1. Len(calls) \in 1 .. Len(calls)
        BY <1>0, <3>2, SeqLen
      <4>2. calls[Len(calls)] \in Calls
        BY <1>0, <4>1, ElementOfSeq
      <4>. QED  BY <3>1, <4>2 DEF Calls
    <3>4. prof'.frames = ChargeTop(prof, clock).frames /\ prof'.subs = ChargeTop(prof, clock).subs
      BY <1>0, <3>2, <3>3, LeaveStageFacts
    <3>. QED  BY <1>0, <3>4, ChargeTopSpends DEF Spends
  <2>5. CASE BeginSubstage
    <3>1. PICK b \in Substages : b.pstage = Owner /\ prof' = BeginSub(prof, clock, b)
      BY <1>2, <2>5 DEF BeginSubstage, ProfCall
    <3>2. b.pstage = prof.active
      BY <2>5, <3>1 DEF ProfInv, ActiveInv, BeginSubstage, Running
    <3>3. PICK c : c = ChargeTop(prof, clock)
      OBVIOUS
    <3>4. /\ prof'.frames = Append(c.frames, [sub |-> b, start |-> clock])
          /\ prof'.subs = c.subs /\ c \in Profilers
      BY <1>0, <3>1, <3>2, <3>3, BeginSubFacts, ChargeTopFacts
    <3>5. [sub |-> b, start |-> clock] \in Frames /\ c.frames \in Seq(Frames)
      BY <1>0, <3>1, <3>4 DEF Frames, Profilers
    <3>6. prof'.frames[Len(prof'.frames)] = [sub |-> b, start |-> clock]
      BY <3>4, <3>5, AppendProperties
    <3>. QED  BY <3>3, <3>4, <3>6 DEF Spends
  <2>6. CASE FinishSubstage
    <3>1. /\ Depth > Base
          /\ prof' = FinishSub(prof, clock, prof.frames[Len(prof.frames)].sub)
      BY <1>2, <2>6 DEF FinishSubstage, ProfCall, Depth
    <3>2. prof.frames # <<>>
      BY <1>0, <3>1, FramesOpen
    <3>3. PICK n : n = Len(prof.frames)
      OBVIOUS
    <3>4. n \in Nat /\ n # 0 /\ prof.frames \in Seq(Frames)
      BY <1>0, <3>2, <3>3, SeqLen DEF Profilers
    <3>5. /\ prof' \in Profilers
          /\ Len(prof'.frames) = n - 1
          /\ \A i \in 1 .. n - 1 : prof'.frames[i] = IF i = n - 1 THEN [prof.frames[i] EXCEPT !.start = clock]
                                                     ELSE prof.frames[i]
          /\ prof'.subs = ChargeTop(prof, clock).subs
      BY <1>0, <3>1, <3>2, <3>3, FinishSubFacts
    <3>6. ASSUME prof'.frames # <<>>
          PROVE  prof'.frames[n - 1].start = clock
      <4>1. n - 1 # 0
        BY <3>5, <3>6, SeqLen DEF Profilers
      <4>2. n - 1 \in 1 .. n - 1 /\ n - 1 \in 1 .. n
        BY <3>4, <4>1
      <4>3. prof.frames[n - 1] \in Frames
        BY <3>3, <3>4, <4>2, ElementOfSeq
      <4>. QED  BY <3>5, <4>2, <4>3 DEF Frames
    <3>. QED  BY <3>5, <3>6 DEF Spends
  <2>7. CASE EndStage
    <3>1. PICK kind : kind = executing
      OBVIOUS
    <3>2. kind \in MakesOutput
      BY <2>7, <3>1 DEF EndStage, EventInv, EventType
    <3>3. prof' = TimerFinish(kind)
      BY <1>2, <2>7, <3>1 DEF EndStage, ProfCall
    <3>4. prof' = FinishStage(prof, clock, StageOf(kind).name) /\ StageOf(kind).name \in Stages
      BY <1>2, <3>2, <3>3, StagesAssumption DEF TimerFinish
    <3>. QED  BY <1>0, <3>4, FinishStageFacts DEF Spends
  <2>. QED  BY <2>1, <2>2, <2>3, <2>4, <2>5, <2>6, <2>7
<1>. QED  BY <1>1, <1>2

LEMMA ChargedStep ==
    ASSUME ProfInv, EventInv, [Next]_vars
    PROVE  Charged(prof, clock)' - Charged(prof, clock) = IF prof'.frames = <<>> THEN 0 ELSE clock' - clock
<1>1. ProfInv'
  BY ProfInvStep
<1>2. prof \in Profilers /\ prof' \in Profilers /\ clock \in Int /\ clock' \in Int
  BY <1>1 DEF ProfInv, ProfType
<1>3. Spends(prof, prof', clock)
  BY StepSpends
<1>4. Charged(prof, clock)' = Charged(prof', clock')
  OBVIOUS
<1>. QED  BY <1>2, <1>3, <1>4, ChargedSpends

\* Time is charged to one substage: the innermost open one, whichever entry point
\* of the profiler was called last (charge_top, el_prof_begin_sub and the others).
THEOREM TimeIsChargedOnce == Spec => ChargedOnce
<1>1. ProfInv /\ EventInv /\ [Next]_vars =>
         [prof.failed' \/ Charged(prof, clock)' - Charged(prof, clock)
             = IF prof'.frames = <<>> THEN 0 ELSE clock' - clock]_vars
  BY ChargedStep
<1>. QED  BY <1>1, ActiveStageInvariant, EventsInvariant, PTL DEF Spec, ChargedOnce

-----------------------------------------------------------------------------
(* The time of a stage is at least that of its substages.                  *)

\* The time of the substages of a stage, what the innermost frame is yet to add to
\* it, and the time of the stage itself.
Share(p, s) == Total([b \in Substages |-> IF b.pstage = s THEN p.subs[b] ELSE 0], Substages)
Uncharged(p, now, s) ==
    IF p.frames # <<>> /\ p.frames[Len(p.frames)].sub.pstage = s
    THEN now - p.frames[Len(p.frames)].start ELSE 0
Earned(p, now, s) ==
    p.stages[s].total + (IF p.stages[s].running THEN now - p.stages[s].start ELSE 0)

\* A stage runs after the one that makes its input.
InputsEnded ==
    \A k \in MakesOutput : told[k] # "nothing" /\ StageOf(k).input \in MakesOutput
       => told[StageOf(k).input] = "end"

\* A frame belongs to the stage that executes or to a call in progress that had
\* begun when it was opened; its stage is running.
FramesOwned ==
    /\ \A c \in DOMAIN calls : calls[c].depth <= Base /\ prof.stages[calls[c].stage].running
    /\ Base <= Depth
    /\ \A j \in 1 .. Depth :
          LET s == prof.frames[j].sub.pstage
          IN  /\ prof.stages[s].running
              /\ prof.frames[j].start <= clock
              /\ \/ /\ executing \in MakesOutput \ {"toks", "pp-toks"}
                    /\ s = StageOf(executing).name
                 \/ \E c \in DOMAIN calls : calls[c].depth < j /\ calls[c].stage = s

\* A stage that has ended runs again only while its stream is read.
EndedRest ==
    \A k \in MakesOutput : told[k] = "end" /\ prof.stages[StageOf(k).name].running
        => \E c \in DOMAIN calls : calls[c].stage = StageOf(k).name

\* No time lies ahead.
PastTimes ==
    \A s \in Stages :
       /\ prof.stages[s].total <= clock
       /\ prof.stages[s].running => /\ prof.stages[s].total <= prof.stages[s].start
                                    /\ prof.stages[s].start <= clock

\* The stage that executes, one that captures its stream excepted, and those of the
\* calls in progress.
Attended(s) ==
    \/ executing \in MakesOutput \ {"toks", "pp-toks"} /\ s = StageOf(executing).name
    \/ \E c \in DOMAIN calls : calls[c].stage = s

\* Time of a substage is time of its stage.  Entering a stage that captures its own
\* stream forgets the time since it began: no substage has got any of that.
SharesEarned ==
    /\ \A s \in Stages : Share(prof, s) + Uncharged(prof, clock, s) <= Earned(prof, clock, s)
    /\ \A k \in MakesOutput : told[k] = "nothing" => Share(prof, StageOf(k).name) = 0
    /\ \A s \in Stages : Attended(s) \/ Share(prof, s) <= prof.stages[s].total

\* What was answered stays, and nothing has failed when it is.
Answered ==
    /\ phase = "reports" => answer # "pending"
    /\ prof.failed => answer = "pending"

TimedInv == FramesOwned /\ EndedRest /\ PastTimes /\ SharesEarned
TimeInv == Answered /\ InputsEnded /\ (Timed /\ ~prof.failed => TimedInv)

LEMMA ShareType ==
    ASSUME NEW p \in Profilers, NEW s, NEW now \in Int
    PROVE  Share(p, s) \in Int /\ Uncharged(p, now, s) \in Int
<1>1. [b \in Substages |-> IF b.pstage = s THEN p.subs[b] ELSE 0] \in [Substages -> Int]
  BY DEF Profilers
<1>2. Share(p, s) \in Int
  <2>1. PICK g \in [Substages -> Int] : g = [b \in Substages |-> IF b.pstage = s THEN p.subs[b] ELSE 0]
    BY <1>1
  <2>2. PICK f \in [SUBSET Substages -> Int] : Total(g, Substages) = f[Substages]
    BY SumOf, ProfAssumption
  <2>. QED  BY <2>1, <2>2 DEF Share
<1>3. Uncharged(p, now, s) \in Int
  <2>1. p.frames # <<>> => p.frames[Len(p.frames)].start \in Int
    <3>1. SUFFICES ASSUME p.frames # <<>> PROVE p.frames[Len(p.frames)].start \in Int
      OBVIOUS
    <3>2. p.frames \in Seq(Frames)
      BY DEF Profilers
    <3>3. Len(p.frames) \in 1 .. Len(p.frames)
      BY <3>1, <3>2, SeqLen
    <3>4. p.frames[Len(p.frames)] \in Frames
      BY <3>2, <3>3, ElementOfSeq
    <3>. QED  BY <3>4 DEF Frames
  <2>. QED  BY <2>1 DEF Uncharged
<1>. QED  BY <1>2, <1>3

\* Charging the innermost frame moves what is uncharged to the share of its stage.
LEMMA ShareCharged ==
    ASSUME NEW p \in Profilers, NEW s, NEW now \in Int
    PROVE  Share(ChargeTop(p, now), s) = Share(p, s) + Uncharged(p, now, s)
<1>1. p.frames \in Seq(Frames) /\ p.subs \in [Substages -> Int]
  BY DEF Profilers
<1>2. PICK n : n = Len(p.frames)
  OBVIOUS
<1>3. n \in Nat /\ (p.frames = <<>> <=> n = 0)
  BY <1>1, <1>2, SeqLen
<1>4. Share(p, s) \in Int
  BY ShareType
<1>5. CASE n = 0
  BY <1>3, <1>4, <1>5 DEF ChargeTop, Uncharged
<1>6. CASE n # 0
  <2>1. p.frames[n] \in Frames /\ n \in 1 .. n
    BY <1>1, <1>2, <1>3, <1>6, ElementOfSeq
  <2>2. PICK b : b = p.frames[n].sub
    OBVIOUS
  <2>3. PICK d : d = now - p.frames[n].start
    OBVIOUS
  <2>4. b \in Substages /\ d \in Int
    BY <2>1, <2>2, <2>3 DEF Frames
  <2>5. ChargeTop(p, now).subs = [p.subs EXCEPT ![b] = @ + d]
    BY <1>2, <1>3, <1>6, <2>2, <2>3 DEF ChargeTop, Profilers
  <2>6. PICK g : g = [x \in Substages |-> IF x.pstage = s THEN p.subs[x] ELSE 0]
    OBVIOUS
  <2>7. PICK h : h = [x \in Substages |-> IF x.pstage = s THEN ChargeTop(p, now).subs[x] ELSE 0]
    OBVIOUS
  <2>8. PICK e : e = IF b.pstage = s THEN d ELSE 0
    OBVIOUS
  <2>9. g \in [Substages -> Int] /\ e \in Int
    BY <1>1, <2>4, <2>6, <2>8
  <2>10. h = [g EXCEPT ![b] = g[b] + e]
    <3>1. \A x \in Substages : ChargeTop(p, now).subs[x] = IF x = b THEN p.subs[b] + d ELSE p.subs[x]
      BY <1>1, <2>4, <2>5
    <3>2. \A x \in Substages : h[x] = IF x = b THEN g[b] + e ELSE g[x]
      BY <1>1, <2>4, <2>6, <2>7, <2>8, <3>1
    <3>3. [g EXCEPT ![b] = g[b] + e] = [x \in Substages |-> IF x = b THEN g[b] + e ELSE g[x]]
      BY <2>6
    <3>4. h = [x \in Substages |-> h[x]]
      BY <2>7
    <3>. QED  BY <3>2, <3>3, <3>4
  <2>11. Total(h, Substages) = Total(g, Substages) + e
    <3>1. \A k : k = [g EXCEPT ![b] = @ + e] => Total(k, Substages) = Total(g, Substages) + e
      BY <2>4, <2>9, SumGrows, ProfAssumption, ZenonT(60)
    <3>. QED  BY <2>10, <3>1
  <2>12. Uncharged(p, now, s) = e
    BY <1>2, <1>3, <1>6, <2>2, <2>3, <2>8 DEF Uncharged
  <2>. QED  BY <2>6, <2>7, <2>11, <2>12 DEF Share
<1>. QED  BY <1>3, <1>5, <1>6

\* A step of the profiler charges what is uncharged, or nothing.
LEMMA ShareSpends ==
    ASSUME NEW p \in Profilers, NEW q \in Profilers, NEW s, NEW now \in Int, Spends(p, q, now)
    PROVE  /\ Share(q, s) + Uncharged(q, now, s) = Share(p, s) + Uncharged(p, now, s)
           /\ Share(q, s) = Share(p, s) \/ Share(q, s) = Share(p, s) + Uncharged(p, now, s)
<1>0. /\ Share(p, s) \in Int /\ Uncharged(p, now, s) \in Int
      /\ Share(q, s) \in Int /\ Uncharged(q, now, s) \in Int
  BY ShareType
<1>1. CASE q.subs = p.subs /\ q.frames = p.frames
  BY <1>0, <1>1 DEF Share, Uncharged
<1>2. CASE /\ q.subs = ChargeTop(p, now).subs
           /\ q.frames # <<>> => q.frames[Len(q.frames)].start = now
  <2>1. Share(q, s) = Share(p, s) + Uncharged(p, now, s)
    BY <1>2, ShareCharged DEF Share
  <2>2. Uncharged(q, now, s) = 0
    BY <1>2 DEF Uncharged
  <2>. QED  BY <1>0, <2>1, <2>2
<1>. QED  BY <1>1, <1>2 DEF Spends

LEMMA EarnedType ==
    ASSUME NEW p \in Profilers, NEW s \in Stages, NEW now \in Int
    PROVE  Earned(p, now, s) \in Int
<1>1. p.stages[s] \in StageTimes
  BY DEF Profilers
<1>. QED  BY <1>1 DEF Earned, StageTimes

\* What holds when a step is made holds later: a stage earns what its frames are owed.
LEMMA SharesLater ==
    ASSUME NEW q \in Profilers, NEW s \in Stages, NEW now \in Int, NEW then \in Int, now <= then,
           q.frames # <<>> /\ q.frames[Len(q.frames)].sub.pstage = s => q.stages[s].running,
           Share(q, s) + Uncharged(q, now, s) <= Earned(q, now, s)
    PROVE  Share(q, s) + Uncharged(q, then, s) <= Earned(q, then, s)
<1>1. Share(q, s) \in Int
  BY ShareType
<1>2. q.stages[s] \in StageTimes
  BY DEF Profilers
<1>3. PICK total, start : total = q.stages[s].total /\ start = q.stages[s].start
  OBVIOUS
<1>4. total \in Int /\ start \in Int
  BY <1>2, <1>3 DEF StageTimes
<1>5. CASE q.frames # <<>> /\ q.frames[Len(q.frames)].sub.pstage = s
  <2>1. PICK top : top = q.frames[Len(q.frames)].start
    OBVIOUS
  <2>2. Uncharged(q, now, s) = now - top /\ Uncharged(q, then, s) = then - top
    BY <1>5, <2>1 DEF Uncharged
  <2>3. top \in Int
    <3>1. q.frames \in Seq(Frames)
      BY DEF Profilers
    <3>2. Len(q.frames) \in 1 .. Len(q.frames)
      BY <1>5, <3>1, SeqLen
    <3>3. q.frames[Len(q.frames)] \in Frames
      BY <3>1, <3>2, ElementOfSeq
    <3>. QED  BY <2>1, <3>3 DEF Frames
  <2>4. Earned(q, now, s) = total + (now - start) /\ Earned(q, then, s) = total + (then - start)
    BY <1>3, <1>5 DEF Earned
  <2>5. PICK share : share = Share(q, s)
    OBVIOUS
  <2>6. share + (now - top) <= total + (now - start)
    BY <2>2, <2>4, <2>5
  <2>7. share + (then - top) <= total + (then - start)
    BY <1>1, <1>4, <2>3, <2>5, <2>6
  <2>. QED  BY <2>2, <2>4, <2>5, <2>7
<1>6. CASE ~(q.frames # <<>> /\ q.frames[Len(q.frames)].sub.pstage = s)
  <2>1. Uncharged(q, now, s) = 0 /\ Uncharged(q, then, s) = 0
    BY <1>6 DEF Uncharged
  <2>2. Earned(q, now, s) <= Earned(q, then, s)
    BY <1>3, <1>4 DEF Earned
  <2>3. Earned(q, now, s) \in Int /\ Earned(q, then, s) \in Int
    BY EarnedType
  <2>. QED  BY <1>1, <2>1, <2>2, <2>3
<1>. QED  BY <1>5, <1>6

\* What the steps of main() and of the driver leave alone.
LEMMA DriverAside ==
    ASSUME ReadArgument \/ EndArguments \/ OpenSource \/ WriteOutput \/ PrintReports
              \/ Cleanup \/ Abort \/ Stopped \/ UNCHANGED vars
    PROVE  UNCHANGED <<answer, executing, told, dumped, errors, calls, streams, prof, begun, clock>>
<1>. QED  BY DEF ReadArgument, EndArguments, OpenSource, WriteOutput, PrintReports, Cleanup, Abort,
                 Stopped, vars, pipeVars

\* A step is one of those, or one of the pipeline while a request is pending.
LEMMA StepKinds ==
    ASSUME [Next]_vars
    PROVE  \/ ReadArgument \/ EndArguments \/ OpenSource \/ WriteOutput \/ PrintReports
              \/ Cleanup \/ Abort \/ Stopped \/ UNCHANGED vars
           \/ /\ RunPipeline /\ phase = "pipeline" /\ phase' = "pipeline" /\ Running
              /\ \/ RequestInput \/ RequestHit \/ RequestUnknown \/ StartStage
                 \/ PullPreproc \/ PullLexer \/ LexToken \/ TakeReplayed \/ ReturnToken \/ ReadReplayed
                 \/ BeginSubstage \/ FinishSubstage \/ EndStage
<1>1. CASE RunPipeline
  <2>1. /\ phase = "pipeline" /\ phase' = "pipeline"
        /\ \/ RequestInput \/ RequestHit \/ RequestUnknown \/ StartStage
           \/ PullPreproc \/ PullLexer \/ LexToken \/ TakeReplayed \/ ReturnToken \/ ReadReplayed
           \/ BeginSubstage \/ FinishSubstage \/ EndStage
    BY <1>1 DEF RunPipeline, PipelineNext, driverVars
  <2>2. Running
    BY <2>1 DEF RequestInput, RequestHit, RequestUnknown, StartStage, PullPreproc, PullLexer, LexToken,
                TakeReplayed, ReturnToken, ReadReplayed, BeginSubstage, FinishSubstage, EndStage
  <2>. QED  BY <1>1, <2>1, <2>2
<1>. QED  BY <1>1 DEF Next

LEMMA AnsweredStep ==
    ASSUME EventInv, ProfInv, Answered, [Next]_vars
    PROVE  Answered'
<1>1. CASE ReadArgument \/ EndArguments \/ OpenSource \/ WriteOutput \/ PrintReports
              \/ Cleanup \/ Abort \/ Stopped \/ UNCHANGED vars
  <2>1. UNCHANGED <<answer, prof>>
    BY <1>1, DriverAside
  <2>2. phase' = "reports" => phase = "reports" \/ answer # "pending"
    BY <1>1 DEF ReadArgument, EndArguments, OpenSource, WriteOutput, PrintReports, Cleanup, Abort,
                Stopped, vars, driverVars
  <2>. QED  BY <2>1, <2>2 DEF Answered
<1>2. CASE /\ phase' = "pipeline" /\ Running
           /\ \/ RequestInput \/ RequestHit \/ RequestUnknown \/ StartStage
              \/ PullPreproc \/ PullLexer \/ LexToken \/ TakeReplayed \/ ReturnToken \/ ReadReplayed
              \/ BeginSubstage \/ FinishSubstage \/ EndStage
  <2>1. ~prof.failed /\ answer = "pending"
    BY <1>2 DEF Running
  <2>2. answer' = answer \/ prof' = prof \/ EndStage
    BY <1>2 DEF RequestInput, RequestHit, RequestUnknown, StartStage, PullPreproc, PullLexer, LexToken,
                TakeReplayed, ReturnToken, ReadReplayed, BeginSubstage, FinishSubstage
  <2>3. EndStage => ~prof'.failed
    <3>1. SUFFICES ASSUME EndStage, prof' # prof PROVE ~prof'.failed
      BY <2>1
    <3>2. executing \in MakesOutput
      BY <3>1 DEF EndStage, EventInv, EventType
    <3>3. prof' = FinishStage(prof, clock, StageOf(executing).name) /\ StageOf(executing).name \in Stages
      BY <3>1, <3>2, StagesAssumption DEF EndStage, ProfCall, TimerFinish
    <3>. QED  BY <2>1, <3>3, FinishStageFacts DEF ProfInv, ProfType
  <2>. QED  BY <1>2, <2>1, <2>2, <2>3 DEF Answered
<1>. QED  BY <1>1, <1>2, StepKinds

LEMMA NamesDiffer ==
    /\ \A k, l \in MakesOutput : StageOf(k).name = StageOf(l).name => k = l
    /\ StageOf("pp-toks").input = "toks" /\ StageOf("ast").input = "pp-toks"
<1>1. /\ StageOf("toks").name = "Lexer" /\ StageOf("pp-toks").name = "Preprocessor"
      /\ StageOf("ast").name = "Parser"
      /\ StageOf("hir").name = "Binder" /\ StageOf("mir").name = "Lowerer"
      /\ StageOf("ulir").name = "Codegen" /\ StageOf("lir").name = "Optimizer"
      /\ StageOf("asm").name = "Emit Assembly" /\ StageOf("obj").name = "Emit Object File"
  BY DEF StageOf, StageTable
<1>2. MakesOutput = {"toks", "pp-toks", "ast", "hir", "mir", "ulir", "lir", "asm", "obj"}
  BY DEF MakesOutput, Artifacts
<1>3. StageOf("pp-toks").input = "toks" /\ StageOf("ast").input = "pp-toks"
  BY DEF StageOf, StageTable
<1>4. ASSUME NEW k \in MakesOutput, NEW l \in MakesOutput, StageOf(k).name = StageOf(l).name
      PROVE  k = l
  <2>1. CASE k = "toks"
    BY <1>1, <1>2, <1>4, <2>1
  <2>2. CASE k = "pp-toks"
    BY <1>1, <1>2, <1>4, <2>2
  <2>3. CASE k = "ast"
    BY <1>1, <1>2, <1>4, <2>3
  <2>4. CASE k = "hir"
    BY <1>1, <1>2, <1>4, <2>4
  <2>5. CASE k = "mir"
    BY <1>1, <1>2, <1>4, <2>5
  <2>6. CASE k = "ulir"
    BY <1>1, <1>2, <1>4, <2>6
  <2>7. CASE k = "lir"
    BY <1>1, <1>2, <1>4, <2>7
  <2>8. CASE k = "asm"
    BY <1>1, <1>2, <1>4, <2>8
  <2>9. CASE k = "obj"
    BY <1>1, <1>2, <1>4, <2>9
  <2>. QED  BY <1>2, <2>1, <2>2, <2>3, <2>4, <2>5, <2>6, <2>7, <2>8, <2>9
<1>. QED  BY <1>3, <1>4

\* A stage is announced once; what has ended has.
LEMMA ToldSteps ==
    ASSUME EventInv, [Next]_vars
    PROVE  \/ told' = told
           \/ /\ StartStage /\ Wanted \in MakesOutput /\ told[Wanted] = "nothing"
              /\ told' = [told EXCEPT ![Wanted] = "start"]
              /\ StageOf(Wanted).input \in MakesOutput => told[StageOf(Wanted).input] = "end"
           \/ /\ EndStage /\ executing \in MakesOutput /\ told[executing] = "start"
              /\ \E x \in {"finish", "end"} : told' = [told EXCEPT ![executing] = x]
<1>1. CASE ReadArgument \/ EndArguments \/ OpenSource \/ WriteOutput \/ PrintReports
              \/ Cleanup \/ Abort \/ Stopped \/ UNCHANGED vars
  BY <1>1, DriverAside
<1>2. CASE RequestInput \/ RequestHit \/ RequestUnknown
              \/ PullPreproc \/ PullLexer \/ LexToken \/ TakeReplayed \/ ReturnToken \/ ReadReplayed
              \/ BeginSubstage \/ FinishSubstage
  BY <1>2 DEF RequestInput, RequestHit, RequestUnknown, PullPreproc, PullLexer, LexToken,
              TakeReplayed, ReturnToken, ReadReplayed, BeginSubstage, FinishSubstage
<1>3. CASE phase = "pipeline" /\ StartStage
  <2>1. /\ executing = None /\ answer = "pending" /\ Wanted \in MakesOutput /\ Wanted \notin registry
        /\ StageOf(Wanted).input \in registry
        /\ told' = [told EXCEPT ![Wanted] = "start"]
    BY <1>3 DEF StartStage, Running
  <2>2. \A k \in MakesOutput : told[k] = "end" <=> k \in registry
    BY <1>3 DEF EventInv
  <2>3. told[Wanted] \in {"nothing", "start", "finish", "end"}
    BY <2>1 DEF EventInv, EventType
  <2>4. told[Wanted] = "nothing"
    BY <2>1, <2>2, <2>3, KindFacts DEF EventInv
  <2>. QED  BY <1>3, <2>1, <2>2, <2>4
<1>4. CASE EndStage
  <2>1. executing \in MakesOutput /\ told[executing] = "start"
    BY <1>4 DEF EndStage, EventInv, EventType
  <2>2. \/ told' = told
        \/ told' = [told EXCEPT ![executing] = "finish"]
        \/ told' = [told EXCEPT ![executing] = "end"]
    BY <1>4 DEF EndStage
  <2>. QED  BY <1>4, <2>1, <2>2
<1>. QED  BY <1>1, <1>2, <1>3, <1>4, StepKinds

LEMMA InputsStep ==
    ASSUME EventInv, InputsEnded, [Next]_vars
    PROVE  InputsEnded'
<1>0. told \in [MakesOutput -> {"nothing", "start", "finish", "end"}]
  BY DEF EventInv, EventType
<1>1. CASE told' = told
  BY <1>1 DEF InputsEnded
<1>2. CASE /\ Wanted \in MakesOutput /\ told[Wanted] = "nothing"
           /\ told' = [told EXCEPT ![Wanted] = "start"]
           /\ StageOf(Wanted).input \in MakesOutput => told[StageOf(Wanted).input] = "end"
  BY <1>0, <1>2 DEF InputsEnded
<1>3. CASE /\ executing \in MakesOutput /\ told[executing] = "start"
           /\ \E x \in {"finish", "end"} : told' = [told EXCEPT ![executing] = x]
  <2>1. PICK x \in {"finish", "end"} : told' = [told EXCEPT ![executing] = x]
    BY <1>3
  <2>. QED  BY <1>0, <1>3, <2>1 DEF InputsEnded
<1>. QED  BY <1>1, <1>2, <1>3, ToldSteps

\* Nothing has run: no time has been charged.
LEMMA TotalZero ==
    ASSUME NEW S, IsFiniteSet(S), NEW g \in [S -> Int], \A x \in S : g[x] = 0
    PROVE  Total(g, S) = 0
<1>1. PICK f \in [SUBSET S -> Int] : Summing(f, g, S) /\ Total(g, S) = f[S]
  BY SumOf
<1>2. \A s \in SUBSET S : f[s] = IF s = {} THEN 0 ELSE g[Choice(s)] + f[Fewer(s)]
  BY <1>1 DEF Summing
<1>. DEFINE T == {s \in SUBSET S : f[s] # 0}
<1>3. {} \notin T
  BY <1>2
<1>4. ASSUME NEW s \in T
      PROVE  Fewer(s) \in T
  <2>1. s \in SUBSET S /\ s # {}
    BY <1>3, <1>4
  <2>2. Choice(s) \in S /\ Fewer(s) \in SUBSET S
    BY <2>1, ChoiceFacts
  <2>3. f[s] = 0 + f[Fewer(s)]
    BY <1>2, <2>1, <2>2
  <2>. QED  BY <1>4, <2>2, <2>3
<1>5. T = {}
  <2>1. T \in SUBSET (SUBSET S)
    OBVIOUS
  <2>. HIDE DEF T
  <2>. QED  BY <1>3, <1>4, <2>1, Fewest
<1>. QED  BY <1>1, <1>5

LEMMA ShareZero ==
    ASSUME NEW s, prof = ProfInit
    PROVE  Share(prof, s) = 0
<1>1. PICK g : g = [b \in Substages |-> IF b.pstage = s THEN prof.subs[b] ELSE 0]
  OBVIOUS
<1>2. \A b \in Substages : g[b] = 0
  BY <1>1 DEF ProfInit
<1>3. g \in [Substages -> Int]
  BY <1>1, <1>2
<1>. QED  BY <1>1, <1>2, <1>3, TotalZero, ProfAssumption DEF Share

LEMMA TimedUnstarted ==
    ASSUME Unstarted, clock \in Nat
    PROVE  TimedInv
<1>1. /\ prof = ProfInit /\ calls = <<>> /\ executing = None
      /\ told = [k \in MakesOutput |-> "nothing"]
  BY DEF Unstarted
<1>2. /\ prof.frames = <<>> /\ Depth = 0 /\ Base = 0
      /\ \A s \in Stages : prof.stages[s].total = 0 /\ ~prof.stages[s].running
  BY <1>1 DEF ProfInit, NewStage, Depth, Base
<1>3. FramesOwned
  BY <1>1, <1>2, EmptySeq DEF FramesOwned
<1>4. EndedRest /\ PastTimes
  BY <1>1, <1>2 DEF EndedRest, PastTimes
<1>5. SharesEarned
  BY <1>1, <1>2, KindFacts, ShareZero DEF SharesEarned, Uncharged, Earned
<1>. QED  BY <1>3, <1>4, <1>5 DEF TimedInv

\* The stage of a call in progress has begun.
LEMMA CallKinds ==
    ASSUME EventInv, CallInv, calls \in Seq(Calls), InputsEnded, NEW c \in DOMAIN calls
    PROVE  /\ c \in {1, 2} /\ calls # <<>>
           /\ executing \in {"toks", "pp-toks", "ast"}
           /\ executing \in {"toks", "pp-toks"} => Captures(executing)
           /\ c = 1 => calls[c].stage = IF executing = "toks" THEN "Lexer" ELSE "Preprocessor"
           /\ c = 2 => calls[c].stage = "Lexer" /\ executing # "toks"
           /\ \E k \in {"toks", "pp-toks"} : calls[c].stage = StageOf(k).name /\ told[k] # "nothing"
<1>1. c \in 1 .. Len(calls) /\ Len(calls) \in Nat /\ Len(calls) <= 2
  BY LenProperties DEF CallInv
<1>2. c \in {1, 2} /\ (c = 2 => Len(calls) = 2)
  <2>1. PICK n : n = Len(calls)
    OBVIOUS
  <2>2. n \in Nat /\ n <= 2 /\ c \in 1 .. n
    BY <1>1, <2>1
  <2>3. c \in {1, 2} /\ (c = 2 => n = 2)
    BY ONLY <2>2
  <2>. QED  BY <2>1, <2>3
<1>3. calls # <<>>
  BY <1>1, EmptySeq
<1>4. /\ executing # None /\ Reader(executing) /\ told[executing] = "start"
      /\ executing \in MakesOutput
  BY <1>3 DEF EventInv, EventType
<1>5. /\ executing \in {"toks", "pp-toks", "ast"}
      /\ executing \in {"toks", "pp-toks"} => Captures(executing)
  BY <1>4 DEF Reader
<1>6. /\ c = 1 => calls[c].stage = IF executing = "toks" THEN "Lexer" ELSE "Preprocessor"
      /\ c = 2 => calls[c].stage = "Lexer" /\ executing # "toks"
  BY <1>2, <1>3 DEF CallInv
<1>7. /\ executing = "ast" => told["pp-toks"] = "end"
      /\ told["pp-toks"] # "nothing" => told["toks"] = "end"
  BY <1>4, KindFacts, NamesDiffer DEF InputsEnded
<1>8. \E k \in {"toks", "pp-toks"} : calls[c].stage = StageOf(k).name /\ told[k] # "nothing"
  BY <1>2, <1>4, <1>5, <1>6, <1>7, StageNames
<1>. QED  BY <1>2, <1>3, <1>5, <1>6, <1>8

\* So has that of a frame.
LEMMA FrameKinds ==
    ASSUME EventInv, ProfInv, InputsEnded, FramesOwned, NEW j \in 1 .. Depth
    PROVE  \E k \in MakesOutput : prof.frames[j].sub.pstage = StageOf(k).name /\ told[k] # "nothing"
<1>1. PICK s : s = prof.frames[j].sub.pstage
  OBVIOUS
<1>2. CASE executing \in MakesOutput \ {"toks", "pp-toks"} /\ s = StageOf(executing).name
  BY <1>1, <1>2, KindFacts DEF EventInv
<1>3. CASE \E c \in DOMAIN calls : calls[c].depth < j /\ calls[c].stage = s
  BY <1>1, <1>3, CallKinds, KindFacts DEF ProfInv, ProfType
<1>. QED  BY <1>1, <1>2, <1>3 DEF FramesOwned

LEMMA NothingOwed ==
    ASSUME EventInv, ProfInv, InputsEnded, FramesOwned, NEW k \in MakesOutput, told[k] = "nothing"
    PROVE  Uncharged(prof, clock, StageOf(k).name) = 0
<1>1. SUFFICES ASSUME prof.frames # <<>>, prof.frames[Len(prof.frames)].sub.pstage = StageOf(k).name
               PROVE  FALSE
  BY DEF Uncharged
<1>2. Depth \in 1 .. Depth /\ Depth = Len(prof.frames)
  BY <1>1, SeqLen DEF Depth, ProfInv, ProfType, Profilers
<1>3. PICK l \in MakesOutput : prof.frames[Depth].sub.pstage = StageOf(l).name /\ told[l] # "nothing"
  BY <1>2, FrameKinds
<1>. QED  BY <1>1, <1>2, <1>3, NamesDiffer

\* The shares, when no stage loses what it has earned.
LEMMA SharesStep ==
    ASSUME EventInv, ProfInv, InputsEnded, TimedInv, [Next]_vars, FramesOwned', clock <= clock',
           \A s \in Stages : Share(prof, s) + Uncharged(prof, clock, s) <= Earned(prof', clock, s)
    PROVE  /\ \A s \in Stages : Share(prof', s) + Uncharged(prof', clock', s) <= Earned(prof', clock', s)
           /\ \A k \in MakesOutput : told'[k] = "nothing" => Share(prof', StageOf(k).name) = 0
<1>1. ProfInv'
  BY ProfInvStep
<1>2. prof \in Profilers /\ prof' \in Profilers /\ clock \in Int /\ clock' \in Int
  BY <1>1 DEF ProfInv, ProfType
<1>3. Spends(prof, prof', clock)
  BY StepSpends
<1>4. ASSUME NEW s \in Stages
      PROVE  Share(prof', s) + Uncharged(prof', clock', s) <= Earned(prof', clock', s)
  <2>1. Share(prof', s) + Uncharged(prof', clock, s) = Share(prof, s) + Uncharged(prof, clock, s)
    BY <1>2, <1>3, ShareSpends
  <2>2. prof'.frames # <<>> /\ prof'.frames[Len(prof'.frames)].sub.pstage = s => prof'.stages[s].running
    <3>1. SUFFICES ASSUME prof'.frames # <<>>, prof'.frames[Len(prof'.frames)].sub.pstage = s
                   PROVE  prof'.stages[s].running
      OBVIOUS
    <3>2. prof'.frames \in Seq(Frames)
      BY <1>2 DEF Profilers
    <3>3. Depth' \in 1 .. Depth' /\ Depth' = Len(prof'.frames)
      BY <3>1, <3>2, SeqLen DEF Depth
    <3>. QED  BY <3>1, <3>3 DEF FramesOwned
  <2>3. PICK q : q = prof'
    OBVIOUS
  <2>4. PICK now, then : now = clock /\ then = clock'
    OBVIOUS
  <2>5. /\ q \in Profilers /\ now \in Int /\ then \in Int /\ now <= then
        /\ q.frames # <<>> /\ q.frames[Len(q.frames)].sub.pstage = s => q.stages[s].running
        /\ Share(q, s) + Uncharged(q, now, s) <= Earned(q, now, s)
    BY <1>2, <2>1, <2>2, <2>3, <2>4
  <2>6. Share(q, s) + Uncharged(q, then, s) <= Earned(q, then, s)
    BY <2>5, SharesLater
  <2>. QED  BY <2>3, <2>4, <2>6
<1>5. ASSUME NEW k \in MakesOutput, told'[k] = "nothing"
      PROVE  Share(prof', StageOf(k).name) = 0
  <2>1. told[k] = "nothing"
    <3>1. told \in [MakesOutput -> {"nothing", "start", "finish", "end"}]
      BY DEF EventInv, EventType
    <3>2. CASE told' = told
      BY <1>5, <3>2
    <3>3. CASE \E l \in MakesOutput, x \in {"start", "finish", "end"} : told' = [told EXCEPT ![l] = x]
      BY <1>5, <3>1, <3>3
    <3>. QED  BY <3>2, <3>3, ToldSteps
  <2>2. Uncharged(prof, clock, StageOf(k).name) = 0 /\ Share(prof, StageOf(k).name) = 0
    BY <2>1, NothingOwed DEF TimedInv, SharesEarned
  <2>. QED  BY <1>2, <1>3, <2>2, ShareSpends
<1>. QED  BY <1>4, <1>5

\* Charging the innermost frame leaves the frames where they are.
LEMMA ChargedFrames ==
    ASSUME NEW p \in Profilers, NEW now \in Int
    PROVE  /\ Len(ChargeTop(p, now).frames) = Len(p.frames)
           /\ \A j \in 1 .. Len(p.frames) :
                 /\ ChargeTop(p, now).frames[j].sub = p.frames[j].sub
                 /\ ChargeTop(p, now).frames[j].start \in {p.frames[j].start, now}
<1>1. p.frames \in Seq(Frames) /\ Len(p.frames) \in Nat
  BY LenProperties DEF Profilers
<1>2. PICK n : n = Len(p.frames)
  OBVIOUS
<1>3. CASE p.frames = <<>>
  BY <1>3 DEF ChargeTop
<1>4. CASE p.frames # <<>>
  <2>1. ChargeTop(p, now).frames = [p.frames EXCEPT ![n].start = now]
    BY <1>2, <1>4 DEF ChargeTop, Profilers
  <2>2. ASSUME NEW j \in 1 .. n
        PROVE  /\ ChargeTop(p, now).frames[j].sub = p.frames[j].sub
               /\ ChargeTop(p, now).frames[j].start \in {p.frames[j].start, now}
    <3>1. p.frames[j] \in Frames /\ j \in DOMAIN p.frames
      BY <1>1, <1>2, ElementOfSeq, LenProperties
    <3>. QED  BY <2>1, <3>1 DEF Frames
  <2>. QED  BY <1>2, <2>2, ChargeTopFacts
<1>. QED  BY <1>3, <1>4

LEMMA DepthFacts ==
    ASSUME ProfInv
    PROVE  /\ prof \in Profilers /\ prof.frames \in Seq(Frames) /\ Depth = Len(prof.frames)
           /\ Depth \in Nat /\ (prof.frames = <<>> <=> Depth = 0)
           /\ calls \in Seq(Calls) /\ Len(calls) \in Nat /\ (calls = <<>> <=> Len(calls) = 0)
           /\ DOMAIN calls = 1 .. Len(calls) /\ (\A c \in DOMAIN calls : calls[c] \in Calls)
           /\ clock \in Nat /\ clock \in Int
           /\ \A j \in 1 .. Depth : prof.frames[j] \in Frames /\ prof.frames[j].start \in Int
<1>1. prof \in Profilers /\ calls \in Seq(Calls) /\ clock \in Nat
  BY DEF ProfInv, ProfType
<1>2. prof.frames \in Seq(Frames)
  BY <1>1 DEF Profilers
<1>3. ASSUME NEW j \in 1 .. Depth
      PROVE  prof.frames[j] \in Frames /\ prof.frames[j].start \in Int
  <2>1. prof.frames[j] \in Frames
    BY <1>2, <1>3, ElementOfSeq DEF Depth
  <2>. QED  BY <2>1 DEF Frames
<1>. QED  BY <1>1, <1>2, <1>3, SeqLen, LenProperties, ElementOfSeq DEF Depth

LEMMA ClockTicks ==
    ASSUME ProfInv, [Next]_vars
    PROVE  clock' = clock \/ (Timed /\ clock' = clock + 1)
<1>1. CASE ReadArgument \/ EndArguments \/ OpenSource \/ WriteOutput \/ PrintReports
              \/ Cleanup \/ Abort \/ Stopped \/ UNCHANGED vars
  BY <1>1, DriverAside
<1>2. CASE RequestInput \/ RequestHit \/ RequestUnknown \/ StartStage
              \/ PullPreproc \/ PullLexer \/ LexToken \/ TakeReplayed \/ ReturnToken \/ ReadReplayed
              \/ BeginSubstage \/ FinishSubstage \/ EndStage
  BY <1>2 DEF RequestInput, RequestHit, RequestUnknown, StartStage, PullPreproc, PullLexer, LexToken,
              TakeReplayed, ReturnToken, ReadReplayed, BeginSubstage, FinishSubstage, EndStage, Tick,
              EnterCall, LeaveCall
<1>. QED  BY <1>1, <1>2, StepKinds

\* Only a stage attended to has a frame.
LEMMA FramesAttended ==
    ASSUME ProfInv, FramesOwned, NEW s, ~Attended(s), NEW now
    PROVE  Uncharged(prof, now, s) = 0
<1>1. prof.frames # <<>> => Depth \in 1 .. Depth /\ Depth = Len(prof.frames)
  BY DepthFacts
<1>2. \A j \in 1 .. Depth : prof.frames[j].sub.pstage # s
  BY DEF FramesOwned, Attended
<1>. QED  BY <1>1, <1>2 DEF Uncharged

\* A stage that is not attended to has no share it has not earned.
LEMMA PaidStep ==
    ASSUME EventInv, ProfInv, InputsEnded, TimedInv, [Next]_vars, FramesOwned',
           NEW s \in Stages, ~Attended(s)',
           \/ /\ ~prof'.stages[s].running
              /\ Share(prof', s) + Uncharged(prof', clock', s) <= Earned(prof', clock', s)
           \/ ~Attended(s) /\ prof'.stages[s].total = prof.stages[s].total
    PROVE  Share(prof', s) <= prof'.stages[s].total
<1>1. ProfInv'
  BY ProfInvStep
<1>2. /\ prof \in Profilers /\ prof' \in Profilers /\ clock \in Int /\ clock' \in Int
      /\ prof.stages[s].total \in Int /\ prof'.stages[s].total \in Int
  <2>1. prof \in Profilers /\ prof' \in Profilers /\ clock \in Int /\ clock' \in Int
    BY <1>1 DEF ProfInv, ProfType
  <2>. QED  BY <2>1 DEF Profilers, StageTimes
<1>3. \A now : Uncharged(prof', now, s) = 0
  <2>1. Depth' \in Nat /\ (prof'.frames # <<>> => Depth' \in 1 .. Depth' /\ Depth' = Len(prof'.frames))
    <3>1. prof'.frames \in Seq(Frames)
      BY <1>2 DEF Profilers
    <3>. QED  BY <3>1, SeqLen DEF Depth
  <2>2. \A j \in 1 .. Depth' : prof'.frames[j].sub.pstage # s
    BY DEF FramesOwned, Attended
  <2>. QED  BY <2>1, <2>2 DEF Uncharged
<1>4. Share(prof, s) \in Int /\ Share(prof', s) \in Int
  BY <1>2, ShareType
<1>5. CASE /\ ~prof'.stages[s].running
           /\ Share(prof', s) + Uncharged(prof', clock', s) <= Earned(prof', clock', s)
  <2>1. Share(prof', s) + 0 <= prof'.stages[s].total + 0
    BY <1>3, <1>5 DEF Earned
  <2>. QED  BY <1>2, <1>4, <2>1
<1>6. CASE ~Attended(s) /\ prof'.stages[s].total = prof.stages[s].total
  <2>1. Uncharged(prof, clock, s) = 0 /\ Share(prof, s) <= prof.stages[s].total
    BY <1>6, FramesAttended DEF TimedInv, SharesEarned
  <2>2. Share(prof', s) + 0 = Share(prof, s) + 0
    <3>1. Spends(prof, prof', clock)
      BY StepSpends
    <3>2. Share(prof', s) + Uncharged(prof', clock, s) = Share(prof, s) + Uncharged(prof, clock, s)
      BY <1>2, <3>1, ShareSpends
    <3>. QED  BY <1>3, <2>1, <3>2
  <2>. QED  BY <1>2, <1>4, <1>6, <2>1, <2>2
<1>. QED  BY <1>5, <1>6

\* The profiler is not called.
LEMMA TimedQuiet ==
    ASSUME EventInv, ProfInv, InputsEnded, TimedInv, [Next]_vars,
           UNCHANGED <<executing, calls, prof, told>>
    PROVE  TimedInv'
<1>1. ProfInv' /\ clock \in Nat /\ clock' \in Nat /\ clock <= clock'
  <2>1. ProfInv'
    BY ProfInvStep
  <2>2. clock \in Nat /\ clock' \in Nat
    BY <2>1, DepthFacts DEF ProfInv, ProfType
  <2>. QED  BY <2>1, <2>2, ClockTicks
<1>2. FramesOwned'
  <2>1. UNCHANGED <<Base, Depth>>
    BY DEF Base, Depth
  <2>2. \A j \in 1 .. Depth : prof.frames[j].start <= clock'
    <3>1. \A j \in 1 .. Depth : prof.frames[j].start \in Int
      BY DepthFacts
    <3>. QED  BY <1>1, <3>1 DEF TimedInv, FramesOwned
  <2>. QED  BY <2>1, <2>2 DEF TimedInv, FramesOwned
<1>3. EndedRest'
  BY DEF TimedInv, EndedRest
<1>4. PastTimes'
  <2>1. \A s \in Stages : prof.stages[s] \in StageTimes
    BY DepthFacts DEF Profilers
  <2>2. \A s \in Stages : prof.stages[s].total \in Int /\ prof.stages[s].start \in Int
    BY <2>1 DEF StageTimes
  <2>. QED  BY <1>1, <2>2 DEF TimedInv, PastTimes
<1>5. SharesEarned'
  <2>1. \A s \in Stages : Share(prof, s) + Uncharged(prof, clock, s) <= Earned(prof', clock, s)
    BY DEF TimedInv, SharesEarned
  <2>2. /\ \A s \in Stages : Share(prof', s) + Uncharged(prof', clock', s) <= Earned(prof', clock', s)
        /\ \A k \in MakesOutput : told'[k] = "nothing" => Share(prof', StageOf(k).name) = 0
    BY <1>1, <1>2, <2>1, SharesStep
  <2>3. \A s \in Stages : Attended(s)' \/ Share(prof', s) <= prof'.stages[s].total
    BY <1>2, PaidStep DEF Attended
  <2>. QED  BY <2>2, <2>3 DEF SharesEarned
<1>. QED  BY <1>2, <1>3, <1>4, <1>5 DEF TimedInv

\* A stage starts, with no frame open and no share of it charged.
LEMMA TimedStart ==
    ASSUME EventInv, ProfInv, InputsEnded, TimedInv, [Next]_vars, phase = "pipeline", StartStage,
           Timed, ~prof'.failed
    PROVE  TimedInv'
<1>1. PICK kind : kind = Wanted
  OBVIOUS
<1>2. PICK s : s = StageOf(kind).name
  OBVIOUS
<1>3. /\ executing = None /\ kind \in MakesOutput /\ told[kind] = "nothing"
      /\ told' = [told EXCEPT ![kind] = "start"] /\ executing' = kind /\ UNCHANGED calls
      /\ prof' = ProfBegin(prof, clock, s) /\ clock' = clock + 1
  <2>1. executing = None /\ executing' = Wanted /\ UNCHANGED calls /\ Wanted \in MakesOutput
        /\ told' = [told EXCEPT ![Wanted] = "start"] /\ Wanted \notin registry /\ answer = "pending"
        /\ prof' = ProfBegin(prof, clock, StageOf(Wanted).name) /\ clock' = clock + 1
    BY DEF StartStage, ProfCall, Tick, Running
  <2>2. told[Wanted] # "end"
    BY <2>1 DEF EventInv
  <2>3. told[Wanted] \notin {"start", "finish"}
    BY <2>1, KindFacts DEF EventInv
  <2>4. told[Wanted] = "nothing"
    BY <2>1, <2>2, <2>3 DEF EventInv, EventType
  <2>. QED  BY <1>1, <1>2, <2>1, <2>4
<1>4. s \in Stages /\ kind # None
  BY <1>2, <1>3, StagesAssumption, KindFacts
<1>5. /\ prof.active = NoStage /\ prof' \in Profilers
      /\ prof'.frames = prof.frames /\ prof'.subs = prof.subs
      /\ prof'.stages[s] = [start |-> clock, total |-> 0, running |-> TRUE]
      /\ \A t \in Stages \ {s} : prof'.stages[t] = prof.stages[t]
  BY <1>3, <1>4, DepthFacts, ProfBeginFacts
<1>6. calls = <<>> /\ DOMAIN calls = {} /\ clock \in Nat
  <2>1. calls = <<>>
    BY <1>3 DEF EventInv
  <2>. QED  BY <2>1, DepthFacts
<1>7. Depth = 0 /\ prof.frames = <<>>
  <2>1. SUFFICES ASSUME Depth # 0 PROVE FALSE
    BY DepthFacts
  <2>2. 1 \in 1 .. Depth
    BY <2>1, DepthFacts
  <2>. QED  BY <1>3, <1>6, <2>2, KindFacts DEF TimedInv, FramesOwned
<1>8. Depth' = 0 /\ Base' = 0
  BY <1>3, <1>5, <1>6, <1>7, EmptySeq DEF Depth, Base
<1>9. FramesOwned'
  BY <1>3, <1>6, <1>8 DEF FramesOwned
<1>10. EndedRest'
  <2>1. SUFFICES ASSUME NEW k \in MakesOutput, told'[k] = "end", prof'.stages[StageOf(k).name].running
                 PROVE  FALSE
    BY DEF EndedRest
  <2>2. k # kind /\ told[k] = "end"
    BY <1>3, <2>1 DEF EventInv, EventType
  <2>3. StageOf(k).name \in Stages \ {s}
    BY <1>2, <1>3, <2>2, NamesDiffer, StagesAssumption
  <2>. QED  BY <1>5, <1>6, <2>1, <2>2, <2>3 DEF TimedInv, EndedRest
<1>11. PastTimes'
  <2>1. \A t \in Stages : prof.stages[t] \in StageTimes
    BY DepthFacts DEF Profilers
  <2>2. \A t \in Stages : prof.stages[t].total \in Int /\ prof.stages[t].start \in Int
    BY <2>1 DEF StageTimes
  <2>3. /\ prof'.stages[s].total = 0 /\ prof'.stages[s].start = clock
    BY <1>5
  <2>4. ASSUME NEW t \in Stages
        PROVE  /\ prof'.stages[t].total <= clock'
               /\ prof'.stages[t].running => /\ prof'.stages[t].total <= prof'.stages[t].start
                                             /\ prof'.stages[t].start <= clock'
    <3>1. CASE t = s
      BY <1>3, <1>6, <2>3, <3>1
    <3>2. CASE t # s
      BY <1>3, <1>5, <1>6, <2>2, <3>2 DEF TimedInv, PastTimes
    <3>. QED  BY <3>1, <3>2
  <2>. QED  BY <2>4 DEF PastTimes
<1>12. SharesEarned'
  <2>1. Share(prof, s) = 0 /\ \A t : Uncharged(prof, clock, t) = 0
    BY <1>2, <1>3, <1>7 DEF TimedInv, SharesEarned, Uncharged
  <2>2. ASSUME NEW t \in Stages
        PROVE  Share(prof, t) + Uncharged(prof, clock, t) <= Earned(prof', clock, t)
    <3>1. CASE t = s
      BY <1>5, <1>6, <2>1, <3>1 DEF Earned
    <3>2. CASE t # s
      BY <1>5, <3>2 DEF TimedInv, SharesEarned, Earned
    <3>. QED  BY <3>1, <3>2
  <2>3. /\ \A t \in Stages : Share(prof', t) + Uncharged(prof', clock', t) <= Earned(prof', clock', t)
        /\ \A k \in MakesOutput : told'[k] = "nothing" => Share(prof', StageOf(k).name) = 0
    BY <1>3, <1>6, <1>9, <2>2, SharesStep
  <2>4. Share(prof', s) = 0 /\ prof'.stages[s].total = 0
    BY <1>5, <2>1 DEF Share
  <2>5. ASSUME NEW t \in Stages, ~Attended(t)'
        PROVE  Share(prof', t) <= prof'.stages[t].total
    <3>1. CASE t = s
      BY <2>4, <3>1
    <3>2. CASE t # s
      <4>1. ~Attended(t) /\ prof'.stages[t].total = prof.stages[t].total
        BY <1>3, <1>4, <1>5, <1>6, <3>2, KindFacts DEF Attended
      <4>. QED  BY <1>9, <2>5, <4>1, PaidStep
    <3>. QED  BY <3>1, <3>2
  <2>. QED  BY <2>3, <2>5 DEF SharesEarned
<1>. QED  BY <1>9, <1>10, <1>11, <1>12 DEF TimedInv

\* A stream is entered: no frame is of its stage, and if the stage was running, then
\* it is the one that captures its own stream.
LEMMA TimedCalls ==
    ASSUME EventInv, ProfInv, InputsEnded, TimedInv, [Next]_vars, PullPreproc \/ PullLexer, Timed
    PROVE  TimedInv'
<1>1. PICK stage \in {"Preprocessor", "Lexer"} :
          /\ EnterCall(stage)
          /\ stage = "Preprocessor" => calls = <<>> /\ executing \in {"ast", "pp-toks"}
          /\ stage = "Lexer" => \/ calls = <<>> /\ executing = "toks"
                                \/ calls # <<>> /\ calls[Len(calls)].stage = "Preprocessor"
          /\ UNCHANGED <<executing, told>> /\ executing # None
  <2>1. CASE PullPreproc
    BY <2>1, KindFacts DEF PullPreproc, None
  <2>2. CASE PullLexer
    BY <2>2, KindFacts DEF PullLexer, InCall, None, EventInv
  <2>. QED  BY <2>1, <2>2
<1>2. PICK new : new = [stage |-> stage, previous |-> prof.active, depth |-> Depth]
  OBVIOUS
<1>3. /\ calls' = Append(calls, new) /\ prof' = EnterStage(prof, clock, stage) /\ clock' = clock + 1
  BY <1>1, <1>2 DEF EnterCall, ProfCall, Tick
<1>4. stage \in Stages /\ executing \in MakesOutput
  BY <1>1, StageNames DEF EventInv, EventType
<1>5. /\ prof' \in Profilers
      /\ prof'.frames = ChargeTop(prof, clock).frames
      /\ prof'.stages[stage] = Resumed(prof.stages[stage], clock)
      /\ \A t \in Stages \ {stage} : prof'.stages[t] = prof.stages[t]
  BY <1>3, <1>4, DepthFacts, EnterStageFacts
<1>6. /\ prof'.stages[stage].running /\ prof'.stages[stage].start = clock
      /\ prof'.stages[stage].total = prof.stages[stage].total
      /\ \A t \in Stages : prof.stages[t].running => prof'.stages[t].running
  BY <1>5 DEF Resumed
<1>7. PICK n : n = Len(calls)
  OBVIOUS
<1>8. /\ n \in Nat /\ DOMAIN calls = 1 .. n /\ DOMAIN calls' = 1 .. n + 1
      /\ calls' # <<>> /\ Len(calls') = n + 1
      /\ \A c \in 1 .. n : calls'[c] = calls[c]
      /\ calls'[n + 1] = new
  <2>1. new \in Calls
    BY <1>2, <1>4, DepthFacts DEF Calls, Profilers
  <2>2. calls' \in Seq(Calls) /\ Len(calls') = n + 1 /\ (\A c \in 1 .. n : calls'[c] = calls[c]) /\ calls'[n + 1] = new
    BY <1>3, <1>7, <2>1, DepthFacts, AppendProperties
  <2>. QED  BY <1>7, <2>2, DepthFacts, SeqLen, LenProperties
<1>9. /\ Depth' = Depth /\ Base' = Depth /\ Depth \in Nat /\ clock \in Nat
      /\ \A j \in 1 .. Depth : /\ prof'.frames[j].sub = prof.frames[j].sub
                               /\ prof'.frames[j].start \in {prof.frames[j].start, clock}
  BY <1>2, <1>5, <1>8, DepthFacts, ChargedFrames DEF Depth, Base
\* No call and no frame is of the stage entered.
<1>10. /\ \A c \in DOMAIN calls : calls[c].stage # stage
       /\ \A j \in 1 .. Depth : prof.frames[j].sub.pstage # stage
  <2>1. ASSUME NEW c \in DOMAIN calls
        PROVE  calls[c].stage # stage
    <3>1. calls # <<>> /\ stage = "Lexer" /\ calls[Len(calls)].stage = "Preprocessor"
      BY <1>1, <1>8, DepthFacts
    <3>2. Len(calls) \in DOMAIN calls
      BY <3>1, DepthFacts
    <3>3. Len(calls) = 1
      BY <3>1, <3>2, CallKinds, DepthFacts DEF ProfInv
    <3>. QED  BY <3>1, <3>3, DepthFacts
  <2>2. ASSUME NEW j \in 1 .. Depth
        PROVE  prof.frames[j].sub.pstage # stage
    <3>1. CASE executing \in MakesOutput \ {"toks", "pp-toks"} /\ prof.frames[j].sub.pstage = StageOf(executing).name
      BY <1>1, <3>1, StageNames
    <3>. QED  BY <2>1, <3>1 DEF TimedInv, FramesOwned
  <2>. QED  BY <2>1, <2>2
<1>11. FramesOwned'
  <2>1. ASSUME NEW c \in DOMAIN calls'
        PROVE  calls'[c].depth <= Depth /\ prof'.stages[calls'[c].stage].running
    <3>1. CASE c = n + 1
      BY <1>2, <1>6, <1>8, <1>9, <3>1
    <3>2. CASE c # n + 1
      <4>1. c \in DOMAIN calls /\ calls'[c] = calls[c]
        BY <1>8, <3>2
      <4>2. calls[c].depth \in Nat /\ calls[c].stage \in Stages /\ calls[c].depth <= Base /\ Base <= Depth
        BY <4>1, DepthFacts DEF TimedInv, FramesOwned, Calls
      <4>3. Base \in Nat
        BY <1>7, <1>8, DepthFacts DEF Base, Calls
      <4>. QED  BY <1>6, <1>9, <4>1, <4>2, <4>3 DEF TimedInv, FramesOwned
    <3>. QED  BY <3>1, <3>2
  <2>2. ASSUME NEW j \in 1 .. Depth
        PROVE  LET s == prof'.frames[j].sub.pstage
               IN  /\ prof'.stages[s].running
                   /\ prof'.frames[j].start <= clock'
                   /\ \/ /\ executing' \in MakesOutput \ {"toks", "pp-toks"}
                         /\ s = StageOf(executing').name
                      \/ \E c \in DOMAIN calls' : calls'[c].depth < j /\ calls'[c].stage = s
    <3>1. PICK s : s = prof.frames[j].sub.pstage
      OBVIOUS
    <3>2. s \in Stages
      BY <3>1, DepthFacts, ProfAssumption DEF Frames
    <3>3. prof'.stages[s].running
      BY <1>6, <3>1, <3>2 DEF TimedInv, FramesOwned
    <3>4. prof'.frames[j].start <= clock'
      <4>1. prof.frames[j].start <= clock /\ prof.frames[j].start \in Int
        BY DepthFacts DEF TimedInv, FramesOwned
      <4>. QED  BY <1>3, <1>9, <4>1
    <3>5. \/ executing \in MakesOutput \ {"toks", "pp-toks"} /\ s = StageOf(executing).name
          \/ \E c \in DOMAIN calls : calls[c].depth < j /\ calls[c].stage = s
      BY <3>1 DEF TimedInv, FramesOwned
    <3>6. \A c \in DOMAIN calls : c \in DOMAIN calls' /\ calls'[c] = calls[c]
      BY <1>8
    <3>. QED  BY <1>1, <1>9, <3>1, <3>3, <3>4, <3>5, <3>6
  <2>. QED  BY <1>9, <2>1, <2>2 DEF FramesOwned
<1>12. EndedRest'
  <2>1. ASSUME NEW k \in MakesOutput, told[k] = "end", prof'.stages[StageOf(k).name].running
        PROVE  \E c \in DOMAIN calls' : calls'[c].stage = StageOf(k).name
    <3>1. CASE StageOf(k).name = stage
      BY <1>2, <1>8, <3>1
    <3>2. CASE StageOf(k).name # stage
      <4>1. prof.stages[StageOf(k).name].running
        BY <1>5, <2>1, <3>2, StagesAssumption
      <4>2. PICK c \in DOMAIN calls : calls[c].stage = StageOf(k).name
        BY <2>1, <4>1 DEF TimedInv, EndedRest
      <4>. QED  BY <1>8, <4>2
    <3>. QED  BY <3>1, <3>2
  <2>. QED  BY <1>1, <2>1 DEF EndedRest
<1>13. PastTimes'
  <2>1. \A t \in Stages : prof.stages[t] \in StageTimes
    BY DepthFacts DEF Profilers
  <2>2. \A t \in Stages : prof.stages[t].total \in Int /\ prof.stages[t].start \in Int
    BY <2>1 DEF StageTimes
  <2>3. ASSUME NEW t \in Stages
        PROVE  /\ prof'.stages[t].total <= clock'
               /\ prof'.stages[t].running => /\ prof'.stages[t].total <= prof'.stages[t].start
                                             /\ prof'.stages[t].start <= clock'
    <3>1. CASE t = stage
      BY <1>3, <1>6, <1>9, <2>2, <3>1 DEF TimedInv, PastTimes
    <3>2. CASE t # stage
      BY <1>3, <1>5, <1>9, <2>2, <3>2 DEF TimedInv, PastTimes
    <3>. QED  BY <3>1, <3>2
  <2>. QED  BY <2>3 DEF PastTimes
<1>14. Share(prof, stage) <= prof.stages[stage].total
  <2>1. ~(executing \in MakesOutput \ {"toks", "pp-toks"} /\ stage = StageOf(executing).name)
    BY <1>1, StageNames
  <2>. QED  BY <1>4, <1>10, <2>1 DEF TimedInv, SharesEarned, Attended
<1>15. SharesEarned'
  <2>1. ASSUME NEW t \in Stages
        PROVE  Share(prof, t) + Uncharged(prof, clock, t) <= Earned(prof', clock, t)
    <3>1. CASE t = stage
      <4>1. Uncharged(prof, clock, stage) = 0
        <5>1. prof.frames # <<>> => Depth \in 1 .. Depth
          BY DepthFacts
        <5>. QED  BY <1>10, <5>1, DepthFacts DEF Uncharged
      <4>2. Earned(prof', clock, stage) = prof.stages[stage].total + (clock - clock)
        BY <1>6 DEF Earned
      <4>3. Share(prof, stage) \in Int /\ prof.stages[stage].total \in Int
        BY <1>4, DepthFacts, ShareType DEF Profilers, StageTimes
      <4>. QED  BY <1>9, <1>14, <3>1, <4>1, <4>2, <4>3
    <3>2. CASE t # stage
      BY <1>5, <3>2 DEF TimedInv, SharesEarned, Earned
    <3>. QED  BY <3>1, <3>2
  <2>2. /\ \A t \in Stages : Share(prof', t) + Uncharged(prof', clock', t) <= Earned(prof', clock', t)
        /\ \A k \in MakesOutput : told'[k] = "nothing" => Share(prof', StageOf(k).name) = 0
    BY <1>3, <1>9, <1>11, <2>1, SharesStep
  <2>3. ASSUME NEW t \in Stages, ~Attended(t)'
        PROVE  Share(prof', t) <= prof'.stages[t].total
    <3>1. t # stage /\ ~Attended(t)
      BY <1>1, <1>2, <1>8, <2>3 DEF Attended
    <3>2. prof'.stages[t].total = prof.stages[t].total
      BY <1>5, <3>1
    <3>. QED  BY <1>11, <2>3, <3>1, <3>2, PaidStep
  <2>. QED  BY <2>2, <2>3 DEF SharesEarned
<1>. QED  BY <1>11, <1>12, <1>13, <1>15 DEF TimedInv

\* A stream is left: the stage has no frame, and is charged with the time of the call.
LEMMA TimedReturns ==
    ASSUME EventInv, ProfInv, InputsEnded, TimedInv, [Next]_vars, LexToken \/ ReturnToken, Timed
    PROVE  TimedInv'
<1>1. /\ UNCHANGED <<executing, told>> /\ calls # <<>> /\ LeaveCall /\ ~prof.failed /\ executing # None
  <2>1. UNCHANGED <<executing, told>> /\ calls # <<>> /\ LeaveCall /\ ~prof.failed
    BY DEF LexToken, ReturnToken, Running, InCall
  <2>. QED  BY <2>1 DEF EventInv
<1>2. PICK n : n = Len(calls)
  OBVIOUS
<1>3. /\ n \in {1, 2} /\ n \in DOMAIN calls /\ DOMAIN calls = 1 .. n
      /\ calls[n] \in Calls
  <2>1. n \in DOMAIN calls /\ DOMAIN calls = 1 .. n /\ calls[n] \in Calls
    BY <1>1, <1>2, DepthFacts
  <2>. QED  BY <2>1, CallKinds, DepthFacts DEF ProfInv
<1>4. PICK stage : stage = calls[n].stage
  OBVIOUS
<1>5. /\ stage = prof.active /\ stage \in Stages
      /\ Depth = calls[n].depth /\ Base = Depth
  <2>1. prof.active = Owner
    BY <1>1 DEF ProfInv, ActiveInv
  <2>. QED  BY <1>1, <1>2, <1>3, <1>4, <2>1 DEF Owner, Base, LeaveCall, Calls
<1>6. /\ prof' = LeaveStage(prof, clock, calls[n].previous) /\ clock' = clock + 1
      /\ calls' = SubSeq(calls, 1, n - 1)
  BY <1>1, <1>2 DEF LeaveCall, ProfCall, Tick
<1>7. /\ prof' \in Profilers
      /\ prof'.frames = ChargeTop(prof, clock).frames
      /\ prof.stages[stage].running
      /\ prof'.stages[stage] = Halted(prof.stages[stage], clock)
      /\ \A t \in Stages \ {stage} : prof'.stages[t] = prof.stages[t]
  <2>1. prof.stages[stage].running
    BY <1>3, <1>4 DEF TimedInv, FramesOwned
  <2>2. calls[n].previous \in Stages \cup {NoStage}
    BY <1>3 DEF Calls
  <2>. QED  BY <1>5, <1>6, <2>1, <2>2, DepthFacts, LeaveStageFacts
<1>8. /\ ~prof'.stages[stage].running
      /\ prof'.stages[stage].total = prof.stages[stage].total + (clock - prof.stages[stage].start)
  BY <1>7 DEF Halted
<1>9. /\ calls' \in Seq(Calls) /\ Len(calls') = n - 1 /\ DOMAIN calls' = 1 .. n - 1
      /\ \A c \in 1 .. n - 1 : calls'[c] = calls[c]
      /\ n = 1 => calls' = <<>>
      /\ n = 2 => calls' # <<>> /\ Len(calls') = 1
  <2>1. /\ calls' \in Seq(Calls) /\ Len(calls') = n - 1 /\ \A c \in 1 .. n - 1 : calls'[c] = calls[c]
    BY <1>1, <1>2, CallLeft, ProfInvStep DEF ProfInv, ProfType
  <2>. QED  BY <1>3, <2>1, SeqLen, LenProperties
<1>10. /\ Depth' = Depth /\ Depth \in Nat /\ clock \in Nat
       /\ \A j \in 1 .. Depth : /\ prof'.frames[j].sub = prof.frames[j].sub
                                /\ prof'.frames[j].start \in {prof.frames[j].start, clock}
  BY <1>7, DepthFacts, ChargedFrames DEF Depth
\* No frame is of the stage left, and no other call.
<1>11. /\ \A c \in 1 .. n - 1 : calls[c].stage # stage
       /\ n = 2 => calls[1].depth \in Nat /\ calls[1].depth <= Depth
       /\ \A j \in 1 .. Depth :
             \/ /\ executing \in MakesOutput \ {"toks", "pp-toks"}
                /\ prof.frames[j].sub.pstage = StageOf(executing).name
             \/ \E c \in 1 .. n - 1 : calls[c].depth < j /\ calls[c].stage = prof.frames[j].sub.pstage
       /\ \A j \in 1 .. Depth : prof.frames[j].sub.pstage # stage
  <2>1. \A c \in 1 .. n - 1 : calls[c].stage # stage
    <3>1. SUFFICES ASSUME NEW c \in 1 .. n - 1 PROVE calls[c].stage # stage
      OBVIOUS
    <3>2. n = 2 /\ c = 1 /\ c \in DOMAIN calls
      BY <1>3, <3>1
    <3>. QED  BY <1>3, <1>4, <3>2, CallKinds, DepthFacts DEF ProfInv
  <2>2. n = 2 => calls[1].depth \in Nat /\ calls[1].depth <= Depth
    BY <1>3, <1>5, DepthFacts DEF TimedInv, FramesOwned, Calls
  <2>3. ASSUME NEW j \in 1 .. Depth
        PROVE  \/ /\ executing \in MakesOutput \ {"toks", "pp-toks"}
                  /\ prof.frames[j].sub.pstage = StageOf(executing).name
               \/ \E c \in 1 .. n - 1 : calls[c].depth < j /\ calls[c].stage = prof.frames[j].sub.pstage
    <3>1. SUFFICES ASSUME NEW c \in DOMAIN calls, calls[c].depth < j, calls[c].stage = prof.frames[j].sub.pstage
                   PROVE  c \in 1 .. n - 1
      BY DEF TimedInv, FramesOwned
    <3>2. c # n
      BY <1>5, <1>10, <2>3, <3>1
    <3>. QED  BY <1>3, <3>1, <3>2
  <2>4. ASSUME NEW j \in 1 .. Depth
        PROVE  prof.frames[j].sub.pstage # stage
    <3>1. CASE executing \in MakesOutput \ {"toks", "pp-toks"} /\ prof.frames[j].sub.pstage = StageOf(executing).name
      <4>1. stage \in {"Lexer", "Preprocessor"}
        BY <1>3, <1>4, CallKinds, DepthFacts DEF ProfInv
      <4>. QED  BY <3>1, <4>1, StageNames
    <3>. QED  BY <2>1, <2>3, <3>1
  <2>. QED  BY <2>1, <2>2, <2>3, <2>4
<1>12. FramesOwned'
  <2>1. Base' \in Nat /\ Base' <= Depth /\ \A c \in DOMAIN calls' : calls'[c].depth <= Base'
    <3>1. CASE n = 1
      BY <1>9, <1>10, <3>1 DEF Base
    <3>2. CASE n = 2
      <4>1. Base' = calls[1].depth /\ DOMAIN calls' = {1} /\ calls'[1] = calls[1]
        BY <1>9, <3>2 DEF Base
      <4>. QED  BY <1>11, <3>2, <4>1
    <3>. QED  BY <1>3, <3>1, <3>2
  <2>2. ASSUME NEW c \in DOMAIN calls'
        PROVE  prof'.stages[calls'[c].stage].running
    <3>1. c \in DOMAIN calls /\ calls'[c] = calls[c] /\ calls[c].stage # stage /\ calls[c].stage \in Stages
      BY <1>3, <1>9, <1>11, DepthFacts DEF Calls
    <3>. QED  BY <1>7, <3>1 DEF TimedInv, FramesOwned
  <2>3. ASSUME NEW j \in 1 .. Depth
        PROVE  LET s == prof'.frames[j].sub.pstage
               IN  /\ prof'.stages[s].running
                   /\ prof'.frames[j].start <= clock'
                   /\ \/ /\ executing' \in MakesOutput \ {"toks", "pp-toks"}
                         /\ s = StageOf(executing').name
                      \/ \E c \in DOMAIN calls' : calls'[c].depth < j /\ calls'[c].stage = s
    <3>1. PICK s : s = prof.frames[j].sub.pstage
      OBVIOUS
    <3>2. s \in Stages /\ s # stage
      BY <1>11, <3>1, DepthFacts, ProfAssumption DEF Frames
    <3>3. prof'.stages[s].running
      BY <1>7, <3>1, <3>2 DEF TimedInv, FramesOwned
    <3>4. prof'.frames[j].start <= clock'
      <4>1. prof.frames[j].start <= clock /\ prof.frames[j].start \in Int
        BY DepthFacts DEF TimedInv, FramesOwned
      <4>. QED  BY <1>6, <1>10, <4>1
    <3>5. \/ executing \in MakesOutput \ {"toks", "pp-toks"} /\ s = StageOf(executing).name
          \/ \E c \in 1 .. n - 1 : calls[c].depth < j /\ calls[c].stage = s
      BY <1>11, <3>1
    <3>. QED  BY <1>1, <1>9, <1>10, <3>1, <3>3, <3>4, <3>5, ZenonT(60)
  <2>. QED  BY <1>10, <2>1, <2>2, <2>3 DEF FramesOwned
<1>13. EndedRest'
  <2>1. ASSUME NEW k \in MakesOutput, told[k] = "end", prof'.stages[StageOf(k).name].running
        PROVE  \E c \in DOMAIN calls' : calls'[c].stage = StageOf(k).name
    <3>1. StageOf(k).name # stage
      BY <1>8, <2>1
    <3>2. prof.stages[StageOf(k).name].running
      BY <1>7, <2>1, <3>1, StagesAssumption
    <3>3. PICK c \in DOMAIN calls : calls[c].stage = StageOf(k).name
      BY <2>1, <3>2 DEF TimedInv, EndedRest
    <3>4. c \in 1 .. n - 1
      BY <1>3, <1>4, <3>1, <3>3
    <3>. QED  BY <1>9, <3>3, <3>4
  <2>. QED  BY <1>1, <2>1 DEF EndedRest
<1>14. PastTimes'
  <2>1. \A t \in Stages : prof.stages[t] \in StageTimes
    BY DepthFacts DEF Profilers
  <2>2. \A t \in Stages : prof.stages[t].total \in Int /\ prof.stages[t].start \in Int
    BY <2>1 DEF StageTimes
  <2>3. ASSUME NEW t \in Stages
        PROVE  /\ prof'.stages[t].total <= clock'
               /\ prof'.stages[t].running => /\ prof'.stages[t].total <= prof'.stages[t].start
                                             /\ prof'.stages[t].start <= clock'
    <3>1. CASE t = stage
      <4>1. prof.stages[stage].total <= prof.stages[stage].start
        BY <1>5, <1>7 DEF TimedInv, PastTimes
      <4>. QED  BY <1>5, <1>6, <1>8, <1>10, <2>2, <3>1, <4>1, SMTT(60)
    <3>2. CASE t # stage
      BY <1>6, <1>7, <1>10, <2>2, <3>2 DEF TimedInv, PastTimes
    <3>. QED  BY <3>1, <3>2
  <2>. QED  BY <2>3 DEF PastTimes
<1>15. SharesEarned'
  <2>1. ASSUME NEW t \in Stages
        PROVE  Share(prof, t) + Uncharged(prof, clock, t) <= Earned(prof', clock, t)
    <3>1. Earned(prof', clock, t) = Earned(prof, clock, t)
      <4>1. CASE t = stage
        <5>1. prof.stages[stage].total \in Int /\ prof.stages[stage].start \in Int
          BY <1>5, DepthFacts DEF Profilers, StageTimes
        <5>. QED  BY <1>7, <1>8, <1>10, <4>1, <5>1 DEF Earned
      <4>2. CASE t # stage
        BY <1>7, <4>2 DEF Earned
      <4>. QED  BY <4>1, <4>2
    <3>. QED  BY <3>1 DEF TimedInv, SharesEarned
  <2>2. /\ \A t \in Stages : Share(prof', t) + Uncharged(prof', clock', t) <= Earned(prof', clock', t)
        /\ \A k \in MakesOutput : told'[k] = "nothing" => Share(prof', StageOf(k).name) = 0
    BY <1>6, <1>10, <1>12, <2>1, SharesStep
  <2>3. ASSUME NEW t \in Stages, ~Attended(t)'
        PROVE  Share(prof', t) <= prof'.stages[t].total
    <3>1. CASE t = stage
      BY <1>8, <1>12, <2>2, <2>3, <3>1, PaidStep
    <3>2. CASE t # stage
      <4>1. ~Attended(t)
        <5>1. \A c \in DOMAIN calls : c \in 1 .. n - 1 \/ calls[c].stage = stage
          BY <1>3, <1>4
        <5>. QED  BY <1>1, <1>9, <2>3, <3>2, <5>1 DEF Attended
      <4>. QED  BY <1>7, <1>12, <2>3, <3>2, <4>1, PaidStep
    <3>. QED  BY <3>1, <3>2
  <2>. QED  BY <2>2, <2>3 DEF SharesEarned
<1>. QED  BY <1>12, <1>13, <1>14, <1>15 DEF TimedInv

\* A frame is opened by the stage that runs.
LEMMA TimedBegin ==
    ASSUME EventInv, ProfInv, InputsEnded, TimedInv, [Next]_vars, BeginSubstage, Timed
    PROVE  TimedInv'
<1>1. /\ UNCHANGED <<executing, told, calls>> /\ executing # None /\ executing \in MakesOutput
      /\ ~prof.failed /\ clock' = clock + 1
      /\ calls = <<>> => executing \notin {"toks", "pp-toks"}
  BY DEF BeginSubstage, Running, Tick, EventInv, EventType
<1>2. PICK b \in Substages : b.pstage = Owner /\ prof' = BeginSub(prof, clock, b)
  BY DEF BeginSubstage, ProfCall
<1>3. Owner = prof.active
  BY <1>1 DEF ProfInv, ActiveInv
<1>4. PICK new : new = [sub |-> b, start |-> clock]
  OBVIOUS
<1>5. PICK old : old = ChargeTop(prof, clock).frames
  OBVIOUS
<1>6. /\ prof' \in Profilers /\ prof'.frames = Append(old, new) /\ prof'.stages = prof.stages
      /\ old \in Seq(Frames) /\ new \in Frames
  <2>1. old \in Seq(Frames)
    BY <1>5, DepthFacts, ChargeTopFacts DEF Profilers
  <2>2. new \in Frames
    BY <1>4, DepthFacts DEF Frames
  <2>. QED  BY <1>2, <1>3, <1>4, <1>5, <2>1, <2>2, DepthFacts, BeginSubFacts
<1>7. /\ Depth \in Nat /\ clock \in Nat /\ Depth' = Depth + 1 /\ Base' = Base
      /\ prof'.frames[Depth + 1] = new
      /\ \A j \in 1 .. Depth : /\ prof'.frames[j].sub = prof.frames[j].sub
                               /\ prof'.frames[j].start \in {prof.frames[j].start, clock}
  <2>1. Len(old) = Depth
    BY <1>5, DepthFacts, ChargeTopFacts
  <2>2. /\ Len(prof'.frames) = Depth + 1 /\ prof'.frames[Depth + 1] = new
        /\ \A j \in 1 .. Depth : prof'.frames[j] = old[j]
    BY <1>6, <2>1, AppendProperties
  <2>3. Base' = Base
    BY <1>1 DEF Base
  <2>. QED  BY <1>5, <2>2, <2>3, DepthFacts, ChargedFrames DEF Depth
<1>8. Base \in Nat /\ Base <= Depth
  <2>1. Base \in Nat
    BY DepthFacts DEF Base, Calls
  <2>. QED  BY <2>1 DEF TimedInv, FramesOwned
<1>9. /\ prof.stages[Owner].running
      /\ \/ executing \in MakesOutput \ {"toks", "pp-toks"} /\ Owner = StageOf(executing).name
         \/ \E c \in DOMAIN calls : calls[c].depth < Depth + 1 /\ calls[c].stage = Owner
  <2>1. CASE calls = <<>>
    BY <1>1, <2>1 DEF Owner, ProfInv, ActiveInv
  <2>2. CASE calls # <<>>
    <3>1. Len(calls) \in DOMAIN calls /\ calls[Len(calls)].depth = Base
      BY <2>2, DepthFacts DEF Base
    <3>2. calls[Len(calls)].depth < Depth + 1
      BY <1>7, <1>8, <3>1
    <3>. QED  BY <2>2, <3>1, <3>2 DEF Owner, TimedInv, FramesOwned
  <2>. QED  BY <2>1, <2>2
<1>10. FramesOwned'
  <2>1. Base' <= Depth'
    BY <1>7, <1>8
  <2>2. ASSUME NEW j \in 1 .. Depth + 1
        PROVE  LET s == prof'.frames[j].sub.pstage
               IN  /\ prof'.stages[s].running
                   /\ prof'.frames[j].start <= clock'
                   /\ \/ /\ executing' \in MakesOutput \ {"toks", "pp-toks"}
                         /\ s = StageOf(executing').name
                      \/ \E c \in DOMAIN calls' : calls'[c].depth < j /\ calls'[c].stage = s
    <3>1. CASE j = Depth + 1
      <4>1. prof'.frames[j].sub = b /\ prof'.frames[j].start = clock
        BY <1>4, <1>7, <3>1
      <4>2. clock <= clock'
        BY <1>1, <1>7
      <4>. QED  BY <1>1, <1>2, <1>6, <1>9, <3>1, <4>1, <4>2
    <3>2. CASE j # Depth + 1
      <4>1. j \in 1 .. Depth
        BY <1>7, <2>2, <3>2
      <4>2. prof.frames[j].start <= clock /\ prof.frames[j].start \in Int
        BY <4>1, DepthFacts DEF TimedInv, FramesOwned
      <4>3. prof'.frames[j].start <= clock'
        BY <1>1, <1>7, <4>1, <4>2
      <4>. QED  BY <1>1, <1>6, <1>7, <4>1, <4>3 DEF TimedInv, FramesOwned
    <3>. QED  BY <3>1, <3>2
  <2>. QED  BY <1>1, <1>6, <1>7, <2>1, <2>2 DEF TimedInv, FramesOwned
<1>11. EndedRest'
  BY <1>1, <1>6 DEF TimedInv, EndedRest
<1>12. PastTimes'
  <2>1. \A t \in Stages : prof.stages[t] \in StageTimes
    BY DepthFacts DEF Profilers
  <2>2. \A t \in Stages : prof.stages[t].total \in Int /\ prof.stages[t].start \in Int
    BY <2>1 DEF StageTimes
  <2>. QED  BY <1>1, <1>6, <1>7, <2>2 DEF TimedInv, PastTimes
<1>13. SharesEarned'
  <2>1. \A t \in Stages : Share(prof, t) + Uncharged(prof, clock, t) <= Earned(prof', clock, t)
    BY <1>6 DEF TimedInv, SharesEarned, Earned
  <2>2. /\ \A t \in Stages : Share(prof', t) + Uncharged(prof', clock', t) <= Earned(prof', clock', t)
        /\ \A k \in MakesOutput : told'[k] = "nothing" => Share(prof', StageOf(k).name) = 0
    BY <1>1, <1>7, <1>10, <2>1, SharesStep
  <2>3. \A t \in Stages : Attended(t)' \/ Share(prof', t) <= prof'.stages[t].total
    BY <1>1, <1>6, <1>10, PaidStep DEF Attended
  <2>. QED  BY <2>2, <2>3 DEF SharesEarned
<1>. QED  BY <1>10, <1>11, <1>12, <1>13 DEF TimedInv

\* The innermost frame is closed, above where the running call began.
LEMMA TimedFinish ==
    ASSUME EventInv, ProfInv, InputsEnded, TimedInv, [Next]_vars, FinishSubstage, Timed
    PROVE  TimedInv'
<1>1. /\ UNCHANGED <<executing, told, calls>> /\ executing # None
      /\ Depth > Base /\ clock' = clock + 1
      /\ prof' = FinishSub(prof, clock, prof.frames[Depth].sub)
  BY DEF FinishSubstage, ProfCall, Tick
<1>2. Base \in Nat
  BY DepthFacts DEF Base, Calls
<1>3. PICK n : n = Depth
  OBVIOUS
<1>4. /\ n \in Nat /\ n > Base /\ n # 0 /\ clock \in Nat /\ prof.frames # <<>>
  BY <1>1, <1>2, <1>3, DepthFacts
<1>5. /\ prof' \in Profilers /\ Len(prof'.frames) = n - 1 /\ prof'.stages = prof.stages
      /\ \A j \in 1 .. n - 1 : prof'.frames[j] = IF j = n - 1 THEN [prof.frames[j] EXCEPT !.start = clock]
                                                 ELSE prof.frames[j]
  <2>1. n = Len(prof.frames) /\ prof' = FinishSub(prof, clock, prof.frames[Len(prof.frames)].sub)
    BY <1>1, <1>3, DepthFacts
  <2>. QED  BY <1>4, <2>1, DepthFacts, FinishSubFacts
<1>6. \A j \in 1 .. n - 1 : /\ j \in 1 .. n
                            /\ prof'.frames[j].sub = prof.frames[j].sub
                            /\ prof'.frames[j].start \in {prof.frames[j].start, clock}
  <2>1. SUFFICES ASSUME NEW j \in 1 .. n - 1
                 PROVE  /\ j \in 1 .. n
                        /\ prof'.frames[j].sub = prof.frames[j].sub
                        /\ prof'.frames[j].start \in {prof.frames[j].start, clock}
    OBVIOUS
  <2>2. j \in 1 .. n
    BY <1>4
  <2>3. prof.frames[j] \in Frames
    BY <1>3, <2>2, DepthFacts
  <2>. QED  BY <1>5, <2>2, <2>3 DEF Frames
<1>7. Depth' = n - 1 /\ Base' = Base
  BY <1>1, <1>5 DEF Depth, Base
<1>8. FramesOwned'
  <2>1. Base' <= Depth'
    BY <1>2, <1>4, <1>7
  <2>2. ASSUME NEW j \in 1 .. n - 1
        PROVE  LET s == prof'.frames[j].sub.pstage
               IN  /\ prof'.stages[s].running
                   /\ prof'.frames[j].start <= clock'
                   /\ \/ /\ executing' \in MakesOutput \ {"toks", "pp-toks"}
                         /\ s = StageOf(executing').name
                      \/ \E c \in DOMAIN calls' : calls'[c].depth < j /\ calls'[c].stage = s
    <3>1. j \in 1 .. Depth
      BY <1>3, <1>6
    <3>2. prof.frames[j].start <= clock /\ prof.frames[j].start \in Int
      BY <3>1, DepthFacts DEF TimedInv, FramesOwned
    <3>3. prof'.frames[j].start <= clock'
      BY <1>1, <1>4, <1>6, <3>2
    <3>. QED  BY <1>1, <1>5, <1>6, <3>1, <3>3, ZenonT(60) DEF TimedInv, FramesOwned
  <2>. QED  BY <1>1, <1>5, <1>7, <2>1, <2>2 DEF TimedInv, FramesOwned
<1>9. EndedRest'
  BY <1>1, <1>5 DEF TimedInv, EndedRest
<1>10. PastTimes'
  <2>1. \A t \in Stages : prof.stages[t] \in StageTimes
    BY DepthFacts DEF Profilers
  <2>2. \A t \in Stages : prof.stages[t].total \in Int /\ prof.stages[t].start \in Int
    BY <2>1 DEF StageTimes
  <2>. QED  BY <1>1, <1>4, <1>5, <2>2 DEF TimedInv, PastTimes
<1>11. SharesEarned'
  <2>1. \A t \in Stages : Share(prof, t) + Uncharged(prof, clock, t) <= Earned(prof', clock, t)
    BY <1>5 DEF TimedInv, SharesEarned, Earned
  <2>2. /\ \A t \in Stages : Share(prof', t) + Uncharged(prof', clock', t) <= Earned(prof', clock', t)
        /\ \A k \in MakesOutput : told'[k] = "nothing" => Share(prof', StageOf(k).name) = 0
    BY <1>1, <1>4, <1>8, <2>1, SharesStep
  <2>3. \A t \in Stages : Attended(t)' \/ Share(prof', t) <= prof'.stages[t].total
    BY <1>1, <1>5, <1>8, PaidStep DEF Attended
  <2>. QED  BY <2>2, <2>3 DEF SharesEarned
<1>. QED  BY <1>8, <1>9, <1>10, <1>11 DEF TimedInv

\* A stage ends with no frame open.
LEMMA TimedEnd ==
    ASSUME EventInv, ProfInv, InputsEnded, TimedInv, [Next]_vars, EndStage, Timed
    PROVE  TimedInv'
<1>1. PICK kind : kind = executing
  OBVIOUS
<1>2. PICK s : s = StageOf(kind).name
  OBVIOUS
<1>3. /\ kind \in MakesOutput /\ executing' = None /\ calls = <<>> /\ calls' = <<>> /\ Depth = 0
      /\ clock' = clock + 1 /\ ~prof.failed
      /\ told \in [MakesOutput -> {"nothing", "start", "finish", "end"}]
      /\ \/ prof' = prof /\ told' = told
         \/ prof' = FinishStage(prof, clock, s) /\ \E x \in {"finish", "end"} : told' = [told EXCEPT ![kind] = x]
  <2>1. prof.active = StageOf(kind).name
    BY <1>1 DEF EndStage, Running, ProfInv, ActiveInv, Owner
  <2>2. kind \in MakesOutput /\ told \in [MakesOutput -> {"nothing", "start", "finish", "end"}]
    BY <1>1 DEF EndStage, EventInv, EventType
  <2>. QED  BY <1>1, <1>2, <2>1, <2>2 DEF EndStage, Running, Tick, ProfCall, TimerFinish
<1>4. s \in Stages /\ DOMAIN calls = {} /\ prof.frames = <<>> /\ clock \in Nat
  BY <1>2, <1>3, StagesAssumption, DepthFacts
<1>5. /\ prof' \in Profilers /\ prof'.frames = prof.frames
      /\ \/ prof'.stages[s] = prof.stages[s] /\ (told' = told \/ ~prof.stages[s].running)
         \/ prof.stages[s].running /\ prof'.stages[s] = Halted(prof.stages[s], clock)
      /\ \A t \in Stages \ {s} : prof'.stages[t] = prof.stages[t]
  <2>1. CASE prof' = prof /\ told' = told
    BY <2>1, DepthFacts
  <2>2. CASE prof' = FinishStage(prof, clock, s)
    <3>1. /\ prof' \in Profilers /\ prof'.frames = prof.frames
          /\ ~prof.stages[s].running => prof' = prof
          /\ prof.stages[s].running => /\ prof'.stages[s] = Halted(prof.stages[s], clock)
                                       /\ \A t \in Stages \ {s} : prof'.stages[t] = prof.stages[t]
      BY <1>4, <2>2, DepthFacts, FinishStageFacts
    <3>. QED  BY <3>1
  <2>. QED  BY <1>3, <2>1, <2>2
<1>6. Depth' = 0 /\ Base' = 0
  BY <1>3, <1>5 DEF Depth, Base
<1>7. FramesOwned'
  BY <1>3, <1>4, <1>6 DEF FramesOwned
<1>8. EndedRest'
  <2>1. SUFFICES ASSUME NEW k \in MakesOutput, told'[k] = "end", prof'.stages[StageOf(k).name].running
                 PROVE  FALSE
    BY DEF EndedRest
  <2>2. \A l \in MakesOutput : told[l] = "end" => ~prof.stages[StageOf(l).name].running
    BY <1>4 DEF TimedInv, EndedRest
  <2>3. CASE k = kind
    <3>1. prof'.stages[s].running
      BY <1>2, <2>1, <2>3
    <3>2. told' = told
      BY <1>5, <3>1 DEF Halted
    <3>3. prof'.stages[s] = prof.stages[s]
      BY <1>5, <3>1 DEF Halted
    <3>. QED  BY <1>2, <2>1, <2>2, <2>3, <3>1, <3>2, <3>3
  <2>4. CASE k # kind
    <3>1. told[k] = "end"
      BY <1>3, <2>1, <2>4
    <3>2. StageOf(k).name \in Stages \ {s}
      BY <1>2, <1>3, <2>4, NamesDiffer, StagesAssumption
    <3>. QED  BY <1>5, <2>1, <2>2, <3>1, <3>2
  <2>. QED  BY <2>3, <2>4
<1>9. prof'.stages[s] = Halted(prof.stages[s], clock) =>
         /\ ~prof'.stages[s].running
         /\ prof'.stages[s].total = prof.stages[s].total + (clock - prof.stages[s].start)
  BY DEF Halted
<1>10. PastTimes'
  <2>1. \A t \in Stages : prof.stages[t] \in StageTimes
    BY DepthFacts DEF Profilers
  <2>2. \A t \in Stages : prof.stages[t].total \in Int /\ prof.stages[t].start \in Int
    BY <2>1 DEF StageTimes
  <2>3. ASSUME NEW t \in Stages
        PROVE  /\ prof'.stages[t].total <= clock'
               /\ prof'.stages[t].running => /\ prof'.stages[t].total <= prof'.stages[t].start
                                             /\ prof'.stages[t].start <= clock'
    <3>1. CASE prof'.stages[t] = prof.stages[t]
      BY <1>3, <1>4, <2>2, <3>1 DEF TimedInv, PastTimes
    <3>2. CASE t = s /\ prof.stages[s].running /\ prof'.stages[s] = Halted(prof.stages[s], clock)
      <4>1. prof.stages[s].total <= prof.stages[s].start
        BY <1>4, <3>2 DEF TimedInv, PastTimes
      <4>. QED  BY <1>3, <1>4, <1>9, <2>2, <3>2, <4>1
    <3>. QED  BY <1>5, <3>1, <3>2
  <2>. QED  BY <2>3 DEF PastTimes
<1>11. SharesEarned'
  <2>1. ASSUME NEW t \in Stages
        PROVE  Share(prof, t) + Uncharged(prof, clock, t) <= Earned(prof', clock, t)
    <3>1. Earned(prof', clock, t) = Earned(prof, clock, t)
      <4>1. CASE prof'.stages[t] = prof.stages[t]
        BY <4>1 DEF Earned
      <4>2. CASE t = s /\ prof.stages[s].running /\ prof'.stages[s] = Halted(prof.stages[s], clock)
        <5>1. prof.stages[s].total \in Int /\ prof.stages[s].start \in Int
          BY <1>4, DepthFacts DEF Profilers, StageTimes
        <5>. QED  BY <1>4, <1>9, <4>2, <5>1 DEF Earned
      <4>. QED  BY <1>5, <4>1, <4>2
    <3>. QED  BY <3>1 DEF TimedInv, SharesEarned
  <2>2. /\ \A t \in Stages : Share(prof', t) + Uncharged(prof', clock', t) <= Earned(prof', clock', t)
        /\ \A k \in MakesOutput : told'[k] = "nothing" => Share(prof', StageOf(k).name) = 0
    BY <1>3, <1>4, <1>7, <2>1, SharesStep
  \* A stage left running has captured its stream and is not attended to.
  <2>3. ASSUME NEW t \in Stages, ~Attended(t)'
        PROVE  Share(prof', t) <= prof'.stages[t].total
    <3>1. CASE t # s
      <4>1. ~Attended(t)
        BY <1>1, <1>2, <1>4, <3>1 DEF Attended
      <4>. QED  BY <1>5, <1>7, <2>3, <3>1, <4>1, PaidStep
    <3>2. CASE t = s /\ ~prof'.stages[s].running
      BY <1>7, <2>2, <2>3, <3>2, PaidStep
    <3>3. CASE t = s /\ prof'.stages[s].running
      <4>1. kind \in {"toks", "pp-toks"}
        <5>1. ErrorsThen > 0 /\ kind \notin Checks
          <6>1. told' = told
            BY <1>5, <1>9, <1>10, <3>3
          <6>2. told'[kind] # told[kind] \/ (ErrorsThen > 0 /\ kind \notin Checks)
            BY <1>1, <1>3 DEF EndStage, EventInv
          <6>. QED  BY <6>1, <6>2
        <5>2. errors \in Nat /\ (errors > 0 => Reader(kind))
          BY <1>1, <1>3, KindFacts DEF EventInv, EventType, EndStage, Running
        <5>3. BinderErrors = 0
          BY <1>1, <5>1 DEF BinderErrors, Checks
        <5>. QED  BY <5>1, <5>2, <5>3 DEF ErrorsThen, Checks, Reader
      <4>2. ~Attended(s)
        BY <1>1, <1>2, <1>3, <1>4, <4>1 DEF Attended
      <4>3. prof'.stages[s].total = prof.stages[s].total
        BY <1>5, <1>9, <3>3
      <4>. QED  BY <1>7, <2>3, <3>3, <4>2, <4>3, PaidStep
    <3>. QED  BY <3>1, <3>2, <3>3
  <2>. QED  BY <2>2, <2>3 DEF SharesEarned
<1>. QED  BY <1>7, <1>8, <1>10, <1>11 DEF TimedInv

LEMMA TimedStep ==
    ASSUME EventInv, ProfInv, TimeInv, [Next]_vars, Timed', ~prof'.failed
    PROVE  TimedInv'
<1>1. ProfInv' /\ InputsEnded
  BY ProfInvStep DEF TimeInv
<1>2. CASE ReadArgument \/ EndArguments \/ OpenSource \/ WriteOutput \/ PrintReports
              \/ Cleanup \/ Abort \/ Stopped \/ UNCHANGED vars
  <2>1. UNCHANGED <<answer, executing, told, dumped, errors, calls, streams, prof, begun, clock>>
    BY <1>2, DriverAside
  <2>2. CASE Timed
    BY <1>1, <2>1, <2>2, TimedQuiet DEF TimeInv
  <2>3. CASE ~Timed
    <3>1. EndArguments
      <4>1. UNCHANGED args \/ EndArguments
        BY <1>2 DEF ReadArgument, OpenSource, WriteOutput, PrintReports, Cleanup, Abort, Stopped,
                    vars, pipeVars
      <4>. QED  BY <2>3, <4>1 DEF Timed
    <3>2. Unstarted'
      <4>1. Unstarted /\ UNCHANGED <<registry, requests>>
        BY <3>1 DEF EndArguments, EventInv
      <4>. QED  BY <2>1, <4>1 DEF Unstarted
    <3>3. clock' \in Nat
      BY <1>1 DEF ProfInv, ProfType
    <3>4. Unstarted /\ clock \in Nat => TimedInv
      BY TimedUnstarted
    <3>5. Unstarted /\ clock \in Nat
      BY <3>1, DepthFacts DEF EndArguments, EventInv
    <3>. QED  BY <2>1, <3>4, <3>5 DEF TimedInv, FramesOwned, EndedRest, PastTimes, SharesEarned,
                                           Attended, Base, Depth
  <2>. QED  BY <2>2, <2>3
<1>3. CASE /\ phase = "pipeline" /\ Running
           /\ \/ RequestInput \/ RequestHit \/ RequestUnknown \/ StartStage
              \/ PullPreproc \/ PullLexer \/ LexToken \/ TakeReplayed \/ ReturnToken \/ ReadReplayed
              \/ BeginSubstage \/ FinishSubstage \/ EndStage
  <2>1. Timed /\ ~prof.failed
    <3>1. UNCHANGED args
      BY <1>3 DEF RequestInput, RequestHit, RequestUnknown, StartStage, PullPreproc, PullLexer, LexToken,
                  TakeReplayed, ReturnToken, ReadReplayed, BeginSubstage, FinishSubstage, EndStage
    <3>. QED  BY <1>3, <3>1 DEF Timed, Running
  <2>2. TimedInv
    BY <2>1 DEF TimeInv
  <2>3. CASE RequestInput \/ RequestHit \/ RequestUnknown \/ TakeReplayed \/ ReadReplayed
    <3>1. UNCHANGED <<executing, calls, prof, told>>
      BY <2>3 DEF RequestInput, RequestHit, RequestUnknown, TakeReplayed, ReadReplayed
    <3>. QED  BY <1>1, <2>2, <3>1, TimedQuiet
  <2>. QED  BY <1>1, <1>3, <2>1, <2>2, <2>3, TimedStart, TimedCalls, TimedReturns, TimedBegin,
               TimedFinish, TimedEnd
<1>. QED  BY <1>2, <1>3, StepKinds

LEMMA TimeStep == TimeInv /\ EventInv /\ ProfInv /\ [Next]_vars => TimeInv'
<1>. SUFFICES ASSUME TimeInv, EventInv, ProfInv, [Next]_vars PROVE TimeInv'
  OBVIOUS
<1>1. Answered' /\ InputsEnded'
  BY AnsweredStep, InputsStep DEF TimeInv
<1>. QED  BY <1>1, TimedStep DEF TimeInv

LEMMA TimeInit == Init => TimeInv
<1>. SUFFICES ASSUME Init PROVE TimeInv
  OBVIOUS
<1>1. /\ phase = "arguments" /\ clock = 0 /\ Unstarted
  BY DEF Init, InitPipeline, Unstarted
<1>2. Answered /\ InputsEnded
  BY <1>1 DEF Answered, InputsEnded, Unstarted, ProfInit
<1>. QED  BY <1>1, <1>2, TimedUnstarted DEF TimeInv

\* Time of a substage is time of its stage, across all pulls of the token stream
\* (charge_top and el_prof_enter_stage).
THEOREM TimesInvariant == Spec => []TimeInv
<1>. QED  BY TimeInit, TimeStep, EventsInvariant, ActiveStageInvariant, PTL DEF Spec

\* The sum of the report is the share of the stage.
LEMMA ReportedShare ==
    ASSUME NEW s, prof \in Profilers
    PROVE  MapThenSumSet(LAMBDA b : IF b.pstage = s THEN prof.subs[b] ELSE 0, Substages) = Share(prof, s)
<1>1. PICK g : g = [b \in Substages |-> IF b.pstage = s THEN prof.subs[b] ELSE 0]
  OBVIOUS
<1>2. g \in [Substages -> Int] /\ \A b \in Substages : g[b] = IF b.pstage = s THEN prof.subs[b] ELSE 0
  BY <1>1 DEF Profilers
<1>. DEFINE iter == CHOOSE f : f = [t \in SUBSET Substages |->
                       IF t = {} THEN 0
                       ELSE (IF Choice(t).pstage = s THEN prof.subs[Choice(t)] ELSE 0) + f[Fewer(t)]]
            first == CHOOSE f : f = [t \in SUBSET Substages |-> IF t = {} THEN 0 ELSE g[Choice(t)] + f[Fewer(t)]]
<1>3. ASSUME NEW f
      PROVE  [t \in SUBSET Substages |->
                 IF t = {} THEN 0
                 ELSE (IF Choice(t).pstage = s THEN prof.subs[Choice(t)] ELSE 0) + f[Fewer(t)]]
             = [t \in SUBSET Substages |-> IF t = {} THEN 0 ELSE g[Choice(t)] + f[Fewer(t)]]
  <2>1. ASSUME NEW t \in SUBSET Substages, t # {}
        PROVE  (IF Choice(t).pstage = s THEN prof.subs[Choice(t)] ELSE 0) = g[Choice(t)]
    <3>1. Choice(t) \in Substages
      BY <2>1, ChoiceFacts
    <3>. QED  BY <1>2, <3>1
  <2>. QED  BY <2>1
<1>4. iter = first
  BY <1>3, Zenon
<1>5. MapThenSumSet(LAMBDA b : IF b.pstage = s THEN prof.subs[b] ELSE 0, Substages) = iter[Substages]
  BY Zenon DEF MapThenSumSet, MapThenFoldSet, Choice, Fewer
<1>6. Total(g, Substages) = first[Substages]
  BY Zenon DEF Total, MapThenSumSet, MapThenFoldSet, Choice, Fewer
<1>. QED  BY <1>1, <1>4, <1>5, <1>6 DEF Share

LEMMA ReportFacts == EventInv /\ ProfInv /\ TimeInv => ReportConsistent
<1>. SUFFICES ASSUME EventInv, ProfInv, TimeInv, phase = "reports"
              PROVE  /\ prof.frames = <<>>
                     /\ \A s \in Stages :
                           /\ told # [k \in MakesOutput |-> "nothing"] => prof.stages[s].total <= clock
                           /\ MapThenSumSet(LAMBDA b : IF b.pstage = s THEN prof.subs[b] ELSE 0, Substages)
                                <= prof.stages[s].total
                     /\ \A k \in Produced : ~prof.stages[StageOf(k).name].running
  BY Zenon DEF ReportConsistent
<1>1. answer # "pending" /\ ~prof.failed /\ executing = None /\ calls = <<>>
  <2>1. answer # "pending" /\ ~prof.failed
    BY DEF TimeInv, Answered
  <2>. QED  BY <2>1 DEF EventInv
<1>2. /\ prof.frames = <<>>
      /\ \A s \in Stages : prof.stages[s].total <= clock /\ Share(prof, s) <= prof.stages[s].total
      /\ \A k \in Produced : ~prof.stages[StageOf(k).name].running
  <2>1. CASE ~Timed
    <3>1. prof = ProfInit
      BY <2>1 DEF ProfInv, ActiveInv
    <3>2. \A s \in Stages : prof.stages[s].total = 0 /\ ~prof.stages[s].running
      BY <3>1 DEF ProfInit, NewStage
    <3>3. \A s : Share(prof, s) = 0
      BY <3>1, ShareZero
    <3>4. prof.frames = <<>> /\ clock \in Nat
      BY <3>1, DepthFacts DEF ProfInit
    <3>5. \A k \in Produced : StageOf(k).name \in Stages
      BY StagesAssumption DEF Produced
    <3>. QED  BY <3>2, <3>3, <3>4, <3>5
  <2>2. CASE Timed
    <3>1. TimedInv /\ DOMAIN calls = {}
      BY <1>1, <2>2, DepthFacts DEF TimeInv
    <3>2. prof.frames = <<>>
      <4>1. SUFFICES ASSUME Depth # 0 PROVE FALSE
        BY DepthFacts
      <4>2. 1 \in 1 .. Depth
        BY <4>1, DepthFacts
      <4>. QED  BY <1>1, <3>1, <4>2, KindFacts DEF TimedInv, FramesOwned
    <3>3. ASSUME NEW s \in Stages
          PROVE  prof.stages[s].total <= clock /\ Share(prof, s) <= prof.stages[s].total
      <4>1. ~Attended(s)
        BY <1>1, <3>1, KindFacts DEF Attended
      <4>. QED  BY <3>1, <4>1 DEF TimedInv, PastTimes, SharesEarned
    <3>4. \A k \in Produced : ~prof.stages[StageOf(k).name].running
      BY <3>1 DEF TimedInv, EndedRest, Produced
    <3>. QED  BY <3>2, <3>3, <3>4
  <2>. QED  BY <2>1, <2>2
<1>3. ASSUME NEW s \in Stages
      PROVE  MapThenSumSet(LAMBDA b : IF b.pstage = s THEN prof.subs[b] ELSE 0, Substages)
                <= prof.stages[s].total
  <2>1. MapThenSumSet(LAMBDA b : IF b.pstage = s THEN prof.subs[b] ELSE 0, Substages) = Share(prof, s)
    BY DepthFacts, ReportedShare, Zenon
  <2>2. Share(prof, s) <= prof.stages[s].total
    BY <1>2
  <2>. QED  BY <2>1, <2>2, Zenon
<1>. QED  BY <1>2, <1>3, Zenon

\* The rows of the report are consistent: no frame is open when it is printed, and the
\* row (other), the time of a stage less that of its substages, is not negative
\* (el_prof_report_print).
THEOREM ReportsAreConsistent == Spec => []ReportConsistent
<1>. QED  BY ReportFacts, EventsInvariant, ActiveStageInvariant, TimesInvariant, PTL


-----------------------------------------------------------------------------
(* The exit status and the dumps.                                          *)

\* What the command line leaves: artifacts there are, or none, and dumps there are.
Understood(out) ==
    /\ out = [input |-> out.input, output |-> out.output, until |-> out.until, emit |-> out.emit,
              opt |-> out.opt, dumps |-> out.dumps, timed |-> out.timed, imap |-> out.imap,
              switches |-> out.switches, color |-> out.color, handlers |-> out.handlers,
              help |-> out.help, version |-> out.version]
    /\ out.until \in Artifacts \cup {None} /\ out.emit \in Artifacts \cup {None}
    /\ out.dumps \subseteq Dumps
ParserOf(p) ==
    /\ p = [argv |-> p.argv, stop |-> p.stop, cmdSet |-> p.cmdSet, out |-> p.out, code |-> p.code]
    /\ Understood(p.out)

\* Before anything has been read, dumped or written.
Unread ==
    /\ streams = [lexed |-> 0, taken |-> 0, hand |-> 0, over |-> FALSE,
                  buffer |-> <<>>, replayed |-> 0, read |-> <<>>, ended |-> FALSE]
    /\ dumped = <<>> /\ written = None

\* What is requested leads to the target, and the stage of the last request executes.
RequestsInv ==
    /\ requests \in Seq(Artifacts)
    /\ requests # <<>> /\ answer = "pending" => requests[1] = Target
    /\ \A i \in DOMAIN requests : Reaches(requests[i])
    /\ executing # None => requests # <<>> /\ executing = Wanted
    /\ answer = "yes" => IF Target = "source" THEN source.exists /\ args.input # "-" ELSE told[Target] = "end"
    /\ answer \in {"pending", "yes", "no"}
    /\ answer = "no" => errors > 0 \/ args.input = "-"
    /\ phase = "pipeline" => IF args.input = "-" THEN "source" \notin registry
                             ELSE source.exists /\ "source" \in registry
    /\ \A k \in MakesOutput : told[k] # "nothing" => source.exists /\ args.input # "-"
    /\ registry \subseteq Artifacts
    /\ "source" \in registry => source.exists /\ args.input # "-"

\* How the run ends.
OutcomeInv ==
    /\ phase \in {"arguments", "source", "pipeline"} => written = None
    /\ phase = "reports" => written = IF answer = "yes" /\ Target \in {"obj", "asm"} THEN Target ELSE None
    /\ phase = "reports" => answer # "pending"
    /\ phase # "exited" => freed = <<>>
    /\ phase = "exited" => ReleasedOnce
    /\ phase = "cleanup" \/ Ran =>
          \/ /\ exit = 0 /\ answer = "yes"
             /\ written = IF Target \in {"obj", "asm"} THEN Target ELSE None
          \/ exit = 1 /\ answer = "no" /\ written = None
          \/ /\ exit = 1 /\ answer = "pending" /\ written = None
             /\ ~source.exists /\ args.input # "-"

\* A call is made for a token that is missing, and of streams that were not captured.
CallsNeeded ==
    /\ calls # <<>> /\ executing = "toks" => streams.lexed < Eof
    /\ calls # <<>> /\ executing = "ast" => ~Captures("pp-toks")
    /\ calls # <<>> /\ executing # "toks" => ~streams.over
    /\ Len(calls) = 2 => ~Captures("toks") /\ streams.hand = 0

\* What the preprocessor has returned.
Delivered == IF Captures("pp-toks") THEN streams.buffer ELSE streams.read
Leaves(n) == {m \in 1 .. Size : m <= n /\ source.kept[m]}
InOrder(tokens) == \A i, j \in DOMAIN tokens : i < j => tokens[i] < tokens[j]

\* The fields of a pair of streams.
StreamType ==
    streams \in [lexed : 0 .. Eof, taken : 0 .. Eof, hand : 0 .. Eof, over : BOOLEAN,
                 buffer : Seq(1 .. Size), replayed : Nat, read : Seq(1 .. Size), ended : BOOLEAN]

\* How far the streams are: what the preprocessor has taken and not returned is in hand.
StreamsFollow ==
    /\ streams.hand # 0 => InCall("Preprocessor") /\ ~streams.over
    /\ streams.hand = 0 /\ ~streams.over => streams.taken < Eof
    /\ streams.hand \notin {0, Eof} => streams.hand = streams.taken /\ source.kept[streams.hand]
    /\ ~Captures("toks") => streams.lexed = streams.taken

\* Without an error nothing is missing of what has been taken.
StreamsWhole ==
    errors = 0 =>
       /\ InOrder(Delivered)
       /\ Range(Delivered) = Leaves(IF streams.hand = 0 THEN streams.taken ELSE streams.taken - 1)
       /\ streams.over \/ streams.hand = Eof => streams.taken = Eof
       /\ streams.hand # 0 => streams.taken # 0

\* What the parser has read.
ParserReads ==
    /\ told["ast"] = "nothing" => streams.read = <<>> /\ ~streams.ended
    /\ ~Captures("pp-toks") => streams.ended = streams.over
    /\ Captures("pp-toks") =>
          /\ Len(streams.read) = IF streams.ended THEN Len(streams.buffer) ELSE streams.replayed
          /\ \A i \in DOMAIN streams.read : streams.read[i] = streams.buffer[i]
          /\ Len(streams.read) <= Len(streams.buffer)

\* What the stages have read when they have ended.
StreamsRead ==
    /\ told["toks"] = "end" /\ Captures("toks") => streams.lexed = Eof
    /\ told["pp-toks"] = "end" /\ Captures("pp-toks") => Preserved(streams.buffer) /\ streams.taken = Eof
    /\ told["ast"] = "end" => Preserved(streams.read) /\ streams.taken = Eof /\ streams.ended

\* A flaw has been reported when its token was read, and only if the target asks for it.
FlawsReported ==
    /\ errors > 0 => FlawSeen
    /\ source.flaw = "lexer" /\ source.at <= streams.lexed => errors > 0
    /\ source.flaw = "preprocessor" /\ source.at <= streams.taken => errors > 0
    /\ source.flaw = "parser" /\ (source.at \in Range(streams.read) \/ (source.at = Eof /\ streams.ended))
          => errors > 0
    /\ source.flaw = "binder" => told["hir"] # "end"

\* Each stage that has ended was dumped if that was asked for.
DumpsInv ==
    /\ dumped \in Seq(MakesOutput)
    /\ \A i, j \in DOMAIN dumped : i < j => dumped[i] # dumped[j]
    /\ \A k \in MakesOutput : (\E i \in DOMAIN dumped : dumped[i] = k) <=> told[k] = "end" /\ DumpsOf(k) = <<k>>

RunInv ==
    /\ ParserOf(cli) /\ Understood(args) /\ source \in Sources \cup {NoDocument}
    /\ phase \in {"arguments", "source"} => Unread
    /\ RequestsInv /\ OutcomeInv /\ CallsNeeded /\ StreamType /\ StreamsFollow
    /\ StreamsWhole /\ ParserReads /\ StreamsRead /\ FlawsReported /\ DumpsInv

LEMMA ParserFacts ==
    ASSUME NEW p, ParserOf(p), NEW x
    PROVE  /\ ParserOf([p EXCEPT !.argv = x]) /\ [p EXCEPT !.argv = x].out = p.out
           /\ ParserOf([p EXCEPT !.code = x])
           /\ ParserOf([p EXCEPT !.stop = x])
           /\ ParserOf([p EXCEPT !.cmdSet = x])
           /\ Understood(x) => ParserOf([p EXCEPT !.out = x])
<1>. PICK argv, stop, cmdSet, out, code :
        p = [argv |-> argv, stop |-> stop, cmdSet |-> cmdSet, out |-> out, code |-> code]
  BY DEF ParserOf
<1>. QED  BY DEF ParserOf

LEMMA AdvanceParser ==
    ASSUME NEW p, ParserOf(p)
    PROVE  ParserOf(Advance(p)) /\ ParserOf(AfterValue(p)) /\ AfterValue(p).out = p.out
<1>1. ParserOf(Advance(p)) /\ Advance(p).out = p.out
  BY ParserFacts DEF Advance
<1>2. ParserOf(Advance(Advance(p))) /\ Advance(Advance(p)).out = p.out
  BY <1>1, ParserFacts DEF Advance
<1>. QED  BY <1>1, <1>2 DEF AfterValue

LEMMA RejectParser ==
    ASSUME NEW p, ParserOf(p), NEW code
    PROVE  ParserOf(Reject(p, code))
  BY ParserFacts DEF Reject

\* The fields of the arguments a handler sets.
LEMMA UnderstoodFacts ==
    ASSUME NEW out, Understood(out), NEW x
    PROVE  /\ Understood([out EXCEPT !.output = x]) /\ Understood([out EXCEPT !.imap = x])
           /\ Understood([out EXCEPT !.opt = x]) /\ Understood([out EXCEPT !.switches = x])
           /\ Understood([out EXCEPT !.color = x]) /\ Understood([out EXCEPT !.handlers = x])
           /\ Understood([out EXCEPT !.timed = x]) /\ Understood([out EXCEPT !.input = x])
           /\ Understood([out EXCEPT !.help = x]) /\ Understood([out EXCEPT !.version = x])
           /\ x \in Artifacts \cup {None} => /\ Understood([out EXCEPT !.until = x])
                                            /\ Understood([out EXCEPT !.emit = x])
           /\ x \subseteq Dumps => Understood([out EXCEPT !.dumps = x])
<1>. PICK input, output, until, emit, opt, dumps, timed, imap, switches, color, handlers, help, version :
        out = [input |-> input, output |-> output, until |-> until, emit |-> emit,
               opt |-> opt, dumps |-> dumps, timed |-> timed, imap |-> imap,
               switches |-> switches, color |-> color, handlers |-> handlers,
               help |-> help, version |-> version]
  BY DEF Understood
<1>. QED  BY SMTT(40) DEF Understood

LEMMA ArtifactFlags ==
    ASSUME NEW out, Understood(out), NEW flag, NEW kind \in Artifacts
    PROVE  Understood(WithArtifact(out, flag, kind))
<1>. PICK input, output, until, emit, opt, dumps, timed, imap, switches, color, handlers, help, version :
        out = [input |-> input, output |-> output, until |-> until, emit |-> emit,
               opt |-> opt, dumps |-> dumps, timed |-> timed, imap |-> imap,
               switches |-> switches, color |-> color, handlers |-> handlers,
               help |-> help, version |-> version]
  BY DEF Understood
<1>. QED  BY DEF Understood, WithArtifact

\* Flags with a value.
LEMMA ValuedFlags ==
    ASSUME NEW p, ParserOf(p), NEW flag
    PROVE  /\ ParserOf(HandleOutput(p)) /\ ParserOf(HandleInclude(p))
           /\ \A code : ParserOf(Reject(AfterValue(p), code))
           /\ ValueOf(p) \in Artifacts =>
                ParserOf([AfterValue(p) EXCEPT
                             !.out = WithArtifact(AfterValue(p).out, flag, ArtifactFromString(ValueOf(p)))])
           /\ ParserOf(Valued(p, LAMBDA v : v \in OptLevels, "unknown-opt-level",
                              LAMBDA out, v : [out EXCEPT !.opt = v]))
           /\ flag \in {"color", "handlers"} =>
                ParserOf([AfterValue(p) EXCEPT !.out = [AfterValue(p).out EXCEPT ![flag] = ValueOf(p)]])
<1>1. PICK rest : rest = AfterValue(p)
  OBVIOUS
<1>2. PICK val : val = ValueOf(p)
  OBVIOUS
<1>3. ParserOf(rest) /\ Understood(rest.out)
  BY <1>1, AdvanceParser DEF ParserOf
<1>4. \A code : ParserOf(Reject(rest, code))
  BY <1>3, RejectParser
<1>5. ParserOf(HandleOutput(p))
  <2>1. ParserOf([rest EXCEPT !.out = [rest.out EXCEPT !.output = val]])
    BY <1>3, UnderstoodFacts, ParserFacts
  <2>. QED  BY <1>1, <1>2, <1>4, <2>1 DEF HandleOutput, Valued
<1>6. ParserOf(HandleInclude(p))
  <2>1. ParserOf([rest EXCEPT !.out = [rest.out EXCEPT !.imap = rest.out.imap \cup {val}]])
    BY <1>3, UnderstoodFacts, ParserFacts
  <2>. QED  BY <1>1, <1>2, <1>4, <2>1 DEF HandleInclude, Valued
<1>7. val \in Artifacts => ParserOf([rest EXCEPT !.out = WithArtifact(rest.out, flag, ArtifactFromString(val))])
  BY <1>3, ArtifactFlags, ParserFacts DEF ArtifactFromString
<1>8. ParserOf(Valued(p, LAMBDA v : v \in OptLevels, "unknown-opt-level",
                      LAMBDA out, v : [out EXCEPT !.opt = v]))
  <2>1. ParserOf([rest EXCEPT !.out = [rest.out EXCEPT !.opt = val]])
    BY <1>3, UnderstoodFacts, ParserFacts
  <2>. QED  BY <1>1, <1>2, <1>4, <2>1 DEF Valued
<1>9. ASSUME flag \in {"color", "handlers"}
      PROVE  ParserOf([rest EXCEPT !.out = [rest.out EXCEPT ![flag] = val]])
  <2>1. Understood([rest.out EXCEPT ![flag] = val])
    BY <1>3, <1>9, UnderstoodFacts
  <2>. QED  BY <1>3, <2>1, ParserFacts
<1>. QED  BY <1>1, <1>2, <1>4, <1>5, <1>6, <1>7, <1>8, <1>9

LEMMA LongFlags ==
    ASSUME NEW p, ParserOf(p), NEW arg
    PROVE  ParserOf(HandleLong(p, arg))
<1>1. Understood(p.out)
  BY DEF ParserOf
<1>2. CASE arg.flag \in {"help", "version"}
  <2>1. Understood([p.out EXCEPT ![arg.flag] = TRUE])
    BY <1>1, <1>2, UnderstoodFacts
  <2>2. ParserOf([p EXCEPT !.out[arg.flag] = TRUE])
    BY <2>1, ParserFacts
  <2>3. HandleLong(p, arg) = Advance([p EXCEPT !.out[arg.flag] = TRUE])
    BY <1>2 DEF HandleLong, Valued, Dumps
  <2>. QED  BY <2>2, <2>3, AdvanceParser
<1>3. CASE arg.flag \in {"debug", "jsonl", "no-stdlib", "no-corelib"}
  <2>1. ParserOf([p EXCEPT !.out.switches = p.out.switches \cup {arg.flag}])
    BY <1>1, UnderstoodFacts, ParserFacts
  <2>2. HandleLong(p, arg) = Advance([p EXCEPT !.out.switches = p.out.switches \cup {arg.flag}])
    BY <1>3 DEF HandleLong, Valued, Dumps
  <2>. QED  BY <2>1, <2>2, AdvanceParser
<1>4. CASE arg.flag = "output"
  <2>1. HandleLong(p, arg) = HandleOutput(p)
    BY <1>4 DEF HandleLong, Valued, Dumps
  <2>. QED  BY <2>1, ValuedFlags
<1>5. CASE arg.flag \in {"until", "emit"}
  BY <1>5, ValuedFlags DEF HandleLong, Valued, Dumps
<1>6. CASE arg.flag = "opt"
  <2>1. ParserOf(Valued(p, LAMBDA v : v \in OptLevels, "unknown-opt-level",
                        LAMBDA out, v : [out EXCEPT !.opt = v]))
    BY ValuedFlags
  <2>. QED  BY <1>6, <2>1 DEF HandleLong, Valued, Dumps
<1>7. CASE arg.flag \in {"color", "handlers"}
  BY <1>7, ValuedFlags DEF HandleLong, Valued, Dumps
<1>8. CASE arg.flag \in Dumps
  <2>1. PICK marked : marked = [p EXCEPT !.out.dumps = p.out.dumps \cup {arg.flag}]
    OBVIOUS
  <2>2. p.out.dumps \cup {arg.flag} \subseteq Dumps
    BY <1>1, <1>8 DEF Understood
  <2>3. ParserOf(marked)
    BY <1>1, <2>1, <2>2, UnderstoodFacts, ParserFacts
  <2>4. ParserOf(Advance(marked)) /\ ParserOf(Advance(Advance(marked)))
    BY <2>3, AdvanceParser
  <2>5. ParserOf(HandleDump(p, arg))
    BY <2>1, <2>4 DEF HandleDump
  <2>6. HandleLong(p, arg) = HandleDump(p, arg)
    BY <1>8 DEF HandleLong, Valued, Dumps
  <2>. QED  BY <2>5, <2>6
<1>9. CASE arg.flag = "time-report"
  <2>1. ParserOf([p EXCEPT !.out.timed = TRUE])
    BY <1>1, UnderstoodFacts, ParserFacts
  <2>2. HandleLong(p, arg) = Advance([p EXCEPT !.out.timed = TRUE])
    BY <1>9 DEF HandleLong, Valued, HandleTimeReport, Dumps
  <2>. QED  BY <2>1, <2>2, AdvanceParser
<1>10. CASE /\ arg.flag \notin {"help", "version", "debug", "jsonl", "no-stdlib", "no-corelib"}
           /\ arg.flag \notin {"output", "opt", "until", "emit", "color", "handlers", "time-report"}
           /\ arg.flag \notin Dumps
  <2>1. HandleLong(p, arg) = Reject(Advance(p), "unknown-long-flag")
    BY <1>10 DEF HandleLong, Valued, Dumps
  <2>. QED  BY <2>1, AdvanceParser, RejectParser
<1>. QED  BY <1>2, <1>3, <1>4, <1>5, <1>6, <1>7, <1>8, <1>9, <1>10

LEMMA ShortFlags ==
    ASSUME NEW p, ParserOf(p), NEW arg
    PROVE  ParserOf(HandleShort(p, arg))
<1>. DEFINE letters == {arg.letters[i] : i \in DOMAIN arg.letters}
            last == arg.letters[Len(arg.letters)]
            out == [p.out EXCEPT !.help = p.out.help \/ "h" \in letters,
                                 !.version = p.out.version \/ "v" \in letters,
                                 !.switches = IF "d" \in letters THEN p.out.switches \cup {"debug"}
                                              ELSE p.out.switches]
<1>1. PICK seen : seen = [p EXCEPT !.out.help = p.out.help \/ "h" \in letters,
                                   !.out.version = p.out.version \/ "v" \in letters,
                                   !.out.switches = IF "d" \in letters THEN p.out.switches \cup {"debug"}
                                                    ELSE p.out.switches]
  OBVIOUS
<1>2. ParserOf(seen)
  <2>1. PICK h, v, d : /\ h = (p.out.help \/ "h" \in letters) /\ v = (p.out.version \/ "v" \in letters)
                       /\ d = IF "d" \in letters THEN p.out.switches \cup {"debug"} ELSE p.out.switches
    OBVIOUS
  <2>2. PICK a : a = [p EXCEPT !.out = [p.out EXCEPT !.help = h]]
    OBVIOUS
  <2>3. PICK b : b = [a EXCEPT !.out = [a.out EXCEPT !.version = v]]
    OBVIOUS
  <2>4. PICK c : c = [b EXCEPT !.out = [b.out EXCEPT !.switches = d]]
    OBVIOUS
  <2>5. ParserOf(a)
    BY <2>2, UnderstoodFacts, ParserFacts DEF ParserOf
  <2>6. ParserOf(b)
    BY <2>3, <2>5, UnderstoodFacts, ParserFacts DEF ParserOf
  <2>7. ParserOf(c)
    BY <2>4, <2>6, UnderstoodFacts, ParserFacts DEF ParserOf
  <2>8. seen = c
    <3>. HIDE DEF letters
    <3>. QED  BY <1>1, <2>1, <2>2, <2>3, <2>4 DEF ParserOf, Understood
  <2>. QED  BY <2>7, <2>8
<1>3. HandleShort(p, arg) \in
         {HandleOutput(seen), HandleInclude(seen), Advance(seen), Reject(Advance(seen), "unknown-short-flag"),
          Valued(seen, LAMBDA v : v \in OptLevels, "unknown-opt-level",
                 LAMBDA o, v : [o EXCEPT !.opt = v])}
  BY <1>1 DEF HandleShort
<1>. QED  BY <1>2, <1>3, ValuedFlags, AdvanceParser, RejectParser

LEMMA Words ==
    ASSUME NEW p, ParserOf(p), NEW w
    PROVE  ParserOf(HandleWord(p, w))
<1>1. Understood(p.out)
  BY DEF ParserOf
<1>2. CASE ~p.cmdSet /\ w \in {"help", "version"}
  <2>1. PICK q : q = [p EXCEPT !.out = [p.out EXCEPT ![w] = TRUE]]
    OBVIOUS
  <2>2. ParserOf(q)
    BY <1>1, <1>2, <2>1, UnderstoodFacts, ParserFacts
  <2>3. HandleWord(p, w) = Advance([q EXCEPT !.cmdSet = TRUE])
    <3>1. [p EXCEPT !.out[w] = TRUE, !.cmdSet = TRUE] = [q EXCEPT !.cmdSet = TRUE]
      BY <2>1 DEF ParserOf
    <3>. QED  BY <1>2, <3>1 DEF HandleWord, Aliases
  <2>. QED  BY <2>2, <2>3, ParserFacts, AdvanceParser
<1>3. CASE ~p.cmdSet /\ w \in DOMAIN Aliases /\ w \notin {"help", "version"}
  <2>1. PICK u, e : u = Aliases[w][1] /\ e = Aliases[w][2]
    OBVIOUS
  <2>2. {u, e} \subseteq Artifacts \cup {None}
    <3>1. w \in {"build", "compile", "check", "preprocess", "lower", "codegen", "inspect"}
      BY <1>3 DEF Aliases
    <3>. QED  BY <2>1, <3>1 DEF Aliases, Artifacts, None
  <2>3. PICK a : a = [p EXCEPT !.out = [p.out EXCEPT !.until = u]]
    OBVIOUS
  <2>4. PICK b : b = [a EXCEPT !.out = [a.out EXCEPT !.emit = e]]
    OBVIOUS
  <2>5. ParserOf(a)
    BY <1>1, <2>2, <2>3, UnderstoodFacts, ParserFacts
  <2>6. ParserOf(b)
    BY <2>2, <2>4, <2>5, UnderstoodFacts, ParserFacts DEF ParserOf
  <2>7. HandleWord(p, w) = Advance([b EXCEPT !.cmdSet = TRUE])
    <3>1. [p EXCEPT !.out.until = u, !.out.emit = e, !.cmdSet = TRUE] = [b EXCEPT !.cmdSet = TRUE]
      BY <2>3, <2>4 DEF ParserOf, Understood
    <3>. QED  BY <1>3, <2>1, <3>1 DEF HandleWord
  <2>. QED  BY <2>6, <2>7, ParserFacts, AdvanceParser
<1>4. CASE HandleWord(p, w) = Reject(Advance(p), "multiple-inputs")
  BY <1>4, AdvanceParser, RejectParser
<1>5. CASE HandleWord(p, w) = Advance([p EXCEPT !.out.input = w])
  <2>1. ParserOf([p EXCEPT !.out.input = w])
    BY <1>1, UnderstoodFacts, ParserFacts
  <2>. QED  BY <1>5, <2>1, AdvanceParser
<1>6. \/ ~p.cmdSet /\ w \in {"help", "version"}
      \/ ~p.cmdSet /\ w \in DOMAIN Aliases /\ w \notin {"help", "version"}
      \/ HandleWord(p, w) = Reject(Advance(p), "multiple-inputs")
      \/ HandleWord(p, w) = Advance([p EXCEPT !.out.input = w])
  BY DEF HandleWord
<1>. QED  BY <1>2, <1>3, <1>4, <1>5, <1>6

LEMMA ArgumentParsed ==
    ASSUME NEW p, ParserOf(p)
    PROVE  ParserOf(ParseArg(p))
<1>1. \/ ParseArg(p) = Advance([p EXCEPT !.stop = TRUE])
      \/ ParseArg(p) = HandleLong(p, Head(p.argv))
      \/ ParseArg(p) = HandleShort(p, Head(p.argv))
      \/ ParseArg(p) = HandleWord(p, TextOf(Head(p.argv)))
  BY DEF ParseArg
<1>2. ParserOf(Advance([p EXCEPT !.stop = TRUE]))
  <2>1. ParserOf([p EXCEPT !.stop = TRUE])
    BY ParserFacts
  <2>. QED  BY <2>1, AdvanceParser
<1>. QED  BY <1>1, <1>2, LongFlags, ShortFlags, Words

-----------------------------------------------------------------------------
(* What the target is made from.                                           *)

LEMMA Ranks ==
    /\ Rank("source") = 1 /\ Rank("toks") = 2 /\ Rank("pp-toks") = 3 /\ Rank("ast") = 4
    /\ Rank("hir") = 5 /\ Rank("mir") = 6 /\ Rank("ulir") = 7 /\ Rank("lir") = 8
    /\ Rank("obj") = 9 /\ Rank("asm") = 9
<1>1. /\ Chain[1] = "source" /\ Chain[2] = "toks" /\ Chain[3] = "pp-toks" /\ Chain[4] = "ast"
      /\ Chain[5] = "hir" /\ Chain[6] = "mir" /\ Chain[7] = "ulir" /\ Chain[8] = "lir"
  BY DEF Chain
<1>2. \A i \in 1 .. 8 : i \in {1, 2, 3, 4, 5, 6, 7, 8}
  OBVIOUS
<1>3. ASSUME NEW n \in 1 .. 8
      PROVE  (CHOOSE i \in 1 .. 8 : Chain[i] = Chain[n]) = n
  <2>1. \A i \in 1 .. 8 : Chain[i] = Chain[n] => i = n
    BY <1>1, <1>2
  <2>. QED  BY <2>1
<1>4. /\ (CHOOSE i \in 1 .. 8 : Chain[i] = "source") = 1 /\ (CHOOSE i \in 1 .. 8 : Chain[i] = "toks") = 2
      /\ (CHOOSE i \in 1 .. 8 : Chain[i] = "pp-toks") = 3 /\ (CHOOSE i \in 1 .. 8 : Chain[i] = "ast") = 4
      /\ (CHOOSE i \in 1 .. 8 : Chain[i] = "hir") = 5 /\ (CHOOSE i \in 1 .. 8 : Chain[i] = "mir") = 6
      /\ (CHOOSE i \in 1 .. 8 : Chain[i] = "ulir") = 7 /\ (CHOOSE i \in 1 .. 8 : Chain[i] = "lir") = 8
  BY <1>1, <1>3
<1>. QED  BY <1>4 DEF Rank

LEMMA TargetType ==
    ASSUME Understood(args)
    PROVE  Target \in Artifacts
  BY DEF Understood, Target, Artifacts, None

LEMMA Inputs ==
    /\ StageOf("toks").input = "source" /\ StageOf("pp-toks").input = "toks"
    /\ StageOf("ast").input = "pp-toks" /\ StageOf("hir").input = "ast"
    /\ StageOf("mir").input = "hir" /\ StageOf("ulir").input = "mir"
    /\ StageOf("lir").input = "ulir" /\ StageOf("obj").input = "lir" /\ StageOf("asm").input = "lir"
    /\ MakesOutput = {"toks", "pp-toks", "ast", "hir", "mir", "ulir", "lir", "obj", "asm"}
    /\ \A k \in MakesOutput : StageOf(k).input \in Artifacts
<1>1. /\ StageOf("toks").input = "source" /\ StageOf("pp-toks").input = "toks"
      /\ StageOf("ast").input = "pp-toks" /\ StageOf("hir").input = "ast"
      /\ StageOf("mir").input = "hir" /\ StageOf("ulir").input = "mir"
      /\ StageOf("lir").input = "ulir" /\ StageOf("obj").input = "lir" /\ StageOf("asm").input = "lir"
  BY DEF StageOf, StageTable
<1>2. MakesOutput = {"toks", "pp-toks", "ast", "hir", "mir", "ulir", "lir", "obj", "asm"}
  BY DEF MakesOutput, Artifacts
<1>. QED  BY <1>1, <1>2 DEF Artifacts

\* Where a kind is reached its input is, and the target is reached.
LEMMA InputReached ==
    ASSUME Understood(args)
    PROVE  /\ Reaches(Target)
           /\ \A k \in MakesOutput : Reaches(k) => Reaches(StageOf(k).input)
<1>1. Target \in Artifacts /\ \A k \in Artifacts : Rank(k) \in Nat
  <2>1. \A k \in Artifacts : Rank(k) \in Nat
    BY Ranks DEF Artifacts
  <2>. QED  BY <2>1, TargetType
<1>2. Reaches(Target)
  BY <1>1 DEF Reaches
<1>3. ASSUME NEW k \in MakesOutput, Reaches(k)
      PROVE  Reaches(StageOf(k).input)
  <2>1. k \in Artifacts /\ StageOf(k).input \in Artifacts
    BY Inputs DEF MakesOutput
  <2>2. Rank(k) >= Rank(StageOf(k).input)
    BY Inputs, Ranks
  <2>. QED  BY <1>1, <1>3, <2>1, <2>2 DEF Reaches
<1>. QED  BY <1>2, <1>3

\* A target that is made has been made from everything it reaches.
LEMMA ReachedEnded ==
    ASSUME Understood(args), InputsEnded, Target \in MakesOutput, told[Target] = "end",
           NEW k \in MakesOutput \ {"obj", "asm"}, Reaches(k)
    PROVE  told[k] = "end"
<1>1. /\ told["obj"] = "end" => told["lir"] = "end"
      /\ told["asm"] = "end" => told["lir"] = "end"
      /\ told["lir"] = "end" => told["ulir"] = "end"
      /\ told["ulir"] = "end" => told["mir"] = "end"
      /\ told["mir"] = "end" => told["hir"] = "end"
      /\ told["hir"] = "end" => told["ast"] = "end"
      /\ told["ast"] = "end" => told["pp-toks"] = "end"
      /\ told["pp-toks"] = "end" => told["toks"] = "end"
  BY Inputs DEF InputsEnded
<1>2. PICK r, i : r = Rank(Target) /\ i = Rank(k)
  OBVIOUS
<1>3. r >= i
  BY <1>2 DEF MakesOutput, Reaches
<1>4. \/ r = 2 /\ told["toks"] = "end"
      \/ r = 3 /\ told["pp-toks"] = "end"
      \/ r = 4 /\ told["ast"] = "end"
      \/ r = 5 /\ told["hir"] = "end"
      \/ r = 6 /\ told["mir"] = "end"
      \/ r = 7 /\ told["ulir"] = "end"
      \/ r = 8 /\ told["lir"] = "end"
      \/ r = 9 /\ told["obj"] = "end"
      \/ r = 9 /\ told["asm"] = "end"
  BY <1>2, Inputs, Ranks
<1>5. \/ i = 2 /\ k = "toks"
      \/ i = 3 /\ k = "pp-toks"
      \/ i = 4 /\ k = "ast"
      \/ i = 5 /\ k = "hir"
      \/ i = 6 /\ k = "mir"
      \/ i = 7 /\ k = "ulir"
      \/ i = 8 /\ k = "lir"
  BY <1>2, Inputs, Ranks
<1>. QED  BY <1>1, <1>3, <1>4, <1>5

-----------------------------------------------------------------------------
(* The steps of the driver.                                                *)

LEMMA SourceFacts ==
    ASSUME source \in Sources \cup {NoDocument}
    PROVE  /\ source.kept \in Seq(BOOLEAN) /\ source.exists \in BOOLEAN
           /\ Size \in Nat /\ Eof = Size + 1 /\ Eof \in Nat /\ Eof # 0
           /\ source.flaw \in {"none", "lexer", "preprocessor", "parser", "binder"}
           /\ source.flaw # "none" => source.at \in 1 .. Eof
           /\ source.flaw = "parser" => source.at = Eof \/ source.kept[source.at]
           /\ source.flaw = "binder" => source.at # Eof /\ source.kept[source.at]
           /\ \A m \in 1 .. Size : source.kept[m] \in BOOLEAN
<1>1. /\ source.kept \in Seq(BOOLEAN) /\ source.exists \in BOOLEAN
      /\ source.flaw \in {"none", "lexer", "preprocessor", "parser", "binder"}
      /\ source.flaw # "none" => source.at \in 1 .. Eof
      /\ source.flaw = "parser" => source.at = Eof \/ source.kept[source.at]
      /\ source.flaw = "binder" => source.at # Eof /\ source.kept[source.at]
  <2>1. CASE source \in Sources
    BY <2>1, SourcesAssumption DEF Size, Eof
  <2>2. CASE source = NoDocument
    BY <2>2, EmptySeq DEF NoDocument
  <2>. QED  BY <2>1, <2>2
<1>2. Size \in Nat
  BY <1>1, LenProperties DEF Size
<1>3. \A m \in 1 .. Size : source.kept[m] \in BOOLEAN
  BY <1>1, ElementOfSeq DEF Size
<1>. QED  BY <1>1, <1>2, <1>3 DEF Eof

\* What holds of the streams and the dumps.
ReadInv == CallsNeeded /\ StreamType /\ StreamsFollow /\ StreamsWhole /\ ParserReads /\ StreamsRead /\ FlawsReported /\ DumpsInv

\* No stage has been announced.
Idle == calls = <<>> /\ executing = None /\ errors = 0 /\ told = [k \in MakesOutput |-> "nothing"]

LEMMA NothingRead ==
    source \in Sources \cup {NoDocument} /\ Unread /\ Idle => ReadInv
<1>. SUFFICES ASSUME source \in Sources \cup {NoDocument}, Unread, Idle
     PROVE  ReadInv
  OBVIOUS
<1>1. /\ streams.lexed = 0 /\ streams.taken = 0 /\ streams.hand = 0 /\ ~streams.over
      /\ streams.buffer = <<>> /\ streams.replayed = 0 /\ streams.read = <<>> /\ ~streams.ended
  BY DEF Unread
<1>2. /\ calls = <<>> /\ executing = None /\ errors = 0 /\ dumped = <<>>
      /\ \A k \in MakesOutput : told[k] = "nothing"
  BY DEF Unread, Idle
<1>3. /\ Size \in Nat /\ Eof = Size + 1
      /\ source.flaw # "none" => source.at \in 1 .. Eof
  BY SourceFacts
<1>4. /\ Len(<<>>) = 0 /\ DOMAIN <<>> = {}
      /\ \A S : <<>> \in Seq(S)
      /\ <<>> \in Seq(1 .. Size)
  BY EmptySeq
<1>5. CallsNeeded
  BY <1>2, <1>4 DEF CallsNeeded
<1>6. StreamType
  BY <1>3, <1>4 DEF StreamType, Unread
<1>7. StreamsFollow /\ StreamsWhole /\ ParserReads
  <2>1. Delivered = <<>>
    BY <1>1 DEF Delivered
  <2>2. Leaves(0) = {} /\ Range(<<>>) = {} /\ InOrder(<<>>)
    BY <1>4 DEF Leaves, Range, InOrder
  <2>3. Range(Delivered) = Leaves(IF streams.hand = 0 THEN streams.taken ELSE streams.taken - 1)
    BY <1>1, <2>1, <2>2
  <2>4. StreamsFollow
    BY <1>1, <1>3 DEF StreamsFollow
  <2>5. StreamsWhole
    <3>1. Eof # 0 /\ streams.hand # Eof /\ ~streams.over /\ streams.hand = 0
      BY <1>1, <1>3
    <3>2. InOrder(Delivered)
      BY <2>1, <2>2
    <3>. QED  BY <2>3, <3>1, <3>2 DEF StreamsWhole
  <2>6. ParserReads
    <3>1. /\ Len(streams.read) = IF streams.ended THEN Len(streams.buffer) ELSE streams.replayed
          /\ \A i \in DOMAIN streams.read : streams.read[i] = streams.buffer[i]
          /\ Len(streams.read) <= Len(streams.buffer)
      BY <1>1, <1>4
    <3>2. streams.ended = FALSE /\ streams.over = FALSE
      BY DEF Unread
    <3>. QED  BY <1>1, <3>1, <3>2 DEF ParserReads
  <2>. QED  BY <2>4, <2>5, <2>6
<1>8. StreamsRead
  BY <1>2, KindFacts DEF StreamsRead
<1>9. FlawsReported
  <2>1. Range(<<>>) = {}
    BY <1>4 DEF Range
  <2>. QED  BY <1>1, <1>2, <1>3, <2>1, KindFacts DEF FlawsReported
<1>10. DumpsInv
  BY <1>2, <1>4 DEF DumpsInv
<1>. QED  BY <1>5, <1>6, <1>7, <1>8, <1>9, <1>10 DEF ReadInv

LEMMA NothingReadThen ==
    ASSUME (source \in Sources \cup {NoDocument})', Unread', Idle'
    PROVE  ReadInv'
  BY NothingRead, PTL

LEMMA RunInvParts ==
    RunInv <=> /\ ParserOf(cli) /\ Understood(args) /\ source \in Sources \cup {NoDocument}
               /\ phase \in {"arguments", "source"} => Unread
               /\ RequestsInv /\ OutcomeInv /\ ReadInv
  BY DEF RunInv, ReadInv

LEMMA RunPartsThen ==
    ASSUME ParserOf(cli)', Understood(args)', (source \in Sources \cup {NoDocument})',
           phase' \in {"arguments", "source"} => Unread',
           RequestsInv', OutcomeInv', ReadInv'
    PROVE  RunInv'
  BY DEF RunInv, ReadInv

\* Nothing has been requested, and nothing is released.
LEMMA NothingAsked ==
    Unstarted => (phase # "pipeline" => RequestsInv) /\ (freed = <<>> => ReleasedOnce)
<1>. SUFFICES ASSUME Unstarted
     PROVE  (phase # "pipeline" => RequestsInv) /\ (freed = <<>> => ReleasedOnce)
  OBVIOUS
<1>1. /\ requests = <<>> /\ answer = "pending" /\ executing = None /\ registry = {}
      /\ \A k \in MakesOutput : told[k] = "nothing"
  BY DEF Unstarted
<1>2. DOMAIN <<>> = {} /\ \A S : <<>> \in Seq(S)
  BY EmptySeq
<1>3. Produced = {}
  BY <1>1 DEF Produced
<1>4. freed = <<>> => ReleasedOnce
  <2>1. SUFFICES ASSUME freed = <<>>, NEW r \in {"handle", "asm", "obj"}
                 PROVE  Cardinality({i \in DOMAIN freed : freed[i] = r}) = 0
    BY <1>3 DEF ReleasedOnce
  <2>2. {i \in DOMAIN freed : freed[i] = r} = {}
    BY <1>2, <2>1
  <2>. QED  BY <2>2, FS_EmptySet
<1>. QED  BY <1>1, <1>2, <1>4 DEF RequestsInv

LEMMA NothingAskedThen ==
    ASSUME Unstarted'
    PROVE  (phase # "pipeline" => RequestsInv)' /\ (freed = <<>> => ReleasedOnce)'
  BY NothingAsked, PTL

LEMMA DefaultUnderstood == Understood(DefaultArgs)
  BY DEF Understood, DefaultArgs, Artifacts

LEMMA RunInvInit == Init => RunInv
<1>. SUFFICES ASSUME Init PROVE RunInv
  OBVIOUS
<1>1. Unread /\ Unstarted /\ source \in Sources \cup {NoDocument} /\ freed = <<>> /\ phase = "arguments"
  BY DEF Init, InitPipeline, Unread, Unstarted
<1>2. Understood(DefaultArgs)
  BY DefaultUnderstood
<1>3. \A line : ParserOf(ParseInit(line))
  BY <1>2 DEF ParserOf, ParseInit
<1>4. ParserOf(cli) /\ Understood(args)
  BY <1>2, <1>3 DEF Init
<1>5. RequestsInv
  BY <1>1, NothingAsked
<1>6. OutcomeInv
  BY <1>1 DEF OutcomeInv, Ran, Unread
<1>7. Idle
  BY <1>1 DEF Idle, Unstarted
<1>. QED  BY <1>1, <1>4, <1>5, <1>6, <1>7, NothingRead, RunInvParts

\* What the streams are said to be does not change with the phase.
LEMMA ReadStays ==
    ASSUME ReadInv, UNCHANGED <<args, source, executing, told, dumped, errors, calls, streams>>
    PROVE  ReadInv'
<1>1. CallsNeeded' /\ StreamType'
  BY DEF ReadInv, CallsNeeded, StreamType, Captures, Size, Eof
<1>2. StreamsFollow'
  BY DEF ReadInv, StreamsFollow, Captures, InCall, Size, Eof
<1>3. StreamsWhole'
  BY DEF ReadInv, StreamsWhole, Captures, Delivered, Leaves, Size, Eof
<1>4. ParserReads'
  BY DEF ReadInv, ParserReads, Captures
<1>5. StreamsRead'
  BY DEF ReadInv, StreamsRead, Captures, Preserved, Size, Eof
<1>6. FlawsReported'
  BY DEF ReadInv, FlawsReported, FlawSeen, Reaches, Target, Captures, Size, Eof
<1>7. DumpsInv'
  BY DEF ReadInv, DumpsInv, DumpsOf
<1>. QED  BY <1>1, <1>2, <1>3, <1>4, <1>5, <1>6, <1>7 DEF ReadInv

LEMMA RunInvStutter == RunInv /\ UNCHANGED vars => RunInv'
<1>. SUFFICES ASSUME RunInv, UNCHANGED vars PROVE RunInv'
  OBVIOUS
<1>0. UNCHANGED <<phase, cli, args, source, requests, registry, answer, executing, told, dumped, errors,
                  calls, streams, written, freed, exit>>
  BY DEF vars, driverVars, pipeVars
<1>1. ParserOf(cli)' /\ Understood(args)' /\ (source \in Sources \cup {NoDocument})'
  BY <1>0 DEF RunInv, ParserOf, Understood
<1>2. phase' \in {"arguments", "source"} => Unread'
  BY <1>0 DEF RunInv, Unread
<1>3. RequestsInv'
  BY <1>0 DEF RunInv, RequestsInv, Reaches, Target, Wanted
<1>4. OutcomeInv'
  BY <1>0 DEF RunInv, OutcomeInv, ReleasedOnce, Produced, Ran, Target
<1>5. ReadInv'
  BY <1>0, ReadStays DEF RunInv, ReadInv
<1>. QED  BY <1>1, <1>2, <1>3, <1>4, <1>5, RunPartsThen

LEMMA RunArguments ==
    ASSUME RunInv, EventInv, ReadArgument \/ EndArguments
    PROVE  RunInv'
<1>1. phase = "arguments" /\ Unread /\ Unstarted /\ source \in Sources \cup {NoDocument} /\ freed = <<>>
  BY DEF ReadArgument, EndArguments, RunInv, OutcomeInv, EventInv
<1>2. UNCHANGED <<source, registry, requests, answer, executing, told, dumped, errors, calls, streams, prof,
                  written, freed>>
  BY DEF ReadArgument, EndArguments, pipeVars
<1>3. Unread' /\ Unstarted' /\ (source \in Sources \cup {NoDocument})'
  BY <1>1, <1>2 DEF Unread, Unstarted
<1>4. ParserOf(cli)' /\ Understood(args)'
  <2>1. CASE ReadArgument
    <3>1. cli' = ParseArg(cli) /\ args' = args
      BY <2>1 DEF ReadArgument, pipeVars
    <3>2. ParserOf(cli')
      BY <3>1, ArgumentParsed DEF RunInv
    <3>. QED  BY <3>1, <3>2 DEF RunInv, ParserOf, Understood
  <2>2. CASE EndArguments
    <3>1. args' = cli.out /\ cli' = [ParseInit(<<>>) EXCEPT !.code = ParseEnd(cli)]
      BY <2>2 DEF EndArguments
    <3>2. Understood(args')
      BY <3>1 DEF RunInv, ParserOf
    <3>3. Understood(DefaultArgs)
      BY DefaultUnderstood
    <3>4. ParserOf(cli')
      BY <3>1, <3>3 DEF ParserOf, ParseInit
    <3>. QED  BY <3>2, <3>4 DEF ParserOf, Understood
  <2>. QED  BY <2>1, <2>2
<1>5. phase' # "pipeline" /\ phase' # "reports" /\ phase' # "cleanup" /\ ~Ran'
  BY <1>1 DEF ReadArgument, EndArguments, Ran, pipeVars, ParseInit
<1>6. RequestsInv' /\ ReleasedOnce'
  BY <1>1, <1>2, <1>3, <1>5, NothingAskedThen
<1>7. OutcomeInv'
  BY <1>1, <1>2, <1>3, <1>5, <1>6 DEF OutcomeInv, Unread
<1>8. Idle'
  BY <1>3 DEF Idle, Unstarted
<1>. QED  BY <1>3, <1>4, <1>6, <1>7, <1>8, NothingReadThen, RunPartsThen

LEMMA RunSource ==
    ASSUME RunInv, EventInv, OpenSource
    PROVE  RunInv'
<1>1. /\ phase = "source" /\ Unread /\ Unstarted /\ freed = <<>>
  BY DEF OpenSource, RunInv, OutcomeInv, EventInv
<1>2. /\ source' \in Sources
      /\ UNCHANGED <<cli, written, freed, args, answer, executing, told, dumped, errors, calls, streams, prof>>
  BY DEF OpenSource
<1>3. ParserOf(cli)' /\ Understood(args)' /\ (source \in Sources \cup {NoDocument})' /\ Unread' /\ Idle'
  BY <1>1, <1>2 DEF RunInv, ParserOf, Understood, Unread, Unstarted, Idle
<1>4. ReadInv'
  BY <1>3, NothingReadThen
<1>5. /\ answer' = "pending" /\ executing' = None /\ registry = {} /\ requests = <<>>
      /\ \A k \in MakesOutput : told'[k] = "nothing"
  BY <1>1, <1>2 DEF Unstarted
<1>6. CASE args.input # "-" /\ ~source'.exists
  <2>1. phase' = "cleanup" /\ exit' = 1 /\ registry' = {} /\ requests' = <<>>
    BY <1>5, <1>6 DEF OpenSource
  <2>2. RequestsInv'
    BY <1>5, <2>1, EmptySeq DEF RequestsInv
  <2>3. OutcomeInv'
    BY <1>1, <1>2, <1>5, <1>6, <2>1 DEF OutcomeInv, Unread
  <2>. QED  BY <1>3, <1>4, <2>1, <2>2, <2>3, RunPartsThen
<1>7. CASE ~(args.input # "-" /\ ~source'.exists)
  <2>1. /\ phase' = "pipeline" /\ requests' = <<Target>>
        /\ registry' = IF args.input = "-" THEN {} ELSE {"source"}
    BY <1>5, <1>7 DEF OpenSource
  <2>2. source'.exists \in BOOLEAN /\ Target' = Target /\ Target \in Artifacts
    <3>1. source' \in Sources => source'.exists \in BOOLEAN
      BY SourcesAssumption
    <3>2. Target' = Target
      BY <1>2 DEF Target
    <3>. QED  BY <1>2, <3>1, <3>2, TargetType DEF RunInv
  <2>3. requests' \in Seq(Artifacts) /\ requests'[1] = Target /\ DOMAIN requests' = {1}
    BY <2>1, <2>2
  <2>4. Rank(Target) >= Rank(Target)
    BY <2>2, Ranks DEF Artifacts
  <2>5. \A i \in DOMAIN requests' : Rank(Target') >= Rank(requests'[i])
    BY <2>2, <2>3, <2>4
  <2>6. RequestsInv'
    BY <1>2, <1>5, <1>7, <2>1, <2>2, <2>3, <2>5 DEF RequestsInv, Artifacts, Reaches, Wanted
  <2>7. OutcomeInv'
    BY <1>1, <1>2, <1>3, <2>1 DEF OutcomeInv, Unread, Ran
  <2>. QED  BY <1>3, <1>4, <2>1, <2>6, <2>7, RunPartsThen
<1>. QED  BY <1>6, <1>7

LEMMA RunOutput ==
    ASSUME RunInv, EventInv, WriteOutput \/ PrintReports \/ Abort
    PROVE  RunInv'
<1>1. /\ UNCHANGED <<cli, args, source, registry, requests, answer, executing, told, dumped, errors, calls,
                     streams, freed>>
      /\ phase \in {"pipeline", "reports"} /\ phase' \notin {"arguments", "source", "pipeline", "exited"}
  BY DEF WriteOutput, PrintReports, Abort, pipeVars
<1>2. ParserOf(cli)' /\ Understood(args)' /\ (source \in Sources \cup {NoDocument})'
  BY <1>1 DEF RunInv, ParserOf, Understood
<1>3. RequestsInv'
  BY <1>1 DEF RunInv, RequestsInv, Reaches, Target, Wanted
<1>4. ReadInv'
  BY <1>1, ReadStays DEF RunInv, ReadInv
<1>5. Target' = Target /\ freed = <<>> /\ answer \in {"pending", "yes", "no"}
  BY <1>1 DEF Target, RunInv, OutcomeInv, RequestsInv
<1>6. CASE WriteOutput
  <2>1. /\ phase = "pipeline" /\ written = None /\ answer # "pending" /\ phase' \in {"reports", "crashed"}
        /\ phase' = "reports" => written' = IF answer = "yes" /\ Target \in {"obj", "asm"} THEN Target ELSE None
    BY <1>6 DEF WriteOutput, RunInv, OutcomeInv, ReachesOutput
  <2>2. OutcomeInv'
    BY <1>1, <1>5, <2>1 DEF OutcomeInv, Ran
  <2>. QED  BY <1>1, <1>2, <1>3, <1>4, <2>2, RunPartsThen
<1>7. CASE PrintReports
  <2>1. /\ phase = "reports" /\ phase' = "cleanup" /\ written' = written
        /\ exit' = IF answer = "yes" THEN 0 ELSE 1
    BY <1>7 DEF PrintReports
  <2>2. /\ answer # "pending"
        /\ written = IF answer = "yes" /\ Target \in {"obj", "asm"} THEN Target ELSE None
    BY <2>1 DEF RunInv, OutcomeInv
  <2>3. OutcomeInv'
    BY <1>1, <1>5, <2>1, <2>2 DEF OutcomeInv
  <2>. QED  BY <1>1, <1>2, <1>3, <1>4, <2>3, RunPartsThen
<1>8. CASE Abort
  <2>1. phase' = "crashed"
    BY <1>8 DEF Abort
  <2>2. OutcomeInv'
    BY <1>1, <1>5, <2>1 DEF OutcomeInv, Ran
  <2>. QED  BY <1>1, <1>2, <1>3, <1>4, <2>2, RunPartsThen
<1>. QED  BY <1>6, <1>7, <1>8

LEMMA Joined ==
    ASSUME NEW x, NEW y, NEW z
    PROVE  <<x>> \o <<y>> = <<x, y>> /\ <<x, y>> \o <<z>> = <<x, y, z>>
<1>1. <<x>> \o <<y>> = <<x, y>>
  <2>. DEFINE s == <<x>> \o <<y>>
  <2>1. <<x>> \in Seq({x, y}) /\ <<y>> \in Seq({x, y}) /\ Len(<<x>>) = 1 /\ Len(<<y>>) = 1
    OBVIOUS
  <2>2. s \in Seq({x, y}) /\ Len(s) = 2 /\ s[1] = x /\ s[2] = y
    BY <2>1, ConcatProperties
  <2>. HIDE DEF s
  <2>3. s = <<x, y>>
    BY <2>2
  <2>. QED  BY <2>3 DEF s
<1>2. <<x, y>> \o <<z>> = <<x, y, z>>
  <2>. DEFINE s == <<x, y>> \o <<z>>
  <2>1. <<x, y>> \in Seq({x, y, z}) /\ <<z>> \in Seq({x, y, z}) /\ Len(<<x, y>>) = 2 /\ Len(<<z>>) = 1
    OBVIOUS
  <2>2. s \in Seq({x, y, z}) /\ Len(s) = 3 /\ s[1] = x /\ s[2] = y /\ s[3] = z
    BY <2>1, ConcatProperties
  <2>. HIDE DEF s
  <2>3. s = <<x, y, z>>
    BY <2>2
  <2>. QED  BY <2>3 DEF s
<1>. QED  BY <1>1, <1>2

\* The cleanup releases what the registry holds, each artifact once.
LEMMA RunCleanup ==
    ASSUME RunInv, EventInv, Cleanup
    PROVE  RunInv'
<1>1. /\ UNCHANGED <<cli, args, source, requests, answer, executing, told, dumped, errors, calls,
                     streams, written, exit>>
      /\ phase = "cleanup" /\ phase' = "exited" /\ registry' = {}
      /\ freed' = ReleasesOf("ulir") \o ReleasesOf("asm") \o ReleasesOf("obj")
  BY DEF Cleanup
<1>2. ParserOf(cli)' /\ Understood(args)' /\ (source \in Sources \cup {NoDocument})'
  BY <1>1 DEF RunInv, ParserOf, Understood
<1>3. RequestsInv'
  BY <1>1 DEF RunInv, RequestsInv, Reaches, Target, Wanted
<1>4. ReadInv'
  BY <1>1, ReadStays DEF RunInv, ReadInv
<1>5. Target' = Target
  BY <1>1 DEF Target
<1>6. ReleasedOnce'
  <2>1. \A k \in MakesOutput : k \in registry <=> told[k] = "end"
    BY <1>1 DEF EventInv
  <2>2. \A k \in {"ulir", "asm", "obj"} : k \in registry <=> k \in Produced'
    BY <1>1, <2>1, Inputs DEF Produced
  <2>3. PICK u, a, o : u = ReleasesOf("ulir") /\ a = ReleasesOf("asm") /\ o = ReleasesOf("obj")
    OBVIOUS
  <2>4. /\ u = IF "ulir" \in registry THEN <<"handle">> ELSE <<>>
        /\ a = IF "asm" \in registry THEN <<"asm">> ELSE <<>>
        /\ o = IF "obj" \in registry THEN <<"obj">> ELSE <<>>
    BY <2>3 DEF ReleasesOf
  <2>5. ASSUME NEW r \in {"handle", "asm", "obj"}
        PROVE  Cardinality({i \in DOMAIN freed' : freed'[i] = r})
                  = IF (IF r = "handle" THEN "ulir" ELSE r) \in registry THEN 1 ELSE 0
    <3>1. freed' = (u \o a) \o o
      BY <1>1, <2>3
    <3>2. \/ (IF r = "handle" THEN "ulir" ELSE r) \notin registry /\ {i \in DOMAIN freed' : freed'[i] = r} = {}
          \/ /\ (IF r = "handle" THEN "ulir" ELSE r) \in registry
             /\ \E i \in 1 .. 3 : {j \in DOMAIN freed' : freed'[j] = r} = {i}
      <4>1. CASE "ulir" \in registry /\ "asm" \in registry /\ "obj" \in registry
        <5>1. freed' = <<"handle", "asm", "obj">>
          BY <2>4, <3>1, <4>1, Joined
        <5>. QED  BY <4>1, <5>1
      <4>2. CASE "ulir" \in registry /\ "asm" \in registry /\ "obj" \notin registry
        <5>1. freed' = <<"handle", "asm">>
          BY <2>4, <3>1, <4>2, Joined
        <5>. QED  BY <4>2, <5>1
      <4>3. CASE "ulir" \in registry /\ "asm" \notin registry /\ "obj" \in registry
        <5>1. freed' = <<"handle", "obj">>
          BY <2>4, <3>1, <4>3, Joined
        <5>. QED  BY <4>3, <5>1
      <4>4. CASE "ulir" \in registry /\ "asm" \notin registry /\ "obj" \notin registry
        <5>1. freed' = <<"handle">>
          BY <2>4, <3>1, <4>4
        <5>. QED  BY <4>4, <5>1
      <4>5. CASE "ulir" \notin registry /\ "asm" \in registry /\ "obj" \in registry
        <5>1. freed' = <<"asm", "obj">>
          BY <2>4, <3>1, <4>5, Joined
        <5>. QED  BY <4>5, <5>1
      <4>6. CASE "ulir" \notin registry /\ "asm" \in registry /\ "obj" \notin registry
        <5>1. freed' = <<"asm">>
          BY <2>4, <3>1, <4>6
        <5>. QED  BY <4>6, <5>1
      <4>7. CASE "ulir" \notin registry /\ "asm" \notin registry /\ "obj" \in registry
        <5>1. freed' = <<"obj">>
          BY <2>4, <3>1, <4>7
        <5>. QED  BY <4>7, <5>1
      <4>8. CASE "ulir" \notin registry /\ "asm" \notin registry /\ "obj" \notin registry
        <5>1. freed' = <<>>
          BY <2>4, <3>1, <4>8
        <5>. QED  BY <4>8, <5>1
      <4>. QED  BY <4>1, <4>2, <4>3, <4>4, <4>5, <4>6, <4>7, <4>8
    <3>. QED  BY <3>2, FS_EmptySet, FS_Singleton
  <2>. QED  BY <2>2, <2>5 DEF ReleasedOnce
<1>7. OutcomeInv'
  BY <1>1, <1>5, <1>6 DEF RunInv, OutcomeInv
<1>. QED  BY <1>1, <1>2, <1>3, <1>4, <1>7, RunPartsThen

-----------------------------------------------------------------------------
(* The steps that move the streams.                                        *)

\* What the stage that executes has before it and behind it.
LEMMA Around ==
    ASSUME EventInv, InputsEnded, executing # None
    PROVE  /\ executing \in MakesOutput /\ told[executing] = "start" /\ answer = "pending"
           /\ executing = "toks" => told["pp-toks"] = "nothing" /\ told["ast"] = "nothing"
           /\ executing = "pp-toks" => told["toks"] = "end" /\ told["ast"] = "nothing"
           /\ executing = "ast" => told["toks"] = "end" /\ told["pp-toks"] = "end"
           /\ executing = "hir" => told["ast"] = "end"
<1>1. executing \in MakesOutput /\ told[executing] = "start" /\ answer = "pending"
  BY DEF EventInv, EventType
<1>2. /\ told["pp-toks"] # "nothing" => told["toks"] = "end"
      /\ told["ast"] # "nothing" => told["pp-toks"] = "end"
      /\ told["hir"] # "nothing" => told["ast"] = "end"
  BY Inputs DEF InputsEnded
<1>. QED  BY <1>1, <1>2

\* A call in progress: of the preprocessor alone, of the lexer alone, or of the lexer
\* by the preprocessor.
LEMMA CallShapes ==
    ASSUME EventInv, ProfInv, calls # <<>>
    PROVE  /\ executing # None /\ executing \in {"toks", "pp-toks", "ast"}
           /\ executing \in {"toks", "pp-toks"} => Captures(executing)
           /\ InCall("Preprocessor") => Len(calls) = 1 /\ executing # "toks"
           /\ InCall("Lexer") => \/ Len(calls) = 1 /\ executing = "toks"
                                 \/ Len(calls) = 2 /\ executing # "toks"
           /\ Len(calls) = 1 => (InCall("Preprocessor") <=> executing # "toks")
           /\ Len(calls) = 2 => /\ calls[1].stage = "Preprocessor" /\ ~InCall("Preprocessor")
                                /\ executing # "toks"
<1>1. PICK n : n = Len(calls)
  OBVIOUS
<1>2. n \in {1, 2}
  <2>1. n \in Nat /\ n # 0
    BY <1>1, SeqLen DEF ProfInv, ProfType
  <2>2. n <= 2
    BY <1>1 DEF ProfInv, CallInv
  <2>. QED  BY <2>1, <2>2
<1>3. /\ executing # None /\ executing \in {"toks", "pp-toks", "ast"}
      /\ executing \in {"toks", "pp-toks"} => Captures(executing)
  BY DEF EventInv, Reader
<1>4. /\ calls[1].stage = IF executing = "toks" THEN "Lexer" ELSE "Preprocessor"
      /\ n = 2 => executing # "toks" /\ calls[2].stage = "Lexer"
  BY <1>1 DEF ProfInv, CallInv
<1>. QED  BY <1>1, <1>2, <1>3, <1>4 DEF InCall

\* The lexer makes a token of the stream it captures.
Lexes ==
    /\ executing = "toks" /\ Captures("toks") /\ calls' = <<>>
    /\ streams.hand = 0 /\ streams.lexed < Eof
    /\ streams' = [streams EXCEPT !.lexed = streams.lexed + 1]
    /\ errors' = errors + FlawAt("lexer", streams.lexed + 1)

\* The preprocessor takes a token, that the lexer has just made or had captured.
Takes ==
    /\ executing \in {"pp-toks", "ast"} /\ InCall("Preprocessor")' /\ Len(calls') = 1
    /\ executing = "ast" => ~Captures("pp-toks")
    /\ executing = "pp-toks" => Captures("pp-toks")
    /\ streams.hand = 0 /\ ~streams.over /\ streams.taken < Eof
    /\ ~Captures("toks") => streams.lexed = streams.taken
    /\ streams' = Taking(IF Captures("toks") THEN streams
                         ELSE [streams EXCEPT !.lexed = streams.taken + 1], streams.taken + 1)
    /\ errors' = errors + (IF Captures("toks") THEN 0 ELSE FlawAt("lexer", streams.taken + 1))
                    + FlawAt("preprocessor", streams.taken + 1)

\* The preprocessor returns the token in hand to the parser.
GivesParser ==
    /\ executing = "ast" /\ ~Captures("pp-toks") /\ calls' = <<>>
    /\ streams.hand # 0 /\ ~streams.over
    /\ streams' = Reading([streams EXCEPT !.hand = 0, !.over = (streams.hand = Eof)], streams.hand)
    /\ errors' = errors + FlawAt("parser", streams.hand)

\* It returns it to the stage that captures.
GivesCapture ==
    /\ executing = "pp-toks" /\ Captures("pp-toks") /\ calls' = <<>>
    /\ streams.hand # 0 /\ ~streams.over
    /\ streams' = IF streams.hand = Eof THEN [streams EXCEPT !.hand = 0, !.over = TRUE]
                  ELSE [streams EXCEPT !.hand = 0, !.over = FALSE,
                                       !.buffer = Append(streams.buffer, streams.hand)]
    /\ errors' = errors

\* The parser reads what was captured.
Replays ==
    /\ executing = "ast" /\ Captures("pp-toks") /\ calls = <<>> /\ calls' = <<>> /\ ~streams.ended
    /\ LET i == streams.replayed + 1
           n == IF i > Len(streams.buffer) THEN Eof ELSE streams.buffer[i]
       IN  /\ streams' = Reading([streams EXCEPT !.replayed = i], n)
           /\ errors' = errors + FlawAt("parser", n)

\* No token moves.
Rests ==
    /\ streams' = streams
    /\ errors' = errors \/ (EndStage /\ errors' = ErrorsThen)
    /\ calls' = calls \/ streams.hand = 0

\* The front of the calls.
LEMMA CallsLeft ==
    ASSUME EventInv, ProfInv, calls # <<>>, LeaveCall
    PROVE  /\ Len(calls) = 1 => calls' = <<>>
           /\ Len(calls) = 2 => Len(calls') = 1 /\ InCall("Preprocessor")'
<1>1. PICK n : n = Len(calls)
  OBVIOUS
<1>2. /\ calls' \in Seq(Calls)
      /\ Len(calls') = n - 1
      /\ \A i \in 1 .. n - 1 : calls'[i] = calls[i]
  BY <1>1, CallLeft DEF ProfType
<1>3. n = 1 => calls' = <<>>
  BY <1>2, SeqLen
<1>4. ASSUME n = 2
      PROVE  Len(calls') = 1 /\ InCall("Preprocessor")'
  <2>1. Len(calls') = 1 /\ calls'[1] = calls[1] /\ calls' # <<>>
    BY <1>2, <1>4, SeqLen
  <2>2. calls[1].stage = "Preprocessor"
    BY <1>1, <1>4, CallShapes
  <2>. QED  BY <2>1, <2>2 DEF InCall
<1>. QED  BY <1>1, <1>3, <1>4

LEMMA TokenSteps ==
    ASSUME EventInv, ProfInv, StreamsFollow, CallsNeeded, Running,
           LexToken \/ TakeReplayed \/ ReturnToken \/ ReadReplayed
    PROVE  /\ args' = args /\ source' = source /\ told' = told /\ executing' = executing
           /\ UNCHANGED <<registry, requests, answer, dumped>>
           /\ Lexes \/ Takes \/ GivesParser \/ GivesCapture \/ Replays
<1>1. CASE LexToken
  <2>1. InCall("Lexer") /\ calls # <<>> /\ LeaveCall /\ streams.hand = 0
    <3>1. InCall("Lexer") /\ calls # <<>> /\ LeaveCall
      BY <1>1 DEF LexToken, InCall
    <3>. QED  BY <3>1 DEF StreamsFollow, InCall
  <2>2. CASE Len(calls) = 1 /\ executing = "toks"
    <3>1. Captures("toks") /\ calls' = <<>> /\ streams.lexed < Eof
      BY <2>1, <2>2, CallShapes, CallsLeft DEF CallsNeeded
    <3>2. /\ streams' = [streams EXCEPT !.lexed = streams.lexed + 1]
          /\ errors' = errors + FlawAt("lexer", streams.lexed + 1) + 0
      BY <1>1, <2>2 DEF LexToken
    <3>3. errors \in Nat /\ FlawAt("lexer", streams.lexed + 1) \in Nat
      BY FlawType DEF EventInv, EventType
    <3>. QED  BY <1>1, <2>1, <2>2, <3>1, <3>2, <3>3 DEF LexToken, Lexes
  <2>3. CASE Len(calls) = 2 /\ executing # "toks"
    <3>1. /\ ~Captures("toks") /\ streams.lexed = streams.taken /\ ~streams.over
          /\ streams.taken < Eof /\ executing \in {"pp-toks", "ast"}
          /\ executing = "ast" => ~Captures("pp-toks")
          /\ executing = "pp-toks" => Captures("pp-toks")
      BY <2>1, <2>3, CallShapes DEF CallsNeeded, StreamsFollow
    <3>2. InCall("Preprocessor")' /\ Len(calls') = 1
      BY <2>1, <2>3, CallsLeft
    <3>3. /\ streams' = Taking([streams EXCEPT !.lexed = streams.taken + 1], streams.taken + 1)
          /\ errors' = errors + FlawAt("lexer", streams.taken + 1)
                         + FlawAt("preprocessor", streams.taken + 1)
      BY <1>1, <2>3, <3>1 DEF LexToken
    <3>. QED  BY <1>1, <2>1, <2>3, <3>1, <3>2, <3>3 DEF LexToken, Takes
  <2>. QED  BY <2>1, <2>2, <2>3, CallShapes
<1>2. CASE TakeReplayed
  <2>1. /\ InCall("Preprocessor") /\ calls # <<>> /\ calls' = calls /\ streams.hand = 0 /\ Captures("toks")
    BY <1>2 DEF TakeReplayed, InCall
  <2>2. /\ ~streams.over /\ streams.taken < Eof /\ executing \in {"pp-toks", "ast"} /\ Len(calls) = 1
        /\ executing = "ast" => ~Captures("pp-toks")
        /\ executing = "pp-toks" => Captures("pp-toks")
    BY <2>1, CallShapes DEF CallsNeeded, StreamsFollow
  <2>3. InCall("Preprocessor")' /\ Len(calls') = 1
    BY <2>1, <2>2 DEF InCall
  <2>4. /\ streams' = Taking(streams, streams.taken + 1)
        /\ errors' = errors + 0 + FlawAt("preprocessor", streams.taken + 1)
    BY <1>2 DEF TakeReplayed, EventInv, EventType
  <2>. QED  BY <1>2, <2>1, <2>2, <2>3, <2>4 DEF TakeReplayed, Takes
<1>3. CASE ReturnToken
  <2>1. /\ InCall("Preprocessor") /\ calls # <<>> /\ LeaveCall /\ streams.hand # 0
    BY <1>3 DEF ReturnToken, InCall
  <2>2. /\ ~streams.over /\ executing \in {"pp-toks", "ast"} /\ calls' = <<>>
        /\ executing = "ast" => ~Captures("pp-toks")
        /\ executing = "pp-toks" => Captures("pp-toks")
    BY <2>1, CallShapes, CallsLeft DEF CallsNeeded, StreamsFollow
  <2>3. executing = "ast" => GivesParser
    BY <1>3, <2>1, <2>2 DEF ReturnToken, GivesParser
  <2>4. executing = "pp-toks" => GivesCapture
    BY <1>3, <2>1, <2>2 DEF ReturnToken, GivesCapture
  <2>. QED  BY <1>3, <2>1, <2>2, <2>3, <2>4 DEF ReturnToken
<1>4. CASE ReadReplayed
  <2>1. Replays
    BY <1>4 DEF ReadReplayed, Replays
  <2>. QED  BY <1>4, <2>1 DEF ReadReplayed
<1>. QED  BY <1>1, <1>2, <1>3, <1>4

LEMMA StreamSteps ==
    ASSUME EventInv, ProfInv, StreamsFollow, CallsNeeded, Running,
           \/ RequestInput \/ RequestHit \/ RequestUnknown \/ StartStage
           \/ PullPreproc \/ PullLexer \/ LexToken \/ TakeReplayed \/ ReturnToken \/ ReadReplayed
           \/ BeginSubstage \/ FinishSubstage \/ EndStage
    PROVE  /\ args' = args /\ source' = source
           /\ \/ Rests
              \/ /\ told' = told /\ executing' = executing
                 /\ UNCHANGED <<registry, requests, answer, dumped>>
                 /\ Lexes \/ Takes \/ GivesParser \/ GivesCapture \/ Replays
<1>1. CASE LexToken \/ TakeReplayed \/ ReturnToken \/ ReadReplayed
  BY <1>1, TokenSteps
<1>2. CASE PullPreproc \/ PullLexer
  <2>1. streams.hand = 0
    BY <1>2 DEF PullPreproc, PullLexer, StreamsFollow, InCall
  <2>. QED  BY <1>2, <2>1 DEF PullPreproc, PullLexer, Rests
<1>3. CASE \/ RequestInput \/ RequestHit \/ RequestUnknown \/ StartStage
           \/ BeginSubstage \/ FinishSubstage \/ EndStage
  BY <1>3 DEF RequestInput, RequestHit, RequestUnknown, StartStage, BeginSubstage, FinishSubstage, EndStage,
              Rests
<1>. QED  BY <1>1, <1>2, <1>3

LEMMA Fixed ==
    ASSUME args' = args, source' = source
    PROVE  /\ Size' = Size /\ Eof' = Eof /\ Target' = Target
           /\ \A k : Captures(k)' = Captures(k)
           /\ \A n : Leaves(n)' = Leaves(n)
           /\ FlawSeen' = FlawSeen
           /\ \A k : Reaches(k)' = Reaches(k)
           /\ \A k : DumpsOf(k)' = DumpsOf(k)
<1>1. Size' = Size /\ Eof' = Eof /\ Target' = Target
  BY DEF Size, Eof, Target
<1>2. /\ \A k : Captures(k)' = Captures(k)
      /\ \A k : DumpsOf(k)' = DumpsOf(k)
  BY DEF Captures, DumpsOf
<1>3. \A n : Leaves(n)' = Leaves(n)
  BY <1>1 DEF Leaves
<1>4. \A k : Reaches(k)' = Reaches(k)
  BY <1>1 DEF Reaches
<1>5. FlawSeen' = FlawSeen
  BY <1>1 DEF FlawSeen, Reaches, Captures
<1>. QED  BY <1>1, <1>2, <1>3, <1>4, <1>5

LEMMA Fields ==
    ASSUME source \in Sources \cup {NoDocument}, StreamType
    PROVE  /\ streams.lexed \in 0 .. Eof /\ streams.taken \in 0 .. Eof /\ streams.hand \in 0 .. Eof
           /\ streams.over \in BOOLEAN /\ streams.ended \in BOOLEAN /\ streams.replayed \in Nat
           /\ streams.buffer \in Seq(1 .. Size) /\ streams.read \in Seq(1 .. Size)
           /\ Len(streams.buffer) \in Nat /\ DOMAIN streams.buffer = 1 .. Len(streams.buffer)
           /\ Len(streams.read) \in Nat /\ DOMAIN streams.read = 1 .. Len(streams.read)
           /\ \A i \in DOMAIN streams.buffer : streams.buffer[i] \in 1 .. Size
           /\ \A i \in DOMAIN streams.read : streams.read[i] \in 1 .. Size
           /\ Eof = Size + 1 /\ Size \in Nat /\ Eof \in Nat
           /\ streams = [lexed |-> streams.lexed, taken |-> streams.taken, hand |-> streams.hand,
                         over |-> streams.over, buffer |-> streams.buffer,
                         replayed |-> streams.replayed, read |-> streams.read, ended |-> streams.ended]
<1>1. /\ streams.lexed \in 0 .. Eof /\ streams.taken \in 0 .. Eof /\ streams.hand \in 0 .. Eof
      /\ streams.over \in BOOLEAN /\ streams.ended \in BOOLEAN /\ streams.replayed \in Nat
      /\ streams.buffer \in Seq(1 .. Size) /\ streams.read \in Seq(1 .. Size)
      /\ streams = [lexed |-> streams.lexed, taken |-> streams.taken, hand |-> streams.hand,
                    over |-> streams.over, buffer |-> streams.buffer,
                    replayed |-> streams.replayed, read |-> streams.read, ended |-> streams.ended]
  BY DEF StreamType
<1>2. Eof = Size + 1 /\ Size \in Nat /\ Eof \in Nat
  BY SourceFacts
<1>3. /\ Len(streams.buffer) \in Nat /\ DOMAIN streams.buffer = 1 .. Len(streams.buffer)
      /\ Len(streams.read) \in Nat /\ DOMAIN streams.read = 1 .. Len(streams.read)
  BY <1>1, LenProperties
<1>4. /\ \A i \in DOMAIN streams.buffer : streams.buffer[i] \in 1 .. Size
      /\ \A i \in DOMAIN streams.read : streams.read[i] \in 1 .. Size
  BY <1>1, <1>3, ElementOfSeq
<1>. QED  BY <1>1, <1>2, <1>3, <1>4

\* The streams after each of the steps, field by field.
LEMMA LexesFields ==
    ASSUME source \in Sources \cup {NoDocument}, StreamType, Lexes
    PROVE  /\ streams'.lexed = streams.lexed + 1 /\ streams'.taken = streams.taken
           /\ streams'.hand = streams.hand /\ streams'.over = streams.over
           /\ streams'.buffer = streams.buffer /\ streams'.replayed = streams.replayed
           /\ streams'.read = streams.read /\ streams'.ended = streams.ended
           /\ streams' \in [lexed : 0 .. Eof, taken : 0 .. Eof, hand : 0 .. Eof, over : BOOLEAN,
                            buffer : Seq(1 .. Size), replayed : Nat, read : Seq(1 .. Size), ended : BOOLEAN]
<1>1. streams.lexed + 1 \in 0 .. Eof
  BY Fields DEF Lexes
<1>2. streams' = [lexed |-> streams.lexed + 1, taken |-> streams.taken, hand |-> streams.hand,
                  over |-> streams.over, buffer |-> streams.buffer,
                  replayed |-> streams.replayed, read |-> streams.read, ended |-> streams.ended]
  BY Fields DEF Lexes
<1>. QED  BY <1>1, <1>2, Fields

LEMMA TakesFields ==
    ASSUME source \in Sources \cup {NoDocument}, StreamType, Takes, NEW n, n = streams.taken + 1
    PROVE  /\ n \in 1 .. Eof /\ n - 1 = streams.taken
           /\ streams'.lexed = (IF Captures("toks") THEN streams.lexed ELSE n) /\ streams'.taken = n
           /\ streams'.hand = (IF FlawAt("preprocessor", n) = 1 THEN Eof
                               ELSE IF n = Eof \/ source.kept[n] THEN n ELSE 0)
           /\ streams'.over = streams.over
           /\ streams'.buffer = streams.buffer /\ streams'.replayed = streams.replayed
           /\ streams'.read = streams.read /\ streams'.ended = streams.ended
           /\ streams' \in [lexed : 0 .. Eof, taken : 0 .. Eof, hand : 0 .. Eof, over : BOOLEAN,
                            buffer : Seq(1 .. Size), replayed : Nat, read : Seq(1 .. Size), ended : BOOLEAN]
<1>1. n \in 1 .. Eof /\ n - 1 = streams.taken
  BY Fields, SMTT(40) DEF Takes
<1>. DEFINE h == IF FlawAt("preprocessor", n) = 1 THEN Eof
                 ELSE IF n = Eof \/ source.kept[n] THEN n ELSE 0
            l == IF Captures("toks") THEN streams.lexed ELSE n
<1>2. h \in 0 .. Eof /\ l \in 0 .. Eof
  BY <1>1, Fields
<1>3. streams' = [lexed |-> l, taken |-> n, hand |-> h,
                  over |-> streams.over, buffer |-> streams.buffer,
                  replayed |-> streams.replayed, read |-> streams.read, ended |-> streams.ended]
  BY Fields DEF Takes, Taking
<1>. HIDE DEF h, l
<1>4. /\ streams'.lexed = l /\ streams'.taken = n /\ streams'.hand = h
      /\ streams'.over = streams.over
      /\ streams'.buffer = streams.buffer /\ streams'.replayed = streams.replayed
      /\ streams'.read = streams.read /\ streams'.ended = streams.ended
      /\ streams' \in [lexed : 0 .. Eof, taken : 0 .. Eof, hand : 0 .. Eof, over : BOOLEAN,
                       buffer : Seq(1 .. Size), replayed : Nat, read : Seq(1 .. Size), ended : BOOLEAN]
  BY <1>1, <1>2, <1>3, Fields
<1>. QED  BY <1>1, <1>4 DEF h, l

LEMMA GivesParserFields ==
    ASSUME source \in Sources \cup {NoDocument}, StreamType, GivesParser, NEW n, n = streams.hand
    PROVE  /\ n \in 1 .. Eof /\ streams'.lexed = streams.lexed /\ streams'.taken = streams.taken
           /\ streams'.hand = 0 /\ streams'.over = (n = Eof)
           /\ streams'.buffer = streams.buffer /\ streams'.replayed = streams.replayed
           /\ streams'.read = (IF n = Eof THEN streams.read ELSE Append(streams.read, n))
           /\ streams'.ended = (IF n = Eof THEN TRUE ELSE streams.ended)
           /\ streams' \in [lexed : 0 .. Eof, taken : 0 .. Eof, hand : 0 .. Eof, over : BOOLEAN,
                            buffer : Seq(1 .. Size), replayed : Nat, read : Seq(1 .. Size), ended : BOOLEAN]
<1>1. n \in 1 .. Eof
  BY Fields DEF GivesParser
<1>. DEFINE r == IF n = Eof THEN streams.read ELSE Append(streams.read, n)
            e == IF n = Eof THEN TRUE ELSE streams.ended
            o == (n = Eof)
<1>2. r \in Seq(1 .. Size) /\ e \in BOOLEAN /\ o \in BOOLEAN
  <2>1. n # Eof => n \in 1 .. Size
    BY <1>1, Fields
  <2>. QED  BY <2>1, Fields, AppendProperties
<1>3. streams' = [lexed |-> streams.lexed, taken |-> streams.taken, hand |-> 0,
                  over |-> o, buffer |-> streams.buffer,
                  replayed |-> streams.replayed, read |-> r, ended |-> e]
  BY Fields DEF GivesParser, Reading
<1>. HIDE DEF r, e, o
<1>4. /\ streams'.lexed = streams.lexed /\ streams'.taken = streams.taken
      /\ streams'.hand = 0 /\ streams'.over = o
      /\ streams'.buffer = streams.buffer /\ streams'.replayed = streams.replayed
      /\ streams'.read = r /\ streams'.ended = e
      /\ streams' \in [lexed : 0 .. Eof, taken : 0 .. Eof, hand : 0 .. Eof, over : BOOLEAN,
                       buffer : Seq(1 .. Size), replayed : Nat, read : Seq(1 .. Size), ended : BOOLEAN]
  BY <1>1, <1>2, <1>3, Fields
<1>. QED  BY <1>1, <1>4 DEF r, e, o

LEMMA GivesCaptureFields ==
    ASSUME source \in Sources \cup {NoDocument}, StreamType, GivesCapture, NEW n, n = streams.hand
    PROVE  /\ n \in 1 .. Eof /\ streams'.lexed = streams.lexed /\ streams'.taken = streams.taken
           /\ streams'.hand = 0 /\ streams'.over = (n = Eof)
           /\ streams'.buffer = (IF n = Eof THEN streams.buffer ELSE Append(streams.buffer, n))
           /\ streams'.replayed = streams.replayed
           /\ streams'.read = streams.read /\ streams'.ended = streams.ended
           /\ streams' \in [lexed : 0 .. Eof, taken : 0 .. Eof, hand : 0 .. Eof, over : BOOLEAN,
                            buffer : Seq(1 .. Size), replayed : Nat, read : Seq(1 .. Size), ended : BOOLEAN]
<1>1. n \in 1 .. Eof
  BY Fields DEF GivesCapture
<1>. DEFINE b == IF n = Eof THEN streams.buffer ELSE Append(streams.buffer, n)
            o == (n = Eof)
<1>2. b \in Seq(1 .. Size) /\ o \in BOOLEAN
  <2>1. n # Eof => n \in 1 .. Size
    BY <1>1, Fields
  <2>. QED  BY <2>1, Fields, AppendProperties
<1>3. streams' = [lexed |-> streams.lexed, taken |-> streams.taken, hand |-> 0,
                  over |-> o, buffer |-> b,
                  replayed |-> streams.replayed, read |-> streams.read, ended |-> streams.ended]
  BY Fields DEF GivesCapture
<1>. HIDE DEF b, o
<1>4. /\ streams'.lexed = streams.lexed /\ streams'.taken = streams.taken
      /\ streams'.hand = 0 /\ streams'.over = o
      /\ streams'.buffer = b /\ streams'.replayed = streams.replayed
      /\ streams'.read = streams.read /\ streams'.ended = streams.ended
      /\ streams' \in [lexed : 0 .. Eof, taken : 0 .. Eof, hand : 0 .. Eof, over : BOOLEAN,
                       buffer : Seq(1 .. Size), replayed : Nat, read : Seq(1 .. Size), ended : BOOLEAN]
  BY <1>1, <1>2, <1>3, Fields
<1>. QED  BY <1>1, <1>4 DEF b, o

LEMMA ReplaysFields ==
    ASSUME source \in Sources \cup {NoDocument}, StreamType, Replays, NEW i, i = streams.replayed + 1
    PROVE  /\ i \in Nat /\ streams'.lexed = streams.lexed /\ streams'.taken = streams.taken
           /\ streams'.hand = streams.hand /\ streams'.over = streams.over
           /\ streams'.buffer = streams.buffer /\ streams'.replayed = i
           /\ streams'.read = (IF i > Len(streams.buffer) THEN streams.read
                               ELSE Append(streams.read, streams.buffer[i]))
           /\ streams'.ended = (IF i > Len(streams.buffer) THEN TRUE ELSE streams.ended)
           /\ i > Len(streams.buffer) \/ i \in DOMAIN streams.buffer
           /\ errors' = errors + FlawAt("parser", IF i > Len(streams.buffer) THEN Eof ELSE streams.buffer[i])
           /\ streams' \in [lexed : 0 .. Eof, taken : 0 .. Eof, hand : 0 .. Eof, over : BOOLEAN,
                            buffer : Seq(1 .. Size), replayed : Nat, read : Seq(1 .. Size), ended : BOOLEAN]
<1>1. i \in Nat /\ (i > Len(streams.buffer) \/ i \in DOMAIN streams.buffer)
  BY Fields
<1>. DEFINE n == IF i > Len(streams.buffer) THEN Eof ELSE streams.buffer[i]
            r == IF i > Len(streams.buffer) THEN streams.read ELSE Append(streams.read, streams.buffer[i])
            e == IF i > Len(streams.buffer) THEN TRUE ELSE streams.ended
<1>2. r \in Seq(1 .. Size) /\ e \in BOOLEAN
  BY <1>1, Fields, AppendProperties
<1>3. n = Eof <=> i > Len(streams.buffer)
  BY <1>1, Fields
<1>4. streams' = Reading([streams EXCEPT !.replayed = i], n) /\ errors' = errors + FlawAt("parser", n)
  BY DEF Replays
<1>5. streams' = [lexed |-> streams.lexed, taken |-> streams.taken, hand |-> streams.hand,
                  over |-> streams.over, buffer |-> streams.buffer,
                  replayed |-> i, read |-> r, ended |-> e]
  <2>1. CASE i > Len(streams.buffer)
    BY <1>3, <1>4, <2>1, Fields DEF Reading
  <2>2. CASE ~(i > Len(streams.buffer))
    BY <1>3, <1>4, <2>2, Fields DEF Reading
  <2>. QED  BY <2>1, <2>2
<1>. HIDE DEF r, e
<1>6. /\ streams'.lexed = streams.lexed /\ streams'.taken = streams.taken
      /\ streams'.hand = streams.hand /\ streams'.over = streams.over
      /\ streams'.buffer = streams.buffer /\ streams'.replayed = i
      /\ streams'.read = r /\ streams'.ended = e
      /\ streams' \in [lexed : 0 .. Eof, taken : 0 .. Eof, hand : 0 .. Eof, over : BOOLEAN,
                       buffer : Seq(1 .. Size), replayed : Nat, read : Seq(1 .. Size), ended : BOOLEAN]
  BY <1>1, <1>2, <1>5, Fields
<1>. QED  BY <1>1, <1>4, <1>6 DEF r, e

-----------------------------------------------------------------------------
(* Each part of ReadInv is kept.                                           *)

Moves == Rests \/ Lexes \/ Takes \/ GivesParser \/ GivesCapture \/ Replays

LEMMA TypeKept ==
    ASSUME source \in Sources \cup {NoDocument}, args' = args, source' = source, StreamType, Moves
    PROVE  StreamType'
<1>1. Eof' = Eof /\ Size' = Size
  BY Fixed
<1>2. CASE Rests
  BY <1>1, <1>2 DEF Rests, StreamType
<1>3. CASE Lexes
  BY <1>1, <1>3, LexesFields DEF StreamType
<1>4. CASE Takes
  BY <1>1, <1>4, TakesFields DEF StreamType
<1>5. CASE GivesParser
  BY <1>1, <1>5, GivesParserFields DEF StreamType
<1>6. CASE GivesCapture
  BY <1>1, <1>6, GivesCaptureFields DEF StreamType
<1>7. CASE Replays
  BY <1>1, <1>7, ReplaysFields DEF StreamType
<1>. QED  BY <1>2, <1>3, <1>4, <1>5, <1>6, <1>7 DEF Moves

LEMMA FollowKept ==
    ASSUME source \in Sources \cup {NoDocument}, args' = args, source' = source,
           StreamType, StreamsFollow, Moves
    PROVE  StreamsFollow'
<1>1. Eof' = Eof /\ Size' = Size /\ Captures("toks")' = Captures("toks")
  BY Fixed
<1>2. CASE Rests
  <2>1. streams.hand # 0 => (InCall("Preprocessor")' <=> InCall("Preprocessor"))
    BY <1>2 DEF Rests, InCall
  <2>. QED  BY <1>1, <1>2, <2>1 DEF Rests, StreamsFollow
<1>3. CASE Lexes
  <2>1. /\ streams'.taken = streams.taken /\ streams'.hand = 0 /\ streams'.over = streams.over
        /\ Captures("toks") /\ streams.hand = 0
    BY <1>3, LexesFields DEF Lexes
  <2>. QED  BY <1>1, <2>1 DEF StreamsFollow
<1>4. CASE Takes
  <2>1. PICK n : n = streams.taken + 1
    OBVIOUS
  <2>2. /\ n \in 1 .. Eof /\ streams'.taken = n /\ streams'.over = streams.over
        /\ streams'.lexed = (IF Captures("toks") THEN streams.lexed ELSE n)
        /\ streams'.hand = (IF FlawAt("preprocessor", n) = 1 THEN Eof
                            ELSE IF n = Eof \/ source.kept[n] THEN n ELSE 0)
    BY <1>4, <2>1, TakesFields
  <2>3. InCall("Preprocessor")' /\ ~streams'.over
    BY <1>4, <2>2 DEF Takes
  <2>4. Eof \in Nat /\ Eof # 0
    BY SourceFacts
  <2>5. \/ streams'.hand = Eof
        \/ streams'.hand = n /\ source.kept[n]
        \/ streams'.hand = 0 /\ n # Eof
    BY <2>2
  <2>6. streams'.hand = 0 => n < Eof
    BY <2>2, <2>4, <2>5
  <2>7. streams'.hand \notin {0, Eof} => streams'.hand = n /\ source.kept[n]
    BY <2>5
  <2>. QED  BY <1>1, <2>2, <2>3, <2>6, <2>7 DEF StreamsFollow
<1>5. CASE GivesParser \/ GivesCapture
  <2>1. PICK n : n = streams.hand
    OBVIOUS
  <2>2. /\ n \in 1 .. Eof /\ streams'.lexed = streams.lexed /\ streams'.taken = streams.taken
        /\ streams'.hand = 0 /\ streams'.over = (n = Eof)
    BY <1>5, <2>1, GivesParserFields, GivesCaptureFields
  <2>3. Eof \in Nat
    BY SourceFacts
  <2>4. ~streams'.over => streams.taken < Eof
    <3>1. SUFFICES ASSUME n # Eof PROVE streams.taken < Eof
      BY <2>2
    <3>2. streams.taken = n
      BY <2>1, <2>2, <3>1 DEF StreamsFollow
    <3>. QED  BY <2>2, <2>3, <3>1, <3>2
  <2>. QED  BY <1>1, <2>2, <2>4 DEF StreamsFollow
<1>6. CASE Replays
  <2>1. /\ streams'.lexed = streams.lexed /\ streams'.taken = streams.taken
        /\ streams'.hand = streams.hand /\ streams'.over = streams.over
    BY <1>6, ReplaysFields
  <2>2. streams.hand = 0
    BY <1>6 DEF Replays, StreamsFollow, InCall
  <2>. QED  BY <1>1, <2>1, <2>2 DEF StreamsFollow
<1>. QED  BY <1>2, <1>3, <1>4, <1>5, <1>6 DEF Moves

\* Errors are never taken back.
LEMMA ErrorsGrow ==
    ASSUME EventInv, EventInv', source \in Sources \cup {NoDocument}, StreamType, Moves
    PROVE  errors \in Nat /\ errors' \in Nat /\ (errors' = 0 => errors = 0)
<1>1. errors \in Nat /\ errors' \in Nat /\ \A x, y : FlawAt(x, y) \in Nat
  BY FlawType DEF EventInv, EventType
<1>2. BinderErrors \in Nat
  BY DEF BinderErrors
<1>3. CASE Rests
  BY <1>1, <1>2, <1>3 DEF Rests, ErrorsThen
<1>4. CASE Lexes
  BY <1>1, <1>4 DEF Lexes
<1>5. CASE Takes
  BY <1>1, <1>5 DEF Takes
<1>6. CASE GivesParser \/ GivesCapture
  BY <1>1, <1>6 DEF GivesParser, GivesCapture
<1>7. CASE Replays
  <2>1. PICK e : e \in Nat /\ errors' = errors + e
    BY <1>1, <1>7, ReplaysFields
  <2>. QED  BY <1>1, <2>1
<1>. QED  BY <1>1, <1>3, <1>4, <1>5, <1>6, <1>7 DEF Moves

\* A token more at the end, greater than all before it.
LEMMA OrderedAppend ==
    ASSUME NEW q \in Seq(1 .. Size), Size \in Nat, InOrder(q), NEW n \in 1 .. Size,
           \A i \in DOMAIN q : q[i] < n
    PROVE  /\ InOrder(Append(q, n)) /\ Range(Append(q, n)) = Range(q) \cup {n}
<1>1. PICK k : k = Len(q)
  OBVIOUS
<1>2. PICK z : z = Append(q, n)
  OBVIOUS
<1>3. /\ k \in Nat /\ DOMAIN q = 1 .. k /\ DOMAIN z = 1 .. k + 1
      /\ \A i \in 1 .. k : z[i] = q[i] /\ q[i] \in 1 .. Size
      /\ z[k + 1] = n
  BY <1>1, <1>2, LenProperties, AppendProperties, ElementOfSeq
<1>4. ASSUME NEW i \in DOMAIN z, NEW j \in DOMAIN z, i < j
      PROVE  z[i] < z[j]
  <2>1. i \in 1 .. k /\ (j \in 1 .. k \/ j = k + 1)
    BY <1>3, <1>4
  <2>2. CASE j \in 1 .. k
    BY <1>3, <1>4, <2>1, <2>2 DEF InOrder
  <2>3. CASE j = k + 1
    BY <1>3, <2>1, <2>3
  <2>. QED  BY <2>1, <2>2, <2>3
<1>5. Range(z) = Range(q) \cup {n}
  <2>1. DOMAIN z = DOMAIN q \cup {k + 1}
    BY <1>3
  <2>2. /\ \A i \in DOMAIN q : z[i] = q[i] /\ i \in DOMAIN z
        /\ \A i \in DOMAIN z : i \in DOMAIN q \/ i = k + 1
        /\ k + 1 \in DOMAIN z
    BY <1>3, <2>1
  <2>3. Range(z) = {z[i] : i \in DOMAIN z} /\ Range(q) = {q[i] : i \in DOMAIN q}
    BY DEF Range
  <2>. QED  BY <1>3, <2>2, <2>3
<1>. QED  BY <1>2, <1>4, <1>5 DEF InOrder

\* What is left of the tokens taken grows with each one kept.
LEMMA LeavesNext ==
    ASSUME source \in Sources \cup {NoDocument}, NEW n \in 1 .. Eof
    PROVE  /\ n # Eof /\ source.kept[n] => Leaves(n) = Leaves(n - 1) \cup {n}
           /\ n = Eof \/ ~source.kept[n] => Leaves(n) = Leaves(n - 1)
           /\ \A m \in Leaves(n - 1) : m < n
           /\ Leaves(Eof) = {m \in 1 .. Size : source.kept[m]}
<1>1. Eof = Size + 1 /\ Size \in Nat
  BY SourceFacts
<1>2. \A m \in 1 .. Size : (m <= n <=> m <= n - 1 \/ m = n) /\ m <= Eof
  BY <1>1
<1>3. n # Eof => n \in 1 .. Size
  BY <1>1
<1>4. n = Eof => n \notin 1 .. Size
  BY <1>1
<1>5. n # Eof /\ source.kept[n] => Leaves(n) = Leaves(n - 1) \cup {n}
  BY <1>2, <1>3 DEF Leaves
<1>6. n = Eof \/ ~source.kept[n] => Leaves(n) = Leaves(n - 1)
  BY <1>2, <1>4 DEF Leaves
<1>7. \A m \in Leaves(n - 1) : m < n
  BY <1>1 DEF Leaves
<1>8. Leaves(Eof) = {m \in 1 .. Size : source.kept[m]}
  BY <1>2 DEF Leaves
<1>. QED  BY <1>5, <1>6, <1>7, <1>8

LEMMA WholeKept ==
    ASSUME source \in Sources \cup {NoDocument}, args' = args, source' = source,
           StreamType, StreamsFollow, StreamsWhole, Moves, EventInv, EventInv'
    PROVE  StreamsWhole'
<1>. DEFINE Got(t) == IF t.hand = 0 THEN t.taken ELSE t.taken - 1
<1>1. SUFFICES ASSUME errors' = 0
      PROVE  /\ InOrder(Delivered')
             /\ Range(Delivered') = Leaves(Got(streams'))
             /\ streams'.over \/ streams'.hand = Eof => streams'.taken = Eof
             /\ streams'.hand # 0 => streams'.taken # 0
  BY Fixed DEF StreamsWhole, InOrder
<1>2. errors = 0 /\ Eof \in Nat /\ Eof # 0 /\ Size \in Nat
  BY <1>1, ErrorsGrow, SourceFacts
<1>3. /\ InOrder(Delivered)
      /\ Range(Delivered) = Leaves(Got(streams))
      /\ streams.over \/ streams.hand = Eof => streams.taken = Eof
      /\ streams.hand # 0 => streams.taken # 0
  BY <1>2 DEF StreamsWhole
<1>4. /\ Delivered = IF Captures("pp-toks") THEN streams.buffer ELSE streams.read
      /\ Delivered' = IF Captures("pp-toks") THEN streams'.buffer ELSE streams'.read
  BY Fixed DEF Delivered
<1>5. CASE Rests
  BY <1>3, <1>4, <1>5 DEF Rests
<1>6. CASE Lexes \/ Replays
  <2>1. /\ streams'.taken = streams.taken /\ streams'.hand = streams.hand /\ streams'.over = streams.over
        /\ Delivered' = Delivered
    BY <1>4, <1>6, LexesFields, ReplaysFields DEF Replays
  <2>. QED  BY <1>3, <2>1
<1>7. CASE Takes
  <2>1. PICK n : n = streams.taken + 1
    OBVIOUS
  <2>2. /\ n \in 1 .. Eof /\ n - 1 = streams.taken /\ streams'.taken = n /\ streams'.over = streams.over
        /\ streams'.hand = (IF FlawAt("preprocessor", n) = 1 THEN Eof
                            ELSE IF n = Eof \/ source.kept[n] THEN n ELSE 0)
        /\ Delivered' = Delivered
    BY <1>4, <1>7, <2>1, TakesFields
  <2>3. streams.hand = 0 /\ ~streams.over /\ n # 0
    BY <1>7, <2>2 DEF Takes
  <2>4. FlawAt("preprocessor", n) # 1
    <3>1. PICK a, b : /\ a \in Nat /\ b \in Nat /\ b = FlawAt("preprocessor", n)
                      /\ errors' = errors + a + b
      BY <1>7, <2>1, FlawType DEF Takes
    <3>. QED  BY <1>1, <1>2, <3>1
  <2>5. Range(Delivered') = Leaves(n - 1)
    BY <1>3, <2>2, <2>3
  <2>6. CASE n = Eof \/ source.kept[n]
    BY <1>3, <2>2, <2>3, <2>4, <2>5, <2>6
  <2>7. CASE ~(n = Eof \/ source.kept[n])
    <3>1. streams'.hand = 0 /\ Leaves(n) = Leaves(n - 1)
      BY <2>2, <2>4, <2>7, LeavesNext
    <3>. QED  BY <1>2, <1>3, <2>2, <2>3, <2>5, <3>1
  <2>. QED  BY <2>6, <2>7
<1>8. CASE GivesParser \/ GivesCapture
  <2>1. PICK n, q : n = streams.hand /\ q = Delivered
    OBVIOUS
  <2>2. /\ n \in 1 .. Eof /\ streams'.taken = streams.taken
        /\ streams'.hand = 0 /\ streams'.over = (n = Eof)
        /\ Delivered' = IF n = Eof THEN q ELSE Append(q, n)
    <3>1. CASE GivesParser
      BY <1>4, <2>1, <3>1, GivesParserFields DEF GivesParser
    <3>2. CASE GivesCapture
      BY <1>4, <2>1, <3>2, GivesCaptureFields DEF GivesCapture
    <3>. QED  BY <1>8, <3>1, <3>2
  <2>3. n # 0 /\ Range(q) = Leaves(streams.taken - 1) /\ q \in Seq(1 .. Size) /\ InOrder(q)
    BY <1>2, <1>3, <1>4, <2>1, <2>2, Fields
  <2>4. CASE n = Eof
    <3>1. streams.taken = Eof /\ Leaves(Eof) = Leaves(Eof - 1)
      BY <1>2, <1>3, <2>1, <2>2, <2>4, LeavesNext
    <3>. QED  BY <1>2, <2>2, <2>3, <2>4, <3>1
  <2>5. CASE n # Eof
    <3>1. n = streams.taken /\ source.kept[n] /\ n \in 1 .. Size
      BY <2>1, <2>2, <2>3, <2>5, SourceFacts DEF StreamsFollow
    <3>2. Leaves(n) = Leaves(n - 1) \cup {n} /\ \A m \in Leaves(n - 1) : m < n
      BY <2>2, <2>5, <3>1, LeavesNext
    <3>3. \A i \in DOMAIN q : q[i] < n
      <4>1. \A i \in DOMAIN q : q[i] \in Range(q)
        BY DEF Range
      <4>. QED  BY <2>3, <3>1, <3>2, <4>1
    <3>4. InOrder(Append(q, n)) /\ Range(Append(q, n)) = Leaves(n)
      BY <1>2, <2>3, <3>1, <3>2, <3>3, OrderedAppend
    <3>. QED  BY <1>2, <2>2, <2>5, <3>1, <3>4
  <2>. QED  BY <2>4, <2>5
<1>. QED  BY <1>5, <1>6, <1>7, <1>8 DEF Moves

LEMMA ParserReadsKept ==
    ASSUME source \in Sources \cup {NoDocument}, args' = args, source' = source,
           StreamType, ParserReads, Moves, EventInv, EventInv', InputsEnded,
           Rests \/ told' = told, told["ast"] = "nothing" \/ told'["ast"] # "nothing"
    PROVE  ParserReads'
<1>1. Captures("pp-toks")' = Captures("pp-toks")
  BY Fixed
<1>2. CASE Rests
  BY <1>1, <1>2 DEF Rests, ParserReads
<1>3. CASE (Lexes \/ Takes) /\ told' = told
  <2>1. /\ streams'.over = streams.over /\ streams'.ended = streams.ended
        /\ streams'.buffer = streams.buffer /\ streams'.replayed = streams.replayed
        /\ streams'.read = streams.read
    BY <1>3, LexesFields, TakesFields
  <2>. QED  BY <1>1, <1>3, <2>1 DEF ParserReads
<1>4. CASE GivesParser /\ told' = told
  <2>1. executing = "ast" /\ ~Captures("pp-toks") /\ told["ast"] = "start"
    BY <1>4, Around DEF GivesParser, None
  <2>2. PICK n : n = streams.hand
    OBVIOUS
  <2>3. streams'.over = (n = Eof) /\ streams'.ended = (IF n = Eof THEN TRUE ELSE streams.ended)
    BY <1>4, <2>2, GivesParserFields
  <2>4. streams.ended = FALSE
    BY <1>4, <2>1, Fields DEF ParserReads, GivesParser
  <2>. QED  BY <1>1, <1>4, <2>1, <2>3, <2>4 DEF ParserReads
<1>5. CASE GivesCapture /\ told' = told
  <2>1. executing = "pp-toks" /\ Captures("pp-toks") /\ told["ast"] = "nothing"
    BY <1>5, Around DEF GivesCapture, None
  <2>2. /\ streams'.read = streams.read /\ streams'.ended = streams.ended
        /\ streams'.replayed = streams.replayed /\ streams'.buffer \in Seq(1 .. Size)
    BY <1>5, GivesCaptureFields
  <2>3. streams.read = <<>> /\ ~streams.ended /\ streams.replayed = 0
    <3>1. streams.read = <<>> /\ ~streams.ended /\ Len(streams.read) = streams.replayed
      BY <2>1 DEF ParserReads
    <3>. QED  BY <3>1, EmptySeq
  <2>4. Len(<<>>) = 0 /\ DOMAIN <<>> = {} /\ 0 <= Len(streams'.buffer)
    BY <2>2, EmptySeq, LenProperties
  <2>. QED  BY <1>1, <1>5, <2>1, <2>2, <2>3, <2>4 DEF ParserReads
<1>6. CASE Replays /\ told' = told
  <2>1. PICK i : i = streams.replayed + 1
    OBVIOUS
  <2>2. PICK b, r, m : b = streams.buffer /\ r = streams.read /\ m = Len(b)
    OBVIOUS
  <2>3. /\ i \in Nat /\ streams'.buffer = b /\ streams'.replayed = i
        /\ streams'.read = (IF i > m THEN r ELSE Append(r, b[i]))
        /\ streams'.ended = (IF i > m THEN TRUE ELSE streams.ended)
    BY <1>6, <2>1, <2>2, ReplaysFields
  <2>4. executing = "ast" /\ Captures("pp-toks") /\ told["ast"] = "start" /\ ~streams.ended
    BY <1>6, Around DEF Replays, None
  <2>5. /\ Len(r) = i - 1 /\ m \in Nat /\ i - 1 <= m /\ i \in Nat \ {0}
        /\ \A j \in DOMAIN r : r[j] = b[j]
        /\ r \in Seq(1 .. Size) /\ DOMAIN r = 1 .. i - 1
        /\ \A j \in 1 .. m : b[j] \in 1 .. Size
    <3>1. Len(r) = streams.replayed /\ Len(r) <= m /\ \A j \in DOMAIN r : r[j] = b[j]
      BY <2>2, <2>4 DEF ParserReads
    <3>2. /\ streams.replayed \in Nat /\ m \in Nat /\ r \in Seq(1 .. Size) /\ DOMAIN r = 1 .. Len(r)
          /\ \A j \in 1 .. m : b[j] \in 1 .. Size
      BY <2>2, Fields
    <3>3. streams.replayed = i - 1 /\ i \in Nat \ {0}
      BY <2>1, <3>2
    <3>. QED  BY <3>1, <3>2, <3>3
  <2>6. CASE i > m
    <3>1. Len(r) = m /\ Len(r) <= m
      BY <2>5, <2>6
    <3>. QED  BY <1>1, <1>6, <2>2, <2>3, <2>4, <2>5, <2>6, <3>1 DEF ParserReads
  <2>7. CASE ~(i > m)
    <3>1. PICK z : z = Append(r, b[i])
      OBVIOUS
    <3>2. i \in 1 .. m /\ i <= m
      BY <2>5, <2>7
    <3>3. /\ Len(z) = i /\ DOMAIN z = 1 .. i
          /\ \A j \in 1 .. i : z[j] = b[j]
      <4>1. b[i] \in 1 .. Size
        BY <2>5, <3>2
      <4>2. /\ Len(z) = (i - 1) + 1 /\ z \in Seq(1 .. Size)
            /\ \A j \in 1 .. i - 1 : z[j] = r[j]
            /\ z[(i - 1) + 1] = b[i]
        BY <2>5, <3>1, <4>1, AppendProperties
      <4>3. (i - 1) + 1 = i /\ \A j \in 1 .. i : j = i \/ j \in 1 .. i - 1
        BY <2>5
      <4>4. DOMAIN z = 1 .. i
        BY <4>2, <4>3, LenProperties
      <4>. QED  BY <2>5, <4>2, <4>3, <4>4
    <3>. QED  BY <1>1, <1>6, <2>2, <2>3, <2>4, <2>7, <3>1, <3>2, <3>3 DEF ParserReads
  <2>. QED  BY <2>6, <2>7
<1>. QED  BY <1>2, <1>3, <1>4, <1>5, <1>6 DEF Moves

\* A stage that ends has failed, or there are no errors and its artifact is there.
LEMMA EndFacts ==
    ASSUME EventInv, EndStage
    PROVE  /\ executing \in MakesOutput /\ told[executing] = "start" /\ executing' = None
           /\ calls = <<>> /\ calls' = <<>> /\ Exhausted /\ errors' = ErrorsThen /\ ErrorsThen \in Nat
           /\ UNCHANGED <<source, args, streams>>
           /\ \/ /\ ErrorsThen > 0 /\ requests' = <<>> /\ answer' = "no"
                 /\ UNCHANGED <<registry, dumped>>
                 /\ told' = told \/ told' = [told EXCEPT ![executing] = "finish"]
              \/ /\ ErrorsThen = 0 /\ errors = 0 /\ BinderErrors = 0
                 /\ registry' = registry \cup {executing}
                 /\ told' = [told EXCEPT ![executing] = "end"]
                 /\ dumped' = dumped \o DumpsOf(executing)
                 /\ requests' = SubSeq(requests, 1, Len(requests) - 1)
                 /\ answer' = IF Len(requests) = 1 THEN "yes" ELSE answer
<1>1. executing \in MakesOutput /\ told[executing] = "start"
  BY DEF EndStage, EventInv, EventType
<1>2. errors \in Nat /\ BinderErrors \in Nat /\ ErrorsThen = errors + BinderErrors
  BY DEF EventInv, EventType, BinderErrors, ErrorsThen
<1>3. ErrorsThen \in Nat /\ (ErrorsThen = 0 => errors = 0 /\ BinderErrors = 0)
  BY <1>2
<1>. QED  BY <1>1, <1>3 DEF EndStage

\* Where told moves nothing else does but at the end of a stage.
LEMMA ToldMoves ==
    ASSUME EventInv, [Next]_vars
    PROVE  \/ told' = told
           \/ /\ StartStage /\ Wanted \in MakesOutput /\ told[Wanted] = "nothing"
              /\ told' = [told EXCEPT ![Wanted] = "start"] /\ streams' = streams /\ errors' = errors
           \/ /\ EndStage /\ streams' = streams
              /\ told' = [told EXCEPT ![executing] = "finish"] \/ told' = [told EXCEPT ![executing] = "end"]
<1>1. StartStage => streams' = streams /\ errors' = errors
  BY DEF StartStage
<1>2. EndStage => streams' = streams
  BY DEF EndStage
<1>. QED  BY <1>1, <1>2, ToldSteps

LEMMA StreamsReadKept ==
    ASSUME source \in Sources \cup {NoDocument}, args' = args, source' = source,
           StreamType, StreamsFollow, StreamsWhole, ParserReads, StreamsRead, Moves, EventInv, InputsEnded,
           \/ told' = told
           \/ Wanted \in MakesOutput /\ told' = [told EXCEPT ![Wanted] = "start"] /\ streams' = streams
           \/ EndStage /\ streams' = streams
    PROVE  StreamsRead'
<1>0. /\ told \in [MakesOutput -> {"nothing", "start", "finish", "end"}]
      /\ Eof' = Eof /\ Size' = Size /\ Captures("toks")' = Captures("toks")
      /\ Captures("pp-toks")' = Captures("pp-toks")
  BY Fixed DEF EventInv, EventType
<1>1. \A q : Preserved(q) <=> Range(q) = Leaves(Eof) /\ InOrder(q)
  <2>1. Eof \in 1 .. Eof
    BY SourceFacts
  <2>. QED  BY <2>1, LeavesNext DEF Preserved, InOrder
<1>2. /\ Preserved(streams.buffer)' <=> Preserved(streams'.buffer)
      /\ Preserved(streams.read)' <=> Preserved(streams'.read)
  BY <1>0 DEF Preserved
<1>3. CASE streams' = streams /\ (told' = told
              \/ (Wanted \in MakesOutput /\ told' = [told EXCEPT ![Wanted] = "start"]))
  <2>1. \A k \in MakesOutput : told'[k] = "end" => told[k] = "end"
    BY <1>0, <1>3
  <2>. QED  BY <1>0, <1>2, <1>3, <2>1, KindFacts DEF StreamsRead
<1>4. CASE EndStage /\ streams' = streams
  <2>1. PICK kind : kind = executing
    OBVIOUS
  <2>2. /\ kind \in MakesOutput /\ told[kind] = "start" /\ calls = <<>> /\ Exhausted
        /\ \/ told' = told \/ told' = [told EXCEPT ![kind] = "finish"]
           \/ errors = 0 /\ told' = [told EXCEPT ![kind] = "end"]
    BY <1>4, <2>1, EndFacts
  <2>3. CASE told' = told \/ told' = [told EXCEPT ![kind] = "finish"]
    <3>1. \A k \in MakesOutput : told'[k] = "end" => told[k] = "end"
      BY <1>0, <2>2, <2>3
    <3>. QED  BY <1>0, <1>2, <1>4, <3>1, KindFacts DEF StreamsRead
  <2>4. CASE errors = 0 /\ told' = [told EXCEPT ![kind] = "end"]
    <3>1. \A k \in MakesOutput : told'[k] = "end" => told[k] = "end" \/ k = kind
      BY <1>0, <2>2, <2>4
    <3>2. streams.hand = 0
      BY <2>2 DEF StreamsFollow, InCall
    <3>3. /\ InOrder(Delivered) /\ Range(Delivered) = Leaves(streams.taken)
          /\ streams.over => streams.taken = Eof
      BY <2>4, <3>2 DEF StreamsWhole
    <3>4. kind = "toks" /\ Captures("toks") => streams.lexed = Eof
      BY <2>1, <2>2 DEF Exhausted
    <3>5. kind = "pp-toks" /\ Captures("pp-toks") => Preserved(streams.buffer) /\ streams.taken = Eof
      BY <1>1, <2>1, <2>2, <3>3 DEF Exhausted, Delivered
    <3>6. kind = "ast" => Preserved(streams.read) /\ streams.taken = Eof /\ streams.ended
      <4>1. SUFFICES ASSUME kind = "ast"
            PROVE  Preserved(streams.read) /\ streams.taken = Eof /\ streams.ended
        OBVIOUS
      <4>2. streams.ended
        BY <2>1, <2>2, <4>1 DEF Exhausted
      <4>3. CASE ~Captures("pp-toks")
        BY <1>1, <3>3, <4>2, <4>3 DEF Delivered, ParserReads
      <4>4. CASE Captures("pp-toks")
        <5>1. Preserved(streams.buffer) /\ streams.taken = Eof
          <6>1. told["pp-toks"] = "end"
            BY <2>1, <2>2, <4>1, Around DEF None
          <6>. QED  BY <4>4, <6>1 DEF StreamsRead
        <5>2. /\ Len(streams.read) = Len(streams.buffer)
              /\ \A i \in DOMAIN streams.read : streams.read[i] = streams.buffer[i]
          BY <4>2, <4>4 DEF ParserReads
        <5>3. streams.read = streams.buffer
          <6>1. DOMAIN streams.read = DOMAIN streams.buffer
            BY <5>2, Fields
          <6>2. \A i \in 1 .. Len(streams.read) : streams.read[i] = streams.buffer[i]
            BY <5>2, Fields
          <6>. QED  BY <5>2, <6>2, Fields, SeqEqual
        <5>. QED  BY <4>2, <5>1, <5>3
      <4>. QED  BY <4>3, <4>4
    <3>. QED  BY <1>0, <1>2, <1>4, <3>1, <3>4, <3>5, <3>6, KindFacts DEF StreamsRead
  <2>. QED  BY <2>2, <2>3, <2>4
<1>5. CASE told' = told /\ Lexes
  <2>1. /\ streams'.taken = streams.taken /\ streams'.buffer = streams.buffer /\ streams'.read = streams.read
        /\ streams'.ended = streams.ended /\ told["toks"] # "end"
    BY <1>5, LexesFields, Around DEF Lexes, None
  <2>. QED  BY <1>0, <1>2, <1>5, <2>1 DEF StreamsRead
<1>6. CASE told' = told /\ Takes
  <2>1. /\ streams'.buffer = streams.buffer /\ streams'.read = streams.read
        /\ streams'.ended = streams.ended
        /\ Captures("toks") => streams'.lexed = streams.lexed
    BY <1>6, TakesFields
  <2>2. /\ told["pp-toks"] = "end" => ~Captures("pp-toks")
        /\ told["ast"] # "end"
    BY <1>6, Around DEF Takes, None
  <2>. QED  BY <1>0, <1>2, <1>6, <2>1, <2>2 DEF StreamsRead
<1>7. CASE told' = told /\ (GivesParser \/ GivesCapture \/ Replays)
  <2>1. /\ streams'.lexed = streams.lexed /\ streams'.taken = streams.taken
        /\ executing \in {"pp-toks", "ast"} /\ executing # None
        /\ executing = "pp-toks" => Captures("pp-toks")
        /\ executing = "ast" => streams'.buffer = streams.buffer
    BY <1>7, GivesParserFields, GivesCaptureFields, ReplaysFields DEF GivesParser, GivesCapture, Replays, None
  <2>2. /\ told["ast"] # "end"
        /\ executing = "pp-toks" => told["pp-toks"] # "end"
    BY <2>1, Around
  <2>. QED  BY <1>0, <1>2, <1>7, <2>1, <2>2 DEF StreamsRead
<1>8. Rests => streams' = streams
  BY DEF Rests
<1>. QED  BY <1>3, <1>4, <1>5, <1>6, <1>7, <1>8 DEF Moves


LEMMA RangeAppend ==
    ASSUME NEW S, NEW q \in Seq(S), NEW x \in S
    PROVE  Range(Append(q, x)) = Range(q) \cup {x}
<1>1. PICK k, z : k = Len(q) /\ z = Append(q, x)
  OBVIOUS
<1>2. /\ k \in Nat /\ DOMAIN q = 1 .. k /\ DOMAIN z = 1 .. k + 1
      /\ \A i \in 1 .. k : z[i] = q[i]
      /\ z[k + 1] = x
  BY <1>1, LenProperties, AppendProperties
<1>3. DOMAIN z = DOMAIN q \cup {k + 1}
  BY <1>2
<1>4. Range(z) = {z[i] : i \in DOMAIN z} /\ Range(q) = {q[i] : i \in DOMAIN q}
  BY DEF Range
<1>. QED  BY <1>1, <1>2, <1>3, <1>4

\* What executes is wanted by a request.
LEMMA ExecutingReached ==
    ASSUME RequestsInv, executing # None
    PROVE  Reaches(executing)
<1>1. executing = requests[Len(requests)] /\ requests # <<>> /\ requests \in Seq(Artifacts)
  BY DEF RequestsInv, Wanted
<1>2. Len(requests) \in DOMAIN requests
  BY <1>1, SeqLen, LenProperties
<1>. QED  BY <1>1, <1>2 DEF RequestsInv

\* An error has been reported by who read the flaw.
LEMMA SeenKept ==
    ASSUME source \in Sources \cup {NoDocument}, RequestsInv, FlawsReported, EventInv, Moves, errors' > 0
    PROVE  FlawSeen
<1>1. /\ source.flaw \in {"none", "lexer", "preprocessor", "parser", "binder"}
      /\ errors \in Nat /\ (errors > 0 => FlawSeen)
  BY SourceFacts DEF FlawsReported, EventInv, EventType
<1>2. SUFFICES ASSUME errors = 0 PROVE FlawSeen
  BY <1>1
<1>3. executing # None => Reaches(executing)
  BY ExecutingReached
<1>4. CASE Rests
  <2>1. BinderErrors > 0
    <3>1. BinderErrors \in Nat
      BY DEF BinderErrors
    <3>. QED  BY <1>2, <1>4, <3>1 DEF Rests, ErrorsThen
  <2>2. executing = "hir" /\ \E i \in DOMAIN streams.read : FlawAt("binder", streams.read[i]) = 1
    BY <2>1 DEF BinderErrors
  <2>3. source.flaw = "binder" /\ Reaches("hir")
    BY <1>3, <2>2 DEF FlawAt, None
  <2>. QED  BY <2>3 DEF FlawSeen
<1>5. CASE Lexes
  <2>1. source.flaw = "lexer" /\ Reaches("toks") /\ Captures("toks")
    BY <1>2, <1>3, <1>5 DEF Lexes, FlawAt, None
  <2>. QED  BY <2>1 DEF FlawSeen
<1>6. CASE Takes
  <2>1. source.flaw \in {"lexer", "preprocessor"}
    BY <1>2, <1>6 DEF Takes, FlawAt
  <2>2. Reaches("ast") \/ (Reaches("pp-toks") /\ Captures("pp-toks"))
    BY <1>3, <1>6 DEF Takes, None
  <2>. QED  BY <2>1, <2>2 DEF FlawSeen
<1>7. CASE GivesParser
  <2>1. source.flaw = "parser" /\ Reaches("ast")
    BY <1>2, <1>3, <1>7 DEF GivesParser, FlawAt, None
  <2>. QED  BY <2>1 DEF FlawSeen
<1>8. CASE GivesCapture
  BY <1>2, <1>8 DEF GivesCapture
<1>9. CASE Replays
  <2>1. source.flaw = "parser" /\ Reaches("ast")
    BY <1>2, <1>3, <1>9 DEF Replays, FlawAt, None
  <2>. QED  BY <2>1 DEF FlawSeen
<1>. QED  BY <1>4, <1>5, <1>6, <1>7, <1>8, <1>9 DEF Moves

\* A flaw of the lexer or the preprocessor is reported with its token.
LEMMA TokensReported ==
    ASSUME source \in Sources \cup {NoDocument}, args' = args, source' = source, StreamType, StreamsFollow,
           FlawsReported, EventInv, EventInv', Moves
    PROVE  /\ source.flaw = "lexer" /\ source.at <= streams'.lexed => errors' > 0
           /\ source.flaw = "preprocessor" /\ source.at <= streams'.taken => errors' > 0
<1>1. /\ source.flaw = "lexer" /\ source.at <= streams.lexed => errors > 0
      /\ source.flaw = "preprocessor" /\ source.at <= streams.taken => errors > 0
  BY DEF FlawsReported
<1>2. /\ errors \in Nat /\ errors' \in Nat /\ (errors' = 0 => errors = 0)
      /\ source.flaw # "none" => source.at \in Nat
  BY ErrorsGrow, SourceFacts
<1>3. CASE Rests \/ GivesParser \/ GivesCapture \/ Replays
  <2>1. streams'.lexed = streams.lexed /\ streams'.taken = streams.taken
    BY <1>3, GivesParserFields, GivesCaptureFields, ReplaysFields DEF Rests
  <2>. QED  BY <1>1, <1>2, <2>1
<1>4. CASE Lexes
  <2>1. PICK n : n = streams.lexed + 1
    OBVIOUS
  <2>2. /\ streams'.lexed = n /\ streams'.taken = streams.taken /\ n \in Nat /\ streams.lexed = n - 1
        /\ errors' = errors + FlawAt("lexer", n)
    BY <1>4, <2>1, LexesFields, Fields DEF Lexes
  <2>3. source.flaw = "lexer" /\ source.at = n => errors' > 0
    BY <1>2, <2>2 DEF FlawAt
  <2>. QED  BY <1>1, <1>2, <2>2, <2>3
<1>5. CASE Takes
  <2>1. PICK n : n = streams.taken + 1
    OBVIOUS
  <2>2. /\ streams'.lexed = (IF Captures("toks") THEN streams.lexed ELSE n) /\ streams'.taken = n
        /\ n \in 1 .. Eof /\ n - 1 = streams.taken /\ n \in Nat
        /\ ~Captures("toks") => streams.lexed = n - 1
        /\ errors' = errors + (IF Captures("toks") THEN 0 ELSE FlawAt("lexer", n)) + FlawAt("preprocessor", n)
    BY <1>5, <2>1, TakesFields, SMTT(40) DEF Takes
  <2>3. FlawAt("lexer", n) \in Nat /\ FlawAt("preprocessor", n) \in Nat
    BY FlawType
  <2>4. ~Captures("toks") /\ source.flaw = "lexer" /\ source.at = n => errors' > 0
    BY <1>2, <2>2, <2>3 DEF FlawAt
  <2>5. source.flaw = "preprocessor" /\ source.at = n => errors' > 0
    BY <1>2, <2>2, <2>3 DEF FlawAt
  <2>. QED  BY <1>1, <1>2, <2>2, <2>4, <2>5
<1>. QED  BY <1>3, <1>4, <1>5 DEF Moves

\* A flaw of the parser is reported when it reads the token.
LEMMA ReadingReported ==
    ASSUME source \in Sources \cup {NoDocument}, StreamType, FlawsReported, EventInv, EventInv', Moves,
           source.flaw = "parser",
           source.at \in Range(streams'.read) \/ (source.at = Eof /\ streams'.ended)
    PROVE  errors' > 0
<1>1. source.at \in Range(streams.read) \/ (source.at = Eof /\ streams.ended) => errors > 0
  BY DEF FlawsReported
<1>2. errors \in Nat /\ errors' \in Nat /\ (errors' = 0 => errors = 0)
  BY ErrorsGrow
<1>3. CASE Rests \/ Lexes \/ Takes \/ GivesCapture
  <2>1. streams'.read = streams.read /\ streams'.ended = streams.ended
    BY <1>3, GivesCaptureFields, LexesFields, TakesFields DEF Rests
  <2>. QED  BY <1>1, <1>2, <2>1
<1>4. ASSUME NEW n \in 1 .. Eof, errors' = errors + FlawAt("parser", n),
             streams'.read = (IF n = Eof THEN streams.read ELSE Append(streams.read, n)),
             streams'.ended = (IF n = Eof THEN TRUE ELSE streams.ended)
      PROVE  errors' > 0
  <2>1. source.at = n => errors' > 0
    BY <1>2, <1>4 DEF FlawAt
  <2>2. n # Eof => Range(streams'.read) = Range(streams.read) \cup {n}
    <3>1. n # Eof => n \in 1 .. Size
      BY SourceFacts
    <3>2. streams.read \in Seq(1 .. Size)
      BY Fields
    <3>3. \A x \in 1 .. Size : Range(Append(streams.read, x)) = Range(streams.read) \cup {x}
      BY ONLY <3>2, RangeAppend
    <3>. QED  BY <1>4, <3>1, <3>3
  <2>. QED  BY <1>1, <1>2, <1>4, <2>1, <2>2
<1>5. CASE GivesParser
  <2>1. PICK n : n = streams.hand
    OBVIOUS
  <2>2. /\ n \in 1 .. Eof /\ errors' = errors + FlawAt("parser", n)
        /\ streams'.read = (IF n = Eof THEN streams.read ELSE Append(streams.read, n))
        /\ streams'.ended = (IF n = Eof THEN TRUE ELSE streams.ended)
    BY <1>5, <2>1, GivesParserFields DEF GivesParser
  <2>. QED  BY <1>4, <2>2
<1>6. CASE Replays
  <2>1. PICK i, n : /\ i = streams.replayed + 1
                    /\ n = IF i > Len(streams.buffer) THEN Eof ELSE streams.buffer[i]
    OBVIOUS
  <2>2. n \in 1 .. Eof /\ (n = Eof <=> i > Len(streams.buffer))
    BY <1>6, <2>1, Fields, SourceFacts, ReplaysFields, SMTT(40)
  <2>3. /\ errors' = errors + FlawAt("parser", n)
        /\ streams'.read = (IF n = Eof THEN streams.read ELSE Append(streams.read, n))
        /\ streams'.ended = (IF n = Eof THEN TRUE ELSE streams.ended)
    BY <1>6, <2>1, <2>2, ReplaysFields
  <2>. QED  BY <1>4, <2>2, <2>3
<1>. QED  BY <1>3, <1>5, <1>6 DEF Moves

LEMMA FlawsKept ==
    ASSUME RunInv, args' = args, source' = source, Moves, EventInv, EventInv', InputsEnded,
           \/ told' = told
           \/ Wanted \in MakesOutput /\ told' = [told EXCEPT ![Wanted] = "start"] /\ streams' = streams
           \/ EndStage /\ streams' = streams
    PROVE  FlawsReported'
<1>1. /\ source \in Sources \cup {NoDocument} /\ StreamType /\ StreamsFollow /\ FlawsReported /\ RequestsInv
      /\ StreamsRead /\ told \in [MakesOutput -> {"nothing", "start", "finish", "end"}]
  BY DEF RunInv, EventInv, EventType
<1>2. errors' > 0 => FlawSeen'
  BY <1>1, SeenKept, Fixed
<1>3. /\ source.flaw = "lexer" /\ source.at <= streams'.lexed => errors' > 0
      /\ source.flaw = "preprocessor" /\ source.at <= streams'.taken => errors' > 0
  BY <1>1, TokensReported
<1>4. source.flaw = "parser"
           /\ (source.at \in Range(streams'.read) \/ (source.at = Eof' /\ streams'.ended)) => errors' > 0
  <2>1. Eof' = Eof
    BY Fixed
  <2>. QED  BY <1>1, <2>1, ReadingReported
<1>5. source.flaw = "binder" => told'["hir"] # "end"
  <2>1. SUFFICES ASSUME source.flaw = "binder", told'["hir"] = "end" PROVE FALSE
    OBVIOUS
  <2>2. told["hir"] # "end"
    BY <1>1, <2>1 DEF FlawsReported
  <2>3. EndStage
    BY <1>1, <2>1, <2>2, KindFacts
  <2>4. executing = "hir" /\ BinderErrors = 0
    <3>1. PICK kind : kind = executing
      OBVIOUS
    <3>2. \/ told' = told
          \/ kind \in MakesOutput /\ told' = [told EXCEPT ![kind] = "finish"]
          \/ kind \in MakesOutput /\ told' = [told EXCEPT ![kind] = "end"] /\ BinderErrors = 0
      BY <2>3, <3>1, EndFacts
    <3>3. kind = "hir" /\ BinderErrors = 0
      BY <1>1, <2>1, <2>2, <3>2, KindFacts
    <3>. QED  BY <3>1, <3>3
  <2>5. Preserved(streams.read)
    <3>1. told["ast"] = "end"
      BY <2>3, <2>4, Around, EndFacts, KindFacts
    <3>. QED  BY <1>1, <3>1 DEF StreamsRead
  <2>6. source.at \in 1 .. Size /\ source.kept[source.at]
    BY <1>1, <2>1, SourceFacts
  <2>7. PICK i \in DOMAIN streams.read : streams.read[i] = source.at
    BY <2>5, <2>6 DEF Preserved, Range
  <2>8. FlawAt("binder", streams.read[i]) = 1
    BY <2>1, <2>7 DEF FlawAt
  <2>. QED  BY <2>4, <2>8 DEF BinderErrors
<1>. QED  BY <1>2, <1>3, <1>4, <1>5 DEF FlawsReported

\* A dump is added when its stage ends.
LEMMA DumpsKept ==
    ASSUME DumpsInv, EventInv, args' = args, [Next]_vars,
           EndStage \/ dumped' = dumped
    PROVE  DumpsInv'
<1>0. /\ told \in [MakesOutput -> {"nothing", "start", "finish", "end"}]
      /\ dumped \in Seq(MakesOutput) /\ DOMAIN dumped = 1 .. Len(dumped) /\ Len(dumped) \in Nat
      /\ \A i \in DOMAIN dumped : dumped[i] \in MakesOutput
      /\ \A k : DumpsOf(k)' = DumpsOf(k)
  <2>1. dumped \in Seq(MakesOutput)
    BY DEF DumpsInv
  <2>2. \A k : DumpsOf(k)' = DumpsOf(k)
    BY DEF DumpsOf
  <2>. QED  BY <2>1, <2>2, LenProperties, ElementOfSeq DEF EventInv, EventType
<1>1. CASE dumped' = dumped /\ \A k \in MakesOutput : told'[k] = "end" <=> told[k] = "end"
  BY <1>0, <1>1 DEF DumpsInv
<1>2. CASE EndStage /\ told' = [told EXCEPT ![executing] = "end"] /\ dumped' = dumped \o DumpsOf(executing)
  <2>1. PICK kind : kind = executing
    OBVIOUS
  <2>2. /\ kind \in MakesOutput /\ told[kind] = "start" /\ told' = [told EXCEPT ![kind] = "end"]
        /\ dumped' = dumped \o DumpsOf(kind)
    BY <1>2, <2>1, EndFacts
  <2>3. /\ \A k \in MakesOutput : told'[k] = "end" <=> told[k] = "end" \/ k = kind
        /\ \A i \in DOMAIN dumped : dumped[i] # kind
    BY <1>0, <2>2 DEF DumpsInv
  <2>4. CASE DumpsOf(kind) # <<kind>>
    <3>1. DumpsOf(kind) = <<>>
      BY <2>4 DEF DumpsOf
    <3>2. dumped' = dumped
      BY <1>0, <2>2, <3>1, ConcatEmptySeq
    <3>. QED  BY <1>0, <2>2, <2>3, <2>4, <3>2 DEF DumpsInv
  <2>5. CASE DumpsOf(kind) = <<kind>>
    <3>1. PICK n : n = Len(dumped)
      OBVIOUS
    <3>2. dumped' = Append(dumped, kind)
      BY <1>0, <2>2, <2>5, AppendIsConcat
    <3>3. /\ dumped' \in Seq(MakesOutput) /\ DOMAIN dumped' = 1 .. n + 1 /\ n \in Nat
          /\ \A i \in 1 .. n : dumped'[i] = dumped[i] /\ dumped[i] # kind
          /\ dumped'[n + 1] = kind /\ DOMAIN dumped = 1 .. n
      <4>1. PICK z : z = dumped'
        OBVIOUS
      <4>2. /\ z \in Seq(MakesOutput) /\ Len(z) = n + 1 /\ z[n + 1] = kind
            /\ \A i \in 1 .. n : z[i] = dumped[i]
        <5>1. dumped \in Seq(MakesOutput) /\ kind \in MakesOutput
          BY <1>0, <2>2
        <5>2. PICK a : a = Append(dumped, kind)
          OBVIOUS
        <5>3. /\ a \in Seq(MakesOutput) /\ Len(a) = Len(dumped) + 1 /\ a[Len(dumped) + 1] = kind
              /\ \A i \in 1 .. Len(dumped) : a[i] = dumped[i]
          BY ONLY <5>1, <5>2, AppendProperties
        <5>4. z = a
          BY <3>2, <4>1, <5>2
        <5>. QED  BY ONLY <3>1, <5>3, <5>4
      <4>3. DOMAIN z = 1 .. n + 1
        BY <4>2, LenProperties
      <4>. QED  BY <1>0, <2>3, <3>1, <4>1, <4>2, <4>3
    <3>4. \A i, j \in DOMAIN dumped' : i < j => dumped'[i] # dumped'[j]
      <4>1. ASSUME NEW i \in 1 .. n + 1, NEW j \in 1 .. n + 1, i < j
            PROVE  dumped'[i] # dumped'[j]
        <5>1. i \in 1 .. n /\ (j \in 1 .. n \/ j = n + 1)
          BY <3>3, <4>1
        <5>2. CASE j \in 1 .. n
          BY <3>3, <4>1, <5>1, <5>2 DEF DumpsInv
        <5>3. CASE j = n + 1
          BY <3>3, <5>1, <5>3
        <5>. QED  BY <5>1, <5>2, <5>3
      <4>. QED  BY <3>3, <4>1
    <3>5. ASSUME NEW k \in MakesOutput
          PROVE  (\E i \in DOMAIN dumped' : dumped'[i] = k) <=> told'[k] = "end" /\ DumpsOf(k) = <<k>>
      <4>1. (\E i \in DOMAIN dumped' : dumped'[i] = k) <=> (\E i \in DOMAIN dumped : dumped[i] = k) \/ k = kind
        <5>1. /\ \A i \in 1 .. n + 1 : i \in 1 .. n \/ i = n + 1
              /\ \A i \in 1 .. n : i \in 1 .. n + 1
              /\ n + 1 \in 1 .. n + 1
          BY <3>3
        <5>2. ASSUME NEW i \in DOMAIN dumped', dumped'[i] = k
              PROVE  (\E j \in DOMAIN dumped : dumped[j] = k) \/ k = kind
          BY <3>3, <5>1, <5>2
        <5>3. ASSUME NEW i \in DOMAIN dumped, dumped[i] = k
              PROVE  \E j \in DOMAIN dumped' : dumped'[j] = k
          BY <3>3, <5>1, <5>3
        <5>4. k = kind => \E j \in DOMAIN dumped' : dumped'[j] = k
          BY <3>3, <5>1
        <5>. QED  BY <5>2, <5>3, <5>4
      <4>2. (\E i \in DOMAIN dumped : dumped[i] = k) <=> told[k] = "end" /\ DumpsOf(k) = <<k>>
        BY DEF DumpsInv
      <4>. QED  BY <2>3, <2>5, <4>1, <4>2
    <3>. QED  BY <1>0, <3>3, <3>4, <3>5 DEF DumpsInv
  <2>. QED  BY <2>4, <2>5
<1>3. CASE EndStage /\ dumped' = dumped /\ (told' = told \/ told' = [told EXCEPT ![executing] = "finish"])
  <2>1. executing \in MakesOutput /\ told[executing] = "start"
    BY <1>3, EndFacts
  <2>2. \A k \in MakesOutput : told'[k] = "end" <=> told[k] = "end"
    BY <1>0, <1>3, <2>1
  <2>. QED  BY <1>1, <1>3, <2>2
<1>4. CASE ~EndStage /\ dumped' = dumped
  <2>1. told' = told \/ (Wanted \in MakesOutput /\ told[Wanted] = "nothing"
                          /\ told' = [told EXCEPT ![Wanted] = "start"])
    BY <1>4, ToldMoves
  <2>2. \A k \in MakesOutput : told'[k] = "end" <=> told[k] = "end"
    BY <1>0, <2>1
  <2>. QED  BY <1>1, <1>4, <2>2
<1>5. EndStage => \/ told' = [told EXCEPT ![executing] = "end"] /\ dumped' = dumped \o DumpsOf(executing)
                  \/ dumped' = dumped /\ (told' = told \/ told' = [told EXCEPT ![executing] = "finish"])
  BY EndFacts
<1>. QED  BY <1>2, <1>3, <1>4, <1>5

LEMMA CallsKept ==
    ASSUME source \in Sources \cup {NoDocument}, StreamType, StreamsFollow, ParserReads, CallsNeeded,
           EventInv, ProfInv, Running,
           \/ RequestInput \/ RequestHit \/ RequestUnknown \/ StartStage
           \/ PullPreproc \/ PullLexer \/ LexToken \/ TakeReplayed \/ ReturnToken \/ ReadReplayed
           \/ BeginSubstage \/ FinishSubstage \/ EndStage
    PROVE  CallsNeeded'
<1>0. args' = args /\ source' = source /\ Eof' = Eof /\ \A k : Captures(k)' = Captures(k)
  BY StreamSteps, Fixed
<1>1. CASE calls' = <<>>
  BY <1>1, EmptySeq DEF CallsNeeded
<1>2. CASE PullPreproc
  <2>1. /\ calls = <<>> /\ calls' = <<[stage |-> "Preprocessor", previous |-> prof.active, depth |-> Depth]>>
        /\ executing' = executing /\ streams' = streams
        /\ \/ executing = "ast" /\ ~Captures("pp-toks") /\ ~streams.ended
           \/ executing = "pp-toks" /\ Captures("pp-toks") /\ ~streams.over
    BY <1>2 DEF PullPreproc, EnterCall
  <2>2. Len(calls') = 1 /\ executing # "toks" /\ ~streams.over
    BY <2>1 DEF ParserReads
  <2>. QED  BY <1>0, <2>1, <2>2 DEF CallsNeeded
<1>3. CASE PullLexer
  <2>1. PICK c : c = [stage |-> "Lexer", previous |-> prof.active, depth |-> Depth]
    OBVIOUS
  <2>2. /\ calls' = Append(calls, c)
        /\ executing' = executing /\ streams' = streams
        /\ \/ InCall("Preprocessor") /\ streams.hand = 0 /\ ~Captures("toks")
           \/ calls = <<>> /\ executing = "toks" /\ Captures("toks") /\ streams.lexed < Eof
    BY <1>3, <2>1 DEF PullLexer, EnterCall
  <2>3. CASE InCall("Preprocessor") /\ streams.hand = 0 /\ ~Captures("toks")
    <3>1. calls # <<>> /\ executing # "toks"
      BY <2>3, CallShapes DEF InCall
    <3>. QED  BY <1>0, <2>2, <2>3, <3>1 DEF CallsNeeded
  <2>4. CASE calls = <<>> /\ executing = "toks" /\ Captures("toks") /\ streams.lexed < Eof
    <3>1. Len(calls') = 1
      BY <2>2, <2>4
    <3>. QED  BY <1>0, <2>2, <2>4, <3>1 DEF CallsNeeded
  <2>. QED  BY <2>2, <2>3, <2>4
<1>4. CASE Takes /\ executing' = executing
  <2>1. /\ Len(calls') = 1 /\ executing # "toks" /\ (executing = "ast" => ~Captures("pp-toks"))
        /\ ~streams.over
    BY <1>4 DEF Takes
  <2>2. streams'.over = streams.over
    BY <1>4, TakesFields
  <2>. QED  BY <1>0, <1>4, <2>1, <2>2 DEF CallsNeeded
<1>5. CASE calls' = calls /\ executing' = executing /\ streams' = streams
  BY <1>0, <1>5 DEF CallsNeeded
<1>6. CASE \/ RequestInput \/ RequestHit \/ RequestUnknown \/ BeginSubstage \/ FinishSubstage
  BY <1>5, <1>6 DEF RequestInput, RequestHit, RequestUnknown, BeginSubstage, FinishSubstage
<1>7. CASE StartStage \/ EndStage
  <2>1. calls' = <<>>
    BY <1>7 DEF StartStage, EndStage, EventInv
  <2>. QED  BY <1>1, <2>1
<1>8. CASE LexToken \/ TakeReplayed \/ ReturnToken \/ ReadReplayed
  <2>1. executing' = executing /\ (Lexes \/ Takes \/ GivesParser \/ GivesCapture \/ Replays)
    BY <1>8, TokenSteps
  <2>. QED  BY <1>1, <1>4, <2>1 DEF Lexes, GivesParser, GivesCapture, Replays
<1>. QED  BY <1>2, <1>3, <1>6, <1>7, <1>8

-----------------------------------------------------------------------------
(* The requests.                                                           *)

\* The requests of a stage that neither reads nor ends are as they were.
LEMMA RequestsStay ==
    ASSUME RequestsInv, answer = "pending",
           UNCHANGED <<phase, args, source, registry, requests, answer, executing, told>>
    PROVE  RequestsInv'
<1>1. Target' = Target /\ Wanted' = Wanted /\ \A k : Reaches(k)' = Reaches(k)
  BY Fixed DEF Wanted
<1>. QED  BY <1>1 DEF RequestsInv, Reaches

\* The requests without the last.
LEMMA RequestsFront ==
    ASSUME RequestsInv, requests # <<>>, requests' = SubSeq(requests, 1, Len(requests) - 1),
           args' = args
    PROVE  /\ requests' \in Seq(Artifacts)
           /\ requests' # <<>> => requests'[1] = requests[1] /\ Len(requests) # 1
           /\ \A i \in DOMAIN requests' : Rank(Target) >= Rank(requests'[i])
<1>1. PICK n, q : n = Len(requests) /\ q = requests'
  OBVIOUS
<1>2. /\ requests \in Seq(Artifacts) /\ n \in Nat /\ n # 0 /\ DOMAIN requests = 1 .. n
      /\ \A i \in 1 .. n : requests[i] \in Artifacts
  BY <1>1, SeqLen, LenProperties, ElementOfSeq DEF RequestsInv
<1>3. /\ q = SubSeq(requests, 1, n - 1) /\ 1 \in 1 .. n + 1 /\ n - 1 \in Nat /\ n - 1 <= n
      /\ \A i \in 1 .. n - 1 : i \in 1 .. n
  BY <1>1, <1>2
<1>4. q \in Seq(Artifacts) /\ Len(q) = n - 1 /\ \A i \in 1 .. n - 1 : q[i] = requests[i]
  BY <1>2, <1>3, SubSeqProperties
<1>5. DOMAIN q = 1 .. n - 1
  BY <1>4, LenProperties
<1>6. q # <<>> => 1 \in 1 .. n - 1
  <2>1. q # <<>> => n - 1 # 0
    BY <1>4, SeqLen
  <2>. QED  BY <1>3, <2>1
<1>7. 1 \in 1 .. n - 1 => n # 1
  BY <1>2
<1>. QED  BY <1>1, <1>2, <1>3, <1>4, <1>5, <1>6, <1>7 DEF RequestsInv, Reaches

LEMMA RequestsKept ==
    ASSUME RunInv, EventInv, EventInv', phase = "pipeline", phase' = "pipeline", Running,
           ProfInv,
           \/ RequestInput \/ RequestHit \/ RequestUnknown \/ StartStage
           \/ PullPreproc \/ PullLexer \/ LexToken \/ TakeReplayed \/ ReturnToken \/ ReadReplayed
           \/ BeginSubstage \/ FinishSubstage \/ EndStage
    PROVE  RequestsInv'
<1>0. /\ RequestsInv /\ Understood(args) /\ StreamsFollow /\ CallsNeeded /\ answer = "pending"
      /\ source \in Sources \cup {NoDocument} /\ requests # <<>>
      /\ told \in [MakesOutput -> {"nothing", "start", "finish", "end"}]
      /\ \A k \in MakesOutput : told[k] = "end" <=> k \in registry
  BY DEF RunInv, Running, EventInv, EventType
<1>1. args' = args /\ source' = source /\ Target' = Target /\ Target \in Artifacts
  BY <1>0, StreamSteps, Fixed, TargetType
<1>2. Wanted \in Artifacts /\ Reaches(Wanted) /\ (Len(requests) = 1 => Wanted = Target) /\ Len(requests) \in Nat
  <2>1. Len(requests) \in DOMAIN requests /\ Len(requests) \in Nat
    BY <1>0, SeqLen, LenProperties DEF RequestsInv
  <2>2. requests[Len(requests)] \in Artifacts
    BY <1>0, <2>1, ElementOfSeq, LenProperties DEF RequestsInv
  <2>. QED  BY <1>0, <2>1, <2>2 DEF RequestsInv, Wanted
<1>3. CASE RequestInput
  <2>1. PICK k : k = StageOf(Wanted).input
    OBVIOUS
  <2>2. /\ k \in Artifacts /\ Reaches(k) /\ requests' = Append(requests, k) /\ executing = None
        /\ UNCHANGED <<registry, answer, executing, told>>
    BY <1>0, <1>2, <1>3, <2>1, InputReached, Inputs DEF RequestInput
  <2>3. PICK n, q : n = Len(requests) /\ q = requests'
    OBVIOUS
  <2>4. /\ q \in Seq(Artifacts) /\ DOMAIN q = 1 .. n + 1 /\ n \in Nat /\ n # 0
        /\ DOMAIN requests = 1 .. n
        /\ \A i \in 1 .. n : q[i] = requests[i]
        /\ q[n + 1] = k
    BY <1>0, <2>2, <2>3, AppendProperties, LenProperties, SeqLen DEF RequestsInv
  <2>5. q[1] = Target
    BY <1>0, <2>4 DEF RequestsInv
  <2>6. \A i \in DOMAIN q : Rank(Target) >= Rank(q[i])
    <3>1. \A i \in 1 .. n : Rank(Target) >= Rank(requests[i])
      BY <1>0, <2>4 DEF RequestsInv, Reaches
    <3>2. \A i \in 1 .. n + 1 : i \in 1 .. n \/ i = n + 1
      BY <2>4
    <3>. QED  BY <2>2, <2>4, <3>1, <3>2 DEF Reaches
  <2>. QED  BY <1>0, <1>1, <2>2, <2>3, <2>4, <2>5, <2>6 DEF RequestsInv, Reaches
<1>4. CASE RequestHit
  <2>1. /\ requests' = SubSeq(requests, 1, Len(requests) - 1) /\ executing = None /\ Wanted \in registry
        /\ answer' = IF Len(requests) = 1 THEN "yes" ELSE answer
        /\ UNCHANGED <<registry, executing, told, errors>>
    BY <1>4 DEF RequestHit
  <2>2. /\ requests' \in Seq(Artifacts)
        /\ requests' # <<>> => requests'[1] = requests[1] /\ Len(requests) # 1
        /\ \A i \in DOMAIN requests' : Rank(Target) >= Rank(requests'[i])
    BY <1>0, <1>1, <2>1, RequestsFront
  <2>3. answer' = "yes" => IF Target = "source" THEN source.exists /\ args.input # "-" ELSE told[Target] = "end"
    <3>1. SUFFICES ASSUME answer' = "yes", Target # "source" PROVE told[Target] = "end"
      BY <1>0, <1>2, <2>1 DEF RequestsInv
    <3>2. Target \in registry /\ Target \in MakesOutput
      BY <1>0, <1>1, <1>2, <2>1, <3>1 DEF MakesOutput
    <3>. QED  BY <1>0, <3>2
  <2>. QED  BY <1>0, <1>1, <2>1, <2>2, <2>3 DEF RequestsInv, Reaches
<1>5. CASE RequestUnknown
  <2>1. /\ requests' = <<>> /\ answer' = "no" /\ executing = None /\ Wanted \notin MakesOutput \cup registry
        /\ UNCHANGED <<registry, executing, told, errors>>
    BY <1>5 DEF RequestUnknown
  <2>2. args.input = "-"
    BY <1>0, <1>2, <2>1 DEF RequestsInv, MakesOutput
  <2>. QED  BY <1>0, <1>1, <2>1, <2>2, EmptySeq DEF RequestsInv, Reaches
<1>6. CASE StartStage
  <2>1. /\ executing' = Wanted /\ told' = [told EXCEPT ![Wanted] = "start"] /\ Wanted \in MakesOutput
        /\ StageOf(Wanted).input \in registry
        /\ UNCHANGED <<registry, requests, answer, errors>>
    BY <1>6 DEF StartStage
  <2>2. \A k \in MakesOutput : told'[k] # "nothing" => source.exists /\ args.input # "-"
    <3>1. source.exists /\ args.input # "-"
      <4>1. CASE StageOf(Wanted).input = "source"
        BY <1>0, <2>1, <4>1 DEF RequestsInv
      <4>2. CASE StageOf(Wanted).input # "source"
        <5>1. StageOf(Wanted).input \in MakesOutput
          BY <2>1, <4>2, Inputs DEF MakesOutput
        <5>. QED  BY <1>0, <2>1, <5>1 DEF RequestsInv
      <4>. QED  BY <4>1, <4>2
    <3>. QED  BY <3>1
  <2>3. Wanted' = Wanted
    BY <2>1 DEF Wanted
  <2>. QED  BY <1>0, <1>1, <2>1, <2>2, <2>3 DEF RequestsInv, Reaches
<1>7. CASE EndStage
  <2>1. PICK kind : kind = executing
    OBVIOUS
  <2>2. /\ kind \in MakesOutput /\ executing' = None /\ kind = Wanted
        /\ errors' = ErrorsThen /\ told[kind] = "start"
        /\ \/ /\ ErrorsThen > 0 /\ requests' = <<>> /\ answer' = "no" /\ registry' = registry
              /\ told' = told \/ told' = [told EXCEPT ![kind] = "finish"]
           \/ /\ registry' = registry \cup {kind}
              /\ told' = [told EXCEPT ![kind] = "end"]
              /\ requests' = SubSeq(requests, 1, Len(requests) - 1)
              /\ answer' = IF Len(requests) = 1 THEN "yes" ELSE answer
    BY <1>0, <1>7, <2>1, EndFacts, KindFacts DEF RequestsInv
  <2>3. /\ source.exists /\ args.input # "-"
        /\ \A k \in MakesOutput : told'[k] # "nothing" => source.exists /\ args.input # "-"
    BY <1>0, <2>2 DEF RequestsInv
  <2>4. CASE /\ ErrorsThen > 0 /\ requests' = <<>> /\ answer' = "no" /\ registry' = registry
    BY <1>0, <1>1, <2>2, <2>3, <2>4, EmptySeq DEF RequestsInv, Reaches
  <2>5. CASE /\ registry' = registry \cup {kind}
             /\ told' = [told EXCEPT ![kind] = "end"]
             /\ requests' = SubSeq(requests, 1, Len(requests) - 1)
             /\ answer' = IF Len(requests) = 1 THEN "yes" ELSE answer
    <3>1. /\ requests' \in Seq(Artifacts)
          /\ requests' # <<>> => requests'[1] = requests[1] /\ Len(requests) # 1
          /\ \A i \in DOMAIN requests' : Rank(Target) >= Rank(requests'[i])
      BY <1>0, <1>1, <2>5, RequestsFront
    <3>2. answer' = "yes" => Target # "source" /\ told'[Target] = "end"
      BY <1>0, <1>2, <2>2, <2>5, KindFacts
    <3>3. registry' \subseteq Artifacts /\ ("source" \in registry' <=> "source" \in registry)
      BY <1>0, <2>2, <2>5, KindFacts DEF RequestsInv, MakesOutput
    <3>. QED  BY <1>0, <1>1, <2>2, <2>3, <2>5, <3>1, <3>2, <3>3 DEF RequestsInv, Reaches
  <2>. QED  BY <2>2, <2>4, <2>5
<1>8. CASE \/ PullPreproc \/ PullLexer \/ BeginSubstage \/ FinishSubstage
  <2>1. UNCHANGED <<registry, requests, answer, executing, told>>
    BY <1>8 DEF PullPreproc, PullLexer, BeginSubstage, FinishSubstage
  <2>. QED  BY <1>0, <1>1, <2>1, RequestsStay
<1>9. CASE LexToken \/ TakeReplayed \/ ReturnToken \/ ReadReplayed
  <2>1. UNCHANGED <<registry, requests, answer, executing, told>>
    BY <1>0, <1>9, TokenSteps
  <2>. QED  BY <1>0, <1>1, <2>1, RequestsStay
<1>. QED  BY <1>3, <1>4, <1>5, <1>6, <1>7, <1>8, <1>9

\* A step of the pipeline.
LEMMA RunPipelineKept ==
    ASSUME RunInv, EventInv, EventInv', ProfInv, InputsEnded, [Next]_vars,
           RunPipeline, phase = "pipeline", phase' = "pipeline", Running,
           \/ RequestInput \/ RequestHit \/ RequestUnknown \/ StartStage
           \/ PullPreproc \/ PullLexer \/ LexToken \/ TakeReplayed \/ ReturnToken \/ ReadReplayed
           \/ BeginSubstage \/ FinishSubstage \/ EndStage
    PROVE  RunInv'
<1>1. /\ source \in Sources \cup {NoDocument} /\ Understood(args) /\ ParserOf(cli)
      /\ RequestsInv /\ OutcomeInv /\ CallsNeeded /\ StreamType /\ StreamsFollow
      /\ StreamsWhole /\ ParserReads /\ StreamsRead /\ FlawsReported /\ DumpsInv
      /\ told \in [MakesOutput -> {"nothing", "start", "finish", "end"}]
  BY DEF RunInv, EventInv, EventType
<1>2. UNCHANGED <<cli, written, freed, exit>> /\ args' = args /\ source' = source
  BY <1>1, StreamSteps DEF RunPipeline, driverVars
<1>3. Moves /\ (Rests \/ told' = told)
  BY <1>1, StreamSteps DEF Moves
<1>4. /\ \/ told' = told
         \/ Wanted \in MakesOutput /\ told' = [told EXCEPT ![Wanted] = "start"] /\ streams' = streams
         \/ EndStage /\ streams' = streams
      /\ told["ast"] = "nothing" \/ told'["ast"] # "nothing"
  <2>1. CASE told' = told
    BY <2>1
  <2>2. CASE Wanted \in MakesOutput /\ told' = [told EXCEPT ![Wanted] = "start"] /\ streams' = streams
    BY <1>1, <2>2, KindFacts
  <2>3. CASE /\ EndStage /\ streams' = streams
             /\ told' = [told EXCEPT ![executing] = "finish"] \/ told' = [told EXCEPT ![executing] = "end"]
    <3>1. executing \in MakesOutput
      BY <2>3, EndFacts
    <3>. QED  BY <1>1, <2>3, <3>1, KindFacts
  <2>. QED  BY <2>1, <2>2, <2>3, ToldMoves
<1>5. EndStage \/ dumped' = dumped
  <2>1. CASE LexToken \/ TakeReplayed \/ ReturnToken \/ ReadReplayed
    BY <1>1, <2>1, TokenSteps
  <2>2. CASE \/ RequestInput \/ RequestHit \/ RequestUnknown \/ StartStage
             \/ PullPreproc \/ PullLexer \/ BeginSubstage \/ FinishSubstage
    BY <2>2 DEF RequestInput, RequestHit, RequestUnknown, StartStage, PullPreproc, PullLexer,
                BeginSubstage, FinishSubstage
  <2>. QED  BY <2>1, <2>2
<1>6. CallsNeeded' /\ StreamType' /\ StreamsFollow'
  BY <1>1, <1>2, <1>3, CallsKept, TypeKept, FollowKept
<1>7. StreamsWhole' /\ ParserReads'
  BY <1>1, <1>2, <1>3, <1>4, WholeKept, ParserReadsKept
<1>8. StreamsRead' /\ FlawsReported'
  BY <1>1, <1>2, <1>3, <1>4, StreamsReadKept, FlawsKept
<1>9. DumpsInv'
  BY <1>1, <1>2, <1>5, DumpsKept
<1>10. RequestsInv'
  BY RequestsKept
<1>11. OutcomeInv'
  BY <1>1, <1>2 DEF OutcomeInv, Ran
<1>12. ParserOf(cli)' /\ Understood(args)' /\ (source \in Sources \cup {NoDocument})'
  BY <1>1, <1>2 DEF ParserOf, Understood
<1>. QED  BY <1>6, <1>7, <1>8, <1>9, <1>10, <1>11, <1>12 DEF RunInv

LEMMA RunInvStep ==
    RunInv /\ EventInv /\ ProfInv /\ TimeInv /\ [Next]_vars => RunInv'
<1>. SUFFICES ASSUME RunInv, EventInv, ProfInv, TimeInv, [Next]_vars
     PROVE  RunInv'
  OBVIOUS
<1>1. EventInv' /\ InputsEnded
  BY EventInvStep DEF TimeInv
<1>. QED  BY <1>1, StepKinds, RunArguments, RunSource, RunOutput, RunCleanup, RunInvStutter,
             RunPipelineKept DEF Stopped

\* The exit status is computed from all the errors there are: what was read has been
\* reported, and what succeeds has read what it reaches.
THEOREM RunInvariant == Spec => []RunInv
<1>. QED  BY RunInvInit, RunInvStep, EventsInvariant, ActiveStageInvariant, TimesInvariant, PTL DEF Spec

\* A run that succeeded has ended all that its target is made from.
LEMMA SucceededEnded ==
    ASSUME RunInv, InputsEnded, answer = "yes",
           NEW k \in {"toks", "pp-toks", "ast", "hir", "mir", "ulir", "lir"}, Reaches(k)
    PROVE  told[k] = "end"
<1>1. Understood(args) /\ Target \in Artifacts /\ RequestsInv
  BY TargetType DEF RunInv
<1>2. k \in MakesOutput \ {"obj", "asm"}
  BY Inputs
<1>3. Target # "source"
  BY Ranks DEF Reaches
<1>4. Target \in MakesOutput /\ told[Target] = "end"
  BY <1>1, <1>3 DEF RequestsInv, MakesOutput
<1>. QED  BY <1>1, <1>2, <1>4, ReachedEnded

LEMMA CompleteDumps == RunInv /\ EventInv /\ TimeInv => DumpsComplete
<1>. SUFFICES ASSUME RunInv, EventInv, InputsEnded
     PROVE  DumpsComplete
  BY DEF TimeInv
<1>1. DumpsInv /\ StreamsRead /\ OutcomeInv /\ Understood(args)
  BY DEF RunInv
<1>2. ASSUME NEW i \in DOMAIN dumped
      PROVE  /\ told[dumped[i]] = "end" /\ DumpsOf(dumped[i]) = <<dumped[i]>>
  <2>1. dumped[i] \in MakesOutput
    BY <1>1, <1>2, ElementOfSeq, LenProperties DEF DumpsInv
  <2>. QED  BY <1>1, <1>2, <2>1 DEF DumpsInv
<1>3. ASSUME NEW i \in DOMAIN dumped
      PROVE  /\ dumped[i] = "toks" => streams.lexed = Eof
             /\ dumped[i] = "pp-toks" => Preserved(streams.buffer)
  <2>1. \A k \in {"toks", "pp-toks"} : DumpsOf(k) = <<k>> => Captures(k)
    <3>1. \A k \in {"toks", "pp-toks"} : ~Captures(k) => DumpsOf(k) = <<>>
      BY DEF DumpsOf, Captures
    <3>2. \A k : <<k>> # <<>>
      OBVIOUS
    <3>. QED  BY <3>1, <3>2
  <2>. QED  BY <1>1, <1>2, <2>1 DEF StreamsRead
<1>4. told["ast"] = "end" => Preserved(streams.read)
  BY <1>1 DEF StreamsRead
<1>5. ASSUME Ran, exit = 0, NEW k \in DumpsAsked \ {"asm"}, Reaches(k)
      PROVE  \E i \in DOMAIN dumped : dumped[i] = k
  <2>1. /\ k \in {"toks", "pp-toks", "ast", "hir", "mir", "ulir", "lir"}
        /\ (IF k = "ulir" THEN "lir" ELSE k) \in args.dumps
    BY <1>1, <1>5 DEF DumpsAsked, Understood, Dumps
  <2>2. answer = "yes"
    BY <1>1, <1>5 DEF OutcomeInv
  <2>3. told[k] = "end" /\ k \in MakesOutput
    BY <1>5, <2>1, <2>2, SucceededEnded, Inputs
  <2>4. DumpsOf(k) = <<k>>
    BY <1>5, <2>1 DEF DumpsOf
  <2>. QED  BY <1>1, <2>3, <2>4 DEF DumpsInv
<1>6. \A i, j \in DOMAIN dumped : i < j => dumped[i] # dumped[j]
  BY <1>1 DEF DumpsInv
<1>. QED  BY <1>2, <1>3, <1>4, <1>5, <1>6 DEF DumpsComplete

\* DumpsComplete: a dump is written once, after its stage and whole, and a stream
\* captured for one gives the parser the same tokens (elc/driver/observers).
THEOREM DumpsAreComplete == Spec => []DumpsComplete
<1>. QED  BY CompleteDumps, RunInvariant, EventsInvariant, TimesInvariant, PTL

\* A run that succeeded has seen no flaw.
LEMMA NoFlawSeen ==
    ASSUME RunInv, EventInv, InputsEnded, answer = "yes"
    PROVE  errors = 0 /\ ~FlawSeen
<1>1. /\ source \in Sources \cup {NoDocument} /\ StreamsRead /\ StreamsFollow /\ FlawsReported
      /\ Eof \in Nat /\ source.flaw \in {"none", "lexer", "preprocessor", "parser", "binder"}
      /\ source.flaw # "none" => source.at \in Nat /\ source.at <= Eof
  BY SourceFacts DEF RunInv
<1>2. errors = 0
  <2>1. errors \in Nat /\ ~(errors > 0)
    BY DEF EventInv, EventType
  <2>. QED  BY <2>1
<1>3. /\ Reaches("ast") => told["ast"] = "end" /\ streams.taken = Eof
      /\ Reaches("pp-toks") => told["pp-toks"] = "end"
      /\ Reaches("toks") => told["toks"] = "end"
      /\ Reaches("hir") => told["hir"] = "end"
  BY <1>1, SucceededEnded DEF StreamsRead
<1>4. /\ Reaches("pp-toks") /\ Captures("pp-toks") => streams.taken = Eof
      /\ Reaches("toks") /\ Captures("toks") => streams.lexed = Eof
  BY <1>1, <1>3 DEF StreamsRead
<1>5. streams.taken = Eof /\ (Reaches("ast") \/ Reaches("pp-toks")) => streams.lexed = Eof
  <2>1. Reaches("ast") \/ Reaches("pp-toks") => told["toks"] = "end"
    <3>1. told["pp-toks"] = "end" => told["toks"] = "end"
      BY Inputs DEF InputsEnded
    <3>2. told["ast"] = "end" => told["pp-toks"] = "end"
      BY Inputs DEF InputsEnded
    <3>. QED  BY <1>3, <3>1, <3>2
  <2>. QED  BY <1>1, <2>1 DEF StreamsRead, StreamsFollow
<1>6. CASE source.flaw = "none"
  BY <1>2, <1>6 DEF FlawSeen
<1>7. CASE source.flaw = "lexer"
  <2>1. streams.lexed # Eof
    BY <1>1, <1>2, <1>7 DEF FlawsReported
  <2>. QED  BY <1>2, <1>3, <1>4, <1>5, <1>7, <2>1 DEF FlawSeen
<1>8. CASE source.flaw = "preprocessor"
  <2>1. streams.taken # Eof
    BY <1>1, <1>2, <1>8 DEF FlawsReported
  <2>. QED  BY <1>2, <1>3, <1>4, <1>8, <2>1 DEF FlawSeen
<1>9. CASE source.flaw = "parser"
  <2>1. ~Reaches("ast")
    <3>1. SUFFICES ASSUME told["ast"] = "end" PROVE FALSE
      BY <1>3
    <3>2. Preserved(streams.read) /\ streams.ended
      BY <1>1, <3>1 DEF StreamsRead
    <3>3. source.at = Eof \/ (source.at \in 1 .. Size /\ source.kept[source.at])
      BY <1>1, <1>9, SourceFacts
    <3>. QED  BY <1>1, <1>2, <1>9, <3>2, <3>3 DEF FlawsReported, Preserved
  <2>. QED  BY <1>2, <1>9, <2>1 DEF FlawSeen
<1>10. CASE source.flaw = "binder"
  <2>1. ~Reaches("hir")
    BY <1>1, <1>3, <1>10 DEF FlawsReported
  <2>. QED  BY <1>2, <1>10, <2>1 DEF FlawSeen
<1>. QED  BY <1>1, <1>6, <1>7, <1>8, <1>9, <1>10

LEMMA TruthOfExit == RunInv /\ EventInv /\ TimeInv => ExitTellsTruth
<1>. SUFFICES ASSUME RunInv, EventInv, InputsEnded
     PROVE  ExitTellsTruth
  BY DEF TimeInv
<1>1. RequestsInv /\ OutcomeInv /\ FlawsReported /\ Target \in Artifacts
  BY TargetType DEF RunInv
<1>2. CASE Ran /\ exit = 0
  <2>1. answer = "yes" /\ written = IF Target \in {"obj", "asm"} THEN Target ELSE None
    BY <1>1, <1>2 DEF OutcomeInv
  <2>2. errors = 0 /\ ~FlawSeen
    BY <2>1, NoFlawSeen
  <2>3. /\ Target = "source" \/ told[Target] = "end"
        /\ source.exists /\ args.input # "-"
    <3>1. CASE Target = "source"
      BY <1>1, <2>1, <3>1 DEF RequestsInv
    <3>2. CASE Target # "source"
      BY <1>1, <2>1, <3>2 DEF RequestsInv, MakesOutput
    <3>. QED  BY <3>1, <3>2
  <2>. QED  BY <1>1, <1>2, <2>1, <2>2, <2>3 DEF ExitTellsTruth, Provided, OutcomeInv, Ran
<1>3. CASE Ran /\ exit # 0
  <2>1. exit = 1 /\ written = None /\ (answer = "no" \/ (~source.exists /\ args.input # "-"))
    BY <1>1, <1>3 DEF OutcomeInv
  <2>2. args.input = "-" \/ ~source.exists \/ FlawSeen
    BY <1>1, <2>1 DEF RequestsInv, FlawsReported
  <2>. QED  BY <1>1, <1>3, <2>1, <2>2 DEF ExitTellsTruth, Provided, OutcomeInv, Ran
<1>4. CASE ~Ran
  BY <1>1, <1>4 DEF ExitTellsTruth, OutcomeInv
<1>. QED  BY <1>2, <1>3, <1>4

\* ExitTellsTruth: elc exits with 0 exactly if its input is a file that can be read and
\* none of the errors of that file is within reach of the target or of a token dump, and
\* has then produced its target, and written it if it is an object or an assembly file
\* (elc/main.c, elc/driver/driver.c, the check after execute in elc/pipeline).  It never
\* exits with 0 for stdin, and an error that nobody reads up to does not change the status.
THEOREM ExitIsTrue == Spec => []ExitTellsTruth
<1>. QED  BY TruthOfExit, RunInvariant, EventsInvariant, TimesInvariant, PTL
=============================================================================
