-------------------------------- MODULE ElProf -------------------------------
(***************************************************************************)
(* The profiler behind --time-report (prof/prof.c): stages, one of them    *)
(* active, and a stack of frames of substages.  A profiler is a record and *)
(* each entry point of prof.c an operator on it, because its callers run   *)
(* in the middle of their own steps.  Time is a number given by the caller *)
(* (stat_now); the three clocks of ElProfStat are one.  An assertion that  *)
(* does not hold sets `failed': the calls of a debug build end there.      *)
(***************************************************************************)
EXTENDS Naturals, Sequences, FiniteSetsExt

CONSTANTS Stages,      \* names of the stages the pipeline may run
          Substages    \* the substages, records of a name and its pstage

\* The stage pointer NULL.
NoStage == "NULL"

\* No stage is NULL, and the substages a run can register are finitely many, each
\* of a stage.
ASSUME ProfAssumption ==
    /\ NoStage \notin Stages
    /\ IsFiniteSet(Substages)
    /\ \A b \in Substages : b.pstage \in Stages

NewStage == [start |-> 0, total |-> 0, running |-> FALSE]

\* el_prof_init; a stage or substage not begun yet has no time.
ProfInit == [stages |-> [s \in Stages |-> NewStage],
             subs   |-> [b \in Substages |-> 0],
             active |-> NoStage,
             frames |-> <<>>,
             failed |-> FALSE]

Failed(prof) == [prof EXCEPT !.failed = TRUE]

\* The time since the innermost frame was last charged goes to its substage.
ChargeTop(prof, now) ==
    IF prof.frames = <<>> THEN prof
    ELSE LET n == Len(prof.frames)
             top == prof.frames[n]
         IN  [prof EXCEPT !.subs[top.sub] = @ + (now - top.start),
                          !.frames[n].start = now]

\* el_prof_begin: a stage of the pipeline starts.
ProfBegin(prof, now, s) ==
    IF prof.active # NoStage THEN Failed(prof)
    ELSE [prof EXCEPT !.stages[s] = [start |-> now, total |-> 0, running |-> TRUE],
                      !.active = s]

\* Mutant: the finished stage stays the active one.
FinishStageActive(prof, now, s) ==
    IF ~prof.stages[s].running THEN prof
    ELSE [prof EXCEPT !.stages[s].total = @ + (now - prof.stages[s].start),
                      !.stages[s].running = FALSE]

\* el_prof_finish_stage: a stage that is not running stays active.
FinishStage(prof, now, s) ==
    IF ~prof.stages[s].running THEN prof
    ELSE [prof EXCEPT !.stages[s].total = @ + (now - prof.stages[s].start),
                      !.stages[s].running = FALSE,
                      !.active = IF @ = s THEN NoStage ELSE @]

\* Mutant: entering a stage again forgets its time, as beginning it does.
EnterStageFresh(prof, now, s) ==
    [ChargeTop(prof, now) EXCEPT !.active = s,
                                 !.stages[s] = [start |-> now, total |-> 0, running |-> TRUE]]

\* el_prof_enter_stage: the caller keeps prof.active as the scope's previous.
EnterStage(prof, now, s) ==
    [ChargeTop(prof, now) EXCEPT !.active = s,
                                 !.stages[s].start = now,
                                 !.stages[s].running = TRUE]

\* Mutant: leaving forgets to charge the frame that was interrupted.
LeaveStageUncharged(prof, now, previous) ==
    LET s == prof.active
        n == Len(prof.frames)
    IN  [prof EXCEPT !.active = previous,
                     !.stages[s].running = FALSE,
                     !.frames = IF n = 0 THEN @ ELSE [@ EXCEPT ![n].start = now]]

\* el_prof_leave_stage.
LeaveStage(prof, now, previous) ==
    LET s == prof.active
        stopped == IF s # NoStage /\ prof.stages[s].running
                   THEN [prof EXCEPT !.stages[s].total = @ + (now - prof.stages[s].start),
                                     !.stages[s].running = FALSE]
                   ELSE prof
    IN  [ChargeTop(stopped, now) EXCEPT !.active = previous]

\* el_prof_begin_sub.
BeginSub(prof, now, b) ==
    IF b.pstage # prof.active THEN Failed(prof)
    ELSE [ChargeTop(prof, now) EXCEPT
             !.frames = Append(@, [sub |-> b, start |-> now])]

\* el_prof_finish_sub.
FinishSub(prof, now, b) ==
    LET n == Len(prof.frames)
    IN  IF n = 0 \/ (n > 0 /\ prof.frames[n].sub # b) THEN Failed(prof)
        ELSE LET popped == [ChargeTop(prof, now) EXCEPT !.frames = SubSeq(@, 1, n - 1)]
             IN  IF n = 1 THEN popped
                 ELSE [popped EXCEPT !.frames[n - 1].start = now]

-----------------------------------------------------------------------------
\* What the report says of the substages if it were printed now, and the time
\* of the innermost frame that is still to be charged.
Charged(prof, now) ==
    LET n == Len(prof.frames)
    IN  MapThenSumSet(LAMBDA b : prof.subs[b], Substages)
        + (IF n = 0 THEN 0 ELSE now - prof.frames[n].start)
=============================================================================
