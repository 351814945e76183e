---------------------------- MODULE PhasesProofs ----------------------------
(***************************************************************************)
(* Proofs about Phases: the phase machine is type correct, whatever the    *)
(* budgets and contents; nothing reaches the task branch that was not      *)
(* approved, that is not what every frozen check passed on, or that no     *)
(* review has seen; budgets are never given back, the content an approval  *)
(* is about is never replaced, and the runner's own writes never make it   *)
(* refuse its own transcript.                                              *)
(***************************************************************************)
EXTENDS Phases, TLAPS

-----------------------------------------------------------------------------
(* The workflow state, one field at a time *)

\* The types of the fields of a workflow state.
LEMMA StateFields ==
    ASSUME NEW s \in State
    PROVE  /\ s.phase \in PhaseName
           /\ s.cand \in Content \cup {None}
           /\ s.attempts \in 0..MaxAttempts
           /\ s.replans \in 0..MaxReplans
           /\ s.loops \in 0..MaxVerifyLoops
           /\ s.edit \in Transcript
           /\ s.results \in Results
           /\ s.reviewed \in Content \cup {None}
           /\ s.finalCand \in Content \cup {None}
  BY DEF State

\* Updating one field with a value of its type gives a workflow state again.
LEMMA SetPhase == ASSUME NEW s \in State, NEW v \in PhaseName
                  PROVE  [s EXCEPT !.phase = v] \in State
  BY DEF State

LEMMA SetCand == ASSUME NEW s \in State, NEW v \in Content \cup {None}
                 PROVE  [s EXCEPT !.cand = v] \in State
  BY DEF State

LEMMA SetFlags == ASSUME NEW s \in State, NEW v \in BOOLEAN
                  PROVE  /\ [s EXCEPT !.presets = v] \in State
                         /\ [s EXCEPT !.tokensOut = v] \in State
                         /\ [s EXCEPT !.regressed = v] \in State
  BY DEF State

LEMMA SetCounters == ASSUME NEW s \in State
                     PROVE  /\ s.attempts < MaxAttempts =>
                                 [s EXCEPT !.attempts = @ + 1] \in State
                            /\ s.replans < MaxReplans =>
                                 [s EXCEPT !.replans = @ + 1] \in State
                            /\ s.loops < MaxVerifyLoops =>
                                 [s EXCEPT !.loops = @ + 1] \in State
  BY BudgetAssumption DEF State, MaxReplans, MaxVerifyLoops

LEMMA SetEdit == ASSUME NEW s \in State, NEW v \in Transcript
                 PROVE  [s EXCEPT !.edit = v] \in State
  BY DEF State

LEMMA SetResults == ASSUME NEW s \in State, NEW v \in Results
                    PROVE  [s EXCEPT !.results = v] \in State
  BY DEF State

LEMMA SetReviewed == ASSUME NEW s \in State, NEW v \in Content \cup {None}
                     PROVE  [s EXCEPT !.reviewed = v] \in State
  BY DEF State

LEMMA SetFinalCand == ASSUME NEW s \in State, NEW v \in Content \cup {None}
                      PROVE  [s EXCEPT !.finalCand = v, !.cand = v] \in State
  BY DEF State

LEMMA InitialStateTyped == InitialState \in State
  BY BudgetAssumption
  DEF State, InitialState, EmptyTranscript, NoResults, Transcript, Results,
      PhaseName, MaxReplans, MaxVerifyLoops

LEMMA EmptyTranscriptTyped == EmptyTranscript \in Transcript
  BY BudgetAssumption DEF EmptyTranscript, Transcript

\* Rewriting the code of a content, or adding the card, gives a content.
LEMMA ContentUpdates ==
    ASSUME NEW c \in Content
    PROVE  /\ \A x \in Codes : [c EXCEPT !.code = x] \in Content
           /\ [c EXCEPT !.card = TRUE] \in Content
           /\ Regenerated(c) \in Content
  BY GenerateAssumption DEF Content, Regenerated

LEMMA BaseTyped == BaseContent \in Content
  BY CodesAssumption DEF Content, BaseContent

-----------------------------------------------------------------------------
(* Type correctness *)

ProcessOK ==
    /\ pc \in Points
    /\ mem \in State
    /\ stopping \in TaskState \cup {None}
    /\ reason \in Reasons
    /\ saved \in State \cup {None}
    /\ RerunHasLoop
    /\ StopsKnown

\* The points a handler goes on at.
Inner == Points \ {"rerun", "stop", "finish", "setstate"}

RestOK ==
    /\ task \in TaskState
    /\ checkpoint \in TaskState \cup {None}
    /\ tree \in Content
    /\ branch \in Content
    /\ gates \in [Content -> {"none", "pending", "approved", "rejected"}]
    /\ expired \in BOOLEAN

\* The four ways a handler ends or goes on keep the process typed.
LEMMA StopTyped ==
    ASSUME ProcessOK, NEW s \in State, NEW st \in TaskState,
           NEW why \in Reasons, StopWith(s, st, why)
    PROVE  ProcessOK'
  BY DEF ProcessOK, StopWith, Points, RerunHasLoop, StopsKnown

LEMMA MoveTyped ==
    ASSUME ProcessOK, NEW s \in State, NEW next \in PhaseName, Move(s, next)
    PROVE  ProcessOK'
<1>1. CASE expired
  <2>1. StopWith(s, "blocked", "save")
    BY <1>1 DEF Move
  <2> QED
    BY <2>1, StopTyped DEF TaskState, Reasons
<1>2. CASE ~expired
  BY <1>2, SetPhase DEF Move, ProcessOK, Points, RerunHasLoop, StopsKnown
<1> QED
  BY <1>1, <1>2

LEMMA ContinueTyped ==
    ASSUME ProcessOK, NEW s \in State, NEW p \in Inner,
           Continue(s, p) \/ SaveAndContinue(s, p)
    PROVE  ProcessOK'
  BY DEF ProcessOK, Continue, SaveAndContinue, Inner, RerunHasLoop, StopsKnown

LEMMA TranscriptTyped ==
    ASSUME ProcessOK, NEW tr \in Transcript, tree \in Content, NEW p \in Inner,
           SaveTranscript(tr, p)
    PROVE  ProcessOK'
<1>0. PICK out \in {mem.tokensOut, TRUE} :
        LET s == [[mem EXCEPT !.tokensOut = out] EXCEPT
                    !.edit = [tr EXCEPT !.cand = tree]]
        IN  StopWith(s, "blocked", "engine") \/ SaveAndContinue(s, p)
  BY DEF SaveTranscript
<1> DEFINE spent == [mem EXCEPT !.tokensOut = out]
           s == [spent EXCEPT !.edit = [tr EXCEPT !.cand = tree]]
<1>1. [tr EXCEPT !.cand = tree] \in Transcript
  BY DEF Transcript
<1>a. spent \in State
  BY <1>0 DEF ProcessOK, State
<1>2. s \in State
  BY <1>1, <1>a, SetEdit
<1>3. StopWith(s, "blocked", "engine") \/ SaveAndContinue(s, p)
  BY <1>0
<1> HIDE DEF s
<1> QED
  BY <1>2, <1>3, StopTyped, ContinueTyped DEF TaskState, Reasons

\* A step of the run that touches only the process.
LEMMA OtherTyped ==
    ASSUME RestOK, OtherUnchanged
    PROVE  RestOK'
  BY DEF RestOK, OtherUnchanged, TaskUnchanged

\* A step of the run that also writes the checkout.
LEMMA TreeTyped ==
    ASSUME RestOK, TaskUnchanged, UNCHANGED branch, tree' \in Content
    PROVE  RestOK'
  BY DEF RestOK, TaskUnchanged

\* What one verification leaves in the state.
LEMMA CountedTyped ==
    ASSUME NEW s \in State, s.loops < MaxVerifyLoops, NEW c \in Content,
           s.cand \in Content \cup {None},
           NEW status \in {"pass", "fail", "skipped", "environment"}
    PROVE  LET res == [cand |-> s.cand, status |-> status, on |-> c]
           IN  /\ [s EXCEPT !.loops = @ + 1] \in State
               /\ [[s EXCEPT !.loops = @ + 1] EXCEPT !.results = res] \in State
<1> DEFINE res == [cand |-> s.cand, status |-> status, on |-> c]
<1>1. res \in Results
  BY DEF Results
<1>2. [s EXCEPT !.loops = @ + 1] \in State
  BY SetCounters
<1>3. [[s EXCEPT !.loops = @ + 1] EXCEPT !.results = res] \in State
  BY <1>1, <1>2, SetResults
<1> QED
  BY <1>2, <1>3

\* Every reachable state of the phase machine has its type, for every choice of
\* the contents, the budgets, the generators and the points of failure.
THEOREM TypeCorrect == Spec => []TypeInv
<1>1. Init => TypeInv
  BY InitialStateTyped, BaseTyped
  DEF Init, TypeInv, TypeOK, RerunHasLoop, StopsKnown, Points, TaskState, Reasons
<1>2. TypeInv /\ [Next]_vars => TypeInv'
  <2> SUFFICES ASSUME TypeInv, [Next]_vars
               PROVE  ProcessOK' /\ RestOK'
    BY DEF TypeInv, TypeOK, ProcessOK, RestOK
  <2> ProcessOK /\ RestOK
    BY DEF TypeInv, TypeOK, ProcessOK, RestOK
  <2>a. mem \in State /\ tree \in Content
    BY DEF TypeInv, TypeOK
  <2>b. /\ mem.phase \in PhaseName /\ mem.edit \in Transcript
        /\ mem.results \in Results /\ mem.cand \in Content \cup {None}
        /\ mem.replans \in 0..2 /\ mem.loops \in 0..4
        /\ mem.attempts \in 0..MaxAttempts
    BY <2>a, StateFields DEF MaxReplans, MaxVerifyLoops
  <2>c. \A st \in TaskState, why \in Reasons, s \in State :
           StopWith(s, st, why) => ProcessOK'
    BY StopTyped
  <2>d. \A s \in State, next \in PhaseName : Move(s, next) => ProcessOK'
    BY MoveTyped
  <2>e. \A s \in State, p \in Inner :
           Continue(s, p) \/ SaveAndContinue(s, p) => ProcessOK'
    BY ContinueTyped
  <2>f. OtherUnchanged => RestOK'
    BY OtherTyped
  <2>g. TaskUnchanged /\ UNCHANGED branch /\ tree' \in Content => RestOK'
    BY TreeTyped
  <2>h. \A tr \in Transcript, p \in Inner : SaveTranscript(tr, p) => ProcessOK'
    BY <2>a, TranscriptTyped
  <2>i. [mem EXCEPT !.edit = EmptyTranscript] \in State
    BY <2>a, EmptyTranscriptTyped, SetEdit
  <2>1. CASE Load
    BY <2>1, InitialStateTyped DEF Load, ProcessOK, RestOK, Points, RerunHasLoop, StopsKnown
  <2>2. CASE LoopTop
    <3>1. [mem EXCEPT !.cand = tree] \in State
      BY <2>a, SetCand
    <3> QED
      BY <2>2, <2>a, <2>c, <2>e, <2>f, <3>1
      DEF LoopTop, TaskState, Reasons, Points, Inner
  <2>3. CASE IntakePresets
    <3>1. [mem EXCEPT !.presets = TRUE] \in State
      BY <2>a, SetFlags
    <3> QED
      BY <2>3, <2>a, <2>c, <2>e, <2>f, <3>1
      DEF IntakePresets, TaskState, Reasons, Points, Inner
  <2>4. CASE IntakeBaseline
    <3>1. tree' \in Content
      BY <2>4, <2>a, ContentUpdates DEF IntakeBaseline
    <3> QED
      BY <2>4, <2>a, <2>c, <2>d, <2>g, <3>1
      DEF IntakeBaseline, TaskState, Reasons, PhaseName
  <2>5. CASE Decide
    <3>1. PICK out \in {mem.tokensOut, TRUE} :
             LET s == [mem EXCEPT !.tokensOut = out]
             IN  SaveAndContinue(IF mem.phase = "REVIEW"
                                 THEN [s EXCEPT !.reviewed = tree] ELSE s, "decided")
      BY <2>5 DEF Decide
    <3> DEFINE s == [mem EXCEPT !.tokensOut = out]
    <3>2. s \in State
      BY <2>a, <3>1 DEF State
    <3>3. [s EXCEPT !.reviewed = tree] \in State
      BY <2>a, <3>2, SetReviewed
    <3> QED
      BY <2>5, <2>e, <2>f, <3>1, <3>2, <3>3 DEF Decide, Points, Inner
  <2>6. CASE DecideFails
    BY <2>6, <2>a, <2>c, <2>f DEF DecideFails, TaskState, Reasons
  <2>7. CASE Localized
    BY <2>7, <2>a, <2>d, <2>f DEF Localized, PhaseName
  <2>8. CASE Impact
    BY <2>8, <2>a, <2>d, <2>f DEF Impact, PhaseName
  <2>9. CASE PlanRejected
    <3>1. mem.replans < MaxReplans => [mem EXCEPT !.replans = @ + 1] \in State
      BY <2>a, SetCounters
    <3>2. mem.replans >= MaxReplans \/ mem.replans < MaxReplans
      BY <2>b DEF MaxReplans
    <3> QED
      BY <2>9, <2>a, <2>c, <2>e, <2>f, <3>1, <3>2
      DEF PlanRejected, TaskState, Reasons, Points, Inner
  <2>10. CASE PlanAccepted
    BY <2>10, <2>a, <2>c, <2>d, <2>f, <2>i
    DEF PlanAccepted, TaskState, Reasons, PhaseName
  <2>11. CASE EditEnter
    <3>1. mem.attempts < MaxAttempts => [mem EXCEPT !.attempts = @ + 1] \in State
      BY <2>a, SetCounters
    <3>2. \/ StopWith(mem, "blocked", "transcript")
          \/ StopWith(mem, "failed", "attempts")
          \/ mem.attempts < MaxAttempts /\ Continue([mem EXCEPT !.attempts = @ + 1], "engine")
          \/ Continue(mem, "engine")
      BY <2>11 DEF EditEnter
    <3> QED
      BY <2>11, <2>a, <2>c, <2>e, <2>f, <3>1, <3>2
      DEF EditEnter, TaskState, Reasons, Points, Inner
  <2>12. CASE EngineOpen
    <3>1. [mem.edit EXCEPT !.msgs = 2] \in Transcript
      BY <2>b DEF Transcript
    <3> QED
      BY <2>12, <2>f, <2>h, <3>1 DEF EngineOpen, Points, Inner
  <2>13. CASE EngineReconcile
    <3>1. \A o \in {"open", "done", "exhausted"} :
            [mem.edit EXCEPT !.pending = FALSE, !.outcome = o] \in Transcript
      BY <2>b DEF Transcript
    <3> QED
      BY <2>13, <2>f, <2>h, <3>1 DEF EngineReconcile, Points, Inner
  <2>14. CASE EngineIntend
    <3>1. [mem.edit EXCEPT !.pending = TRUE, !.msgs = 3, !.tools = @ + 1]
             \in Transcript
      <4>1. mem.edit.tools + 1 \in 0..MaxTools
        BY <2>14, <2>b, BudgetAssumption DEF EngineIntend, Transcript
      <4> QED
        BY <2>b, <4>1 DEF Transcript
    <3> QED
      BY <2>14, <2>f, <2>h, <3>1 DEF EngineIntend, Points, Inner
  <2>15. CASE EngineApply
    <3>1. tree' \in Content
      BY <2>15, <2>a, ContentUpdates DEF EngineApply
    <3> QED
      BY <2>15, <2>a, <2>e, <2>g, <3>1 DEF EngineApply, Points, Inner
  <2>16. CASE EngineRecord
    <3>1. [mem.edit EXCEPT !.pending = FALSE] \in Transcript
      BY <2>b DEF Transcript
    <3> QED
      BY <2>16, <2>f, <2>h, <3>1 DEF EngineRecord, Points, Inner
  <2>17. CASE EngineClose
    <3>1. \A o \in {"done", "stopped", "exhausted"} :
            [mem.edit EXCEPT !.outcome = o] \in Transcript
      BY <2>b DEF Transcript
    <3> QED
      BY <2>17, <2>f, <2>h, <3>1 DEF EngineClose, Points, Inner
  <2>18. CASE EngineFails
    BY <2>18, <2>a, <2>c, <2>f DEF EngineFails, TaskState, Reasons
  <2>19. CASE EditLeave
    <3>1. mem.replans < MaxReplans => [mem EXCEPT !.replans = @ + 1] \in State
      BY <2>a, SetCounters
    <3>2. mem.edit.outcome \in {"open", "done", "exhausted", "stopped"}
      BY <2>b DEF Transcript
    <3>3. \/ Move(mem, "VERIFY")
          \/ StopWith(mem, "blocked", "incomplete")
          \/ StopWith(mem, "blocked", "engine")
          \/ mem.replans < MaxReplans /\ Move([mem EXCEPT !.replans = @ + 1], "PLAN")
      <4>1. CASE mem.edit.outcome = "done"
        BY <2>19, <4>1 DEF EditLeave
      <4>2. CASE mem.edit.outcome = "stopped"
        BY <2>19, <4>2 DEF EditLeave
      <4>3. CASE mem.edit.outcome = "exhausted"
        BY <2>19, <2>b, <4>3 DEF EditLeave, MaxReplans
      <4> QED
        BY <2>19, <3>2, <4>1, <4>2, <4>3 DEF EditLeave
    <3> QED
      BY <2>19, <2>a, <2>c, <2>d, <2>f, <3>1, <3>3
      DEF EditLeave, TaskState, Reasons, PhaseName
  <2>20. CASE VerifyExhausted
    BY <2>20, <2>a, <2>c, <2>f DEF VerifyExhausted, TaskState, Reasons
  <2>21. CASE VerifyRun
    <3>1. tree' \in Content
      BY <2>21, <2>a, ContentUpdates DEF VerifyRun
    <3>2. PICK status \in {"pass", "fail", "skipped", "environment"} :
            LET s == [[mem EXCEPT !.loops = @ + 1] EXCEPT !.results =
                        [cand |-> mem.cand, status |-> status, on |-> tree']]
            IN \/ StopWith(s, "blocked", "environment")
               \/ s.loops < MaxVerifyLoops /\ Continue(s, "rerun")
               \/ Continue(s, "judge")
      BY <2>21 DEF VerifyRun
    <3>3. [[mem EXCEPT !.loops = @ + 1] EXCEPT !.results =
             [cand |-> mem.cand, status |-> status, on |-> tree']] \in State
      BY <2>21, <2>a, <2>b, <3>1, CountedTyped DEF VerifyRun
    <3>4. \A s \in State : s.loops < MaxVerifyLoops /\ Continue(s, "rerun")
                             => ProcessOK'
      BY DEF Continue, ProcessOK, RerunHasLoop, StopsKnown, Points
    <3> DEFINE s == [[mem EXCEPT !.loops = @ + 1] EXCEPT !.results =
                       [cand |-> mem.cand, status |-> status, on |-> tree']]
    <3>5. \/ StopWith(s, "blocked", "environment")
          \/ s.loops < MaxVerifyLoops /\ Continue(s, "rerun")
          \/ Continue(s, "judge")
      BY <3>2
    <3>6. s \in State
      BY <3>3
    <3> HIDE DEF s
    <3>7. ProcessOK'
      BY <2>c, <2>e, <3>4, <3>5, <3>6 DEF TaskState, Reasons, Points, Inner
    <3> QED
      BY <2>21, <2>g, <3>1, <3>7 DEF VerifyRun
  <2>22. CASE VerifyRerun
    <3>1. tree' \in Content
      BY <2>22, <2>a, ContentUpdates DEF VerifyRerun
    <3>2. PICK status \in {"pass", "fail", "skipped", "environment"} :
            LET s == [mem EXCEPT !.loops = @ + 1]
                rerun == [cand |-> mem.cand, status |-> status, on |-> tree']
            IN \/ StopWith(s, "blocked", "environment")
               \/ Continue([s EXCEPT !.results = rerun], "judge")
               \/ Continue(s, "judge")
      BY <2>22 DEF VerifyRerun
    <3>3. mem.loops < MaxVerifyLoops
      BY <2>22 DEF VerifyRerun, ProcessOK, RerunHasLoop
    <3>4. /\ [mem EXCEPT !.loops = @ + 1] \in State
          /\ [[mem EXCEPT !.loops = @ + 1] EXCEPT !.results =
               [cand |-> mem.cand, status |-> status, on |-> tree']] \in State
      BY <2>a, <2>b, <3>1, <3>3, CountedTyped
    <3> QED
      BY <2>22, <2>c, <2>e, <2>g, <3>1, <3>2, <3>4
      DEF VerifyRerun, TaskState, Reasons, Points, Inner
  <2>23. CASE JudgeAccepts
    <3>1. mem.replans < MaxReplans => [mem EXCEPT !.replans = @ + 1] \in State
      BY <2>a, SetCounters
    <3>2. mem.replans >= MaxReplans \/ mem.replans < MaxReplans
      BY <2>b DEF MaxReplans
    <3> QED
      BY <2>23, <2>a, <2>c, <2>d, <2>f, <3>1, <3>2
      DEF JudgeAccepts, TaskState, Reasons, PhaseName
  <2>24. CASE JudgeRejects
    <3>1. PICK regressed \in {mem.regressed, TRUE}, relocalize \in BOOLEAN :
            LET s == [mem EXCEPT !.regressed = regressed]
                cleared == [s EXCEPT !.edit = EmptyTranscript]
            IN \/ tree' = BaseContent /\ StopWith(s, "failed", "repair")
               \/ tree' = tree /\ Move(cleared, "EDIT")
               \/ tree' = tree /\ StopWith(cleared, "failed", "replans")
               \/ /\ ~(mem.replans >= MaxReplans)
                  /\ tree' = BaseContent
                  /\ Move([cleared EXCEPT !.replans = @ + 1], "LOCALIZE")
      BY <2>24 DEF JudgeRejects
    <3> DEFINE s == [mem EXCEPT !.regressed = regressed]
               cleared == [s EXCEPT !.edit = EmptyTranscript]
    <3>2. s \in State
      BY <2>a, <3>1 DEF State
    <3>3. cleared \in State /\ cleared.replans = mem.replans
      BY <2>a, <3>2, EmptyTranscriptTyped, SetEdit DEF State
    <3>4. ~(mem.replans >= MaxReplans) => [cleared EXCEPT !.replans = @ + 1] \in State
      <4> HIDE DEF cleared
      <4>1. ~(mem.replans >= MaxReplans) => cleared.replans < MaxReplans
        BY <2>b, <3>3 DEF MaxReplans
      <4> QED
        BY <3>3, <4>1, SetCounters
    <3>5. tree' \in Content
      BY <3>1, <2>a, BaseTyped
    <3> HIDE DEF s, cleared
    <3>6. ProcessOK'
      BY <2>c, <2>d, <3>1, <3>2, <3>3, <3>4
      DEF s, cleared, TaskState, Reasons, PhaseName
    <3> QED
      BY <2>24, <2>g, <3>5, <3>6 DEF JudgeRejects
  <2>25. CASE ReviewAccepts
    BY <2>25, <2>a, <2>d, <2>f DEF ReviewAccepts, PhaseName
  <2>26. CASE ReviewRejects
    <3>1. Unreviewed(mem) \in State
      BY <2>a, SetReviewed DEF Unreviewed
    <3>2. [Unreviewed(mem) EXCEPT !.edit = EmptyTranscript] \in State
      BY <3>1, EmptyTranscriptTyped, SetEdit
    <3> QED
      BY <2>26, <2>c, <2>d, <2>f, <3>1, <3>2
      DEF ReviewRejects, TaskState, Reasons, PhaseName
  <2>27. CASE FinalizeDrifted
    BY <2>27, <2>a, <2>c, <2>f DEF FinalizeDrifted, TaskState, Reasons
  <2>28. CASE FinalizeCard
    <3>1. tree' \in Content
      BY <2>28, <2>a, ContentUpdates DEF FinalizeCard
    <3> QED
      BY <2>28, <2>a, <2>c, <2>e, <2>g, <3>1
      DEF FinalizeCard, TaskState, Reasons, Points, Inner
  <2>29. CASE FinalizeCandidate
    <3>1. [mem EXCEPT !.finalCand = tree, !.cand = tree] \in State
      BY <2>a, SetFinalCand
    <3> QED
      BY <2>29, <2>e, <2>f, <3>1 DEF FinalizeCandidate, Points, Inner
  <2>30. CASE FinalizeResume
    BY <2>30, <2>a, <2>e, <2>f DEF FinalizeResume, Points, Inner
  <2>31. CASE FinalizeSecrets
    BY <2>31, <2>a, <2>c, <2>f DEF FinalizeSecrets, TaskState, Reasons
  <2>32. CASE FinalizeGate
    <3>1. gates' \in [Content -> {"none", "pending", "approved", "rejected"}]
      BY <2>32 DEF FinalizeGate, RestOK
    <3>2. RestOK'
      BY <2>32, <3>1 DEF FinalizeGate, RestOK
    <3>3. ProcessOK'
      BY <2>32, <2>a, <2>c, <2>e DEF FinalizeGate, TaskState, Reasons, Points, Inner
    <3> QED
      BY <3>2, <3>3
  <2>33. CASE FinalizeCheck
    BY <2>33, <2>a, <2>c, <2>e, <2>f
    DEF FinalizeCheck, TaskState, Reasons, Points, Inner
  <2>34. CASE FinalizeCommit
    <3>1. RestOK'
      BY <2>34 DEF FinalizeCommit, RestOK, TaskUnchanged
    <3> QED
      BY <2>34, <2>a, <2>c, <3>1 DEF FinalizeCommit, TaskState, Reasons
  <2>35. CASE StopSave
    BY <2>35 DEF StopSave, ProcessOK, RestOK, Points, RerunHasLoop, StopsKnown
  <2>36. CASE FinishCheckpoint
    BY <2>36 DEF FinishCheckpoint, ProcessOK, RestOK, Points, RerunHasLoop, StopsKnown
  <2>37. CASE FinishSetState
    BY <2>37, InitialStateTyped
    DEF FinishSetState, ProcessOK, RestOK, Points, RerunHasLoop, StopsKnown, Reasons
  <2>38. CASE Start
    BY <2>38 DEF Start, ProcessOK, RestOK, Points, RerunHasLoop, StopsKnown, TaskState
  <2>39. CASE Crash
    BY <2>39, InitialStateTyped DEF Crash, durable, ProcessOK, RestOK, Points, RerunHasLoop, StopsKnown, Reasons
  <2>40. CASE Reopen
    BY <2>40 DEF Reopen, process, ProcessOK, RestOK, TaskState, RerunHasLoop, StopsKnown
  <2>41. CASE Drift
    <3>1. tree' \in Content
      BY <2>41, <2>a, ContentUpdates DEF Drift
    <3> QED
      BY <2>41, <3>1 DEF Drift, process, ProcessOK, RestOK, RerunHasLoop, StopsKnown
  <2>42. CASE DeadlinePasses
    BY <2>42 DEF DeadlinePasses, process, durable, ProcessOK, RestOK, RerunHasLoop, StopsKnown
  <2>43. CASE \E c \in Content : Answer(c)
    <3>1. gates' \in [Content -> {"none", "pending", "approved", "rejected"}]
      BY <2>43 DEF Answer, RestOK
    <3> QED
      BY <2>43, <3>1 DEF Answer, process, ProcessOK, RestOK, RerunHasLoop, StopsKnown
  <2>44. CASE UNCHANGED vars
    BY <2>44 DEF vars, process, durable, ProcessOK, RestOK, RerunHasLoop, StopsKnown
  <2> QED
    BY <2>1, <2>2, <2>3, <2>4, <2>5, <2>6, <2>7, <2>8, <2>9, <2>10, <2>11,
       <2>12, <2>13, <2>14, <2>15, <2>16, <2>17, <2>18, <2>19, <2>20, <2>21,
       <2>22, <2>23, <2>24, <2>25, <2>26, <2>27, <2>28, <2>29, <2>30, <2>31,
       <2>32, <2>33, <2>34, <2>35, <2>36, <2>37, <2>38, <2>39, <2>40, <2>41,
       <2>42, <2>43, <2>44
    DEF Next, Runner, Environment, Early, Edit, Verify, Final
<1> QED
  BY <1>1, <1>2, PTL DEF Spec

-----------------------------------------------------------------------------
(* Approval *)

\* Between the gate and the commit the run holds the content it is about.
GateHolds ==
    pc \in {"gate", "commit", "committing"} => mem.cand \in Content

\* Past the gate, that content is approved.
PastGateApproved ==
    pc \in {"commit", "committing"} /\ GateRequired =>
        gates[mem.cand] = "approved"

\* Inside the commit the checkout still is that content.
CommitsCandidate ==
    pc = "committing" => tree = mem.cand

ApprovedInv ==
    CommittedIsApproved /\ GateHolds /\ PastGateApproved /\ CommitsCandidate

\* A step to a point outside the gate and the commit that leaves the gates and
\* the branch alone.
LEMMA QuietApproved ==
    ASSUME ApprovedInv, UNCHANGED <<branch, gates>>,
           pc' \notin {"gate", "commit", "committing"}
    PROVE  ApprovedInv'
  BY DEF ApprovedInv, CommittedIsApproved, Committed, GateHolds,
         PastGateApproved, CommitsCandidate

\* Where each of the handlers before FINALIZE's gate can be afterwards.
LEMMA EarlyQuiet ==
    ASSUME Load \/ LoopTop \/ Early \/ StopSave \/ FinishCheckpoint
             \/ FinishSetState \/ Start \/ Crash
    PROVE  /\ pc' \notin {"gate", "commit", "committing"}
           /\ UNCHANGED <<branch, gates>>
<1> USE DEF StopWith, Move, Continue, SaveAndContinue, OtherUnchanged, TaskUnchanged
<1>1. CASE Load \/ StopSave \/ FinishCheckpoint \/ FinishSetState \/ Start \/ Crash
  BY <1>1 DEF Load, StopSave, FinishCheckpoint, FinishSetState, Start, Crash, durable
<1>2. CASE LoopTop
  BY <1>2 DEF LoopTop
<1>3. CASE Early
  BY <1>3 DEF Early, IntakePresets, IntakeBaseline, Decide, DecideFails,
              Localized, Impact, PlanRejected, PlanAccepted
<1> QED
  BY <1>1, <1>2, <1>3

LEMMA EditQuiet ==
    ASSUME TypeInv, Edit
    PROVE  /\ pc' \notin {"gate", "commit", "committing"}
           /\ UNCHANGED <<branch, gates>>
<1> USE DEF StopWith, Move, Continue, SaveAndContinue, OtherUnchanged,
            TaskUnchanged, SaveTranscript
<1>1. CASE EditEnter
  BY <1>1 DEF EditEnter
<1>2. CASE EditLeave
  <2>1. mem.edit.outcome \in {"open", "done", "exhausted", "stopped"}
    BY StateFields DEF TypeInv, TypeOK, Transcript
  <2> QED
    BY <1>2, <2>1 DEF EditLeave
<1>3. CASE \/ EngineOpen \/ EngineReconcile \/ EngineIntend \/ EngineApply
           \/ EngineRecord \/ EngineClose \/ EngineFails
  BY <1>3 DEF EngineOpen, EngineReconcile, EngineIntend, EngineApply,
              EngineRecord, EngineClose, EngineFails
<1> QED
  BY <1>1, <1>2, <1>3 DEF Edit

LEMMA VerifyQuiet ==
    ASSUME Verify
    PROVE  /\ pc' \notin {"gate", "commit", "committing"}
           /\ UNCHANGED <<branch, gates>>
<1> USE DEF StopWith, Move, Continue, OtherUnchanged, TaskUnchanged
<1>1. CASE VerifyExhausted \/ VerifyRun \/ VerifyRerun
  BY <1>1 DEF VerifyExhausted, VerifyRun, VerifyRerun
<1>2. CASE JudgeAccepts
  BY <1>2 DEF JudgeAccepts
<1>3. CASE JudgeRejects
  BY <1>3 DEF JudgeRejects
<1> QED
  BY <1>1, <1>2, <1>3 DEF Verify

\* Nothing reaches the task branch without a person's approval of exactly that
\* content: whatever crashes, retries, deadlines and edits from outside come in
\* between, as long as nobody edits the checkout inside the commit itself
\* (Worktree.Commit adds whatever the checkout holds).
THEOREM ApprovalPrecedesCommit ==
    ASSUME "committing" \notin DriftPoints
    PROVE  Spec => []CommittedIsApproved
<1>1. Init => ApprovedInv
  BY DEF Init, ApprovedInv, CommittedIsApproved, Committed, GateHolds,
         PastGateApproved, CommitsCandidate
<1>2. TypeInv /\ ApprovedInv /\ [Next]_vars => ApprovedInv'
  <2> SUFFICES ASSUME TypeInv, ApprovedInv, [Next]_vars
               PROVE  ApprovedInv'
    OBVIOUS
  <2>a. /\ mem \in State /\ tree \in Content /\ branch \in Content
        /\ gates \in [Content -> {"none", "pending", "approved", "rejected"}]
    BY DEF TypeInv, TypeOK
  <2>1. CASE Load \/ LoopTop \/ Early \/ StopSave \/ FinishCheckpoint
               \/ FinishSetState \/ Start \/ Crash
    BY <2>1, EarlyQuiet, QuietApproved
  <2>2. CASE Edit
    BY <2>2, EditQuiet, QuietApproved
  <2>3. CASE Verify
    BY <2>3, VerifyQuiet, QuietApproved
  <2>4. CASE \/ ReviewAccepts \/ ReviewRejects \/ FinalizeDrifted
             \/ FinalizeCard \/ FinalizeSecrets
    BY <2>4, QuietApproved
    DEF ReviewAccepts, ReviewRejects, FinalizeDrifted, FinalizeCard,
        FinalizeSecrets, StopWith, Move, Continue, OtherUnchanged, TaskUnchanged
  <2>5. CASE FinalizeCandidate
    <3>1. mem'.cand = tree
      BY <2>5, <2>a DEF FinalizeCandidate, SaveAndContinue, State
    <3>2. pc' = "gate" /\ UNCHANGED <<branch, gates>>
      BY <2>5 DEF FinalizeCandidate, SaveAndContinue, OtherUnchanged, TaskUnchanged
    <3> QED
      BY <2>a, <3>1, <3>2
      DEF ApprovedInv, CommittedIsApproved, Committed, GateHolds,
          PastGateApproved, CommitsCandidate
  <2>6. CASE FinalizeResume
    <3>1. mem.cand \in Content
      BY <2>6, <2>a, StateFields DEF FinalizeResume, Undrifted, VerifiedCandidate
    <3>2. pc' = "gate" /\ UNCHANGED <<branch, gates, mem>>
      BY <2>6 DEF FinalizeResume, Continue, OtherUnchanged, TaskUnchanged
    <3> QED
      BY <3>1, <3>2
      DEF ApprovedInv, CommittedIsApproved, Committed, GateHolds,
          PastGateApproved, CommitsCandidate
  <2>7. CASE FinalizeGate
    <3>1. mem.cand \in Content /\ UNCHANGED <<branch, tree, mem>>
      BY <2>7
      DEF FinalizeGate, StopWith, Continue, ApprovedInv, GateHolds
    <3>2. CommittedIsApproved'
      BY <2>7, <2>a, <3>1
      DEF FinalizeGate, ApprovedInv, CommittedIsApproved, Committed
    <3>3. \/ pc' = "stop"
          \/ /\ pc' = "commit"
             /\ GateRequired => gates'[mem.cand] = "approved"
      <4>1. gates'[mem.cand] \in {"none", "pending", "approved", "rejected"}
        BY <2>7, <2>a, <3>1 DEF FinalizeGate
      <4>2. GateRequired => gates'[mem.cand] # "none"
        BY <2>7, <2>a, <3>1 DEF FinalizeGate
      <4> QED
        BY <2>7, <4>1, <4>2 DEF FinalizeGate, StopWith, Continue
    <3> QED
      BY <3>1, <3>2, <3>3
      DEF ApprovedInv, GateHolds, PastGateApproved, CommitsCandidate
  <2>8. CASE FinalizeCheck
    <3>1. UNCHANGED <<branch, gates, tree, mem>>
      BY <2>8 DEF FinalizeCheck, StopWith, Continue, OtherUnchanged, TaskUnchanged
    <3>2. \/ pc' = "stop"
          \/ pc = "commit" /\ pc' = "committing" /\ tree = mem.cand
      BY <2>8 DEF FinalizeCheck, StopWith, Continue
    <3>a. GateHolds /\ PastGateApproved
      BY DEF ApprovedInv
    <3>3. CommittedIsApproved'
      BY <3>1 DEF ApprovedInv, CommittedIsApproved, Committed
    <3>4. CommitsCandidate' /\ GateHolds'
      BY <3>1, <3>2, <3>a DEF CommitsCandidate, GateHolds
    <3>5. PastGateApproved'
      BY <3>1, <3>2, <3>a DEF PastGateApproved
    <3> QED
      BY <3>3, <3>4, <3>5 DEF ApprovedInv
  <2>9. CASE FinalizeCommit
    <3>1. /\ pc = "committing" /\ pc' = "stop" /\ UNCHANGED gates
          /\ branch' \in {branch, tree}
      BY <2>9 DEF FinalizeCommit, StopWith, TaskUnchanged
    <3> QED
      BY <3>1
      DEF ApprovedInv, CommittedIsApproved, Committed, GateHolds,
          PastGateApproved, CommitsCandidate
  <2>10. CASE \E c \in Content : Answer(c)
    <3>1. UNCHANGED <<branch, tree, mem, pc>>
      BY <2>10 DEF Answer, process
    <3>2. \A c \in Content : gates[c] = "approved" => gates'[c] = "approved"
      BY <2>10, <2>a DEF Answer
    <3> QED
      BY <2>a, <3>1, <3>2
      DEF ApprovedInv, CommittedIsApproved, Committed, GateHolds,
          PastGateApproved, CommitsCandidate
  <2>11. CASE Drift
    <3>1. pc # "committing" /\ UNCHANGED <<branch, gates, mem, pc>>
      BY <2>11 DEF Drift, process
    <3> QED
      BY <3>1
      DEF ApprovedInv, CommittedIsApproved, Committed, GateHolds,
          PastGateApproved, CommitsCandidate
  <2>12. CASE Reopen \/ DeadlinePasses \/ UNCHANGED vars
    <3>1. UNCHANGED <<branch, gates, tree, mem, pc>>
      BY <2>12 DEF Reopen, DeadlinePasses, vars, process, durable
    <3> QED
      BY <3>1
      DEF ApprovedInv, CommittedIsApproved, Committed, GateHolds,
          PastGateApproved, CommitsCandidate
  <2> QED
    BY <2>1, <2>2, <2>3, <2>4, <2>5, <2>6, <2>7, <2>8, <2>9, <2>10, <2>11, <2>12
    DEF Next, Runner, Environment, Final
<1>3. ApprovedInv => CommittedIsApproved
  BY DEF ApprovedInv
<1> QED
  BY <1>1, <1>2, <1>3, TypeCorrect, PTL DEF Spec

-----------------------------------------------------------------------------
(* Verification *)

\* What every workflow state, in memory or saved, says about its results: they
\* are labelled with what they ran on, nothing is reviewed that did not pass,
\* and the final candidate is the verified content and the card.
Sound(s) ==
    /\ s.results.on = s.results.cand
    /\ s.phase \in {"REVIEW", "FINALIZE"} => s.results.status = "pass"
    /\ s.finalCand # None =>
         s.phase = "FINALIZE" /\ s.finalCand = Carded(s.results.on)

\* Where the run is, and what it holds there.
Placed ==
    /\ pc = "phase" => tree = mem.cand
    /\ pc \in {"rerun", "judge"} => mem.phase = "VERIFY"
    /\ pc \in {"engine", "tool", "tooled"} => mem.phase = "EDIT"
    /\ pc = "carded" => /\ mem.phase = "FINALIZE"
                        /\ mem.finalCand = None
                        /\ tree = Carded(mem.results.on)
    /\ pc \in {"gate", "commit", "committing"} =>
         mem.finalCand # None /\ mem.finalCand = mem.cand
    /\ pc = "committing" => tree = mem.cand

\* The final candidate in memory is the saved one.
Held ==
    pc \notin {"idle", "load"} =>
        /\ saved # None
        /\ saved.finalCand = mem.finalCand
        /\ mem.finalCand # None => saved.results = mem.results

Published == Committed => saved # None /\ saved.finalCand = branch

VerifiedInv ==
    Sound(mem) /\ (saved # None => Sound(saved)) /\ Placed /\ Held /\ Published

\* Two states that say the same about verification.
Agrees(s, t) ==
    s.phase = t.phase /\ s.results = t.results /\ s.finalCand = t.finalCand

LEMMA UpdatesAgree ==
    ASSUME NEW s \in State, NEW v
    PROVE  /\ Agrees([s EXCEPT !.cand = v], s)
           /\ Agrees([s EXCEPT !.presets = v], s)
           /\ Agrees([s EXCEPT !.tokensOut = v], s)
           /\ Agrees([s EXCEPT !.attempts = v], s)
           /\ Agrees([s EXCEPT !.replans = v], s)
           /\ Agrees([s EXCEPT !.loops = v], s)
           /\ Agrees([s EXCEPT !.regressed = v], s)
           /\ Agrees([s EXCEPT !.edit = v], s)
           /\ Agrees([s EXCEPT !.reviewed = v], s)
  BY DEF State, Agrees

LEMMA AgreesSound ==
    ASSUME NEW s, NEW t, Agrees(s, t), Sound(t)
    PROVE  Sound(s)
  BY DEF Agrees, Sound

\* The ways a handler ends or goes on keep the invariant.
LEMMA StopVerified ==
    ASSUME VerifiedInv, pc \notin {"idle", "load"}, UNCHANGED branch,
           NEW s, NEW st, NEW why, Agrees(s, mem), StopWith(s, st, why)
    PROVE  VerifiedInv'
<1>1. Sound(s)
  BY AgreesSound DEF VerifiedInv
<1> QED
  BY <1>1 DEF VerifiedInv, StopWith, Placed, Held, Published, Committed, Agrees

LEMMA ContinueVerified ==
    ASSUME VerifiedInv, pc \notin {"idle", "load"}, UNCHANGED branch,
           NEW s \in State, NEW p, Agrees(s, mem),
           Continue(s, p) \/ SaveAndContinue(s, p),
           \/ p \in {"top", "decided"}
           \/ p \in {"engine", "tool", "tooled"} /\ mem.phase = "EDIT"
           \/ p = "judge" /\ mem.phase = "VERIFY"
    PROVE  VerifiedInv'
<1>1. Sound(s)
  BY AgreesSound DEF VerifiedInv
<1>2. mem' = s /\ saved' \in {saved, s} /\ pc' = p
  BY DEF Continue, SaveAndContinue
<1>3. Placed'
  BY <1>2 DEF Placed, Agrees
<1>4. Held' /\ Published'
  BY <1>2, NoneAssumption DEF VerifiedInv, Held, Published, Committed, Agrees
<1> QED
  BY <1>1, <1>2, <1>3, <1>4 DEF VerifiedInv

LEMMA MoveVerified ==
    ASSUME VerifiedInv, pc \notin {"idle", "load"}, UNCHANGED branch,
           NEW s \in State, NEW next \in PhaseName, Agrees(s, mem), Move(s, next),
           next \in {"REVIEW", "FINALIZE"} => s.results.status = "pass"
    PROVE  VerifiedInv'
<1>1. CASE expired
  BY <1>1, StopVerified DEF Move
<1>2. CASE ~expired
  <2> DEFINE t == [s EXCEPT !.phase = next]
  <2>1. t.phase = next /\ t.results = s.results /\ t.finalCand = s.finalCand
    BY DEF State
  <2>2. mem' = t /\ saved' = t /\ pc' = "top"
    BY <1>2 DEF Move
  <2>3. s.phase # "FINALIZE"
    BY DEF Move, Transition
  <2>a. t # None
    BY SetPhase, NoneAssumption
  <2>4. Sound(s)
    BY AgreesSound DEF VerifiedInv
  <2> HIDE DEF t
  <2>5. Sound(t) /\ t.finalCand = None
    BY <2>1, <2>3, <2>4 DEF Sound
  <2>6. mem.finalCand = None
    BY <2>1, <2>5 DEF Agrees
  <2> QED
    BY <2>1, <2>2, <2>a, <2>5, <2>6
    DEF VerifiedInv, Placed, Held, Published, Committed
<1> QED
  BY <1>1, <1>2

\* What FINALIZE puts on the task branch is the content every frozen check
\* passed on, and the card: whatever crashes, deadlines, retries and edits from
\* outside come in between.  The presets must not rewrite the code, and nobody
\* may edit the checkout in the three windows where a handler relies on a
\* candidate it computed earlier: before the checks and the card are run, between
\* the card and its candidate, and inside the commit.
THEOREM VerificationPrecedesCommit ==
    ASSUME \A c \in Codes : Generate[c] = c,
           DriftPoints \cap {"phase", "carded", "committing"} = {}
    PROVE  Spec => []CommittedIsVerified
<1>1. Init => VerifiedInv
  <2> SUFFICES ASSUME Init PROVE VerifiedInv
    OBVIOUS
  <2>1. Sound(mem)
    BY DEF Init, Sound, InitialState, NoResults
  <2> QED
    BY <2>1 DEF Init, VerifiedInv, Placed, Held, Published, Committed
<1>2. TypeInv /\ VerifiedInv /\ [Next]_vars => VerifiedInv'
  <2> SUFFICES ASSUME TypeInv, VerifiedInv, [Next]_vars
               PROVE  VerifiedInv'
    OBVIOUS
  <2>a. /\ mem \in State /\ tree \in Content /\ branch \in Content
        /\ saved \in State \cup {None}
    BY DEF TypeInv, TypeOK
  <2>b. \A s \in State : \A st, why :
          /\ pc \notin {"idle", "load"} /\ UNCHANGED branch
          /\ Agrees(s, mem) /\ StopWith(s, st, why)
          => VerifiedInv'
    BY StopVerified
  <2>c. \A s \in State : \A p :
          /\ pc \notin {"idle", "load"} /\ UNCHANGED branch /\ Agrees(s, mem)
          /\ Continue(s, p) \/ SaveAndContinue(s, p)
          /\ \/ p \in {"top", "decided"}
             \/ p \in {"engine", "tool", "tooled"} /\ mem.phase = "EDIT"
             \/ p = "judge" /\ mem.phase = "VERIFY"
          => VerifiedInv'
    BY ContinueVerified
  <2>d. \A s \in State, next \in PhaseName :
          /\ pc \notin {"idle", "load"} /\ UNCHANGED branch /\ Agrees(s, mem)
          /\ Move(s, next)
          /\ next \in {"REVIEW", "FINALIZE"} => s.results.status = "pass"
          => VerifiedInv'
    BY MoveVerified
  <2>e. Agrees(mem, mem)
    BY DEF Agrees
  <2>f. \A v : /\ Agrees([mem EXCEPT !.cand = v], mem)
               /\ Agrees([mem EXCEPT !.presets = v], mem)
               /\ Agrees([mem EXCEPT !.tokensOut = v], mem)
               /\ Agrees([mem EXCEPT !.attempts = v], mem)
               /\ Agrees([mem EXCEPT !.replans = v], mem)
               /\ Agrees([mem EXCEPT !.loops = v], mem)
               /\ Agrees([mem EXCEPT !.regressed = v], mem)
               /\ Agrees([mem EXCEPT !.edit = v], mem)
               /\ Agrees([mem EXCEPT !.reviewed = v], mem)
    BY <2>a, UpdatesAgree
  <2>g. Regenerated(tree) = tree
    BY <2>a DEF Content, Regenerated
  <2>h. [mem EXCEPT !.edit = EmptyTranscript] \in State
    BY <2>a, EmptyTranscriptTyped, SetEdit
  <2>i. mem.replans < MaxReplans => [mem EXCEPT !.replans = @ + 1] \in State
    BY <2>a, SetCounters
  <2>j. mem.replans >= MaxReplans \/ mem.replans < MaxReplans
    BY <2>a, StateFields DEF MaxReplans
  <2>k. \A tr \in Transcript, p \in {"engine", "tool", "tooled"} :
          pc \in {"engine", "tool", "tooled"} /\ UNCHANGED branch
            /\ SaveTranscript(tr, p) => VerifiedInv'
    <3> SUFFICES ASSUME NEW tr \in Transcript, NEW p \in {"engine", "tool", "tooled"},
                        pc \in {"engine", "tool", "tooled"}, UNCHANGED branch,
                        SaveTranscript(tr, p)
                 PROVE  VerifiedInv'
      OBVIOUS
    <3>0. PICK out \in {mem.tokensOut, TRUE} :
            LET s == [[mem EXCEPT !.tokensOut = out] EXCEPT
                        !.edit = [tr EXCEPT !.cand = tree]]
            IN  StopWith(s, "blocked", "engine") \/ SaveAndContinue(s, p)
      BY DEF SaveTranscript
    <3> DEFINE spent == [mem EXCEPT !.tokensOut = out]
               s == [spent EXCEPT !.edit = [tr EXCEPT !.cand = tree]]
    <3>1. [tr EXCEPT !.cand = tree] \in Transcript
      BY <2>a DEF Transcript
    <3>a. spent \in State /\ Agrees(spent, mem)
      BY <2>a, <2>f, <3>0 DEF State
    <3>2. s \in State /\ Agrees(s, mem)
      <4> HIDE DEF spent
      <4> QED
        BY <3>1, <3>a, SetEdit, UpdatesAgree DEF Agrees
    <3>3. StopWith(s, "blocked", "engine") \/ SaveAndContinue(s, p)
      BY <3>0
    <3>4. mem.phase = "EDIT"
      BY DEF VerifiedInv, Placed
    <3> HIDE DEF s
    <3> QED
      BY <2>b, <2>c, <3>2, <3>3, <3>4
  <2>1. CASE Load
    <3>1. Sound(InitialState) /\ InitialState.finalCand = None
      BY DEF Sound, InitialState, NoResults
    <3>2. /\ mem' = (IF saved = None THEN InitialState ELSE saved)
          /\ saved' = mem' /\ pc' = "top" /\ UNCHANGED branch
      BY <2>1 DEF Load
    <3>3. mem' # None
      BY <3>2, InitialStateTyped, NoneAssumption
    <3> QED
      BY <3>1, <3>2, <3>3 DEF VerifiedInv, Placed, Held, Published, Committed
  <2>2. CASE LoopTop
    <3>1. [mem EXCEPT !.cand = tree] \in State
      BY <2>a, SetCand
    <3>2. CASE StopWith(mem, "blocked", "deadline") \/ StopWith(mem, "blocked", "tokens")
      BY <2>2, <2>a, <2>b, <2>e, <3>2 DEF LoopTop, OtherUnchanged
    <3>3. CASE Continue([mem EXCEPT !.cand = tree], "phase")
      <4> DEFINE s == [mem EXCEPT !.cand = tree]
      <4>1. Agrees(s, mem) /\ s.cand = tree
        BY <2>a, <2>f DEF State
      <4>2. /\ mem' = s /\ pc' = "phase" /\ UNCHANGED <<saved, branch, tree>>
            /\ pc = "top"
        BY <2>2, <3>3 DEF LoopTop, Continue, OtherUnchanged
      <4> HIDE DEF s
      <4>3. Sound(s)
        BY <4>1, AgreesSound DEF VerifiedInv
      <4> QED
        BY <4>1, <4>2, <4>3
        DEF VerifiedInv, Placed, Held, Published, Committed, Agrees
    <3> QED
      BY <2>2, <3>2, <3>3 DEF LoopTop
  <2>3. CASE IntakePresets
    <3>1. CASE StopWith(mem, "blocked", "environment")
      BY <2>3, <2>a, <2>b, <2>e, <3>1 DEF IntakePresets, AtPhase, OtherUnchanged
    <3>2. CASE SaveAndContinue([mem EXCEPT !.presets = TRUE], "phase")
      <4> DEFINE s == [mem EXCEPT !.presets = TRUE]
      <4>0. s \in State /\ s # None
        BY <2>a, SetFlags, NoneAssumption
      <4>1. Agrees(s, mem) /\ s.cand = mem.cand
        BY <2>a, <2>f DEF State
      <4>2. /\ mem' = s /\ saved' = s /\ pc' = "phase" /\ pc = "phase"
            /\ UNCHANGED <<branch, tree>>
        BY <2>3, <3>2 DEF IntakePresets, AtPhase, SaveAndContinue, OtherUnchanged
      <4> HIDE DEF s
      <4>3. Sound(s)
        BY <4>1, AgreesSound DEF VerifiedInv
      <4> QED
        BY <4>0, <4>1, <4>2, <4>3
        DEF VerifiedInv, Placed, Held, Published, Committed, Agrees
    <3> QED
      BY <2>3, <3>1, <3>2 DEF IntakePresets
  <2>4. CASE IntakeBaseline
    BY <2>4, <2>a, <2>b, <2>d, <2>e DEF IntakeBaseline, AtPhase, PhaseName
  <2>5. CASE Decide
    <3>1. PICK out \in {mem.tokensOut, TRUE} :
             LET s == [mem EXCEPT !.tokensOut = out]
             IN  SaveAndContinue(IF mem.phase = "REVIEW"
                                 THEN [s EXCEPT !.reviewed = tree] ELSE s, "decided")
      BY <2>5 DEF Decide
    <3> DEFINE s == [mem EXCEPT !.tokensOut = out]
               t == [s EXCEPT !.reviewed = tree]
    <3>2. s \in State /\ Agrees(s, mem)
      BY <2>a, <2>f, <3>1 DEF State
    <3>3. t \in State /\ Agrees(t, mem)
      <4> HIDE DEF s
      <4> QED
        BY <2>a, <3>2, SetReviewed, UpdatesAgree DEF Agrees
    <3>4. SaveAndContinue(s, "decided") \/ SaveAndContinue(t, "decided")
      BY <3>1
    <3> HIDE DEF s, t
    <3> QED
      BY <2>5, <2>c, <3>2, <3>3, <3>4 DEF Decide, AtPhase, OtherUnchanged
  <2>6. CASE DecideFails
    BY <2>6, <2>a, <2>b, <2>e DEF DecideFails, AtPhase, OtherUnchanged
  <2>7. CASE Localized \/ Impact
    BY <2>7, <2>a, <2>d, <2>e DEF Localized, Impact, AtPhase, OtherUnchanged, PhaseName
  <2>8. CASE PlanRejected
    BY <2>8, <2>a, <2>b, <2>c, <2>e, <2>f, <2>i, <2>j
    DEF PlanRejected, OtherUnchanged
  <2>9. CASE PlanAccepted
    BY <2>9, <2>a, <2>b, <2>d, <2>e, <2>f, <2>h
    DEF PlanAccepted, OtherUnchanged, PhaseName
  <2>10. CASE EditEnter
    <3>1. mem.attempts < MaxAttempts => [mem EXCEPT !.attempts = @ + 1] \in State
      BY <2>a, SetCounters
    <3>2. \/ StopWith(mem, "blocked", "transcript")
          \/ StopWith(mem, "failed", "attempts")
          \/ mem.attempts < MaxAttempts /\ Continue([mem EXCEPT !.attempts = @ + 1], "engine")
          \/ Continue(mem, "engine")
      BY <2>10 DEF EditEnter
    <3> QED
      BY <2>10, <2>a, <2>b, <2>c, <2>e, <2>f, <3>1, <3>2
      DEF EditEnter, AtPhase, OtherUnchanged
  <2>11. CASE EngineOpen \/ EngineReconcile \/ EngineIntend \/ EngineRecord \/ EngineClose
    <3>1. PICK tr \in Transcript, p \in {"engine", "tool"} : SaveTranscript(tr, p)
      <4>1. mem.edit \in Transcript
        BY <2>a, StateFields
      <4>2. /\ [mem.edit EXCEPT !.msgs = 2] \in Transcript
            /\ [mem.edit EXCEPT !.pending = FALSE] \in Transcript
            /\ \A o \in {"open", "done", "stopped", "exhausted"} :
                 /\ [mem.edit EXCEPT !.outcome = o] \in Transcript
                 /\ [mem.edit EXCEPT !.pending = FALSE, !.outcome = o] \in Transcript
        BY <4>1 DEF Transcript
      <4>3. mem.edit.tools < MaxTools => mem.edit.tools + 1 \in 0..MaxTools
        BY <4>1, BudgetAssumption DEF Transcript
      <4>4. mem.edit.tools < MaxTools =>
              [mem.edit EXCEPT !.pending = TRUE, !.msgs = 3, !.tools = @ + 1]
                \in Transcript
        BY <4>1, <4>3 DEF Transcript
      <4> QED
        BY <2>11, <4>2, <4>4
        DEF EngineOpen, EngineReconcile, EngineIntend, EngineRecord, EngineClose
    <3>2. pc \in {"engine", "tool", "tooled"} /\ UNCHANGED branch
      BY <2>11
      DEF EngineOpen, EngineReconcile, EngineIntend, EngineRecord, EngineClose,
          OtherUnchanged
    <3> QED
      BY <2>k, <3>1, <3>2
  <2>12. CASE EngineApply
    <3>1. mem.phase = "EDIT"
      BY <2>12 DEF EngineApply, VerifiedInv, Placed
    <3> QED
      BY <2>12, <2>a, <2>c, <2>e, <3>1 DEF EngineApply
  <2>13. CASE EngineFails
    BY <2>13, <2>a, <2>b, <2>e DEF EngineFails, OtherUnchanged
  <2>14. CASE EditLeave
    <3>1. mem.edit.outcome \in {"open", "done", "exhausted", "stopped"}
      BY <2>a, StateFields DEF Transcript
    <3>2. \/ Move(mem, "VERIFY")
          \/ StopWith(mem, "blocked", "incomplete")
          \/ StopWith(mem, "blocked", "engine")
          \/ mem.replans < MaxReplans /\ Move([mem EXCEPT !.replans = @ + 1], "PLAN")
      <4>1. CASE mem.edit.outcome = "done"
        BY <2>14, <4>1 DEF EditLeave
      <4>2. CASE mem.edit.outcome = "stopped"
        BY <2>14, <4>2 DEF EditLeave
      <4>3. CASE mem.edit.outcome = "exhausted"
        BY <2>14, <2>j, <4>3 DEF EditLeave
      <4> QED
        BY <2>14, <3>1, <4>1, <4>2, <4>3 DEF EditLeave
    <3> QED
      BY <2>14, <2>a, <2>b, <2>d, <2>e, <2>f, <2>i, <3>2
      DEF EditLeave, OtherUnchanged, PhaseName
  <2>15. CASE VerifyExhausted
    BY <2>15, <2>a, <2>b, <2>e DEF VerifyExhausted, AtPhase, OtherUnchanged
  <2>16. CASE VerifyRun
    <3>1. PICK status \in {"pass", "fail", "skipped", "environment"} :
            LET s == [[mem EXCEPT !.loops = @ + 1] EXCEPT !.results =
                        [cand |-> mem.cand, status |-> status, on |-> tree']]
            IN \/ StopWith(s, "blocked", "environment")
               \/ Continue(s, "rerun")
               \/ Continue(s, "judge")
      BY <2>16 DEF VerifyRun
    <3> DEFINE res == [cand |-> mem.cand, status |-> status, on |-> tree']
               s == [[mem EXCEPT !.loops = @ + 1] EXCEPT !.results = res]
    <3>2. /\ s.phase = mem.phase /\ s.results = res
          /\ s.finalCand = mem.finalCand
      BY <2>a DEF State
    <3>3. /\ mem' = s /\ UNCHANGED <<saved, branch>>
          /\ pc' \in {"stop", "rerun", "judge"} /\ pc = "phase"
          /\ mem.phase = "VERIFY" /\ tree' = tree
      BY <2>16, <2>g, <3>1 DEF VerifyRun, AtPhase, StopWith, Continue
    <3>4. tree = mem.cand /\ mem.finalCand = None
      BY <3>3 DEF VerifiedInv, Placed, Sound
    <3>5. res.on = res.cand
      BY <3>3, <3>4
    <3> HIDE DEF s, res
    <3>6. Sound(s)
      BY <3>2, <3>3, <3>4, <3>5 DEF Sound
    <3> QED
      BY <3>2, <3>3, <3>4, <3>6
      DEF VerifiedInv, Placed, Held, Published, Committed
  <2>17. CASE VerifyRerun
    <3>1. PICK status \in {"pass", "fail", "skipped", "environment"} :
            LET s == [mem EXCEPT !.loops = @ + 1]
                rerun == [cand |-> mem.cand, status |-> status, on |-> tree']
            IN \/ StopWith(s, "blocked", "environment")
               \/ tree' = mem.cand /\ Continue([s EXCEPT !.results = rerun], "judge")
               \/ Continue(s, "judge")
      BY <2>17 DEF VerifyRerun
    <3> DEFINE s == [mem EXCEPT !.loops = @ + 1]
               res == [cand |-> mem.cand, status |-> status, on |-> tree']
               t == [s EXCEPT !.results = res]
    <3>2. /\ s.phase = mem.phase /\ s.results = mem.results
          /\ s.finalCand = mem.finalCand
          /\ t.phase = mem.phase /\ t.results = res
          /\ t.finalCand = mem.finalCand
      BY <2>a DEF State
    <3>a. \/ StopWith(s, "blocked", "environment")
          \/ tree' = mem.cand /\ Continue(t, "judge")
          \/ Continue(s, "judge")
      BY <3>1
    <3>3. /\ mem' = s \/ (mem' = t /\ tree' = mem.cand)
          /\ UNCHANGED <<saved, branch>>
          /\ pc' \in {"stop", "judge"} /\ pc = "rerun"
      <4> HIDE DEF s, res, t
      <4> QED
        BY <2>17, <3>a DEF VerifyRerun, StopWith, Continue
    <3>4. mem.phase = "VERIFY" /\ mem.finalCand = None
      BY <3>3 DEF VerifiedInv, Placed, Sound
    <3>5. res.on = tree' /\ res.cand = mem.cand
      OBVIOUS
    <3> HIDE DEF s, res, t
    <3>6. Sound(mem') /\ mem'.phase = "VERIFY" /\ mem'.finalCand = None
      BY <3>2, <3>3, <3>4, <3>5 DEF Sound, VerifiedInv
    <3> QED
      BY <3>3, <3>4, <3>6
      DEF VerifiedInv, Placed, Held, Published, Committed
  <2>18. CASE JudgeAccepts
    BY <2>18, <2>a, <2>b, <2>d, <2>e, <2>f, <2>i, <2>j
    DEF JudgeAccepts, Meets, OtherUnchanged, PhaseName
  <2>19. CASE JudgeRejects
    <3>1. PICK regressed \in {mem.regressed, TRUE}, relocalize \in BOOLEAN :
            LET s == [mem EXCEPT !.regressed = regressed]
                cleared == [s EXCEPT !.edit = EmptyTranscript]
            IN \/ StopWith(s, "failed", "repair")
               \/ Move(cleared, "EDIT")
               \/ StopWith(cleared, "failed", "replans")
               \/ /\ ~(mem.replans >= MaxReplans)
                  /\ Move([cleared EXCEPT !.replans = @ + 1], "LOCALIZE")
      BY <2>19 DEF JudgeRejects
    <3> DEFINE s == [mem EXCEPT !.regressed = regressed]
               cleared == [s EXCEPT !.edit = EmptyTranscript]
               counted == [cleared EXCEPT !.replans = @ + 1]
    <3>2. s \in State /\ Agrees(s, mem)
      BY <2>a, <2>f, <3>1 DEF State
    <3>3. cleared \in State /\ cleared.replans = mem.replans
      BY <2>a, <3>2, EmptyTranscriptTyped, SetEdit DEF State
    <3>4. Agrees(cleared, mem)
      <4> HIDE DEF s
      <4> QED
        BY <3>2, UpdatesAgree DEF Agrees
    <3>5. ~(mem.replans >= MaxReplans) => counted \in State
      <4> HIDE DEF cleared
      <4> QED
        BY <2>j, <3>3, SetCounters
    <3>6. Agrees(counted, mem)
      <4> HIDE DEF cleared
      <4> QED
        BY <3>3, <3>4, UpdatesAgree DEF Agrees
    <3>7. \/ StopWith(s, "failed", "repair")
          \/ Move(cleared, "EDIT")
          \/ StopWith(cleared, "failed", "replans")
          \/ ~(mem.replans >= MaxReplans) /\ Move(counted, "LOCALIZE")
      BY <3>1
    <3>8. pc = "judge" /\ UNCHANGED branch
      BY <2>19 DEF JudgeRejects
    <3> HIDE DEF s, cleared, counted
    <3> QED
      BY <2>b, <2>d, <3>2, <3>3, <3>4, <3>5, <3>6, <3>7, <3>8 DEF PhaseName
  <2>20. CASE ReviewAccepts
    <3>1. mem.results.status = "pass"
      BY <2>20 DEF ReviewAccepts, VerifiedInv, Sound
    <3> QED
      BY <2>20, <2>a, <2>d, <2>e, <3>1 DEF ReviewAccepts, OtherUnchanged, PhaseName
  <2>21. CASE ReviewRejects
    <3> DEFINE s == Unreviewed(mem)
               t == [s EXCEPT !.edit = EmptyTranscript]
    <3>1. s \in State /\ Agrees(s, mem)
      BY <2>a, <2>f, SetReviewed DEF Unreviewed
    <3>2. t \in State /\ Agrees(t, mem)
      <4> HIDE DEF s
      <4> QED
        BY <3>1, EmptyTranscriptTyped, SetEdit, UpdatesAgree DEF Agrees
    <3>3. StopWith(s, "failed", "review") \/ Move(t, "EDIT")
      BY <2>21 DEF ReviewRejects
    <3> HIDE DEF s, t
    <3> QED
      BY <2>21, <2>b, <2>d, <3>1, <3>2, <3>3 DEF ReviewRejects, OtherUnchanged, PhaseName
  <2>22. CASE FinalizeDrifted \/ FinalizeSecrets
    BY <2>22, <2>a, <2>b, <2>e
    DEF FinalizeDrifted, FinalizeSecrets, AtPhase, OtherUnchanged
  <2>23. CASE FinalizeCard
    <3>1. CASE StopWith(mem, "blocked", "memory")
      BY <2>23, <2>a, <2>b, <2>e, <3>1 DEF FinalizeCard, AtPhase
    <3>2. CASE tree' = [tree EXCEPT !.card = TRUE] /\ Continue(mem, "carded")
      <4>1. /\ pc = "phase" /\ pc' = "carded" /\ mem.phase = "FINALIZE"
            /\ mem.finalCand = None /\ mem.results.cand = mem.cand
            /\ UNCHANGED <<mem, saved, branch>>
        BY <2>23, <3>2
        DEF FinalizeCard, AtPhase, Continue, Undrifted, VerifiedCandidate
      <4>2. tree' = Carded(mem.results.on)
        BY <3>2, <4>1 DEF VerifiedInv, Placed, Sound, Carded
      <4> QED
        BY <4>1, <4>2 DEF VerifiedInv, Placed, Held, Published, Committed
    <3> QED
      BY <2>23, <3>1, <3>2 DEF FinalizeCard
  <2>24. CASE FinalizeCandidate
    <3> DEFINE s == [mem EXCEPT !.finalCand = tree, !.cand = tree]
    <3>1. /\ s.finalCand = tree /\ s.cand = tree /\ s.phase = mem.phase
          /\ s.results = mem.results
      BY <2>a DEF State
    <3>2. s # None /\ tree # None /\ branch # None
      BY <2>a, SetFinalCand, NoneAssumption
    <3>3. /\ pc = "carded" /\ pc' = "gate" /\ mem' = s /\ saved' = s
          /\ UNCHANGED <<branch, tree>>
      BY <2>24 DEF FinalizeCandidate, SaveAndContinue, OtherUnchanged
    <3> HIDE DEF s
    <3>4. /\ mem.phase = "FINALIZE" /\ mem.finalCand = None
          /\ tree = Carded(mem.results.on)
      BY <3>3 DEF VerifiedInv, Placed
    <3>5. Sound(s)
      BY <3>1, <3>4 DEF VerifiedInv, Sound
    <3>6. ~Committed
      BY <3>2, <3>3, <3>4 DEF VerifiedInv, Published, Held
    <3> QED
      BY <3>1, <3>2, <3>3, <3>4, <3>5, <3>6
      DEF VerifiedInv, Placed, Held, Published, Committed
  <2>25. CASE FinalizeResume
    <3>1. /\ pc = "phase" /\ pc' = "gate" /\ UNCHANGED <<mem, saved, branch, tree>>
          /\ mem.finalCand # None /\ mem.finalCand = mem.cand
      BY <2>25
      DEF FinalizeResume, AtPhase, Continue, OtherUnchanged, Undrifted, VerifiedCandidate
    <3> QED
      BY <3>1 DEF VerifiedInv, Placed, Held, Published, Committed
  <2>26. CASE FinalizeGate \/ FinalizeCheck
    <3>1. /\ pc \in {"gate", "commit"} /\ pc' \in {"commit", "committing", "stop"}
          /\ pc' = "committing" => tree = mem.cand
          /\ UNCHANGED <<mem, saved, branch, tree>>
      BY <2>26 DEF FinalizeGate, FinalizeCheck, StopWith, Continue, OtherUnchanged
    <3> QED
      BY <3>1 DEF VerifiedInv, Placed, Held, Published, Committed
  <2>27. CASE FinalizeCommit
    <3>1. /\ pc = "committing" /\ pc' = "stop" /\ branch' \in {branch, tree}
          /\ UNCHANGED <<mem, saved, tree>>
      BY <2>27 DEF FinalizeCommit, StopWith
    <3>2. saved # None /\ saved.finalCand = tree
      BY <3>1 DEF VerifiedInv, Placed, Held
    <3> QED
      BY <3>1, <3>2 DEF VerifiedInv, Placed, Held, Published, Committed
  <2>28. CASE StopSave
    <3>1. mem # None
      BY <2>a, NoneAssumption
    <3> QED
      BY <2>28, <3>1 DEF StopSave, VerifiedInv, Placed, Held, Published, Committed
  <2>29. CASE FinishCheckpoint
    BY <2>29 DEF FinishCheckpoint, VerifiedInv, Placed, Held, Published, Committed
  <2>30. CASE FinishSetState \/ Crash
    <3>1. /\ mem' = InitialState /\ pc' = "idle" /\ UNCHANGED <<saved, branch>>
      BY <2>30 DEF FinishSetState, Crash, durable
    <3>2. Sound(InitialState)
      BY DEF Sound, InitialState, NoResults
    <3> QED
      BY <3>1, <3>2 DEF VerifiedInv, Placed, Held, Published, Committed
  <2>31. CASE Start
    BY <2>31 DEF Start, VerifiedInv, Placed, Held, Published, Committed
  <2>32. CASE Drift
    <3>1. pc \notin {"phase", "carded", "committing"}
      BY <2>32 DEF Drift
    <3>2. UNCHANGED <<pc, mem, saved, branch>>
      BY <2>32 DEF Drift, process
    <3> QED
      BY <3>1, <3>2 DEF VerifiedInv, Placed, Held, Published, Committed
  <2>33. CASE Reopen \/ DeadlinePasses \/ (\E c \in Content : Answer(c)) \/ UNCHANGED vars
    <3>1. UNCHANGED <<pc, mem, saved, branch, tree>>
      BY <2>33 DEF Reopen, DeadlinePasses, Answer, vars, process, durable
    <3> QED
      BY <3>1 DEF VerifiedInv, Placed, Held, Published, Committed
  <2> QED
    BY <2>1, <2>2, <2>3, <2>4, <2>5, <2>6, <2>7, <2>8, <2>9, <2>10, <2>11,
       <2>12, <2>13, <2>14, <2>15, <2>16, <2>17, <2>18, <2>19, <2>20, <2>21,
       <2>22, <2>23, <2>24, <2>25, <2>26, <2>27, <2>28, <2>29, <2>30, <2>31,
       <2>32, <2>33
    DEF Next, Runner, Environment, Early, Edit, Verify, Final
<1>3. TypeInv /\ VerifiedInv => CommittedIsVerified
  <2> SUFFICES ASSUME TypeInv, VerifiedInv, Committed
               PROVE  /\ saved # None /\ saved.results.status = "pass"
                      /\ branch = Carded(saved.results.on)
    BY DEF CommittedIsVerified
  <2>1. branch # None
    BY NoneAssumption DEF TypeInv, TypeOK
  <2> QED
    BY <2>1 DEF VerifiedInv, Published, Sound
<1> QED
  BY <1>1, <1>2, <1>3, TypeCorrect, PTL DEF Spec

-----------------------------------------------------------------------------
(* What one step of a handler does *)

\* The steps of a process that has loaded its workflow state and is not done.
Handler ==
    LoopTop \/ Early \/ Edit \/ Verify \/ Final \/ StopSave \/ FinishCheckpoint

\* The phase the run is in at the points inside a handler.
Placing ==
    /\ pc \in {"rerun", "judge"} => mem.phase = "VERIFY"
    /\ pc \in {"engine", "tool", "tooled"} => mem.phase = "EDIT"
    /\ pc \in {"carded", "gate", "commit", "committing"} => mem.phase = "FINALIZE"
    /\ pc = "carded" => mem.finalCand = None

\* t has spent at least what s has.
Spent(s, t) ==
    /\ t.attempts >= s.attempts
    /\ t.replans >= s.replans
    /\ t.loops >= s.loops
    /\ s.regressed => t.regressed

\* Nothing is given back, and what is saved is what is in memory.
Spends == Spent(mem, mem') /\ saved' \in {saved, mem'}

\* A phase is left by a saved move to the top of the loop; EDIT starts from an
\* empty transcript, and FINALIZE is entered on REVIEW's verdict only.
Moves ==
    mem'.phase # mem.phase =>
        /\ saved' = mem' /\ pc' = "top" /\ mem.phase # "FINALIZE"
        /\ mem'.phase = "EDIT" => mem'.edit = EmptyTranscript
        /\ mem'.phase = "FINALIZE" =>
              /\ pc = "decided" /\ mem.phase = "REVIEW"
              /\ mem'.reviewed = mem.reviewed /\ tree' = tree

\* FINALIZE touches neither the verdict nor the results, and its candidate is
\* recorded in one place.
Finals ==
    /\ mem.phase = "FINALIZE" =>
          mem'.reviewed = mem.reviewed /\ mem'.results = mem.results
    /\ mem'.finalCand # mem.finalCand =>
          /\ pc = "carded" /\ pc' = "gate" /\ saved' = mem'
          /\ mem'.finalCand = tree /\ mem'.cand = tree /\ tree' = tree

\* A transcript is stamped with the checkout, and saved as pending before a tool
\* call touches it.
Edits ==
    /\ mem.phase = "EDIT" /\ mem'.phase = "EDIT" =>
          mem'.edit = mem.edit \/ mem'.edit.cand = tree
    /\ pc' = "tool" => saved' = mem' /\ mem'.edit.pending
    /\ pc' = "tooled" => pc = "tool" /\ UNCHANGED <<mem, saved>>

\* Who writes the checkout: the pending tool call, the handlers of INTAKE and
\* VERIFY, and FINALIZE the card.
Writes ==
    tree' # tree =>
        \/ pc = "tool" /\ pc' = "tooled"
        \/ /\ mem.phase \in {"INTAKE", "VERIFY"}
           /\ mem'.phase \notin {"EDIT", "REVIEW", "FINALIZE"}
        \/ pc = "phase" /\ pc' = "carded" /\ mem.phase = "FINALIZE"

\* What a handler knows at the point it goes on at.
Stands ==
    /\ pc' = "phase" =>
          /\ tree' = tree
          /\ mem'.cand = tree \/ (pc = "phase" /\ mem'.cand = mem.cand)
    /\ pc' = "decided" =>
          tree' = tree /\ (mem'.phase = "REVIEW" => mem'.reviewed = tree)
    /\ pc' = "carded" =>
          pc = "phase" /\ UNCHANGED <<mem, saved>> /\ tree' = Carded(tree)
    /\ pc' = "gate" =>
          /\ tree' = tree
          /\ \/ pc = "carded" /\ mem'.finalCand = tree /\ mem'.cand = tree
             \/ mem' = mem /\ mem.finalCand # None /\ mem.finalCand = mem.cand
    /\ pc' = "commit" => pc = "gate" /\ UNCHANGED <<mem, tree>>
    /\ pc' = "committing" =>
          pc = "commit" /\ UNCHANGED <<mem, tree>> /\ tree = mem.cand

\* The branch is written by the commit, with what the checkout holds.
Publishes ==
    branch' # branch =>
        pc = "committing" /\ branch' = tree /\ UNCHANGED <<mem, saved, tree>>

\* A drifted transcript is reported where EDIT finds one.
Complains ==
    reason' = "transcript" =>
        \/ reason = "transcript"
        \/ /\ pc = "phase" /\ mem.phase = "EDIT" /\ ~mem.edit.pending
           /\ mem.edit.cand # None /\ mem.edit.cand # mem.cand

Effect ==
    /\ pc \notin {"idle", "load"} /\ Placing'
    /\ Spends /\ Moves /\ Finals /\ Edits /\ Writes /\ Stands /\ Publishes /\ Complains

\* A final candidate is FINALIZE's.
AtEnd(s) == s.finalCand # None => s.phase = "FINALIZE"

\* t may follow s in the saved state.
Follows(s, t) ==
    /\ Spent(s, t)
    /\ s.finalCand # None =>
          /\ t.finalCand = s.finalCand
          /\ t.results = s.results
          /\ t.phase = "FINALIZE"

ProgressInv ==
    /\ Placing
    /\ AtEnd(mem)
    /\ saved # None => AtEnd(saved)
    /\ pc \notin {"idle", "load"} => saved # None /\ Follows(saved, mem)

\* A saved or held transcript that is not in the middle of a tool call describes
\* the checkout.
Describes(s) ==
    s.phase = "EDIT" /\ ~s.edit.pending /\ s.edit.cand # None => s.edit.cand = tree

\* What FINALIZE is about is what the verdict was given on, and the card.
Reviewed(s) ==
    /\ s.phase = "FINALIZE" /\ s.finalCand = None =>
          s.reviewed # None /\ Carded(s.reviewed) = Carded(tree)
    /\ s.finalCand # None =>
          s.reviewed # None /\ s.finalCand = Carded(s.reviewed)

SoloInv ==
    /\ Describes(mem) /\ Reviewed(mem)
    /\ saved # None => Describes(saved) /\ Reviewed(saved)
    /\ pc \notin {"idle", "load"} =>
          saved.phase = mem.phase /\ saved.finalCand = mem.finalCand
    /\ pc = "phase" => mem.cand = tree
    /\ pc \in {"tool", "tooled"} => mem.edit.pending /\ saved.edit.pending
    /\ pc = "decided" /\ mem.phase = "REVIEW" => mem.reviewed = tree
    /\ pc = "carded" => tree = Carded(mem.reviewed)
    /\ pc \in {"gate", "commit", "committing"} =>
          mem.finalCand # None /\ mem.finalCand = mem.cand
    /\ pc = "committing" => tree = mem.cand
    /\ Committed => saved # None /\ saved.finalCand = branch
    /\ reason # "transcript"

\* What a handler may make of the state in memory without leaving its phase.
Keeps(s) ==
    /\ Spent(mem, s)
    /\ s.phase = mem.phase /\ s.finalCand = mem.finalCand
    /\ mem.phase = "FINALIZE" => s.reviewed = mem.reviewed /\ s.results = mem.results
    /\ mem.phase = "EDIT" => s.edit = mem.edit \/ s.edit.cand = tree

\* The updates the handlers make keep to it.
LEMMA UpdatesKeep ==
    ASSUME mem \in State
    PROVE  /\ Keeps(mem)
           /\ \A v : /\ Keeps([mem EXCEPT !.cand = v])
                     /\ Keeps([mem EXCEPT !.presets = v])
                     /\ Keeps([mem EXCEPT !.tokensOut = v])
                     /\ mem.phase # "EDIT" => Keeps([mem EXCEPT !.edit = v])
                     /\ mem.phase # "FINALIZE" => Keeps([mem EXCEPT !.reviewed = v])
           /\ Keeps([mem EXCEPT !.attempts = @ + 1])
           /\ Keeps([mem EXCEPT !.replans = @ + 1])
           /\ Keeps([mem EXCEPT !.loops = @ + 1])
           /\ \A r \in {mem.regressed, TRUE} : Keeps([mem EXCEPT !.regressed = r])
<1>1. mem.attempts \in Nat /\ mem.replans \in Nat /\ mem.loops \in Nat
  BY StateFields, BudgetAssumption DEF MaxReplans, MaxVerifyLoops
<1> QED
  BY <1>1 DEF State, Keeps, Spent

\* The four ways a handler ends or goes on, seen as effects.
LEMMA StopEffect ==
    ASSUME Placing, pc \notin {"idle", "load"}, UNCHANGED branch,
           tree' = tree \/ mem.phase \in {"INTAKE", "VERIFY"},
           NEW s \in State, NEW st, NEW why, why # "transcript",
           Keeps(s), StopWith(s, st, why)
    PROVE  Effect
<1>1. mem' = s /\ saved' = saved /\ pc' = "stop" /\ reason' = why
  BY DEF StopWith
<1>2. Placing' /\ Spends /\ Moves /\ Finals
  BY <1>1 DEF Placing, Spends, Moves, Finals, Keeps
<1>3. Edits /\ Writes /\ Stands /\ Publishes /\ Complains
  BY <1>1 DEF Edits, Writes, Stands, Publishes, Complains, Keeps
<1> QED
  BY <1>2, <1>3 DEF Effect

LEMMA MoveEffect ==
    ASSUME Placing, pc \notin {"idle", "load"}, UNCHANGED branch,
           NEW s \in State, NEW next \in PhaseName, Keeps(s), Move(s, next),
           \/ tree' = tree
           \/ /\ mem.phase \in {"INTAKE", "VERIFY"}
              /\ next \notin {"EDIT", "REVIEW", "FINALIZE"},
           next = "EDIT" => s.edit = EmptyTranscript,
           next = "FINALIZE" => pc = "decided" /\ s.reviewed = mem.reviewed
    PROVE  Effect
<1>1. CASE expired
  <2>1. StopWith(s, "blocked", "save")
    BY <1>1 DEF Move
  <2> QED
    BY <2>1, StopEffect
<1>2. CASE ~expired
  <2> DEFINE t == [s EXCEPT !.phase = next]
  <2>1. /\ t.phase = next /\ t.results = s.results /\ t.finalCand = s.finalCand
        /\ t.reviewed = s.reviewed /\ t.edit = s.edit
        /\ t.attempts = s.attempts /\ t.replans = s.replans /\ t.loops = s.loops
        /\ t.regressed = s.regressed
    BY DEF State
  <2>2. /\ mem' = t /\ saved' = t /\ pc' = "top" /\ reason' = reason
    BY <1>2 DEF Move
  <2>3. /\ s.phase # "FINALIZE" /\ s.phase # next
        /\ next = "FINALIZE" => s.phase = "REVIEW"
    <3>1. s.phase \in PhaseName /\ next \in Transition[s.phase]
      BY StateFields DEF Move
    <3> QED
      BY <3>1 DEF Transition, PhaseName
  <2>a. next = "FINALIZE" => tree' = tree
    OBVIOUS
  <2> HIDE DEF t
  <2>4. Placing' /\ Spends /\ Moves /\ Finals
    BY <2>1, <2>2, <2>3, <2>a DEF Placing, Spends, Spent, Moves, Finals, Keeps
  <2>5. Edits /\ Writes /\ Stands /\ Publishes /\ Complains
    BY <2>1, <2>2, <2>3 DEF Edits, Writes, Stands, Publishes, Complains, Keeps
  <2> QED
    BY <2>4, <2>5 DEF Effect
<1> QED
  BY <1>1, <1>2

LEMMA ContinueEffect ==
    ASSUME Placing, pc \notin {"idle", "load"}, UNCHANGED branch,
           tree' = tree \/ mem.phase \in {"INTAKE", "VERIFY"},
           NEW s \in State, NEW p, Keeps(s), Continue(s, p) \/ SaveAndContinue(s, p),
           \/ p = "top"
           \/ p = "engine" /\ mem.phase = "EDIT"
           \/ p \in {"rerun", "judge"} /\ mem.phase = "VERIFY"
    PROVE  Effect
<1>1. mem' = s /\ saved' \in {saved, s} /\ pc' = p /\ reason' = reason
  BY DEF Continue, SaveAndContinue
<1>2. Placing' /\ Spends /\ Moves /\ Finals
  BY <1>1 DEF Placing, Spends, Moves, Finals, Keeps
<1>3. Edits /\ Writes /\ Stands /\ Publishes /\ Complains
  BY <1>1 DEF Edits, Writes, Stands, Publishes, Complains, Keeps
<1> QED
  BY <1>2, <1>3 DEF Effect

\* A transcript saved by the engine.
LEMMA TranscriptEffect ==
    ASSUME TypeInv, Placing, pc \in {"engine", "tooled"}, OtherUnchanged,
           NEW tr \in Transcript, NEW p, SaveTranscript(tr, p),
           p = "engine" \/ (p = "tool" /\ tr.pending)
    PROVE  Effect
<1>0. PICK out \in {mem.tokensOut, TRUE} :
        LET s == [[mem EXCEPT !.tokensOut = out] EXCEPT
                    !.edit = [tr EXCEPT !.cand = tree]]
        IN  StopWith(s, "blocked", "engine") \/ SaveAndContinue(s, p)
  BY DEF SaveTranscript
<1> DEFINE spent == [mem EXCEPT !.tokensOut = out]
           new == [tr EXCEPT !.cand = tree]
           s == [spent EXCEPT !.edit = new]
<1>a. mem \in State /\ tree \in Content /\ mem.phase = "EDIT"
  BY DEF TypeInv, TypeOK, Placing
<1>1. new \in Transcript /\ new.cand = tree /\ new.pending = tr.pending
  BY <1>a DEF Transcript
<1>2. spent \in State /\ Keeps(spent)
  BY <1>0, <1>a, UpdatesKeep DEF State
<1>3. s \in State /\ s.edit = new /\ s.phase = spent.phase /\ s.finalCand = spent.finalCand
      /\ Spent(spent, s)
  <2> HIDE DEF new, spent
  <2>1. spent.attempts \in Nat /\ spent.replans \in Nat /\ spent.loops \in Nat
    BY <1>2, StateFields, BudgetAssumption DEF MaxReplans, MaxVerifyLoops
  <2> QED
    BY <1>1, <1>2, <2>1, SetEdit DEF State, Spent
<1>4. StopWith(s, "blocked", "engine") \/ SaveAndContinue(s, p)
  BY <1>0
<1> HIDE DEF s, new, spent
<1>5. Keeps(s)
  <2>1. /\ mem.attempts \in Nat /\ mem.replans \in Nat /\ mem.loops \in Nat
        /\ s.attempts \in Nat /\ s.replans \in Nat /\ s.loops \in Nat
        /\ spent.attempts \in Nat /\ spent.replans \in Nat /\ spent.loops \in Nat
    BY <1>a, <1>2, <1>3, StateFields, BudgetAssumption DEF MaxReplans, MaxVerifyLoops
  <2> QED
    BY <1>a, <1>1, <1>2, <1>3, <2>1 DEF Keeps, Spent
<1>6. UNCHANGED <<branch, tree>>
  BY DEF OtherUnchanged
<1>7. CASE StopWith(s, "blocked", "engine")
  BY <1>3, <1>5, <1>6, <1>7, StopEffect
<1>8. CASE SaveAndContinue(s, "engine")
  BY <1>a, <1>3, <1>5, <1>6, <1>8, ContinueEffect
<1>9. CASE SaveAndContinue(s, "tool") /\ tr.pending
  <2>1. mem' = s /\ saved' = s /\ pc' = "tool" /\ reason' = reason
    BY <1>9 DEF SaveAndContinue
  <2>2. Placing' /\ Spends /\ Moves /\ Finals
    BY <1>a, <1>5, <2>1 DEF Placing, Spends, Moves, Finals, Keeps
  <2>3. Edits /\ Writes /\ Stands /\ Publishes /\ Complains
    BY <1>1, <1>3, <1>5, <1>6, <1>9, <2>1
    DEF Edits, Writes, Stands, Publishes, Complains, Keeps
  <2> QED
    BY <2>2, <2>3 DEF Effect
<1> QED
  BY <1>4, <1>7, <1>8, <1>9

\* Every step of a handler is an effect.
LEMMA HandlerEffect ==
    ASSUME TypeInv, Placing, Handler
    PROVE  Effect
<1>a. /\ mem \in State /\ tree \in Content /\ mem.edit \in Transcript
      /\ mem.phase \in PhaseName /\ mem.cand \in Content \cup {None}
  BY StateFields DEF TypeInv, TypeOK
<1>b. \A s \in State : \A st, why :
        /\ pc \notin {"idle", "load"} /\ UNCHANGED branch
        /\ tree' = tree \/ mem.phase \in {"INTAKE", "VERIFY"}
        /\ why # "transcript" /\ Keeps(s) /\ StopWith(s, st, why)
        => Effect
  BY StopEffect
<1>c. \A s \in State : \A p :
        /\ pc \notin {"idle", "load"} /\ UNCHANGED branch
        /\ tree' = tree \/ mem.phase \in {"INTAKE", "VERIFY"}
        /\ Keeps(s) /\ (Continue(s, p) \/ SaveAndContinue(s, p))
        /\ \/ p = "top"
           \/ p = "engine" /\ mem.phase = "EDIT"
           \/ p \in {"rerun", "judge"} /\ mem.phase = "VERIFY"
        => Effect
  BY ContinueEffect
<1>d. \A s \in State, next \in PhaseName :
        /\ pc \notin {"idle", "load"} /\ UNCHANGED branch
        /\ Keeps(s) /\ Move(s, next)
        /\ \/ tree' = tree
           \/ /\ mem.phase \in {"INTAKE", "VERIFY"}
              /\ next \notin {"EDIT", "REVIEW", "FINALIZE"}
        /\ next = "EDIT" => s.edit = EmptyTranscript
        /\ next = "FINALIZE" => pc = "decided" /\ s.reviewed = mem.reviewed
        => Effect
  BY MoveEffect
<1>e. /\ Keeps(mem)
      /\ \A v : /\ Keeps([mem EXCEPT !.cand = v])
                /\ Keeps([mem EXCEPT !.presets = v])
                /\ Keeps([mem EXCEPT !.tokensOut = v])
                /\ mem.phase # "EDIT" => Keeps([mem EXCEPT !.edit = v])
                /\ mem.phase # "FINALIZE" => Keeps([mem EXCEPT !.reviewed = v])
      /\ Keeps([mem EXCEPT !.attempts = @ + 1])
      /\ Keeps([mem EXCEPT !.replans = @ + 1])
      /\ Keeps([mem EXCEPT !.loops = @ + 1])
      /\ \A r \in {mem.regressed, TRUE} : Keeps([mem EXCEPT !.regressed = r])
  BY <1>a, UpdatesKeep
<1>f. /\ mem.replans < MaxReplans => [mem EXCEPT !.replans = @ + 1] \in State
      /\ mem.replans >= MaxReplans \/ mem.replans < MaxReplans
  <2>1. mem.replans \in 0..MaxReplans
    BY <1>a, StateFields
  <2>2. mem.replans >= MaxReplans \/ mem.replans < MaxReplans
    BY <2>1 DEF MaxReplans
  <2> QED
    BY <1>a, <2>2, SetCounters
<1>g. Handler => pc \notin {"idle", "load"}
  BY DEF Handler, LoopTop, Early, Edit, Verify, Final, StopSave, FinishCheckpoint,
         AtPhase, IntakePresets, IntakeBaseline, Decide, DecideFails, Localized,
         Impact, PlanRejected, PlanAccepted, EditEnter, EngineOpen, EngineReconcile,
         EngineIntend, EngineApply, EngineRecord, EngineClose, EngineFails, EditLeave,
         VerifyExhausted, VerifyRun, VerifyRerun, JudgeAccepts, JudgeRejects,
         ReviewAccepts, ReviewRejects, FinalizeDrifted, FinalizeCard,
         FinalizeCandidate, FinalizeResume, FinalizeSecrets, FinalizeGate,
         FinalizeCheck, FinalizeCommit
<1>h. [mem EXCEPT !.edit = EmptyTranscript] \in State
      /\ [mem EXCEPT !.edit = EmptyTranscript].edit = EmptyTranscript
  BY <1>a, EmptyTranscriptTyped, SetEdit DEF State
<1>1. CASE LoopTop
  <2>1. CASE StopWith(mem, "blocked", "deadline") \/ StopWith(mem, "blocked", "tokens")
    BY <1>1, <1>a, <1>b, <1>e, <1>g, <2>1 DEF LoopTop, OtherUnchanged
  <2>2. CASE Continue([mem EXCEPT !.cand = tree], "phase")
    <3> DEFINE s == [mem EXCEPT !.cand = tree]
    <3>1. Keeps(s) /\ s.cand = tree
      BY <1>a, <1>e DEF State
    <3>2. /\ mem' = s /\ pc' = "phase" /\ pc = "top"
          /\ UNCHANGED <<saved, branch, tree, reason>>
      BY <1>1, <2>2 DEF LoopTop, Continue, OtherUnchanged
    <3> HIDE DEF s
    <3> QED
      BY <3>1, <3>2
      DEF Effect, Placing, Spends, Moves, Finals, Edits, Writes, Stands, Publishes,
          Complains, Keeps
  <2> QED
    BY <1>1, <2>1, <2>2 DEF LoopTop
<1>2. CASE IntakePresets
  <2>1. CASE StopWith(mem, "blocked", "environment")
    BY <1>2, <1>a, <1>b, <1>e, <1>g, <2>1 DEF IntakePresets, AtPhase, OtherUnchanged
  <2>2. CASE SaveAndContinue([mem EXCEPT !.presets = TRUE], "phase")
    <3> DEFINE s == [mem EXCEPT !.presets = TRUE]
    <3>1. Keeps(s) /\ s.cand = mem.cand
      BY <1>a, <1>e DEF State
    <3>2. /\ mem' = s /\ saved' = s /\ pc' = "phase" /\ pc = "phase"
          /\ UNCHANGED <<branch, tree, reason>>
      BY <1>2, <2>2 DEF IntakePresets, AtPhase, SaveAndContinue, OtherUnchanged
    <3> HIDE DEF s
    <3> QED
      BY <3>1, <3>2
      DEF Effect, Placing, Spends, Moves, Finals, Edits, Writes, Stands, Publishes,
          Complains, Keeps
  <2> QED
    BY <1>2, <2>1, <2>2 DEF IntakePresets
<1>3. CASE IntakeBaseline
  BY <1>3, <1>a, <1>b, <1>d, <1>e DEF IntakeBaseline, AtPhase, PhaseName
<1>4. CASE Decide
  <2>1. PICK out \in {mem.tokensOut, TRUE} :
           LET s == [mem EXCEPT !.tokensOut = out]
           IN  SaveAndContinue(IF mem.phase = "REVIEW"
                               THEN [s EXCEPT !.reviewed = tree] ELSE s, "decided")
    BY <1>4 DEF Decide
  <2> DEFINE s == [mem EXCEPT !.tokensOut = out]
             t == IF mem.phase = "REVIEW" THEN [s EXCEPT !.reviewed = tree] ELSE s
  <2>2. /\ t.phase = mem.phase /\ t.finalCand = mem.finalCand /\ t.edit = mem.edit
        /\ t.results = mem.results /\ t.attempts = mem.attempts
        /\ t.replans = mem.replans /\ t.loops = mem.loops /\ t.regressed = mem.regressed
        /\ mem.phase = "REVIEW" => t.reviewed = tree
    BY <1>a DEF State
  <2>3. /\ mem' = t /\ saved' = t /\ pc' = "decided" /\ pc = "phase"
        /\ mem.phase \in {"LOCALIZE", "PLAN", "REVIEW"}
        /\ UNCHANGED <<branch, tree, reason>>
    BY <1>4, <2>1 DEF Decide, AtPhase, SaveAndContinue, OtherUnchanged
  <2> HIDE DEF t
  <2>4. Spends
    BY <1>e, <2>2, <2>3 DEF Spends, Spent, Keeps
  <2> QED
    BY <2>2, <2>3, <2>4
    DEF Effect, Placing, Moves, Finals, Edits, Writes, Stands, Publishes, Complains
<1>5. CASE DecideFails
  BY <1>5, <1>a, <1>b, <1>e DEF DecideFails, AtPhase, OtherUnchanged
<1>6. CASE Localized \/ Impact
  BY <1>6, <1>a, <1>d, <1>e DEF Localized, Impact, AtPhase, OtherUnchanged, PhaseName
<1>7. CASE PlanRejected
  BY <1>7, <1>a, <1>b, <1>c, <1>e, <1>f DEF PlanRejected, OtherUnchanged
<1>8. CASE PlanAccepted
  BY <1>8, <1>a, <1>b, <1>d, <1>e, <1>h DEF PlanAccepted, OtherUnchanged, PhaseName
<1>9. CASE EditEnter
  <2>1. mem.attempts < MaxAttempts => [mem EXCEPT !.attempts = @ + 1] \in State
    BY <1>a, SetCounters
  <2>2. \/ /\ StopWith(mem, "blocked", "transcript")
           /\ ~mem.edit.pending /\ mem.edit.cand # None /\ mem.edit.cand # mem.cand
        \/ StopWith(mem, "failed", "attempts")
        \/ mem.attempts < MaxAttempts /\ Continue([mem EXCEPT !.attempts = @ + 1], "engine")
        \/ Continue(mem, "engine")
    BY <1>9 DEF EditEnter
  <2>3. pc = "phase" /\ mem.phase = "EDIT" /\ UNCHANGED <<branch, tree>>
    BY <1>9 DEF EditEnter, AtPhase, OtherUnchanged
  <2>4. CASE /\ StopWith(mem, "blocked", "transcript")
             /\ ~mem.edit.pending /\ mem.edit.cand # None /\ mem.edit.cand # mem.cand
    BY <1>e, <2>3, <2>4
    DEF StopWith, Effect, Placing, Spends, Moves, Finals, Edits, Writes, Stands,
        Publishes, Complains, Keeps
  <2> QED
    BY <1>a, <1>b, <1>c, <1>e, <2>1, <2>2, <2>3, <2>4
<1>10. CASE EngineOpen \/ EngineReconcile \/ EngineIntend \/ EngineRecord \/ EngineClose
  <2>1. /\ [mem.edit EXCEPT !.msgs = 2] \in Transcript
        /\ [mem.edit EXCEPT !.pending = FALSE] \in Transcript
        /\ \A o \in {"open", "done", "stopped", "exhausted"} :
             /\ [mem.edit EXCEPT !.outcome = o] \in Transcript
             /\ [mem.edit EXCEPT !.pending = FALSE, !.outcome = o] \in Transcript
    BY <1>a DEF Transcript
  <2>2. mem.edit.tools < MaxTools => mem.edit.tools + 1 \in 0..MaxTools
    BY <1>a, BudgetAssumption DEF Transcript
  <2> DEFINE marked == [mem.edit EXCEPT !.pending = TRUE, !.msgs = 3, !.tools = @ + 1]
  <2>3. mem.edit.tools < MaxTools => marked \in Transcript /\ marked.pending
    BY <1>a, <2>2 DEF Transcript
  <2>4. CASE EngineIntend
    BY <1>a, <2>3, <2>4, TranscriptEffect DEF EngineIntend
  <2>5. CASE EngineOpen \/ EngineReconcile \/ EngineRecord \/ EngineClose
    <3>1. \E tr \in Transcript : SaveTranscript(tr, "engine")
      BY <2>1, <2>5 DEF EngineOpen, EngineReconcile, EngineRecord, EngineClose
    <3> QED
      BY <2>5, <3>1, TranscriptEffect
      DEF EngineOpen, EngineReconcile, EngineRecord, EngineClose
  <2> QED
    BY <1>10, <2>4, <2>5
<1>11. CASE EngineApply
  <2>1. /\ pc = "tool" /\ pc' = "tooled" /\ mem.phase = "EDIT"
        /\ UNCHANGED <<mem, saved, branch, reason>>
    BY <1>11 DEF EngineApply, Continue, Placing
  <2> QED
    BY <1>e, <2>1
    DEF Effect, Placing, Spends, Moves, Finals, Edits, Writes, Stands, Publishes,
        Complains, Keeps
<1>12. CASE EngineFails
  BY <1>12, <1>a, <1>b, <1>e DEF EngineFails, OtherUnchanged
<1>13. CASE EditLeave
  <2>1. mem.edit.outcome \in {"open", "done", "exhausted", "stopped"}
    BY <1>a DEF Transcript
  <2>2. \/ Move(mem, "VERIFY")
        \/ StopWith(mem, "blocked", "incomplete")
        \/ StopWith(mem, "blocked", "engine")
        \/ mem.replans < MaxReplans /\ Move([mem EXCEPT !.replans = @ + 1], "PLAN")
    <3>1. CASE mem.edit.outcome = "done"
      BY <1>13, <3>1 DEF EditLeave
    <3>2. CASE mem.edit.outcome = "stopped"
      BY <1>13, <3>2 DEF EditLeave
    <3>3. CASE mem.edit.outcome = "exhausted"
      BY <1>13, <1>f, <3>3 DEF EditLeave
    <3> QED
      BY <1>13, <2>1, <3>1, <3>2, <3>3 DEF EditLeave
  <2> QED
    BY <1>13, <1>a, <1>b, <1>d, <1>e, <1>f, <2>2 DEF EditLeave, OtherUnchanged, PhaseName
<1>14. CASE VerifyExhausted
  BY <1>14, <1>a, <1>b, <1>e DEF VerifyExhausted, AtPhase, OtherUnchanged
<1>15. CASE VerifyRun \/ VerifyRerun
  <2>1. PICK status \in {"pass", "fail", "skipped", "environment"} :
          LET s == [mem EXCEPT !.loops = @ + 1]
              t == [s EXCEPT !.results =
                      [cand |-> mem.cand, status |-> status, on |-> tree']]
          IN \E u \in {s, t} :
                \/ StopWith(u, "blocked", "environment")
                \/ Continue(u, "rerun")
                \/ Continue(u, "judge")
    BY <1>15 DEF VerifyRun, VerifyRerun
  <2>2. /\ mem.phase = "VERIFY" /\ pc \in {"phase", "rerun"} /\ UNCHANGED branch
        /\ mem.loops < MaxVerifyLoops /\ tree' \in Content
    BY <1>15, <1>a, ContentUpdates
    DEF VerifyRun, VerifyRerun, AtPhase, Placing, TypeInv, RerunHasLoop
  <2> DEFINE s == [mem EXCEPT !.loops = @ + 1]
             res == [cand |-> mem.cand, status |-> status, on |-> tree']
             t == [s EXCEPT !.results = res]
  <2>3. s \in State /\ t \in State
    BY <1>a, <2>2, CountedTyped
  <2>4. Keeps(s)
    BY <1>e
  <2>5. Keeps(t)
    <3>1. /\ t.phase = s.phase /\ t.finalCand = s.finalCand /\ t.edit = s.edit
          /\ t.attempts = s.attempts /\ t.replans = s.replans /\ t.loops = s.loops
          /\ t.regressed = s.regressed
      <4> HIDE DEF s, res
      <4> QED
        BY <2>3 DEF State
    <3> HIDE DEF s, t
    <3> QED
      BY <2>2, <2>4, <3>1 DEF Keeps, Spent
  <2>6. PICK u \in {s, t} : \/ StopWith(u, "blocked", "environment")
                            \/ Continue(u, "rerun")
                            \/ Continue(u, "judge")
    BY <2>1
  <2> HIDE DEF s, t
  <2> QED
    BY <1>b, <1>c, <2>2, <2>3, <2>4, <2>5, <2>6
<1>16. CASE JudgeAccepts
  BY <1>16, <1>a, <1>b, <1>d, <1>e, <1>f
  DEF JudgeAccepts, Placing, OtherUnchanged, PhaseName
<1>17. CASE JudgeRejects
  <2>1. PICK regressed \in {mem.regressed, TRUE}, relocalize \in BOOLEAN :
          LET s == [mem EXCEPT !.regressed = regressed]
              cleared == [s EXCEPT !.edit = EmptyTranscript]
          IN \/ StopWith(s, "failed", "repair")
             \/ tree' = tree /\ Move(cleared, "EDIT")
             \/ StopWith(cleared, "failed", "replans")
             \/ /\ ~(mem.replans >= MaxReplans)
                /\ Move([cleared EXCEPT !.replans = @ + 1], "LOCALIZE")
    BY <1>17 DEF JudgeRejects
  <2> DEFINE s == [mem EXCEPT !.regressed = regressed]
             cleared == [s EXCEPT !.edit = EmptyTranscript]
             counted == [cleared EXCEPT !.replans = @ + 1]
  <2>2. pc = "judge" /\ mem.phase = "VERIFY" /\ UNCHANGED branch
    BY <1>17 DEF JudgeRejects, Placing
  <2>3. s \in State /\ Keeps(s)
    BY <1>a, <1>e, <2>1 DEF State
  <2>4. /\ cleared \in State /\ cleared.edit = EmptyTranscript
        /\ cleared.phase = s.phase /\ cleared.finalCand = s.finalCand
        /\ cleared.attempts = s.attempts /\ cleared.replans = s.replans
        /\ cleared.loops = s.loops /\ cleared.regressed = s.regressed
    <3> HIDE DEF s
    <3> QED
      BY <2>3, EmptyTranscriptTyped, SetEdit DEF State
  <2>5. Keeps(cleared) /\ cleared.replans = mem.replans
    <3>1. cleared.replans = mem.replans
      BY <1>a, <2>4 DEF State
    <3> HIDE DEF s, cleared
    <3> QED
      BY <2>2, <2>3, <2>4, <3>1 DEF Keeps, Spent
  <2>6. ~(mem.replans >= MaxReplans) => counted \in State /\ Keeps(counted)
    <3> SUFFICES ASSUME ~(mem.replans >= MaxReplans)
                 PROVE  counted \in State /\ Keeps(counted)
      OBVIOUS
    <3> HIDE DEF cleared
    <3>1. counted \in State
      BY <1>f, <2>4, <2>5, SetCounters
    <3>2. /\ counted.phase = cleared.phase /\ counted.finalCand = cleared.finalCand
          /\ counted.attempts = cleared.attempts /\ counted.replans = cleared.replans + 1
          /\ counted.loops = cleared.loops /\ counted.regressed = cleared.regressed
      BY <2>4 DEF State
    <3>3. cleared.replans \in 0..2 /\ mem.replans \in 0..2
      BY <1>a, <2>4, StateFields DEF MaxReplans
    <3> HIDE DEF counted
    <3> QED
      BY <2>2, <2>5, <3>1, <3>2, <3>3 DEF Keeps, Spent
  <2>7. \/ StopWith(s, "failed", "repair")
        \/ tree' = tree /\ Move(cleared, "EDIT")
        \/ StopWith(cleared, "failed", "replans")
        \/ ~(mem.replans >= MaxReplans) /\ Move(counted, "LOCALIZE")
    BY <2>1
  <2> HIDE DEF s, cleared, counted
  <2> QED
    BY <1>b, <1>d, <2>2, <2>3, <2>4, <2>5, <2>6, <2>7 DEF PhaseName
<1>18. CASE ReviewAccepts
  BY <1>18, <1>a, <1>d, <1>e DEF ReviewAccepts, OtherUnchanged, PhaseName
<1>19. CASE ReviewRejects
  <2> DEFINE s == Unreviewed(mem)
             t == [s EXCEPT !.edit = EmptyTranscript]
  <2>0. mem.phase = "REVIEW" /\ pc = "decided" /\ UNCHANGED <<branch, tree>>
    BY <1>19 DEF ReviewRejects, OtherUnchanged
  <2>1. s \in State /\ Keeps(s)
    BY <1>a, <1>e, <2>0, SetReviewed DEF Unreviewed
  <2>2. /\ t \in State /\ t.edit = EmptyTranscript
        /\ t.phase = s.phase /\ t.finalCand = s.finalCand
        /\ t.attempts = s.attempts /\ t.replans = s.replans
        /\ t.loops = s.loops /\ t.regressed = s.regressed
    <3> HIDE DEF s
    <3> QED
      BY <2>1, EmptyTranscriptTyped, SetEdit DEF State
  <2>3. StopWith(s, "failed", "review") \/ Move(t, "EDIT")
    BY <1>19 DEF ReviewRejects
  <2> HIDE DEF s, t
  <2>4. Keeps(t)
    BY <2>0, <2>1, <2>2 DEF Keeps, Spent
  <2> QED
    BY <1>b, <1>d, <2>0, <2>1, <2>2, <2>3, <2>4 DEF PhaseName
<1>20. CASE FinalizeDrifted \/ FinalizeSecrets
  BY <1>20, <1>a, <1>b, <1>e
  DEF FinalizeDrifted, FinalizeSecrets, AtPhase, OtherUnchanged
<1>21. CASE FinalizeCard
  <2>1. CASE StopWith(mem, "blocked", "memory") /\ tree' = tree
    BY <1>21, <1>a, <1>b, <1>e, <2>1 DEF FinalizeCard, AtPhase
  <2>2. CASE tree' = [tree EXCEPT !.card = TRUE] /\ Continue(mem, "carded")
    <3>1. /\ pc = "phase" /\ pc' = "carded" /\ mem.phase = "FINALIZE"
          /\ mem.finalCand = None /\ tree' = Carded(tree)
          /\ UNCHANGED <<mem, saved, branch, reason>>
      BY <1>21, <2>2 DEF FinalizeCard, AtPhase, Continue, Carded
    <3> QED
      BY <1>e, <3>1
      DEF Effect, Placing, Spends, Moves, Finals, Edits, Writes, Stands, Publishes,
          Complains, Keeps
  <2> QED
    BY <1>21, <2>1, <2>2 DEF FinalizeCard
<1>22. CASE FinalizeCandidate
  <2> DEFINE s == [mem EXCEPT !.finalCand = tree, !.cand = tree]
  <2>1. /\ s.finalCand = tree /\ s.cand = tree /\ s.phase = mem.phase
        /\ s.results = mem.results /\ s.reviewed = mem.reviewed /\ s.edit = mem.edit
        /\ s.attempts = mem.attempts /\ s.replans = mem.replans
        /\ s.loops = mem.loops /\ s.regressed = mem.regressed
    BY <1>a DEF State
  <2>2. /\ pc = "carded" /\ pc' = "gate" /\ mem' = s /\ saved' = s
        /\ mem.phase = "FINALIZE" /\ UNCHANGED <<branch, tree, reason>>
    BY <1>22 DEF FinalizeCandidate, SaveAndContinue, OtherUnchanged, Placing
  <2> HIDE DEF s
  <2>3. Spends
    BY <1>e, <2>1, <2>2 DEF Spends, Spent, Keeps
  <2> QED
    BY <2>1, <2>2, <2>3
    DEF Effect, Placing, Moves, Finals, Edits, Writes, Stands, Publishes, Complains
<1>23. CASE FinalizeResume
  <2>1. /\ pc = "phase" /\ pc' = "gate" /\ mem.phase = "FINALIZE"
        /\ UNCHANGED <<mem, saved, branch, tree, reason>>
        /\ mem.finalCand # None /\ mem.finalCand = mem.cand
    BY <1>23
    DEF FinalizeResume, AtPhase, Continue, OtherUnchanged, Undrifted, VerifiedCandidate
  <2> QED
    BY <1>e, <2>1
    DEF Effect, Placing, Spends, Moves, Finals, Edits, Writes, Stands, Publishes,
        Complains, Keeps
<1>24. CASE FinalizeGate \/ FinalizeCheck
  <2>1. CASE \E st, why : why # "transcript" /\ StopWith(mem, st, why)
    <3>1. UNCHANGED <<branch, tree>>
      BY <1>24 DEF FinalizeGate, FinalizeCheck, OtherUnchanged
    <3> QED
      BY <1>a, <1>b, <1>e, <1>g, <2>1, <3>1
  <2>2. CASE \/ pc = "gate" /\ Continue(mem, "commit")
             \/ pc = "commit" /\ tree = mem.cand /\ Continue(mem, "committing")
    <3>1. /\ pc \in {"gate", "commit"} /\ pc' \in {"commit", "committing"}
          /\ pc' = "commit" => pc = "gate"
          /\ pc' = "committing" => pc = "commit" /\ tree = mem.cand
          /\ UNCHANGED <<mem, saved, branch, tree, reason>>
      BY <1>24, <2>2 DEF FinalizeGate, FinalizeCheck, Continue, OtherUnchanged
    <3> QED
      BY <1>e, <3>1
      DEF Effect, Placing, Spends, Moves, Finals, Edits, Writes, Stands, Publishes,
          Complains, Keeps
  <2> QED
    BY <1>24, <2>1, <2>2 DEF FinalizeGate, FinalizeCheck
<1>25. CASE FinalizeCommit
  <2>1. /\ pc = "committing" /\ pc' = "stop" /\ branch' \in {branch, tree}
        /\ reason' # "transcript" /\ UNCHANGED <<mem, saved, tree>>
    BY <1>25 DEF FinalizeCommit, StopWith
  <2> QED
    BY <1>e, <2>1
    DEF Effect, Placing, Spends, Moves, Finals, Edits, Writes, Stands, Publishes,
        Complains, Keeps
<1>26. CASE StopSave \/ FinishCheckpoint
  <2>1. /\ pc \in {"stop", "finish"} /\ pc' \in {"finish", "setstate"}
        /\ saved' \in {saved, mem'} /\ UNCHANGED <<mem, branch, tree, reason>>
    BY <1>26 DEF StopSave, FinishCheckpoint
  <2> QED
    BY <1>e, <2>1
    DEF Effect, Placing, Spends, Moves, Finals, Edits, Writes, Stands, Publishes,
        Complains, Keeps
<1> QED
  BY <1>1, <1>2, <1>3, <1>4, <1>5, <1>6, <1>7, <1>8, <1>9, <1>10, <1>11, <1>12,
     <1>13, <1>14, <1>15, <1>16, <1>17, <1>18, <1>19, <1>20, <1>21, <1>22, <1>23,
     <1>24, <1>25, <1>26
  DEF Handler, Early, Edit, Verify, Final

-----------------------------------------------------------------------------
(* Budgets and the candidate an approval is about *)

\* Following is reflexive for a state whose final candidate is FINALIZE's, and
\* transitive.
LEMMA FollowsOrder ==
    ASSUME NEW s \in State, NEW t \in State, NEW u \in State
    PROVE  /\ AtEnd(s) => Follows(s, s)
           /\ Follows(s, t) /\ Follows(t, u) => Follows(s, u)
<1>1. \A x \in {s, t, u} : x.attempts \in Nat /\ x.replans \in Nat /\ x.loops \in Nat
  BY StateFields, BudgetAssumption DEF MaxReplans, MaxVerifyLoops
<1> QED
  BY <1>1 DEF Follows, Spent, AtEnd

\* A handler's step only adds to what the state in memory says.
LEMMA EffectFollows ==
    ASSUME Effect, Placing, AtEnd(mem)
    PROVE  Follows(mem, mem') /\ AtEnd(mem')
<1>1. mem.phase = "FINALIZE" => mem'.phase = "FINALIZE"
  BY DEF Effect, Moves
<1>2. mem'.finalCand # mem.finalCand => mem.phase = "FINALIZE" /\ mem.finalCand = None
  BY DEF Effect, Finals, Placing
<1> QED
  BY <1>1, <1>2 DEF Effect, Spends, Finals, Follows, AtEnd

\* One step keeps the invariant, and the saved state only ever moves forward.
LEMMA ProgressStep ==
    ASSUME TypeInv, TypeInv', ProgressInv, [Next]_vars
    PROVE  /\ ProgressInv'
           /\ saved # None => saved' # None /\ Follows(saved, saved')
<1>a. /\ mem \in State /\ mem' \in State /\ None \notin State
      /\ saved \in State \cup {None} /\ saved' \in State \cup {None}
  BY NoneAssumption DEF TypeInv, TypeOK
<1>b. saved # None => Follows(saved, saved)
  BY <1>a, FollowsOrder DEF ProgressInv
<1>1. CASE Handler
  <2>1. Effect
    BY <1>1, HandlerEffect DEF ProgressInv
  <2>2. Follows(mem, mem') /\ AtEnd(mem')
    BY <2>1, EffectFollows DEF ProgressInv
  <2>3. saved # None /\ Follows(saved, mem)
    BY <2>1 DEF Effect, ProgressInv
  <2>4. Follows(saved, mem') /\ Follows(mem', mem')
    BY <1>a, <2>2, <2>3, FollowsOrder
  <2> QED
    BY <1>a, <1>b, <2>1, <2>2, <2>3, <2>4 DEF ProgressInv, Effect, Spends
<1>2. CASE Load
  <2>1. AtEnd(InitialState) /\ InitialState \in State
    BY InitialStateTyped DEF AtEnd, InitialState
  <2>2. /\ AtEnd(mem') /\ mem' # None /\ saved' = mem' /\ pc' = "top"
        /\ saved # None => saved' = saved
    BY <1>2, <1>a, <2>1 DEF Load, ProgressInv
  <2>3. Follows(mem', mem')
    BY <1>a, <2>2, FollowsOrder
  <2> QED
    BY <1>b, <2>2, <2>3 DEF ProgressInv, Placing
<1>3. CASE FinishSetState \/ Crash
  <2>1. mem' = InitialState /\ pc' = "idle" /\ saved' = saved
    BY <1>3 DEF FinishSetState, Crash, durable
  <2>2. AtEnd(InitialState)
    BY DEF AtEnd, InitialState
  <2> QED
    BY <1>b, <2>1, <2>2 DEF ProgressInv, Placing
<1>4. CASE Start
  BY <1>4, <1>b DEF Start, ProgressInv, Placing
<1>5. CASE Reopen \/ Drift \/ DeadlinePasses \/ (\E c \in Content : Answer(c)) \/ UNCHANGED vars
  <2>1. UNCHANGED <<pc, mem, saved>>
    BY <1>5 DEF Reopen, Drift, DeadlinePasses, Answer, vars, process, durable
  <2> QED
    BY <1>b, <2>1 DEF ProgressInv, Placing
<1> QED
  BY <1>1, <1>2, <1>3, <1>4, <1>5 DEF Next, Runner, Environment, Handler

LEMMA ProgressHolds == Spec => []ProgressInv
<1>1. Init => ProgressInv
  BY DEF Init, ProgressInv, Placing, AtEnd, InitialState
<1>2. TypeInv /\ TypeInv' /\ ProgressInv /\ [Next]_vars => ProgressInv'
  BY ProgressStep
<1> QED
  BY <1>1, <1>2, TypeCorrect, PTL DEF Spec

\* A transcript that is pending or closed has been opened.
Transcribed(s) == s.edit.pending \/ s.edit.outcome # "open" => s.edit.msgs # 0

\* What the run in memory owes the record: the verification loop it is in, and the
\* attempt of a transcript that is not saved yet.
PaidInv ==
    /\ Transcribed(mem)
    /\ saved # None => Transcribed(saved)
    /\ pc \in {"tool", "tooled"} => mem.edit.pending
    /\ pc \notin {"idle", "load"} =>
          /\ saved.phase = mem.phase
          /\ pc \in {"rerun", "judge"} => saved.loops < mem.loops
          /\ saved.edit.msgs = 0 /\ (pc = "engine" \/ mem.edit.msgs # 0) =>
                saved.attempts < mem.attempts

\* What a handler counts where.
Pays ==
    /\ Transcribed(mem')
    /\ pc' \in {"tool", "tooled"} => mem'.edit.pending
    /\ mem.phase = "VERIFY" /\ mem'.phase # "VERIFY" => pc = "judge"
    /\ pc' \in {"rerun", "judge"} => mem'.loops > mem.loops /\ saved' = saved
    /\ mem.edit.msgs = 0 /\ mem'.edit.msgs # 0 => pc = "engine"
    /\ pc' = "engine" =>
          mem'.edit.msgs # 0 \/ (mem'.attempts > mem.attempts /\ saved' = saved)
    /\ pc' = "engine" /\ pc # "engine" /\ mem'.edit.msgs # 0 =>
          mem.edit.msgs # 0
    /\ mem.phase \in {"EDIT", "VERIFY"} /\ mem'.phase \in {"PLAN", "LOCALIZE"} =>
          mem'.replans > mem.replans

\* The updates of a state that touch neither the transcript nor the counters.
LEMMA PlainUpdates ==
    ASSUME NEW s \in State
    PROVE  /\ \A v : /\ [s EXCEPT !.cand = v].edit = s.edit
                     /\ [s EXCEPT !.cand = v].phase = s.phase
                     /\ [s EXCEPT !.presets = v].edit = s.edit
                     /\ [s EXCEPT !.presets = v].phase = s.phase
                     /\ [s EXCEPT !.tokensOut = v].edit = s.edit
                     /\ [s EXCEPT !.tokensOut = v].phase = s.phase
                     /\ [s EXCEPT !.tokensOut = v].attempts = s.attempts
                     /\ [s EXCEPT !.reviewed = v].edit = s.edit
                     /\ [s EXCEPT !.reviewed = v].phase = s.phase
                     /\ [s EXCEPT !.phase = v].edit = s.edit
                     /\ [s EXCEPT !.phase = v].phase = v
                     /\ [s EXCEPT !.phase = v].replans = s.replans
                     /\ [s EXCEPT !.regressed = v].edit = s.edit
                     /\ [s EXCEPT !.regressed = v].phase = s.phase
                     /\ [s EXCEPT !.regressed = v].replans = s.replans
                     /\ [s EXCEPT !.results = v].edit = s.edit
                     /\ [s EXCEPT !.results = v].phase = s.phase
                     /\ [s EXCEPT !.results = v].loops = s.loops
                     /\ [s EXCEPT !.edit = v].edit = v
                     /\ [s EXCEPT !.edit = v].phase = s.phase
                     /\ [s EXCEPT !.edit = v].replans = s.replans
                     /\ [s EXCEPT !.edit = v].attempts = s.attempts
                     /\ [s EXCEPT !.finalCand = v, !.cand = v].edit = s.edit
                     /\ [s EXCEPT !.finalCand = v, !.cand = v].phase = s.phase
           /\ [s EXCEPT !.attempts = @ + 1].edit = s.edit
           /\ [s EXCEPT !.attempts = @ + 1].phase = s.phase
           /\ [s EXCEPT !.attempts = @ + 1].attempts = s.attempts + 1
           /\ [s EXCEPT !.replans = @ + 1].edit = s.edit
           /\ [s EXCEPT !.replans = @ + 1].phase = s.phase
           /\ [s EXCEPT !.replans = @ + 1].replans = s.replans + 1
           /\ [s EXCEPT !.loops = @ + 1].edit = s.edit
           /\ [s EXCEPT !.loops = @ + 1].phase = s.phase
           /\ [s EXCEPT !.loops = @ + 1].loops = s.loops + 1
  BY DEF State

\* A handler that stops, moves on, or goes on at a point that owes nothing.
LEMMA PlainPays ==
    ASSUME NEW s \in State, Transcribed(s), s.phase = mem.phase,
           s.edit.msgs # 0 => mem.edit.msgs # 0 \/ pc = "engine",
           \/ \E st, why : StopWith(s, st, why)
           \/ \E p \in {"top", "phase", "decided", "gate", "commit", "committing",
                        "carded"} : Continue(s, p) \/ SaveAndContinue(s, p)
           \/ \E next \in PhaseName :
                 /\ Move(s, next)
                 /\ mem.phase = "VERIFY" => pc = "judge"
                 /\ mem.phase \in {"EDIT", "VERIFY"} /\ next \in {"PLAN", "LOCALIZE"} =>
                       s.replans > mem.replans
    PROVE  Pays
<1>1. CASE mem' = s /\ pc' \in {"stop", "top", "phase", "decided", "gate", "commit",
                                 "committing", "carded"}
  BY <1>1 DEF Pays
<1>2. CASE \E next \in PhaseName :
             /\ mem' = [s EXCEPT !.phase = next] /\ pc' = "top"
             /\ mem.phase = "VERIFY" => pc = "judge"
             /\ mem.phase \in {"EDIT", "VERIFY"} /\ next \in {"PLAN", "LOCALIZE"} =>
                   s.replans > mem.replans
  <2>1. PICK next \in PhaseName :
             /\ mem' = [s EXCEPT !.phase = next] /\ pc' = "top"
             /\ mem.phase = "VERIFY" => pc = "judge"
             /\ mem.phase \in {"EDIT", "VERIFY"} /\ next \in {"PLAN", "LOCALIZE"} =>
                   s.replans > mem.replans
    BY <1>2
  <2>2. mem'.edit = s.edit /\ mem'.phase = next /\ mem'.replans = s.replans
    BY <2>1, PlainUpdates
  <2> QED
    BY <2>1, <2>2 DEF Pays, Transcribed
<1> QED
  BY <1>1, <1>2 DEF StopWith, Continue, SaveAndContinue, Move

\* A transcript the engine saves: it has been opened, and the run goes on in EDIT.
LEMMA TranscriptPays ==
    ASSUME TypeInv, Placing, pc \in {"engine", "tooled"},
           NEW tr \in Transcript, NEW p, SaveTranscript(tr, p),
           tr.msgs # 0, pc # "engine" => mem.edit.msgs # 0,
           p = "engine" \/ (p = "tool" /\ tr.pending)
    PROVE  Pays
<1>0. PICK out \in {mem.tokensOut, TRUE} :
        LET s == [[mem EXCEPT !.tokensOut = out] EXCEPT
                    !.edit = [tr EXCEPT !.cand = tree]]
        IN  StopWith(s, "blocked", "engine") \/ SaveAndContinue(s, p)
  BY DEF SaveTranscript
<1> DEFINE spent == [mem EXCEPT !.tokensOut = out]
           new == [tr EXCEPT !.cand = tree]
           s == [spent EXCEPT !.edit = new]
<1>1. mem \in State /\ mem.phase = "EDIT"
  BY DEF TypeInv, TypeOK, Placing
<1>2. spent \in State
  BY <1>0, <1>1, SetFlags DEF State
<1>3. new.msgs = tr.msgs /\ new.pending = tr.pending
  BY DEF Transcript
<1>4. s.edit = new /\ s.phase = mem.phase
  BY <1>1, <1>2, PlainUpdates
<1>5. mem' = s /\ pc' \in {"stop", p}
  BY <1>0 DEF StopWith, SaveAndContinue
<1> HIDE DEF s, new
<1> QED
  BY <1>1, <1>3, <1>4, <1>5 DEF Pays, Transcribed

\* Every step of a handler pays.
LEMMA HandlerPays ==
    ASSUME TypeInv, Placing, PaidInv, Handler
    PROVE  Pays
<1>a. /\ mem \in State /\ tree \in Content /\ mem.edit \in Transcript
      /\ mem.attempts \in Nat /\ mem.replans \in Nat /\ mem.loops \in Nat
      /\ Transcribed(mem)
  BY StateFields, BudgetAssumption DEF TypeInv, TypeOK, PaidInv, MaxReplans, MaxVerifyLoops
<1>c. Transcribed([mem EXCEPT !.replans = @ + 1])
  BY <1>a, PlainUpdates DEF Transcribed
<1>e. /\ [mem EXCEPT !.replans = @ + 1].phase = mem.phase
      /\ [mem EXCEPT !.replans = @ + 1].edit = mem.edit
      /\ [mem EXCEPT !.replans = @ + 1].replans = mem.replans + 1
      /\ mem.replans < MaxReplans => [mem EXCEPT !.replans = @ + 1] \in State
  <2>1. mem.replans < MaxReplans => [mem EXCEPT !.replans = @ + 1] \in State
    BY <1>a, SetCounters
  <2> QED
    BY <1>a, <2>1 DEF State
<1>d. EmptyTranscript.msgs = 0 /\ Transcribed([mem EXCEPT !.edit = EmptyTranscript])
      /\ [mem EXCEPT !.edit = EmptyTranscript] \in State
  <2>1. /\ [mem EXCEPT !.edit = EmptyTranscript] \in State
        /\ [mem EXCEPT !.edit = EmptyTranscript].edit = EmptyTranscript
    BY <1>a, EmptyTranscriptTyped, SetEdit DEF State
  <2>2. EmptyTranscript.msgs = 0 /\ ~EmptyTranscript.pending /\ EmptyTranscript.outcome = "open"
    BY DEF EmptyTranscript
  <2> QED
    BY <2>1, <2>2 DEF Transcribed
<1>1. CASE LoopTop
  <2> DEFINE s == [mem EXCEPT !.cand = tree]
  <2>1. s \in State /\ s.edit = mem.edit /\ s.phase = mem.phase
    BY <1>a, SetCand DEF State
  <2>2. (\E st, why : StopWith(mem, st, why)) \/ Continue(s, "phase")
    BY <1>1 DEF LoopTop
  <2> HIDE DEF s
  <2>3. CASE \E st, why : StopWith(mem, st, why)
    BY <1>a, <2>3, PlainPays
  <2>4. CASE Continue(s, "phase")
    BY <1>a, <2>1, <2>4, PlainPays DEF Transcribed
  <2> QED
    BY <2>2, <2>3, <2>4
<1>2. CASE IntakePresets
  <2> DEFINE s == [mem EXCEPT !.presets = TRUE]
  <2>1. s \in State /\ s.edit = mem.edit /\ s.phase = mem.phase
    BY <1>a, SetFlags DEF State
  <2>2. (\E st, why : StopWith(mem, st, why)) \/ SaveAndContinue(s, "phase")
    BY <1>2 DEF IntakePresets
  <2> HIDE DEF s
  <2>3. CASE \E st, why : StopWith(mem, st, why)
    BY <1>a, <2>3, PlainPays
  <2>4. CASE SaveAndContinue(s, "phase")
    BY <1>a, <2>1, <2>4, PlainPays DEF Transcribed
  <2> QED
    BY <2>2, <2>3, <2>4
<1>3. CASE IntakeBaseline \/ DecideFails \/ Localized \/ Impact
  BY <1>3, <1>a, PlainPays
  DEF IntakeBaseline, DecideFails, Localized, Impact, AtPhase, PhaseName
<1>4. CASE Decide
  <2>1. PICK out \in {mem.tokensOut, TRUE} :
           LET s == [mem EXCEPT !.tokensOut = out]
           IN  SaveAndContinue(IF mem.phase = "REVIEW"
                               THEN [s EXCEPT !.reviewed = tree] ELSE s, "decided")
    BY <1>4 DEF Decide
  <2> DEFINE s == [mem EXCEPT !.tokensOut = out]
             u == IF mem.phase = "REVIEW" THEN [s EXCEPT !.reviewed = tree] ELSE s
  <2>2. s \in State /\ s.edit = mem.edit /\ s.phase = mem.phase
    BY <1>a, <2>1 DEF State
  <2>a. /\ [s EXCEPT !.reviewed = tree] \in State
        /\ [s EXCEPT !.reviewed = tree].edit = s.edit
        /\ [s EXCEPT !.reviewed = tree].phase = s.phase
    <3> HIDE DEF s
    <3> QED
      BY <1>a, <2>2, SetReviewed DEF State
  <2>3. u \in State /\ u.edit = mem.edit /\ u.phase = mem.phase
    BY <2>2, <2>a
  <2>4. SaveAndContinue(u, "decided")
    BY <2>1
  <2> HIDE DEF u
  <2> QED
    BY <1>a, <2>3, <2>4, PlainPays DEF Transcribed
<1>5. CASE PlanRejected
  <2> DEFINE s == [mem EXCEPT !.replans = @ + 1]
  <2>1. /\ mem.replans < MaxReplans => s \in State
        /\ s.edit = mem.edit /\ s.phase = mem.phase
    BY <1>e
  <2>2. \/ \E st, why : StopWith(mem, st, why)
        \/ mem.replans < MaxReplans /\ SaveAndContinue(s, "top")
    BY <1>5, <1>a DEF PlanRejected, MaxReplans
  <2> HIDE DEF s
  <2>3. CASE \E st, why : StopWith(mem, st, why)
    BY <1>a, <2>3, PlainPays
  <2>4. CASE mem.replans < MaxReplans /\ SaveAndContinue(s, "top")
    BY <1>a, <2>1, <2>4, PlainPays DEF Transcribed
  <2> QED
    BY <2>2, <2>3, <2>4
<1>6. CASE PlanAccepted
  <2>1. mem.phase = "PLAN"
    BY <1>6 DEF PlanAccepted
  <2>2. [mem EXCEPT !.edit = EmptyTranscript].phase = mem.phase
        /\ [mem EXCEPT !.edit = EmptyTranscript].edit.msgs = 0
    BY <1>a, <1>d, PlainUpdates
  <2>3. \/ StopWith(mem, "blocked", "protected")
        \/ Move([mem EXCEPT !.edit = EmptyTranscript], "EDIT")
    BY <1>6 DEF PlanAccepted
  <2> QED
    BY <1>a, <1>d, <2>1, <2>2, <2>3, PlainPays DEF PhaseName
<1>7. CASE EditEnter
  <2>1. CASE \E st, why : StopWith(mem, st, why)
    BY <1>a, <2>1, PlainPays
  <2>2. CASE mem.edit.msgs = 0 /\ Continue([mem EXCEPT !.attempts = @ + 1], "engine")
    <3>1. /\ mem'.attempts = mem.attempts + 1 /\ mem'.edit = mem.edit
          /\ mem'.phase = mem.phase /\ pc' = "engine" /\ saved' = saved
      BY <1>a, <2>2, PlainUpdates DEF Continue
    <3> QED
      BY <1>a, <2>2, <3>1 DEF Pays, Transcribed
  <2>3. CASE mem.edit.msgs # 0 /\ Continue(mem, "engine")
    BY <1>a, <2>3 DEF Pays, Continue
  <2>4. mem.attempts >= MaxAttempts \/ mem.attempts < MaxAttempts
    BY <1>a, BudgetAssumption
  <2> QED
    BY <1>7, <2>1, <2>2, <2>3, <2>4 DEF EditEnter
<1>8. CASE EngineOpen
  <2> DEFINE tr == [mem.edit EXCEPT !.msgs = 2]
  <2>1. tr \in Transcript /\ tr.msgs = 2
    BY <1>a DEF Transcript
  <2>2. pc = "engine" /\ SaveTranscript(tr, "engine")
    BY <1>8 DEF EngineOpen
  <2> HIDE DEF tr
  <2> QED
    BY <2>1, <2>2, TranscriptPays
<1>9. CASE EngineReconcile
  <2>1. PICK o \in {"open", "done", "exhausted"} :
          SaveTranscript([mem.edit EXCEPT !.pending = FALSE, !.outcome = o], "engine")
    BY <1>9 DEF EngineReconcile
  <2>2. /\ [mem.edit EXCEPT !.pending = FALSE, !.outcome = o] \in Transcript
        /\ [mem.edit EXCEPT !.pending = FALSE, !.outcome = o].msgs = mem.edit.msgs
    BY <1>a DEF Transcript
  <2>3. mem.edit.msgs # 0 /\ pc = "engine"
    BY <1>9, <1>a DEF EngineReconcile, Transcribed
  <2> QED
    BY <2>1, <2>2, <2>3, TranscriptPays
<1>10. CASE EngineIntend
  <2> DEFINE tr == [mem.edit EXCEPT !.pending = TRUE, !.msgs = 3, !.tools = @ + 1]
  <2>1. mem.edit.tools + 1 \in 0..MaxTools
    BY <1>10, <1>a, BudgetAssumption DEF EngineIntend, Transcript
  <2>2. tr \in Transcript /\ tr.msgs = 3 /\ tr.pending
    BY <1>a, <2>1 DEF Transcript
  <2>3. pc = "engine" /\ SaveTranscript(tr, "tool")
    BY <1>10 DEF EngineIntend
  <2> HIDE DEF tr
  <2> QED
    BY <2>2, <2>3, TranscriptPays
<1>11. CASE EngineApply
  <2>1. pc = "tool" /\ mem' = mem /\ pc' = "tooled"
    BY <1>11 DEF EngineApply, Continue
  <2> QED
    BY <1>a, <2>1 DEF Pays, PaidInv
<1>12. CASE EngineRecord
  <2>1. /\ [mem.edit EXCEPT !.pending = FALSE] \in Transcript
        /\ [mem.edit EXCEPT !.pending = FALSE].msgs = mem.edit.msgs
    BY <1>a DEF Transcript
  <2>2. pc = "tooled" /\ mem.edit.msgs # 0
    BY <1>12, <1>a DEF EngineRecord, PaidInv, Transcribed
  <2> QED
    BY <1>12, <2>1, <2>2, TranscriptPays DEF EngineRecord
<1>13. CASE EngineClose
  <2>1. PICK o \in {"done", "stopped", "exhausted"} :
          SaveTranscript([mem.edit EXCEPT !.outcome = o], "engine")
    BY <1>13 DEF EngineClose
  <2>2. /\ [mem.edit EXCEPT !.outcome = o] \in Transcript
        /\ [mem.edit EXCEPT !.outcome = o].msgs = mem.edit.msgs
    BY <1>a DEF Transcript
  <2>3. mem.edit.msgs # 0 /\ pc = "engine"
    BY <1>13 DEF EngineClose, Editing
  <2> QED
    BY <2>1, <2>2, <2>3, TranscriptPays
<1>14. CASE EngineFails \/ VerifyExhausted \/ FinalizeDrifted \/ FinalizeSecrets
         \/ FinalizeResume \/ FinalizeGate \/ FinalizeCheck \/ FinalizeCommit
         \/ FinalizeCard
  BY <1>14, <1>a, PlainPays
  DEF EngineFails, VerifyExhausted, FinalizeDrifted, FinalizeSecrets, FinalizeResume,
      FinalizeGate, FinalizeCheck, FinalizeCommit, FinalizeCard
<1>15. CASE EditLeave
  <2>1. mem.phase = "EDIT"
    BY <1>15 DEF EditLeave, Placing
  <2>2. /\ [mem EXCEPT !.replans = @ + 1].phase = mem.phase
        /\ [mem EXCEPT !.replans = @ + 1].edit = mem.edit
        /\ [mem EXCEPT !.replans = @ + 1].replans > mem.replans
        /\ mem.replans < MaxReplans => [mem EXCEPT !.replans = @ + 1] \in State
    BY <1>a, <1>e
  <2>3. \/ Move(mem, "VERIFY")
        \/ \E st, why : StopWith(mem, st, why)
        \/ mem.replans < MaxReplans /\ Move([mem EXCEPT !.replans = @ + 1], "PLAN")
    <3>1. mem.edit.outcome \in {"open", "done", "exhausted", "stopped"}
      BY <1>a DEF Transcript
    <3>2. CASE mem.edit.outcome = "done"
      BY <1>15, <3>2 DEF EditLeave
    <3>3. CASE mem.edit.outcome = "stopped"
      BY <1>15, <3>3 DEF EditLeave
    <3>4. CASE mem.edit.outcome = "exhausted"
      BY <1>15, <1>a, <3>4 DEF EditLeave, MaxReplans
    <3> QED
      BY <1>15, <3>1, <3>2, <3>3, <3>4 DEF EditLeave
  <2>4. CASE Move(mem, "VERIFY") \/ \E st, why : StopWith(mem, st, why)
    BY <1>a, <2>1, <2>4, PlainPays DEF PhaseName
  <2>5. CASE mem.replans < MaxReplans /\ Move([mem EXCEPT !.replans = @ + 1], "PLAN")
    BY <1>a, <1>c, <2>1, <2>2, <2>5, PlainPays DEF PhaseName
  <2> QED
    BY <2>3, <2>4, <2>5
<1>16. CASE VerifyRun \/ VerifyRerun
  <2>1. PICK s : /\ s.loops = mem.loops + 1 /\ s.edit = mem.edit /\ s.phase = mem.phase
                 /\ \/ mem' = s /\ pc' = "stop"
                    \/ mem' = s /\ pc' \in {"rerun", "judge"} /\ saved' = saved
    <3>1. CASE VerifyRun
      <4>1. PICK status \in {"pass", "fail", "skipped", "environment"} :
              LET s == [[mem EXCEPT !.loops = @ + 1] EXCEPT !.results =
                          [cand |-> mem.cand, status |-> status, on |-> tree']]
              IN \/ StopWith(s, "blocked", "environment")
                 \/ Continue(s, "rerun")
                 \/ Continue(s, "judge")
        BY <3>1 DEF VerifyRun
      <4> DEFINE c == [mem EXCEPT !.loops = @ + 1]
                 s == [c EXCEPT !.results =
                          [cand |-> mem.cand, status |-> status, on |-> tree']]
      <4>2. c \in State
        BY <1>a, <3>1, SetCounters DEF VerifyRun
      <4>3. s.loops = mem.loops + 1 /\ s.edit = mem.edit /\ s.phase = mem.phase
        BY <1>a, <4>2, PlainUpdates
      <4> QED
        BY <4>1, <4>3 DEF StopWith, Continue
    <3>2. CASE VerifyRerun
      <4> DEFINE c == [mem EXCEPT !.loops = @ + 1]
      <4>1. PICK status \in {"pass", "fail", "skipped", "environment"} :
              LET r == [cand |-> mem.cand, status |-> status, on |-> tree']
              IN \/ StopWith(c, "blocked", "environment")
                 \/ Continue([c EXCEPT !.results = r], "judge")
                 \/ Continue(c, "judge")
        BY <3>2 DEF VerifyRerun
      <4>2. c \in State /\ c.loops = mem.loops + 1 /\ c.edit = mem.edit
            /\ c.phase = mem.phase
        BY <1>a, <3>2, SetCounters, PlainUpdates DEF VerifyRerun, TypeInv, RerunHasLoop
      <4>3. \A r : LET s == [c EXCEPT !.results = r] IN
              s.loops = mem.loops + 1 /\ s.edit = mem.edit /\ s.phase = mem.phase
        BY <4>2, PlainUpdates
      <4> HIDE DEF c
      <4> QED
        BY <4>1, <4>2, <4>3 DEF StopWith, Continue
    <3> QED
      BY <1>16, <3>1, <3>2
  <2> QED
    BY <1>a, <2>1 DEF Pays, Transcribed
<1>17. CASE JudgeAccepts
  <2>1. pc = "judge" /\ mem.phase = "VERIFY"
    BY <1>17 DEF JudgeAccepts, Placing
  <2>2. /\ [mem EXCEPT !.replans = @ + 1].phase = mem.phase
        /\ [mem EXCEPT !.replans = @ + 1].edit = mem.edit
        /\ [mem EXCEPT !.replans = @ + 1].replans > mem.replans
        /\ mem.replans < MaxReplans => [mem EXCEPT !.replans = @ + 1] \in State
    BY <1>a, <1>e
  <2>3. \/ Move(mem, "REVIEW")
        \/ \E st, why : StopWith(mem, st, why)
        \/ mem.replans < MaxReplans /\ Move([mem EXCEPT !.replans = @ + 1], "PLAN")
    BY <1>17, <1>a DEF JudgeAccepts, MaxReplans
  <2>4. CASE Move(mem, "REVIEW") \/ \E st, why : StopWith(mem, st, why)
    BY <1>a, <2>1, <2>4, PlainPays DEF PhaseName
  <2>5. CASE mem.replans < MaxReplans /\ Move([mem EXCEPT !.replans = @ + 1], "PLAN")
    BY <1>a, <1>c, <2>1, <2>2, <2>5, PlainPays DEF PhaseName
  <2> QED
    BY <2>3, <2>4, <2>5
<1>18. CASE JudgeRejects
  <2>1. pc = "judge" /\ mem.phase = "VERIFY"
    BY <1>18 DEF JudgeRejects, Placing
  <2>2. PICK regressed \in {mem.regressed, TRUE} :
          LET s == [mem EXCEPT !.regressed = regressed]
              cleared == [s EXCEPT !.edit = EmptyTranscript]
          IN \/ StopWith(s, "failed", "repair")
             \/ Move(cleared, "EDIT")
             \/ StopWith(cleared, "failed", "replans")
             \/ /\ ~(mem.replans >= MaxReplans)
                /\ Move([cleared EXCEPT !.replans = @ + 1], "LOCALIZE")
    BY <1>18, Zenon DEF JudgeRejects
  <2> DEFINE s == [mem EXCEPT !.regressed = regressed]
             c == [s EXCEPT !.edit = EmptyTranscript]
             r == [c EXCEPT !.replans = @ + 1]
  <2>3. s \in State /\ s.edit = mem.edit /\ s.phase = mem.phase /\ s.replans = mem.replans
    BY <1>a, <2>2, SetFlags, PlainUpdates DEF State
  <2>4. /\ c \in State /\ c.edit = EmptyTranscript /\ c.phase = mem.phase
        /\ c.replans = mem.replans
    BY <2>3, EmptyTranscriptTyped, SetEdit, PlainUpdates
  <2>5. /\ mem.replans < MaxReplans => r \in State
        /\ r.edit = EmptyTranscript /\ r.phase = mem.phase /\ r.replans > mem.replans
    <3> HIDE DEF c
    <3>1. mem.replans < MaxReplans => r \in State
      BY <2>4, SetCounters
    <3>2. r.edit = c.edit /\ r.phase = c.phase /\ r.replans = c.replans + 1
      BY <2>4 DEF State
    <3> QED
      BY <1>a, <2>4, <3>1, <3>2
  <2>6. Transcribed(s) /\ Transcribed(c) /\ Transcribed(r)
    BY <1>a, <2>3, <2>4, <2>5 DEF Transcribed, EmptyTranscript
  <2>a. ~(mem.replans >= MaxReplans) => mem.replans < MaxReplans
    BY <1>a DEF MaxReplans
  <2>7. \/ \E st, why : StopWith(s, st, why) \/ StopWith(c, st, why)
        \/ Move(c, "EDIT")
        \/ mem.replans < MaxReplans /\ Move(r, "LOCALIZE")
    BY <2>2, <2>a
  <2> HIDE DEF s, c, r
  <2>8. CASE \E st, why : StopWith(s, st, why) \/ StopWith(c, st, why)
    BY <1>d, <2>3, <2>4, <2>6, <2>8, PlainPays
  <2>9. CASE Move(c, "EDIT")
    BY <1>d, <2>1, <2>4, <2>6, <2>9, PlainPays DEF PhaseName
  <2>10. CASE mem.replans < MaxReplans /\ Move(r, "LOCALIZE")
    BY <1>d, <2>1, <2>5, <2>6, <2>10, PlainPays DEF PhaseName
  <2> QED
    BY <2>7, <2>8, <2>9, <2>10
<1>19. CASE ReviewAccepts
  BY <1>19, <1>a, PlainPays DEF ReviewAccepts, PhaseName
<1>20. CASE ReviewRejects
  <2> DEFINE s == Unreviewed(mem)
             c == [s EXCEPT !.edit = EmptyTranscript]
  <2>1. s \in State /\ s.edit = mem.edit /\ s.phase = mem.phase
    BY <1>a, SetReviewed, PlainUpdates DEF Unreviewed
  <2>2. c \in State /\ c.edit = EmptyTranscript /\ c.phase = mem.phase
    BY <2>1, EmptyTranscriptTyped, SetEdit, PlainUpdates
  <2>3. Transcribed(s) /\ Transcribed(c) /\ mem.phase = "REVIEW"
    BY <1>20, <1>a, <2>1, <2>2 DEF Transcribed, EmptyTranscript, ReviewRejects
  <2>4. StopWith(s, "failed", "review") \/ Move(c, "EDIT")
    BY <1>20 DEF ReviewRejects
  <2> HIDE DEF s, c
  <2> QED
    BY <1>d, <2>1, <2>2, <2>3, <2>4, PlainPays DEF PhaseName
<1>21. CASE FinalizeCandidate
  <2> DEFINE s == [mem EXCEPT !.finalCand = tree, !.cand = tree]
  <2>1. s \in State /\ s.edit = mem.edit /\ s.phase = mem.phase
    <3>1. s \in State
      BY <1>a, SetFinalCand
    <3> QED
      BY <1>a, <3>1 DEF State
  <2>2. SaveAndContinue(s, "gate")
    BY <1>21 DEF FinalizeCandidate
  <2> HIDE DEF s
  <2> QED
    BY <1>a, <2>1, <2>2, PlainPays DEF Transcribed
<1>22. CASE StopSave \/ FinishCheckpoint
  <2>1. mem' = mem /\ pc' \in {"finish", "setstate"}
    BY <1>22 DEF StopSave, FinishCheckpoint
  <2> QED
    BY <1>a, <2>1 DEF Pays
<1> QED
  BY <1>1, <1>2, <1>3, <1>4, <1>5, <1>6, <1>7, <1>8, <1>9, <1>10, <1>11, <1>12,
     <1>13, <1>14, <1>15, <1>16, <1>17, <1>18, <1>19, <1>20, <1>21, <1>22
  DEF Handler, Early, Edit, Verify, Final

\* One step keeps the invariant, and the record is charged for what it shows.
LEMMA PaidStep ==
    ASSUME TypeInv, TypeInv', ProgressInv, PaidInv, [Next]_vars
    PROVE  /\ PaidInv'
           /\ saved # None =>
                 /\ saved.phase = "VERIFY" /\ saved'.phase # "VERIFY" =>
                       saved'.loops > saved.loops
                 /\ saved.edit.msgs = 0 /\ saved'.edit.msgs # 0 =>
                       saved'.attempts > saved.attempts
                 /\ /\ saved.phase \in {"EDIT", "VERIFY"}
                    /\ saved'.phase \in {"PLAN", "LOCALIZE"}
                    => saved'.replans > saved.replans
<1>a. /\ mem \in State /\ mem' \in State /\ None \notin State
      /\ saved \in State \cup {None} /\ saved' \in State \cup {None}
  BY NoneAssumption DEF TypeInv, TypeOK
<1>b. \A s \in State : s.attempts \in Nat /\ s.replans \in Nat /\ s.loops \in Nat
  BY StateFields, BudgetAssumption DEF MaxReplans, MaxVerifyLoops
<1>c. saved = saved' /\ saved # None =>
        ~(saved.phase = "VERIFY" /\ saved'.phase # "VERIFY")
  OBVIOUS
<1>1. CASE Handler
  <2>1. Effect /\ Pays
    BY <1>1, HandlerEffect, HandlerPays DEF ProgressInv
  <2>2. /\ saved # None /\ Spent(saved, mem) /\ Spent(mem, mem')
        /\ saved' \in {saved, mem'} /\ pc \notin {"idle", "load"}
    BY <2>1 DEF Effect, Spends, ProgressInv, Follows
  <2>3. /\ saved.attempts \in Nat /\ saved.replans \in Nat /\ saved.loops \in Nat
        /\ mem.attempts \in Nat /\ mem.replans \in Nat /\ mem.loops \in Nat
        /\ mem'.attempts \in Nat /\ mem'.replans \in Nat /\ mem'.loops \in Nat
    BY <1>a, <1>b, <2>2
  <2>4. saved.phase = mem.phase /\ saved'.phase = mem'.phase
    BY <2>1, <2>2 DEF Effect, Moves, PaidInv
  <2>5. saved # None => Transcribed(saved')
    BY <2>1, <2>2 DEF Pays, PaidInv
  <2>6. pc' \in {"rerun", "judge"} => saved'.loops < mem'.loops
    BY <2>1, <2>2, <2>3 DEF Pays, Spent
  <2>7. saved'.edit.msgs = 0 /\ (pc' = "engine" \/ mem'.edit.msgs # 0) =>
           saved'.attempts < mem'.attempts
    <3>1. CASE saved' = mem'
      BY <2>1, <2>2, <2>3, <3>1 DEF Pays, Spent
    <3>2. CASE saved' = saved
      BY <2>1, <2>2, <2>3, <3>2 DEF Pays, Spent, PaidInv
    <3> QED
      BY <2>2, <3>1, <3>2
  <2>8. PaidInv'
    BY <2>1, <2>2, <2>4, <2>5, <2>6, <2>7 DEF PaidInv, Pays
  <2>9. saved.phase = "VERIFY" /\ saved'.phase # "VERIFY" => saved'.loops > saved.loops
    BY <2>1, <2>2, <2>3, <2>4 DEF Pays, PaidInv, Spent
  <2>10. saved.edit.msgs = 0 /\ saved'.edit.msgs # 0 => saved'.attempts > saved.attempts
    BY <2>1, <2>2, <2>3 DEF Pays, PaidInv, Spent
  <2>11. saved.phase \in {"EDIT", "VERIFY"} /\ saved'.phase \in {"PLAN", "LOCALIZE"} =>
            saved'.replans > saved.replans
    BY <2>1, <2>2, <2>3, <2>4 DEF Pays, Spent
  <2> QED
    BY <2>8, <2>9, <2>10, <2>11
<1>2. CASE Load
  <2>1. Transcribed(InitialState)
    BY DEF Transcribed, InitialState, EmptyTranscript
  <2>2. /\ Transcribed(mem') /\ saved' = mem' /\ pc' = "top"
        /\ saved # None => saved' = saved
    BY <1>2, <1>a, <2>1 DEF Load, PaidInv
  <2> QED
    BY <2>2 DEF PaidInv
<1>3. CASE FinishSetState \/ Crash
  <2>1. mem' = InitialState /\ pc' = "idle" /\ saved' = saved
    BY <1>3 DEF FinishSetState, Crash, durable
  <2>2. Transcribed(InitialState)
    BY DEF Transcribed, InitialState, EmptyTranscript
  <2> QED
    BY <2>1, <2>2 DEF PaidInv
<1>4. CASE Start
  BY <1>4 DEF Start, PaidInv
<1>5. CASE Reopen \/ Drift \/ DeadlinePasses \/ (\E c \in Content : Answer(c)) \/ UNCHANGED vars
  <2>1. UNCHANGED <<pc, mem, saved>>
    BY <1>5 DEF Reopen, Drift, DeadlinePasses, Answer, vars, process, durable
  <2> QED
    BY <2>1 DEF PaidInv
<1> QED
  BY <1>1, <1>2, <1>3, <1>4, <1>5 DEF Next, Runner, Environment, Handler

LEMMA PaidHolds == Spec => []PaidInv
<1>1. Init => PaidInv
  BY DEF Init, PaidInv, Transcribed, InitialState, EmptyTranscript
<1>2. TypeInv /\ TypeInv' /\ ProgressInv /\ PaidInv /\ [Next]_vars => PaidInv'
  BY PaidStep
<1> QED
  BY <1>1, <1>2, TypeCorrect, ProgressHolds, PTL DEF Spec

\* The budgets are the task's: every verification loop, attempt and replan that
\* the saved state shows to have been used is charged in it, and no crash, restart,
\* retry, deadline or edit from outside takes a charge back (runPhases counts in
\* memory, Store.SaveWorkflow records; what is counted and not yet saved is lost).
THEOREM BudgetsOnlySpent == Spec => BudgetsNeverRewind
<1>1. TypeInv /\ TypeInv' /\ ProgressInv /\ PaidInv /\ [Next]_vars =>
        [saved # None =>
           /\ saved' # None
           /\ saved'.attempts >= saved.attempts
           /\ saved'.replans >= saved.replans
           /\ saved'.loops >= saved.loops
           /\ saved.regressed => saved'.regressed
           /\ saved.phase = "VERIFY" /\ saved'.phase # "VERIFY" =>
                 saved'.loops > saved.loops
           /\ saved.edit.msgs = 0 /\ saved'.edit.msgs # 0 =>
                 saved'.attempts > saved.attempts
           /\ saved.phase \in {"EDIT", "VERIFY"} /\ saved'.phase \in {"PLAN", "LOCALIZE"} =>
                 saved'.replans > saved.replans]_vars
  BY ProgressStep, PaidStep DEF Follows, Spent
<1> QED
  BY <1>1, TypeCorrect, ProgressHolds, PaidHolds, PTL DEF Spec, BudgetsNeverRewind

\* The content an approval is asked for stays the content: from the moment
\* FINALIZE has saved its candidate, no step replaces it, its results or its phase,
\* wherever somebody edits the checkout and wherever the run is interrupted.
THEOREM ApprovalSubjectStands == Spec => FinalCandidateIsFixed
<1>1. TypeInv /\ TypeInv' /\ ProgressInv /\ [Next]_vars =>
        [saved # None /\ saved.finalCand # None =>
           /\ saved'.finalCand = saved.finalCand
           /\ saved'.results = saved.results
           /\ saved'.phase = "FINALIZE"]_vars
  BY ProgressStep DEF Follows
<1> QED
  BY <1>1, TypeCorrect, ProgressHolds, PTL DEF Spec, FinalCandidateIsFixed

-----------------------------------------------------------------------------
(* Review, and the transcript, with nobody else in the checkout *)

\* Adding the card twice is adding it once.
LEMMA CardedTwice ==
    ASSUME NEW c \in Content
    PROVE  Carded(c) \in Content /\ Carded(Carded(c)) = Carded(c)
  BY DEF Content, Carded

\* One step of a handler, or of its environment, with nobody else in the checkout.
LEMMA SoloStep ==
    ASSUME DriftPoints = {}, TypeInv, TypeInv', ProgressInv, ProgressInv', SoloInv,
           [Next]_vars
    PROVE  SoloInv'
<1>a. /\ mem \in State /\ mem' \in State /\ None \notin State
      /\ saved \in State \cup {None} /\ saved' \in State \cup {None}
      /\ tree \in Content /\ tree' \in Content /\ None \notin Content
      /\ branch \in Content /\ branch' \in Content
  BY NoneAssumption DEF TypeInv, TypeOK
<1>1. CASE Handler
  <2>1. Effect
    BY <1>1, HandlerEffect DEF ProgressInv
  <2>2. saved # None /\ saved.phase = mem.phase /\ saved.finalCand = mem.finalCand
    BY <2>1 DEF Effect, ProgressInv, SoloInv
  <2>3. Describes(mem)' /\ Describes(saved)'
    <3>1. tree' # tree => \/ pc = "tool" /\ UNCHANGED <<mem, saved>>
                          \/ mem.phase # "EDIT" /\ mem'.phase # "EDIT"
      BY <2>1 DEF Effect, Writes, Edits, Moves
    <3>2. mem'.edit = mem.edit \/ mem'.edit.cand = tree
             \/ mem'.phase # "EDIT" \/ mem'.edit = EmptyTranscript
      BY <2>1 DEF Effect, Edits, Moves
    <3>3. EmptyTranscript.cand = None
      BY DEF EmptyTranscript
    <3>4. Describes(mem)'
      BY <2>1, <3>1, <3>2, <3>3 DEF Describes, SoloInv, Effect, Moves
    <3>5. saved' = saved => Describes(saved)'
      BY <2>1, <2>2, <3>1 DEF Describes, SoloInv, Effect, Moves
    <3> QED
      BY <2>1, <3>4, <3>5 DEF Effect, Spends, Describes
  <2>4. Reviewed(mem)' /\ Reviewed(saved)'
    <3>1. mem.phase = "FINALIZE" => /\ mem'.phase = "FINALIZE"
                                    /\ mem'.reviewed = mem.reviewed
                                    /\ Carded(tree') = Carded(tree)
      BY <1>a, <2>1, CardedTwice
      DEF Effect, Moves, Finals, Writes, Stands, ProgressInv, Placing
    <3>2. CASE mem'.finalCand # mem.finalCand
      <4>1. /\ pc = "carded" /\ mem.phase = "FINALIZE" /\ mem.finalCand = None
            /\ tree = Carded(mem.reviewed) /\ mem'.finalCand = tree /\ saved' = mem'
        BY <2>1, <3>2 DEF Effect, Finals, SoloInv, ProgressInv, Placing
      <4> QED
        BY <1>a, <3>1, <4>1 DEF Reviewed, SoloInv
    <3>3. CASE mem'.finalCand = mem.finalCand
      <4>1. CASE mem.phase = "FINALIZE"
        <5>1. Reviewed(mem)'
          BY <3>1, <3>3, <4>1 DEF Reviewed, SoloInv
        <5>2. saved' = saved => Reviewed(saved)'
          BY <2>2, <3>1, <4>1 DEF Reviewed, SoloInv
        <5> QED
          BY <2>1, <5>1, <5>2 DEF Effect, Spends, Reviewed
      <4>2. CASE mem.phase # "FINALIZE"
        <5>1. mem.finalCand = None
          BY <4>2 DEF ProgressInv, AtEnd
        <5>2. mem'.phase = "FINALIZE" => /\ mem'.reviewed = tree /\ tree' = tree
                                         /\ saved' = mem'
          BY <2>1, <4>2 DEF Effect, Moves, SoloInv
        <5>3. Reviewed(mem)'
          BY <1>a, <3>3, <5>1, <5>2 DEF Reviewed
        <5>4. saved' = saved => Reviewed(saved)'
          BY <2>2, <4>2, <5>1 DEF Reviewed
        <5> QED
          BY <2>1, <5>3, <5>4 DEF Effect, Spends, Reviewed
      <4> QED
        BY <4>1, <4>2
    <3> QED
      BY <3>2, <3>3
  <2>5. saved'.phase = mem'.phase /\ saved'.finalCand = mem'.finalCand
    BY <2>1, <2>2 DEF Effect, Spends, Moves, Finals
  <2>6. /\ pc' = "phase" => mem'.cand = tree'
        /\ pc' \in {"tool", "tooled"} => mem'.edit.pending /\ saved'.edit.pending
        /\ pc' = "decided" /\ mem'.phase = "REVIEW" => mem'.reviewed = tree'
    BY <2>1 DEF Effect, Stands, Edits, SoloInv
  <2>7. pc' = "carded" => tree' = Carded(mem'.reviewed)
    <3> SUFFICES ASSUME pc' = "carded" PROVE tree' = Carded(mem'.reviewed)
      OBVIOUS
    <3>1. tree' = Carded(tree) /\ mem' = mem
      BY <2>1 DEF Effect, Stands
    <3>2. mem.phase = "FINALIZE" /\ mem.finalCand = None
      BY <3>1 DEF ProgressInv, Placing
    <3> QED
      BY <3>1, <3>2 DEF SoloInv, Reviewed
  <2>8. pc' \in {"gate", "commit", "committing"} =>
          mem'.finalCand # None /\ mem'.finalCand = mem'.cand
    BY <1>a, <2>1 DEF Effect, Stands, SoloInv
  <2>9. pc' = "committing" => tree' = mem'.cand
    BY <2>1 DEF Effect, Stands
  <2>10. Committed' => saved' # None /\ saved'.finalCand = branch'
    <3>1. saved' # None /\ Follows(saved, saved')
      BY <2>2, ProgressStep
    <3>2. CASE branch' = branch
      BY <1>a, <3>1, <3>2 DEF SoloInv, Committed, Follows
    <3>3. CASE branch' # branch
      <4>1. pc = "committing" /\ branch' = tree /\ saved' = saved
        BY <2>1, <3>3 DEF Effect, Publishes
      <4> QED
        BY <2>2, <4>1 DEF SoloInv
    <3> QED
      BY <3>2, <3>3
  <2>11. reason' # "transcript"
    BY <2>1 DEF Effect, Complains, SoloInv, Describes
  <2> QED
    BY <2>3, <2>4, <2>5, <2>6, <2>7, <2>8, <2>9, <2>10, <2>11 DEF SoloInv
<1>2. CASE Load
  <2>1. Describes(InitialState)' /\ Reviewed(InitialState)'
    BY DEF Describes, Reviewed, InitialState
  <2>2. /\ mem' = (IF saved = None THEN InitialState ELSE saved)
        /\ saved' = mem' /\ pc' = "top" /\ UNCHANGED <<tree, branch, reason>>
    BY <1>2 DEF Load
  <2>3. Describes(mem)' /\ Reviewed(mem)'
    BY <2>1, <2>2 DEF SoloInv, Describes, Reviewed
  <2> QED
    BY <2>2, <2>3 DEF SoloInv, Describes, Reviewed, Committed
<1>3. CASE FinishSetState \/ Crash
  <2>1. /\ mem' = InitialState /\ pc' = "idle" /\ UNCHANGED <<saved, tree, branch>>
        /\ reason' = "none"
    BY <1>3 DEF FinishSetState, Crash, durable
  <2>2. Describes(mem)' /\ Reviewed(mem)'
    BY <2>1 DEF Describes, Reviewed, InitialState
  <2> QED
    BY <2>1, <2>2 DEF SoloInv, Describes, Reviewed, Committed
<1>4. CASE Start
  BY <1>4 DEF Start, SoloInv, Describes, Reviewed, Committed
<1>5. CASE Reopen \/ DeadlinePasses \/ (\E c \in Content : Answer(c)) \/ UNCHANGED vars
  <2>1. UNCHANGED <<pc, mem, saved, tree, branch, reason>>
    BY <1>5 DEF Reopen, DeadlinePasses, Answer, vars, process, durable
  <2> QED
    BY <2>1 DEF SoloInv, Describes, Reviewed, Committed
<1>6. ~Drift
  BY DEF Drift
<1> QED
  BY <1>1, <1>2, <1>3, <1>4, <1>5, <1>6 DEF Next, Runner, Environment, Handler

LEMMA SoloHolds ==
    ASSUME DriftPoints = {}
    PROVE  Spec => []SoloInv
<1>1. Init => SoloInv
  BY DEF Init, SoloInv, Describes, Reviewed, Committed, InitialState
<1>2. TypeInv /\ TypeInv' /\ ProgressInv /\ ProgressInv' /\ SoloInv /\ [Next]_vars
        => SoloInv'
  BY SoloStep
<1> QED
  BY <1>1, <1>2, TypeCorrect, ProgressHolds, PTL DEF Spec

\* With nobody else in the checkout, what is on the branch is the content, and the
\* card, whose diff the accepting verdict of REVIEW was given on: for every set of
\* generate presets, every budget and wherever the run dies or its deadline passes.
THEOREM ReviewPrecedesCommit ==
    ASSUME DriftPoints = {}
    PROVE  Spec => []CommittedIsReviewed
<1>1. TypeInv /\ SoloInv => CommittedIsReviewed
  BY NoneAssumption DEF TypeInv, TypeOK, SoloInv, Reviewed, CommittedIsReviewed
<1> QED
  BY <1>1, TypeCorrect, SoloHolds, PTL

\* With nobody else in the checkout, a resumed EDIT is never refused for the
\* runner's own writes: the transcript is stamped after every tool call, saved as
\* pending before one, and empty when EDIT is entered.
THEOREM OwnEditsResume == Spec => []TranscriptFollowsTree
<1>1. CASE DriftPoints = {}
  <2>1. SoloInv => TranscriptFollowsTree
    BY DEF SoloInv, TranscriptFollowsTree
  <2> QED
    BY <1>1, <2>1, SoloHolds, PTL
<1>2. CASE DriftPoints # {}
  <2>1. TranscriptFollowsTree
    BY <1>2 DEF TranscriptFollowsTree
  <2> QED
    BY <2>1, PTL
<1> QED
  BY <1>1, <1>2
=============================================================================
