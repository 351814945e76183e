------------------------------- MODULE Phases -------------------------------
(***************************************************************************)
(* The supervised phase machine of one task: task.Runner.runPhases and the *)
(* parts of Runner.Run, Runner.finish, Store.SaveWorkflow, Store.SetState  *)
(* and Store.Reopen that it drives.                                        *)
(*                                                                         *)
(* A run loads the persisted workflow state into memory, executes one      *)
(* phase after another and saves the state at fixed points.  Everything    *)
(* in memory is lost when the process dies, or when a handler returns an   *)
(* infrastructure error, which has the same durable effect; the worktree,  *)
(* the saved state, the gate, the branch and the task's state survive.     *)
(* The handlers are split exactly where a durable effect has happened that *)
(* the saved state does not show yet.                                      *)
(*                                                                         *)
(* Contents of the worktree stand for their manifest hashes: two contents  *)
(* are equal exactly when their candidates are.                            *)
(***************************************************************************)
EXTENDS Integers

CONSTANTS
    Codes,          \* contents the task's code can have
    BaseCode,       \* the content at the task's base commit
    Generate,       \* what the frozen generate presets make of each content
    MaxAttempts,    \* Budget.MaxAttempts
    MaxTools,       \* tool calls one EDIT transcript may hold
    GateRequired,   \* the approval policy requires a gate for applying
    DriftPoints,    \* where in a run somebody else may edit the checkout
    CrashPoints,    \* where in a run the process may die
    None            \* an absent candidate, state or status

ASSUME CodesAssumption    == BaseCode \in Codes
ASSUME GenerateAssumption == Generate \in [Codes -> Codes]
ASSUME BudgetAssumption   == /\ MaxAttempts \in Nat \ {0}
                             /\ MaxTools \in Nat \ {0}
ASSUME GateAssumption     == GateRequired \in BOOLEAN

\* The contents of the checkout: the code, and whether FINALIZE has added the
\* task card to it.
Content == [code : Codes, card : BOOLEAN]

BaseContent == [code |-> BaseCode, card |-> FALSE]

-----------------------------------------------------------------------------
(* The phase contract *)

PhaseName == {"INTAKE", "LOCALIZE", "IMPACT", "PLAN", "EDIT", "VERIFY",
              "REVIEW", "FINALIZE"}

\* workflow.Transition: the phases each phase may be followed by.
Transition ==
    [ INTAKE   |-> {"LOCALIZE"},
      LOCALIZE |-> {"IMPACT"},
      IMPACT   |-> {"PLAN"},
      PLAN     |-> {"EDIT"},
      EDIT     |-> {"VERIFY", "PLAN", "LOCALIZE"},
      VERIFY   |-> {"EDIT", "REVIEW", "LOCALIZE", "PLAN"},
      REVIEW   |-> {"EDIT", "LOCALIZE", "FINALIZE"},
      FINALIZE |-> {} ]

\* Budgets that are literals in the code.
MaxReplans     == 2
MaxVerifyLoops == 4

TaskState == {"pending", "running", "blocked", "review", "accepted", "failed"}

Terminal == {"accepted", "failed"}

\* workflow.Transcript of the EDIT phase: msgs is 0 for an empty transcript,
\* 2 once the two opening messages are in it and 3 for anything longer;
\* outcome is what a closed transcript says.
Transcript ==
    [ msgs    : {0, 2, 3},
      tools   : 0..MaxTools,
      pending : BOOLEAN,
      outcome : {"open", "done", "exhausted", "stopped"},
      cand    : Content \cup {None} ]

EmptyTranscript ==
    [ msgs |-> 0, tools |-> 0, pending |-> FALSE, outcome |-> "open",
      cand |-> None ]

\* The verification results in the state: the candidate they are labelled
\* with, what they say, and (not in the code) the content the checks really
\* ran against.
Results ==
    [ cand   : Content \cup {None},
      status : {"none", "pass", "fail", "skipped", "environment"},
      on     : Content \cup {None} ]

NoResults == [ cand |-> None, status |-> "none", on |-> None ]

\* workflow.State.  regressed: more than two failures so far were regressions
\* against the baseline (s.Regressions > 2; any number of failures can come
\* out of one verification).  reviewed is the content whose diff the last review was
\* shown, until its verdict rejects it; the code keeps the verdict only.
State ==
    [ phase       : PhaseName,
      cand        : Content \cup {None},
      presets     : BOOLEAN,
      tokensOut   : BOOLEAN,
      attempts    : 0..MaxAttempts,
      replans     : 0..MaxReplans,
      loops       : 0..MaxVerifyLoops,
      regressed   : BOOLEAN,
      edit        : Transcript,
      results     : Results,
      reviewed    : Content \cup {None},
      finalCand   : Content \cup {None} ]

InitialState ==
    [ phase |-> "INTAKE", cand |-> None, presets |-> FALSE,
      tokensOut |-> FALSE, attempts |-> 0, replans |-> 0, loops |-> 0,
      regressed |-> FALSE, edit |-> EmptyTranscript, results |-> NoResults,
      reviewed |-> None, finalCand |-> None ]

ASSUME NoneAssumption == None \notin Content /\ None \notin State

-----------------------------------------------------------------------------

VARIABLES
    pc,         \* where the running process is; "idle" when there is none
    mem,        \* the workflow state in the process's memory
    stopping,   \* the task state a run that is stopping will record
    reason,     \* why it is stopping
    saved,      \* task_workflow: the persisted state, or None
    task,       \* tasks.state
    checkpoint, \* the status in the task's latest ledger checkpoint
    tree,       \* contents of the task's checkout
    branch,     \* contents of the tip of the task branch
    gates,      \* the broker's decision about applying each content
    expired     \* the wall-clock budget has run out

process == <<pc, mem, stopping, reason>>
durable == <<saved, task, checkpoint, tree, branch, gates>>
vars    == <<process, durable, expired>>

Points == {"idle", "load", "top", "phase", "decided", "engine", "tool",
           "tooled", "rerun", "judge", "carded", "gate", "commit",
           "committing", "stop", "finish", "setstate"}

ASSUME PointsAssumption == /\ DriftPoints \subseteq Points
                           /\ CrashPoints \subseteq Points

Reasons == {"none", "deadline", "tokens", "environment", "save", "planning",
            "protected", "transcript", "attempts", "engine",
            "incomplete", "loops", "obligations", "replans", "repair",
            "review", "drifted", "memory", "secrets", "gate", "commit", "done"}

\* The types of the variables.
TypeOK ==
    /\ pc \in Points
    /\ mem \in State
    /\ stopping \in TaskState \cup {None}
    /\ reason \in Reasons
    /\ saved \in State \cup {None}
    /\ task \in TaskState
    /\ checkpoint \in TaskState \cup {None}
    /\ tree \in Content
    /\ branch \in Content
    /\ gates \in [Content -> {"none", "pending", "approved", "rejected"}]
    /\ expired \in BOOLEAN

\* A rerun has a verification loop left to count.
RerunHasLoop == pc = "rerun" => mem.loops < MaxVerifyLoops

\* A run that is stopping has decided on the task's state.
StopsKnown == pc \in {"stop", "finish", "setstate"} => stopping \in TaskState

\* The type invariant and what it takes to make it inductive: the counters stay
\* within their budgets because a handler looks before it counts.
TypeInv == TypeOK /\ RerunHasLoop /\ StopsKnown

Init ==
    /\ pc = "idle"
    /\ mem = InitialState
    /\ stopping = None
    /\ reason = "none"
    /\ saved = None
    /\ task = "pending"
    /\ checkpoint = None
    /\ tree = BaseContent
    /\ branch = BaseContent
    /\ gates = [c \in Content |-> "none"]
    /\ expired = FALSE

-----------------------------------------------------------------------------
(* Starting and ending a run *)

\* Runner.Run: a task that is not terminal is marked running.
Start ==
    /\ pc = "idle"
    /\ task \notin Terminal
    /\ task' = "running"
    /\ pc' = "load"
    /\ UNCHANGED <<mem, stopping, reason, saved, checkpoint, tree, branch,
                   gates, expired>>

\* The head of runPhases: LoadWorkflow, or a fresh state saved at INTAKE.
Load ==
    /\ pc = "load"
    /\ mem' = IF saved = None THEN InitialState ELSE saved
    /\ saved' = mem'
    /\ pc' = "top"
    /\ UNCHANGED <<stopping, reason, task, checkpoint, tree, branch, gates,
                   expired>>

\* The closure stop: the state to save, and what to record about the task.
StopWith(s, status, why) ==
    /\ mem' = s
    /\ stopping' = status
    /\ reason' = why
    /\ pc' = "stop"
    /\ saved' = saved

\* stop saves under a detached context, so it succeeds past the deadline.
StopSave ==
    /\ pc = "stop"
    /\ saved' = mem
    /\ pc' = "finish"
    /\ UNCHANGED <<mem, stopping, reason, task, checkpoint, tree, branch,
                   gates, expired>>

\* Runner.finish, first half: the checkpoint.
FinishCheckpoint ==
    /\ pc = "finish"
    /\ checkpoint' = stopping
    /\ pc' = "setstate"
    /\ UNCHANGED <<mem, stopping, reason, saved, task, tree, branch, gates,
                   expired>>

\* Runner.finish, second half: the task's state.  The run is over.
FinishSetState ==
    /\ pc = "setstate"
    /\ task' = stopping
    /\ pc' = "idle"
    /\ mem' = InitialState
    /\ stopping' = None
    /\ reason' = "none"
    /\ UNCHANGED <<saved, checkpoint, tree, branch, gates, expired>>

\* The process is killed, or a handler returns an error without stopping the
\* task: the memory is gone and the task stays "running".
Crash ==
    /\ pc \in CrashPoints \ {"idle"}
    /\ pc' = "idle"
    /\ mem' = InitialState
    /\ stopping' = None
    /\ reason' = "none"
    /\ UNCHANGED <<durable, expired>>

\* The closure move: the state is saved at the next phase.  SaveWorkflow runs
\* under the task's deadline; when it fails the phase is restored and the task
\* stops as blocked.
Move(s, next) ==
    /\ next \in Transition[s.phase]
    /\ IF expired
       THEN StopWith(s, "blocked", "save")
       ELSE /\ mem' = [s EXCEPT !.phase = next]
            /\ saved' = mem'
            /\ pc' = "top"
            /\ UNCHANGED <<stopping, reason>>

\* Continue inside the handler with state s at point p; nothing is saved.
Continue(s, p) ==
    /\ mem' = s
    /\ pc' = p
    /\ UNCHANGED <<stopping, reason, saved>>

\* SaveWorkflow in the middle of a handler, which then continues at p.
SaveAndContinue(s, p) ==
    /\ ~expired
    /\ mem' = s
    /\ saved' = s
    /\ pc' = p
    /\ UNCHANGED <<stopping, reason>>

\* What a step of the run leaves alone unless it says otherwise.
TaskUnchanged  == UNCHANGED <<task, checkpoint, gates, expired>>
OtherUnchanged == TaskUnchanged /\ UNCHANGED <<tree, branch>>

\* The top of the loop: the budgets, then the candidate.
LoopTop ==
    /\ pc = "top"
    /\ CASE expired       -> StopWith(mem, "blocked", "deadline")
         [] ~expired /\ mem.tokensOut -> StopWith(mem, "blocked", "tokens")
         [] OTHER         -> Continue([mem EXCEPT !.cand = tree], "phase")
    /\ OtherUnchanged

AtPhase(ph) == pc = "phase" /\ mem.phase = ph

-----------------------------------------------------------------------------
(* INTAKE, LOCALIZE, IMPACT, PLAN *)

\* Runner.verify runs the generators before the checks.
Regenerated(c) == [c EXCEPT !.code = Generate[@]]

\* INTAKE freezes the presets and saves them.
IntakePresets ==
    /\ AtPhase("INTAKE")
    /\ ~mem.presets
    /\ \/ StopWith(mem, "blocked", "environment")
       \/ SaveAndContinue([mem EXCEPT !.presets = TRUE], "phase")
    /\ OtherUnchanged

\* INTAKE verifies the baseline, generators included.
IntakeBaseline ==
    /\ AtPhase("INTAKE")
    /\ mem.presets
    /\ ~expired
    /\ \/ tree' = tree /\ StopWith(mem, "blocked", "environment")
       \/ /\ tree' = Regenerated(tree)
          /\ \/ StopWith(mem, "blocked", "environment")
             \/ Move(mem, "LOCALIZE")
    /\ UNCHANGED branch /\ TaskUnchanged

\* Runner.decide, the structured model call of PLAN and REVIEW (LOCALIZE makes
\* three of them): the tokens it used are saved before its answer is applied.
\* REVIEW's call is about the diff of the checkout as it is now.
Decide ==
    /\ \/ AtPhase("LOCALIZE")
       \/ AtPhase("PLAN")
       \/ AtPhase("REVIEW")
    /\ \E out \in {mem.tokensOut, TRUE} :
          LET s == [mem EXCEPT !.tokensOut = out]
          IN  SaveAndContinue(IF mem.phase = "REVIEW"
                              THEN [s EXCEPT !.reviewed = tree] ELSE s, "decided")
    /\ OtherUnchanged

\* A call that fails stops LOCALIZE and REVIEW; for PLAN see PlanRejected.
DecideFails ==
    /\ \/ AtPhase("LOCALIZE")
       \/ AtPhase("REVIEW")
    /\ StopWith(mem, "blocked", IF mem.phase = "REVIEW" THEN "review" ELSE "engine")
    /\ OtherUnchanged

Localized ==
    /\ pc = "decided" /\ mem.phase = "LOCALIZE"
    /\ Move(mem, "IMPACT")
    /\ OtherUnchanged

Impact ==
    /\ AtPhase("IMPACT")
    /\ Move(mem, "PLAN")
    /\ OtherUnchanged

PlanRejectedForever ==
    /\ pc \in {"phase", "decided"} /\ mem.phase = "PLAN"
    /\ IF mem.replans >= MaxReplans
       THEN StopWith(mem, "blocked", "planning")
       ELSE SaveAndContinue(mem, "top")
    /\ OtherUnchanged

PlanRejectedUnbounded ==
    /\ pc \in {"phase", "decided"} /\ mem.phase = "PLAN"
    /\ IF mem.replans > MaxReplans
       THEN StopWith(mem, "blocked", "planning")
       ELSE SaveAndContinue([mem EXCEPT !.replans = @ + 1], "top")
    /\ OtherUnchanged

\* An invalid plan, or a failed call, is returned to the model with what is
\* wrong about it, at most MaxReplans times.
PlanRejected ==
    /\ pc \in {"phase", "decided"} /\ mem.phase = "PLAN"
    /\ IF mem.replans >= MaxReplans
       THEN StopWith(mem, "blocked", "planning")
       ELSE SaveAndContinue([mem EXCEPT !.replans = @ + 1], "top")
    /\ OtherUnchanged

\* A valid plan starts an empty EDIT transcript; one that grants a protected
\* path stops the task.
PlanAccepted ==
    /\ pc = "decided" /\ mem.phase = "PLAN"
    /\ \/ StopWith(mem, "blocked", "protected")
       \/ Move([mem EXCEPT !.edit = EmptyTranscript], "EDIT")
    /\ OtherUnchanged

-----------------------------------------------------------------------------
(* EDIT: the native engine's tool loop, seen through the transcript it saves *)

\* The transcript must describe the worktree, and a fresh one costs an attempt.
EditEnter ==
    /\ AtPhase("EDIT")
    /\ LET drifted == /\ ~mem.edit.pending
                      /\ mem.edit.cand # None
                      /\ mem.edit.cand # mem.cand
           fresh   == mem.edit.msgs = 0
       IN CASE drifted -> StopWith(mem, "blocked", "transcript")
            [] ~drifted /\ fresh /\ mem.attempts >= MaxAttempts ->
                 StopWith(mem, "failed", "attempts")
            [] ~drifted /\ fresh /\ mem.attempts < MaxAttempts ->
                 Continue([mem EXCEPT !.attempts = @ + 1], "engine")
            [] OTHER -> Continue(mem, "engine")
    /\ OtherUnchanged

SaveTranscriptStale(tr, p) ==
    \E out \in {mem.tokensOut, TRUE} :
       LET spent == [mem EXCEPT !.tokensOut = out]
           s == [spent EXCEPT !.edit = [tr EXCEPT !.cand = mem.cand]]
       IN  IF expired
           THEN StopWith(s, "blocked", "engine")
           ELSE SaveAndContinue(s, p)

\* SaveTranscript counts the tokens spent and stamps the transcript with the
\* current candidate.  When the save runs past the deadline Step returns its
\* error, and stop saves what the transcript holds by then.
SaveTranscript(tr, p) ==
    \E out \in {mem.tokensOut, TRUE} :
       LET spent == [mem EXCEPT !.tokensOut = out]
           s == [spent EXCEPT !.edit = [tr EXCEPT !.cand = tree]]
       IN  IF expired
           THEN StopWith(s, "blocked", "engine")
           ELSE SaveAndContinue(s, p)

EngineOpen ==
    /\ pc = "engine" /\ mem.edit.msgs = 0
    /\ SaveTranscript([mem.edit EXCEPT !.msgs = 2], "engine")
    /\ OtherUnchanged

\* A transcript interrupted inside a tool call is reconciled with the journal:
\* the call's result is recovered, or the transcript is closed at the boundary.
\* Which of them, the journal decides; reconciliation that finds the journal and
\* the checkout at odds is EngineFails.
EngineReconcile ==
    /\ pc = "engine" /\ mem.edit.pending
    /\ \E outcome \in {"open", "done", "exhausted"} :
          SaveTranscript([mem.edit EXCEPT !.pending = FALSE,
                                          !.outcome = outcome], "engine")
    /\ OtherUnchanged

Editing ==
    /\ mem.edit.msgs # 0
    /\ ~mem.edit.pending
    /\ mem.edit.outcome = "open"

\* One tool call: marked pending, executed, recorded.  It is counted when it is
\* marked; a call that is marked and never executed closes the transcript.
EngineIntend ==
    /\ pc = "engine" /\ Editing
    /\ mem.edit.tools < MaxTools
    /\ SaveTranscript([mem.edit EXCEPT !.pending = TRUE, !.msgs = 3,
                                       !.tools = @ + 1], "tool")
    /\ OtherUnchanged

EngineApply ==
    /\ pc = "tool"
    /\ \E c \in Codes : tree' = [tree EXCEPT !.code = c]
    /\ Continue(mem, "tooled")
    /\ UNCHANGED branch /\ TaskUnchanged

EngineRecord ==
    /\ pc = "tooled"
    /\ SaveTranscript([mem.edit EXCEPT !.pending = FALSE], "engine")
    /\ OtherUnchanged

\* The model declares completion, gives up, or a budget of the loop ends it.
EngineClose ==
    /\ pc = "engine" /\ Editing
    /\ \E outcome \in {"done", "stopped", "exhausted"} :
          SaveTranscript([mem.edit EXCEPT !.outcome = outcome], "engine")
    /\ OtherUnchanged

\* Step returns an error: the model call failed, a tool call could not be
\* journalled, or the journal disagrees with the transcript.
EngineFails ==
    /\ pc \in {"engine", "tool", "tooled"}
    /\ StopWith(mem, "blocked", "engine")
    /\ OtherUnchanged

\* What the closed transcript says decides where EDIT goes.
EditLeave ==
    /\ pc = "engine" /\ ~mem.edit.pending /\ mem.edit.outcome # "open"
    /\ CASE mem.edit.outcome = "done"    -> Move(mem, "VERIFY")
         [] mem.edit.outcome = "stopped" -> StopWith(mem, "blocked", "incomplete")
         [] mem.edit.outcome = "exhausted" ->
              IF mem.edit.msgs <= 2 \/ mem.replans >= MaxReplans
              THEN StopWith(mem, "blocked", "engine")
              ELSE Move([mem EXCEPT !.replans = @ + 1], "PLAN")
    /\ OtherUnchanged

-----------------------------------------------------------------------------
(* VERIFY *)

VerifyExhausted ==
    /\ AtPhase("VERIFY")
    /\ mem.loops >= MaxVerifyLoops
    /\ StopWith(mem, "failed", "loops")
    /\ OtherUnchanged

\* The frozen presets run, generators first; every result is labelled with the
\* candidate computed at the top of the loop.  A failure is run again once.
VerifyRun ==
    /\ AtPhase("VERIFY")
    /\ mem.loops < MaxVerifyLoops
    /\ ~expired
    /\ tree' = Regenerated(tree)
    /\ \E status \in {"pass", "fail", "skipped", "environment"} :
         LET counted == [mem EXCEPT !.loops = @ + 1]
             s == [counted EXCEPT !.results =
                     [cand |-> mem.cand, status |-> status, on |-> tree']]
         IN CASE status = "environment" -> StopWith(s, "blocked", "environment")
              [] status = "fail" /\ s.loops < MaxVerifyLoops -> Continue(s, "rerun")
              [] OTHER -> Continue(s, "judge")
    /\ UNCHANGED branch /\ TaskUnchanged

\* An unchanged rerun separates a flaky failure from a real one: its results
\* replace the first ones only if nothing failed and the candidate stood still.
VerifyRerun ==
    /\ pc = "rerun"
    /\ ~expired
    /\ tree' = Regenerated(tree)
    /\ \E status \in {"pass", "fail", "skipped", "environment"} :
         LET s == [mem EXCEPT !.loops = @ + 1]
             rerun == [cand |-> mem.cand, status |-> status, on |-> tree']
         IN CASE status = "environment" -> StopWith(s, "blocked", "environment")
              [] status \in {"pass", "skipped"} /\ tree' = mem.cand ->
                   Continue([s EXCEPT !.results = rerun], "judge")
              [] OTHER -> Continue(s, "judge")
    /\ UNCHANGED branch /\ TaskUnchanged

\* recipe.CheckPresets, the changed files and the scope, as runPhases combines
\* them.
Meets(s, inScope) ==
    /\ s.results.status = "pass"
    /\ s.results.cand = s.cand
    /\ tree # BaseContent
    /\ inScope

\* signatureObligations asks the index and the live layer for the consumers of
\* the signatures that changed: that fails, finds nothing outside the change, or
\* finds consumers the change leaves behind.
SignatureObligations == {"error", "none", "unplanned"}

\* Verification accepts: the signatures the change broke must all be planned.
JudgeAccepts ==
    /\ pc = "judge"
    /\ Meets(mem, TRUE)
    /\ \E found \in SignatureObligations :
         \/ found = "error" /\ StopWith(mem, "blocked", "obligations")
         \/ found = "none" /\ Move(mem, "REVIEW")
         \/ /\ found = "unplanned"
            /\ IF mem.replans >= MaxReplans
               THEN StopWith(mem, "failed", "replans")
               ELSE Move([mem EXCEPT !.replans = @ + 1], "PLAN")
    /\ OtherUnchanged

\* The failures of a rejected verification are counted by fingerprint and
\* compared with the baseline.  A fingerprint seen three times sends the task
\* back to LOCALIZE; too many regressions, or the last attempt, restore the
\* checkout to its base and fail the task.
JudgeRejects ==
    /\ pc = "judge"
    /\ \E inScope \in BOOLEAN : ~Meets(mem, inScope)
    /\ \E regressed \in {mem.regressed, TRUE}, relocalize \in BOOLEAN :
         LET s == [mem EXCEPT !.regressed = regressed]
             cleared == [s EXCEPT !.edit = EmptyTranscript]
         IN IF regressed \/ s.attempts >= MaxAttempts
            THEN /\ tree' = BaseContent
                 /\ StopWith(s, "failed", "repair")
            ELSE IF ~relocalize
            THEN tree' = tree /\ Move(cleared, "EDIT")
            ELSE IF mem.replans >= MaxReplans
            THEN tree' = tree /\ StopWith(cleared, "failed", "replans")
            ELSE /\ tree' = BaseContent
                 /\ Move([cleared EXCEPT !.replans = @ + 1], "LOCALIZE")
    /\ UNCHANGED branch /\ TaskUnchanged

-----------------------------------------------------------------------------
(* REVIEW and FINALIZE *)

ReviewAccepts ==
    /\ pc = "decided" /\ mem.phase = "REVIEW"
    /\ Move(mem, "FINALIZE")
    /\ OtherUnchanged

\* The verdict is a rejection.
Unreviewed(s) == [s EXCEPT !.reviewed = None]

ReviewRejectsAnyway ==
    /\ pc = "decided" /\ mem.phase = "REVIEW"
    /\ IF mem.attempts >= MaxAttempts
       THEN Move(Unreviewed(mem), "FINALIZE")
       ELSE Move([Unreviewed(mem) EXCEPT !.edit = EmptyTranscript], "EDIT")
    /\ OtherUnchanged

\* A rejected change goes back to EDIT, or fails the task on its last attempt.
ReviewRejects ==
    /\ pc = "decided" /\ mem.phase = "REVIEW"
    /\ IF mem.attempts >= MaxAttempts
       THEN StopWith(Unreviewed(mem), "failed", "review")
       ELSE Move([Unreviewed(mem) EXCEPT !.edit = EmptyTranscript], "EDIT")
    /\ OtherUnchanged

\* The candidate a resumed FINALIZE compares the checkout with.
VerifiedCandidate(s) ==
    IF s.finalCand # None THEN s.finalCand ELSE s.results.cand

FinalizeDrifted ==
    /\ AtPhase("FINALIZE")
    /\ \/ VerifiedCandidate(mem) = None
       \/ VerifiedCandidate(mem) # mem.cand
    /\ StopWith(mem, "blocked", "drifted")
    /\ OtherUnchanged

UndriftedUnchecked == TRUE

Undrifted ==
    /\ VerifiedCandidate(mem) # None
    /\ VerifiedCandidate(mem) = mem.cand

\* The task card is written into the checkout; its candidate is saved next.
FinalizeCard ==
    /\ AtPhase("FINALIZE") /\ Undrifted
    /\ mem.finalCand = None
    /\ \/ tree' = tree /\ StopWith(mem, "blocked", "memory")
       \/ /\ tree' = [tree EXCEPT !.card = TRUE]
          /\ Continue(mem, "carded")
    /\ UNCHANGED branch /\ TaskUnchanged

FinalizeCandidate ==
    /\ pc = "carded"
    /\ SaveAndContinue([mem EXCEPT !.finalCand = tree, !.cand = tree], "gate")
    /\ OtherUnchanged

\* A resumed FINALIZE whose card is already written.
FinalizeResume ==
    /\ AtPhase("FINALIZE") /\ Undrifted
    /\ mem.finalCand # None
    /\ Continue(mem, "gate")
    /\ OtherUnchanged

\* The secret scan of the diff.
FinalizeSecrets ==
    /\ pc = "gate"
    /\ StopWith(mem, "blocked", "secrets")
    /\ OtherUnchanged

FinalizeGateUnanswered ==
    /\ pc = "gate" /\ ~expired
    /\ gates' = IF GateRequired /\ gates[mem.cand] = "none"
                THEN [gates EXCEPT ![mem.cand] = "pending"]
                ELSE gates
    /\ IF GateRequired /\ gates'[mem.cand] = "rejected"
       THEN StopWith(mem, "failed", "gate")
       ELSE Continue(mem, "commit")
    /\ UNCHANGED <<task, checkpoint, tree, branch, expired>>

\* Runner.gate and broker.Ask for the content m.cand: an answer that exists is
\* the answer; otherwise a pending gate is saved.
FinalizeGate ==
    /\ pc = "gate" /\ ~expired
    /\ gates' = IF GateRequired /\ gates[mem.cand] = "none"
                THEN [gates EXCEPT ![mem.cand] = "pending"]
                ELSE gates
    /\ CASE GateRequired /\ gates'[mem.cand] = "rejected" ->
              StopWith(mem, "failed", "gate")
         [] GateRequired /\ gates'[mem.cand] = "pending" ->
              StopWith(mem, "review", "gate")
         [] OTHER -> Continue(mem, "commit")
    /\ UNCHANGED <<task, checkpoint, tree, branch, expired>>

\* The candidate is looked at once more, and the commit's intent is journalled.
FinalizeCheck ==
    /\ pc = "commit"
    /\ \/ tree # mem.cand /\ StopWith(mem, "blocked", "drifted")
       \/ tree = mem.cand /\ ~expired /\ Continue(mem, "committing")
    /\ OtherUnchanged

\* Worktree.Commit: everything in the checkout, or nothing when it fails.
FinalizeCommit ==
    /\ pc = "committing"
    /\ \/ branch' = branch /\ StopWith(mem, "blocked", "commit")
       \/ ~expired /\ branch' = tree /\ StopWith(mem, "accepted", "done")
    /\ UNCHANGED tree /\ TaskUnchanged

-----------------------------------------------------------------------------
(* The operator and the clock *)

\* broker.Decide, for an open gate.
Answer(c) ==
    /\ gates[c] = "pending"
    /\ \E d \in {"approved", "rejected"} : gates' = [gates EXCEPT ![c] = d]
    /\ UNCHANGED <<process, saved, task, checkpoint, tree, branch, expired>>

ReopenAfresh ==
    /\ pc = "idle"
    /\ task = "failed"
    /\ task' = "pending"
    /\ saved' = InitialState
    /\ UNCHANGED <<process, checkpoint, tree, branch, gates, expired>>

ReopenUndecided ==
    /\ pc = "idle"
    /\ task = "failed"
    /\ task' = "pending"
    /\ saved' = IF saved = None THEN None ELSE [saved EXCEPT !.finalCand = None]
    /\ UNCHANGED <<process, checkpoint, tree, branch, gates, expired>>

\* Store.Reopen: a failed task goes back to pending; its workflow state stays.
Reopen ==
    /\ pc = "idle"
    /\ task = "failed"
    /\ task' = "pending"
    /\ UNCHANGED <<process, saved, checkpoint, tree, branch, gates, expired>>

\* Somebody edits the checkout from outside.
Drift ==
    /\ pc \in DriftPoints
    /\ task # "accepted"
    /\ \E c \in Codes : tree' = [tree EXCEPT !.code = c]
    /\ UNCHANGED <<process, saved, task, checkpoint, branch, gates, expired>>

DeadlinePasses ==
    /\ ~expired
    /\ pc # "idle"
    /\ expired' = TRUE
    /\ UNCHANGED <<process, durable>>

-----------------------------------------------------------------------------

Early  == IntakePresets \/ IntakeBaseline \/ Decide \/ DecideFails \/ Localized
             \/ Impact \/ PlanRejected \/ PlanAccepted
Edit   == EditEnter \/ EngineOpen \/ EngineReconcile \/ EngineIntend
             \/ EngineApply \/ EngineRecord \/ EngineClose \/ EngineFails
             \/ EditLeave
Verify == VerifyExhausted \/ VerifyRun \/ VerifyRerun \/ JudgeAccepts
             \/ JudgeRejects
Final  == ReviewAccepts \/ ReviewRejects \/ FinalizeDrifted \/ FinalizeCard
             \/ FinalizeCandidate \/ FinalizeResume \/ FinalizeSecrets
             \/ FinalizeGate \/ FinalizeCheck \/ FinalizeCommit

\* The steps of a live process.
Runner == Load \/ LoopTop \/ Early \/ Edit \/ Verify \/ Final \/ StopSave
             \/ FinishCheckpoint \/ FinishSetState

Environment == Start \/ Crash \/ Reopen \/ Drift \/ DeadlinePasses
                  \/ \E c \in Content : Answer(c)

Next == Runner \/ Environment

Spec == Init /\ [][Next]_vars

\* A live process keeps executing: its steps are ordinary Go code, model calls
\* and subprocesses with timeouts.  A process blocked past the deadline returns
\* the context's error, which is the Crash action.
FairSpec == Spec /\ WF_vars(Runner \/ (expired /\ Crash))

-----------------------------------------------------------------------------
(* Properties *)

Carded(c) == [c EXCEPT !.card = TRUE]

Committed == branch # BaseContent

\* What FINALIZE put on the task branch is, but for the task card, exactly the
\* content every frozen check ran against and passed on (VERIFY labels results
\* with a candidate computed earlier; FINALIZE compares labels).
CommittedIsVerified ==
    Committed => /\ saved # None
                 /\ saved.results.status = "pass"
                 /\ branch = Carded(saved.results.on)

\* Nothing reaches the task branch that a person did not approve, however the
\* run was interrupted between the gate, the approval and the commit.
CommittedIsApproved ==
    Committed /\ GateRequired => gates[branch] = "approved"

\* The content on the branch is the one whose diff the accepting verdict of
\* REVIEW was given on.
CommittedIsReviewed ==
    Committed => /\ saved # None /\ saved.reviewed # None
                 /\ branch = Carded(saved.reviewed)

\* The budgets are the task's, not the run's: what is on record is paid for.  The
\* counters grow in memory and reach the record with the next save (runPhases
\* counts attempts and verification loops before it saves anything), so a run that
\* dies first is not charged.  But no run leaves VERIFY on record without the loop
\* it took, opens an EDIT transcript without its attempt or goes back to planning
\* without its replan; and no crash, restart or retry takes a recorded charge back.
BudgetsNeverRewind ==
    [][saved # None =>
         /\ saved' # None
         /\ saved'.attempts >= saved.attempts
         /\ saved'.replans >= saved.replans
         /\ saved'.loops >= saved.loops
         /\ saved.regressed => saved'.regressed
         /\ saved.phase = "VERIFY" /\ saved'.phase # "VERIFY" =>
               saved'.loops > saved.loops
         /\ saved.edit.msgs = 0 /\ saved'.edit.msgs # 0 =>
               saved'.attempts > saved.attempts
         /\ saved.phase \in {"EDIT", "VERIFY"} /\ saved'.phase \in {"PLAN", "LOCALIZE"} =>
               saved'.replans > saved.replans]_vars

\* The content a pending approval is about is never replaced: once FINALIZE has
\* saved its candidate, neither it nor the results behind it change.
FinalCandidateIsFixed ==
    [][saved # None /\ saved.finalCand # None =>
         /\ saved'.finalCand = saved.finalCand
         /\ saved'.results = saved.results
         /\ saved'.phase = "FINALIZE"]_vars

\* With nobody else in the checkout the saved EDIT transcript always describes
\* it outside a tool call, so a resumed EDIT is never refused for the runner's
\* own writes.
TranscriptFollowsTree ==
    DriftPoints = {} => reason # "transcript"

\* With nobody else in the checkout FINALIZE never reports that the candidate
\* changed after verification.
OwnWritesAreNotDrift ==
    DriftPoints = {} => reason # "drifted"

\* Every run returns: the loop over the phases is bounded by the attempt,
\* replan and verification budgets together.
RunReturns == pc # "idle" ~> pc = "idle"
=============================================================================
