------------------------------ MODULE Attempts ------------------------------
(***************************************************************************)
(* The unphased loop of a task: attempt, verify, decide, ask, settle, and  *)
(* what a restart finds.  Verification-only runs and engines without a     *)
(* workflow model take it.  Everything up to the settling runs under the   *)
(* task's wall-time deadline; cleaning up does not.                        *)
(*                                                                         *)
(* The content of the checkout is a number, and 0 is the repository's      *)
(* commit.  Results of one verification are one result, the worst.         *)
(***************************************************************************)
EXTENDS Naturals, Sequences, FiniteSets

CONSTANTS
    MaxContent,   \* bound on the contents of a checkout
    Outside,      \* contents that also differ outside the declared scope
    Generated,    \* the content a declared generator leaves
    MaxAttempts,  \* the budget
    MaxOps,       \* bound on the journal
    MaxEdits      \* bound on edits made outside a run

Contents == 0 .. MaxContent
GateKinds == {"apply", "out_of_scope"}

VARIABLES
    repo,      \* the repository's uncommitted content
    wt,        \* the checkout, its content, and the head of its branch
    state,     \* the task's state
    ops,       \* the journal
    evidence,  \* the task's evidence row: its candidate, status and what was checked
    check,     \* the last checkpoint
    gates,     \* kind -> candidate -> the gate asked about it
    run,       \* the run under way
    late,      \* the deadline has passed
    unseen,    \* an engine's edits that no completed operation covers
    edits      \* edits made outside a run

atvars == <<repo, wt, state, ops, evidence, check, gates, run, late, unseen, edits>>

NoRun == [pc |-> "idle"]
NoRow == [status |-> "none", cand |-> 0]
NoCheck == [state |-> "none", cand |-> 0]

AtInit ==
    /\ repo = 0
    /\ wt = [exists |-> FALSE, branch |-> FALSE, tree |-> 0, head |-> 0]
    /\ state = "pending"
    /\ ops = <<>>
    /\ evidence = NoRow /\ check = NoCheck
    /\ gates = [k \in GateKinds |-> [c \in Contents |-> "none"]]
    /\ run = NoRun /\ late = FALSE /\ unseen = FALSE /\ edits = 0

\* Begin: the intent, before the side effect.
Begun(kind, cand) ==
    Append(ops, [kind |-> kind, before |-> cand, outcome |-> FALSE, after |-> 0,
                 cause |-> FALSE])

\* Handle.finish: the outcome makes the operation certain.
Completed(cand) ==
    [ops EXCEPT ![Len(ops)].outcome = TRUE, ![Len(ops)].after = cand]

InterruptedAsFailed == [ops EXCEPT ![Len(ops)].outcome = TRUE, ![Len(ops)].cause = TRUE]

\* Interrupted: a cause, and no outcome.
Interrupted == [ops EXCEPT ![Len(ops)].cause = TRUE]

-----------------------------------------------------------------------------
(* The start of a run *)

\* Create, or Open on what an earlier run left: its head is then the baseline.
RunBegin(editing) ==
    LET found == IF wt.exists THEN wt
                 ELSE [exists |-> TRUE, branch |-> TRUE, tree |-> 0, head |-> 0]
    IN
    /\ run.pc = "idle" /\ state \notin {"accepted", "failed", "abandoned"}
    /\ wt.branch => wt.exists
    /\ wt' = found
    /\ run' = [pc |-> IF editing THEN "start" ELSE "sync", editing |-> editing,
               base |-> found.head, attempt |-> 1, after |-> 0, res |-> NoRow,
               accepted |-> FALSE, open |-> FALSE, target |-> "none"]
    /\ late' = FALSE
    /\ UNCHANGED <<repo, state, ops, evidence, check, gates, unseen, edits>>

\* SyncFrom: a verification first copies the operator's uncommitted state into the
\* checkout.  Over a checkout that has moved its diff may apply or not.
Sync(v) ==
    /\ run.pc = "sync"
    /\ wt.tree = 0 => v = repo
    /\ repo = 0 => v = wt.tree
    /\ wt' = [wt EXCEPT !.tree = v]
    /\ run' = [run EXCEPT !.pc = "rebase"]
    /\ UNCHANGED <<repo, state, ops, evidence, check, gates, late, unseen, edits>>

\* Rebase: what the checkout then holds is committed as the baseline.
Rebase ==
    /\ run.pc = "rebase"
    /\ wt' = [wt EXCEPT !.head = wt.tree]
    /\ run' = [run EXCEPT !.pc = "start", !.base = wt.tree]
    /\ UNCHANGED <<repo, state, ops, evidence, check, gates, late, unseen, edits>>

\* SetWorktree and SetState; the deadline runs from here.
Started ==
    /\ run.pc = "start"
    /\ state' = "running"
    /\ run' = [run EXCEPT !.pc = "top"]
    /\ UNCHANGED <<repo, wt, ops, evidence, check, gates, late, unseen, edits>>

\* An error: no outcome, and nothing is cleaned up.
Failed == run' = NoRun

\* The diff does not apply.
SyncFails ==
    /\ run.pc = "sync" /\ repo # 0 /\ wt.tree # 0
    /\ Failed
    /\ UNCHANGED <<repo, wt, state, ops, evidence, check, gates, late, unseen, edits>>

\* The task is to be settled in a state.
SettleAs(st, accepted, open) ==
    run' = [run EXCEPT !.pc = "finish", !.target = st, !.accepted = accepted, !.open = open]

-----------------------------------------------------------------------------
(* An attempt *)

\* The top of the loop: the deadline, the budgets, then the step's intent.
StepBegin ==
    /\ run.pc = "top" /\ run.attempt <= MaxAttempts /\ ~late /\ Len(ops) < MaxOps
    /\ ops' = Begun("step", wt.tree)
    /\ run' = [run EXCEPT !.pc = "step"]
    /\ UNCHANGED <<repo, wt, state, evidence, check, gates, late, unseen, edits>>

OutOfTime ==
    /\ run.pc = "top" /\ run.attempt <= MaxAttempts /\ late
    /\ SettleAs("blocked", FALSE, FALSE)
    /\ UNCHANGED <<repo, wt, state, ops, evidence, check, gates, late, unseen, edits>>

\* The tokens of earlier attempts have used the budget up.
OutOfTokens ==
    /\ run.pc = "top" /\ run.attempt \in 2 .. MaxAttempts /\ ~late
    /\ SettleAs("blocked", FALSE, FALSE)
    /\ UNCHANGED <<repo, wt, state, ops, evidence, check, gates, late, unseen, edits>>

OutOfAttempts ==
    /\ run.pc = "top" /\ run.attempt > MaxAttempts
    /\ SettleAs("failed", FALSE, FALSE)
    /\ UNCHANGED <<repo, wt, state, ops, evidence, check, gates, late, unseen, edits>>

\* Engine.Step (external) edits the checkout as it goes.
EngineEdit(v) ==
    /\ run.pc = "step" /\ run.editing /\ v # wt.tree
    /\ wt' = [wt EXCEPT !.tree = v]
    /\ unseen' = TRUE
    /\ UNCHANGED <<repo, state, ops, evidence, check, gates, run, late, edits>>

\* It returns: what the checkout then holds is recorded with the outcome.
StepEnds(exhausted) ==
    /\ run.pc = "step" /\ ~late
    /\ ops' = Completed(wt.tree)
    /\ unseen' = FALSE
    /\ run' = IF exhausted
              THEN [run EXCEPT !.pc = "finish", !.target = "blocked", !.after = wt.tree]
              ELSE [run EXCEPT !.pc = "verify", !.after = wt.tree]
    /\ UNCHANGED <<repo, wt, state, evidence, check, gates, late, edits>>

\* It fails: the cause is written whether or not the deadline has passed.
StepFails ==
    /\ run.pc = "step"
    /\ ops' = Interrupted
    /\ Failed
    /\ UNCHANGED <<repo, wt, state, evidence, check, gates, late, unseen, edits>>

-----------------------------------------------------------------------------
(* verify *)

VerifyBegin ==
    /\ run.pc = "verify" /\ ~late /\ Len(ops) < MaxOps
    /\ ops' = Begun("verification", run.after)
    /\ run' = [run EXCEPT !.pc = "checks"]
    /\ UNCHANGED <<repo, wt, state, evidence, check, gates, late, unseen, edits>>

\* RunAll: a generator may rewrite the checkout before the checks read it.  A
\* check cut by the deadline is an error.
RunChecks(v, status) ==
    /\ run.pc = "checks"
    /\ late => status = "error"
    /\ wt' = [wt EXCEPT !.tree = v]
    /\ run' = [run EXCEPT !.pc = "record", !.res = [status |-> status, cand |-> run.after]]
    /\ UNCHANGED <<repo, state, ops, evidence, check, gates, late, unseen, edits>>

\* RecordEvidence: one row per kind, replaced.
RecordEvidence ==
    /\ run.pc = "record" /\ ~late
    /\ evidence' = run.res
    /\ run' = [run EXCEPT !.pc = "complete"]
    /\ UNCHANGED <<repo, wt, state, ops, check, gates, late, unseen, edits>>

VerifyEnds ==
    /\ run.pc = "complete" /\ ~late
    /\ ops' = Completed(run.after)
    /\ run' = [run EXCEPT !.pc = "decide"]
    /\ UNCHANGED <<repo, wt, state, evidence, check, gates, late, unseen, edits>>

-----------------------------------------------------------------------------
(* The decision, and the gates *)

\* OutOfScope and Policies.Check, of what differs from the baseline.
Strays == wt.tree # run.base /\ wt.tree \in Outside /\ run.base \notin Outside

\* Accept: the evidence is about this candidate and passes, and an editing run
\* has changed something.
Accepts ==
    /\ run.res.status = "pass" /\ run.res.cand = run.after
    /\ ~Strays
    /\ run.editing => wt.tree # run.base

Decide ==
    /\ run.pc = "decide" /\ ~late
    /\ run' = IF Accepts THEN [run EXCEPT !.pc = "gate", !.accepted = TRUE]
              ELSE IF Strays THEN [run EXCEPT !.pc = "scopegate"]
              ELSE [run EXCEPT !.pc = "top", !.attempt = @ + 1]
    /\ UNCHANGED <<repo, wt, state, ops, evidence, check, gates, late, unseen, edits>>

\* Ask: the answer on record, or an open gate.
Ask(kind, cand) ==
    gates' = IF gates[kind][cand] = "none" THEN [gates EXCEPT ![kind][cand] = "open"]
             ELSE gates

\* gate: a task that changed nothing is not asked about; nor is one whose diff
\* could not be read, whose text is then empty too.
GateSkipped(readable) ==
    /\ run.pc = "gate"
    /\ ~readable \/ wt.tree = run.base
    /\ SettleAs("accepted", TRUE, FALSE)
    /\ UNCHANGED <<repo, wt, state, ops, evidence, check, gates, late, unseen, edits>>

GateAsked ==
    /\ run.pc = "gate" /\ ~late /\ wt.tree # run.base
    /\ Ask("apply", run.after)
    /\ LET answer == gates'["apply"][run.after] IN
       SettleAs(CASE answer = "approved" -> "accepted"
                  [] answer = "rejected" -> "failed"
                  [] answer = "open" -> "review",
                answer # "rejected", answer = "open")
    /\ UNCHANGED <<repo, wt, state, ops, evidence, check, late, unseen, edits>>

ScopeGate ==
    /\ run.pc = "scopegate" /\ ~late
    /\ Ask("out_of_scope", run.after)
    /\ IF gates'["out_of_scope"][run.after] = "open" THEN SettleAs("review", FALSE, TRUE)
       ELSE run' = [run EXCEPT !.pc = "top", !.attempt = @ + 1]
    /\ UNCHANGED <<repo, wt, state, ops, evidence, check, late, unseen, edits>>

\* The broker closes an open gate as the operator answers.
Answer(kind, cand, decision) ==
    /\ gates[kind][cand] = "open"
    /\ gates' = [gates EXCEPT ![kind][cand] = decision]
    /\ UNCHANGED <<repo, wt, state, ops, evidence, check, run, late, unseen, edits>>

-----------------------------------------------------------------------------
(* finish and cleanup *)

\* finish: the checkpoint, then the state, both under the deadline.
Checkpoint ==
    /\ run.pc = "finish" /\ ~late
    /\ check' = [state |-> run.target, cand |-> run.after]
    /\ run' = [run EXCEPT !.pc = "state"]
    /\ UNCHANGED <<repo, wt, state, ops, evidence, gates, late, unseen, edits>>

SetState ==
    /\ run.pc = "state" /\ ~late
    /\ state' = run.target
    /\ run' = [run EXCEPT !.pc = "cleanup"]
    /\ UNCHANGED <<repo, wt, ops, evidence, check, gates, late, unseen, edits>>

\* A write refused by the deadline: the outcome is returned with the error.
FinishFails ==
    /\ run.pc \in {"finish", "state"} /\ late
    /\ run' = [run EXCEPT !.pc = "cleanup"]
    /\ UNCHANGED <<repo, wt, state, ops, evidence, check, gates, late, unseen, edits>>

\* cleanup: everything is committed; the checkout of an accepted task goes, and
\* its branch too when there was nothing to commit.
Cleanup ==
    LET changed == wt.tree # wt.head
        removed == run.accepted /\ ~run.open
    IN
    /\ run.pc = "cleanup"
    /\ wt' = [exists |-> ~removed, branch |-> changed \/ ~removed,
              tree |-> wt.tree, head |-> wt.tree]
    /\ run' = NoRun
    /\ UNCHANGED <<repo, state, ops, evidence, check, gates, late, unseen, edits>>

\* Any other write or git call refused by the deadline ends the run with an
\* error: the operation under way keeps no outcome, and no cause.
Refused ==
    /\ late
    /\ run.pc \in {"step", "verify", "record", "complete", "decide", "gate", "scopegate"}
    /\ Failed
    /\ UNCHANGED <<repo, wt, state, ops, evidence, check, gates, late, unseen, edits>>

-----------------------------------------------------------------------------
(* What goes on around a run *)

Expire ==
    /\ run.pc \notin {"idle", "sync", "rebase", "start", "cleanup"} /\ ~late
    /\ late' = TRUE
    /\ UNCHANGED <<repo, wt, state, ops, evidence, check, gates, run, unseen, edits>>

Crash ==
    /\ run.pc # "idle"
    /\ run' = NoRun
    /\ UNCHANGED <<repo, wt, state, ops, evidence, check, gates, late, unseen, edits>>

\* The operator edits the repository, or the checkout of the task.
RepoEdit(v) ==
    /\ run.pc = "idle" /\ edits < MaxEdits /\ v # repo
    /\ repo' = v /\ edits' = edits + 1
    /\ UNCHANGED <<wt, state, ops, evidence, check, gates, run, late, unseen>>

CheckoutEdit(v) ==
    /\ wt.exists /\ edits < MaxEdits /\ v # wt.tree
    /\ wt' = [wt EXCEPT !.tree = v] /\ edits' = edits + 1
    /\ UNCHANGED <<repo, state, ops, evidence, check, gates, run, late, unseen>>

\* Reopen: a failed task goes back to pending.
Reopen ==
    /\ run.pc = "idle" /\ state = "failed"
    /\ state' = "pending"
    /\ UNCHANGED <<repo, wt, ops, evidence, check, gates, run, late, unseen, edits>>

AtNext ==
    \/ \E e \in BOOLEAN : RunBegin(e) \/ StepEnds(e) \/ GateSkipped(e)
    \/ Rebase \/ Started \/ SyncFails
    \/ StepBegin \/ OutOfTime \/ OutOfTokens \/ OutOfAttempts \/ StepFails
    \/ \E v \in Contents : Sync(v) \/ EngineEdit(v) \/ RepoEdit(v) \/ CheckoutEdit(v)
    \/ VerifyBegin
    \/ \E v \in {wt.tree, Generated}, s \in {"pass", "fail", "error"} : RunChecks(v, s)
    \/ RecordEvidence \/ VerifyEnds \/ Decide \/ GateAsked \/ ScopeGate
    \/ \E k \in GateKinds, c \in Contents, d \in {"approved", "rejected"} : Answer(k, c, d)
    \/ Checkpoint \/ SetState \/ FinishFails \/ Cleanup \/ Refused
    \/ Expire \/ Crash \/ Reopen

AtSpec == AtInit /\ [][AtNext]_atvars

-----------------------------------------------------------------------------
(* RecoverTask: what a restart reads from the journal and the checkout *)

Certain == {i \in 1 .. Len(ops) : ops[i].outcome}
UncertainOps == (1 .. Len(ops)) \ Certain

\* candidate_after of the last operation with an outcome.
LastCompleted == LET last == CHOOSE i \in Certain : \A j \in Certain : j <= i
                 IN ops[last].after

\* le task recover hands every task the repository as its worktree.
Current == repo

Drifted == Certain # {} /\ LastCompleted # Current

\* evidenceFor: a row about another candidate.
Stale == evidence # NoRow /\ evidence.cand # Current

\* NextAction: the checkpoint's, or what nextAction makes of the rest.
NextAction ==
    CASE check # NoCheck -> check.state
      [] check = NoCheck /\ Drifted -> "revalidate"
      [] check = NoCheck /\ ~Drifted /\ Stale -> "rerun"
      [] OTHER -> "replan"

(* What the work of an interrupted run looks like to the next one, and what  *)
(* the verdict on it rests on.  Between runs: an engine's edits that no      *)
(* operation recorded are those of an operation that stays uncertain, so     *)
(* recovery looks at them; a session told to plan on has evidence, if any,   *)
(* of what the last completed operation left; and a task is accepted with a  *)
(* checkpoint that says so, on passing evidence of the candidate it names.   *)
DecidedOnEvidence ==
    run.pc = "idle" =>
        /\ unseen => UncertainOps # {}
        /\ (NextAction = "replan" /\ UncertainOps = {} /\ evidence # NoRow)
              => evidence.cand = LastCompleted
        /\ state = "accepted" =>
              /\ check.state = "accepted"
              /\ evidence.status = "pass" /\ evidence.cand = check.cand

(* The checkout is removed only when the task is finished: what is gone is   *)
(* the checkout of an accepted task.                                         *)
RemovedWhenFinished ==
    (run.pc = "idle" /\ wt.branch /\ ~wt.exists) => state = "accepted"

(* Recovery reconciles the checkout of a task: it reports a drift only when  *)
(* the checkout no longer holds what the last completed operation left.      *)
DriftIsOfTheCheckout ==
    (run.pc = "idle" /\ wt.exists /\ Drifted) => LastCompleted # wt.tree
=============================================================================
