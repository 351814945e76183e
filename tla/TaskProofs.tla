----------------------------- MODULE TaskProofs -----------------------------
(***************************************************************************)
(* Proofs about one task: its unphased loop, the context its calls are     *)
(* sent, the impact report its gate shows and the notes it leaves. For any *)
(* budget, any contents and any sequence of crashes, expiries and edits,   *)
(* what an interrupted run leaves is uncertain or on record and an         *)
(* accepted task passed on the candidate of its checkpoint                 *)
(* (RecoveryIsTold); every call of a task sends the prefix the first one   *)
(* sent (PrefixStaysFrozen); for any graph, the report is whole or says    *)
(* that it is not (ReportIsWhole); and, whatever the cap and however many  *)
(* processes write, no note is lost unaccounted for (NotesStayKept).       *)
(***************************************************************************)
EXTENDS Attempts, Context, Impact, Memory, FiniteSetTheorems, WellFoundedInduction, TLAPS

\* What is assumed of the constants.
AtConstants == MaxContent \in Nat /\ Generated \in Contents

\* The places of a run before its task is settled.
Before == {"top", "step", "verify", "checks", "record", "complete", "decide", "gate",
           "scopegate", "finish", "state"}
Places == {"sync", "rebase", "start"} \cup Before \cup {"cleanup"}
TaskStates == {"pending", "running", "blocked", "review", "accepted", "failed"}
RowType == [status : {"none", "pass", "fail", "error"}, cand : Contents]
CheckType == [state : TaskStates \cup {"none"}, cand : Contents]
OpType ==
    [kind : {"step", "verification"}, before : Contents, outcome : BOOLEAN, after : Contents,
     cause : BOOLEAN]
RunType ==
    [pc : Places, editing : BOOLEAN, base : Contents, attempt : Nat,
     after : Contents, res : RowType, accepted : BOOLEAN, open : BOOLEAN,
     target : TaskStates \cup {"none"}]

\* The types of the variables.
AtTypes ==
    /\ repo \in Contents
    /\ wt \in [exists : BOOLEAN, branch : BOOLEAN, tree : Contents, head : Contents]
    /\ state \in TaskStates
    /\ ops \in Seq(OpType)
    /\ evidence \in RowType
    /\ check \in CheckType
    /\ gates \in [GateKinds -> [Contents -> {"none", "open", "approved", "rejected"}]]
    /\ run.pc # "idle" => run \in RunType
    /\ unseen \in BOOLEAN

\* The journal: the operation under way is the last one and has no outcome; edits
\* that no operation covers are those of a step without one; and evidence has an
\* operation.
Journal ==
    /\ run.pc = "step" =>
          Len(ops) > 0 /\ ops[Len(ops)].kind = "step" /\ ~ops[Len(ops)].outcome
    /\ run.pc \in {"checks", "record", "complete"} =>
          Len(ops) > 0 /\ ops[Len(ops)].kind = "verification" /\ ~ops[Len(ops)].outcome
    /\ unseen => \E i \in 1 .. Len(ops) : ops[i].kind = "step" /\ ~ops[i].outcome
    /\ evidence # NoRow => Len(ops) > 0

\* The verdict: while a run decides, the row on record is the one it read, about
\* the candidate it goes on to name; a task is settled by its own run alone.
Verdicts ==
    /\ run.pc \in Before => state = "running"
    /\ run.pc \in {"record", "complete", "decide", "gate", "scopegate"} =>
          run.res.cand = run.after
    /\ run.pc \in {"complete", "decide", "gate", "scopegate"} => evidence = run.res
    /\ run.pc = "gate" => run.res.status = "pass"
    /\ run.pc \in {"finish", "state"} => run.target \in TaskStates
    /\ run.pc \in {"finish", "state"} /\ run.target = "accepted" =>
          evidence.status = "pass" /\ evidence.cand = run.after
    /\ run.pc = "state" => check.state = run.target /\ check.cand = run.after
    /\ state = "accepted" =>
          check.state = "accepted" /\ evidence.status = "pass" /\ evidence.cand = check.cand

AtInv == AtTypes /\ Journal /\ Verdicts

-----------------------------------------------------------------------------
(* What the operators make *)

\* A move of the run changes its place and nothing else.
LEMMA MoveMakes ==
    ASSUME run \in RunType, NEW p \in Places, run' = [run EXCEPT !.pc = p]
    PROVE  /\ run' \in RunType
           /\ run'.pc = p /\ run'.after = run.after /\ run'.res = run.res
           /\ run'.target = run.target
<1>1. run' = [pc |-> p, editing |-> run.editing, base |-> run.base, attempt |-> run.attempt,
              after |-> run.after, res |-> run.res, accepted |-> run.accepted,
              open |-> run.open, target |-> run.target]
  BY DEF RunType
<1> QED
  BY <1>1 DEF RunType

\* The next attempt starts at the top.
LEMMA RetryMakes ==
    ASSUME run \in RunType, run' = [run EXCEPT !.pc = "top", !.attempt = @ + 1]
    PROVE  run' \in RunType /\ run'.pc = "top"
<1>1. run' = [pc |-> "top", editing |-> run.editing, base |-> run.base,
              attempt |-> run.attempt + 1,
              after |-> run.after, res |-> run.res, accepted |-> run.accepted,
              open |-> run.open, target |-> run.target]
  BY DEF RunType
<1>2. run.attempt + 1 \in Nat /\ "top" \in Places
  BY DEF RunType, Places, Before
<1> QED
  BY <1>1, <1>2 DEF RunType

\* A run about to settle its task names the state and keeps its candidate.
LEMMA SettleMakes ==
    ASSUME run \in RunType, NEW st \in TaskStates, NEW a \in BOOLEAN, NEW o \in BOOLEAN,
           SettleAs(st, a, o)
    PROVE  /\ run' \in RunType
           /\ run'.pc = "finish" /\ run'.after = run.after /\ run'.target = st
<1>1. run' = [pc |-> "finish", editing |-> run.editing, base |-> run.base,
              attempt |-> run.attempt, after |-> run.after, res |-> run.res,
              accepted |-> a, open |-> o, target |-> st]
  BY DEF RunType, SettleAs
<1>2. "finish" \in Places
  BY DEF Places, Before
<1> QED
  BY <1>1, <1>2 DEF RunType

\* Begin appends an operation that is not certain.
LEMMA BegunMakes ==
    ASSUME ops \in Seq(OpType), NEW k \in {"step", "verification"}, NEW c \in Contents,
           0 \in Contents, ops' = Begun(k, c)
    PROVE  /\ ops' \in Seq(OpType) /\ Len(ops') = Len(ops) + 1
           /\ \A i \in 1 .. Len(ops) : ops'[i] = ops[i]
           /\ ops'[Len(ops')].kind = k /\ ~ops'[Len(ops')].outcome
<1> DEFINE op == [kind |-> k, before |-> c, outcome |-> FALSE, after |-> 0, cause |-> FALSE]
<1>1. op \in OpType
  BY DEF OpType
<1>2. ops' = Append(ops, op)
  BY DEF Begun
<1>3. op.kind = k /\ ~op.outcome
  OBVIOUS
<1> HIDE DEF op
<1> QED
  BY <1>1, <1>2, <1>3

\* An operation closed, and one interrupted, is an operation of the same kind.
LEMMA OpMakes ==
    ASSUME NEW x \in OpType, NEW c \in Contents, NEW y,
           \/ y = [x EXCEPT !.outcome = TRUE, !.after = c]
           \/ y = [x EXCEPT !.cause = TRUE]
    PROVE  /\ y \in OpType /\ y.kind = x.kind
           /\ y = [x EXCEPT !.cause = TRUE] => y.outcome = x.outcome
<1>1. CASE y = [x EXCEPT !.outcome = TRUE, !.after = c]
  <2>1. y = [kind |-> x.kind, before |-> x.before, outcome |-> TRUE, after |-> c,
             cause |-> x.cause]
    BY <1>1 DEF OpType
  <2>2. y = [x EXCEPT !.cause = TRUE] => y.outcome = x.outcome
    BY DEF OpType
  <2> QED
    BY <2>1, <2>2 DEF OpType
<1>2. CASE y = [x EXCEPT !.cause = TRUE]
  <2>1. y = [kind |-> x.kind, before |-> x.before, outcome |-> x.outcome, after |-> x.after,
             cause |-> TRUE]
    BY <1>2 DEF OpType
  <2> QED
    BY <2>1 DEF OpType
<1> QED
  BY <1>1, <1>2

\* Only the last operation of the journal gets an outcome; its kind stays.
LEMMA CompletedMakes ==
    ASSUME ops \in Seq(OpType), Len(ops) > 0, NEW c \in Contents, ops' = Completed(c)
    PROVE  /\ ops' \in Seq(OpType) /\ Len(ops') = Len(ops)
           /\ \A i \in 1 .. Len(ops) : i # Len(ops) => ops'[i] = ops[i]
           /\ ops'[Len(ops)].kind = ops[Len(ops)].kind
<1> DEFINE n == Len(ops)
           op == [ops[n] EXCEPT !.outcome = TRUE, !.after = c]
<1>1. n \in 1 .. Len(ops) /\ ops[n] \in OpType
  OBVIOUS
<1>2. ops' = [ops EXCEPT ![n] = op]
  BY <1>1 DEF Completed
<1> HIDE DEF op
<1>3. op \in OpType /\ op.kind = ops[n].kind
  BY <1>1, OpMakes DEF op
<1> QED
  BY <1>1, <1>2, <1>3

\* An interruption gives no operation an outcome.
LEMMA InterruptedMakes ==
    ASSUME ops \in Seq(OpType), Len(ops) > 0, 0 \in Contents, ops' = Interrupted
    PROVE  /\ ops' \in Seq(OpType) /\ Len(ops') = Len(ops)
           /\ \A i \in 1 .. Len(ops) :
                 ops'[i].kind = ops[i].kind /\ ops'[i].outcome = ops[i].outcome
<1> DEFINE n == Len(ops)
           op == [ops[n] EXCEPT !.cause = TRUE]
<1>1. n \in 1 .. Len(ops) /\ ops[n] \in OpType
  OBVIOUS
<1>2. ops' = [ops EXCEPT ![n] = op]
  BY <1>1 DEF Interrupted
<1> HIDE DEF op
<1>3. op \in OpType /\ op.kind = ops[n].kind /\ op.outcome = ops[n].outcome
  BY <1>1, OpMakes DEF op
<1> QED
  BY <1>1, <1>2, <1>3

-----------------------------------------------------------------------------
(* The invariant *)

LEMMA AtInit_Inv == ASSUME AtConstants, AtInit PROVE AtInv
<1>1. 0 \in Contents
  BY DEF AtConstants, Contents
<1>2. AtTypes
  BY <1>1 DEF AtInit, AtTypes, NoRow, NoCheck, NoRun, RowType, CheckType, TaskStates, GateKinds
<1>3. Journal /\ Verdicts
  BY DEF AtInit, Journal, Verdicts, NoRun, Before
<1> QED
  BY <1>2, <1>3 DEF AtInv

\* A run that stops, by an error or a crash, leaves the rest as it is.
LEMMA Stopped ==
    ASSUME AtInv, run' = NoRun,
           wt' \in [exists : BOOLEAN, branch : BOOLEAN, tree : Contents, head : Contents],
           UNCHANGED <<repo, state, ops, evidence, check, gates, unseen>>
    PROVE  AtInv'
<1>1. run'.pc = "idle"
  BY DEF NoRun
<1>2. AtTypes'
  BY <1>1 DEF AtInv, AtTypes
<1>3. Journal' /\ Verdicts'
  BY <1>1 DEF AtInv, Journal, Verdicts, Before
<1> QED
  BY <1>2, <1>3 DEF AtInv

LEMMA StopsKeep == ASSUME AtConstants, AtInv PROVE Refused \/ Crash \/ Cleanup => AtInv'
<1>1. CASE Refused
  BY <1>1, Stopped DEF Refused, Failed, AtInv, AtTypes
<1>2. CASE Crash
  BY <1>2, Stopped DEF Crash, AtInv, AtTypes
<1>3. CASE Cleanup
  <2>1. run.accepted \in BOOLEAN /\ run.open \in BOOLEAN
    BY <1>3 DEF Cleanup, AtInv, AtTypes, RunType
  <2>2. wt' \in [exists : BOOLEAN, branch : BOOLEAN, tree : Contents, head : Contents]
    BY <1>3, <2>1 DEF Cleanup, AtInv, AtTypes
  <2> QED
    BY <1>3, <2>2, Stopped DEF Cleanup
<1> QED
  BY <1>1, <1>2, <1>3

\* What goes on around a run touches neither the journal nor a verdict.
LEMMA AroundKeeps ==
    ASSUME AtConstants, AtInv, NEW v \in Contents, NEW k \in GateKinds,
           NEW d \in {"approved", "rejected"}
    PROVE  Expire \/ RepoEdit(v) \/ CheckoutEdit(v) \/ Reopen \/ Answer(k, v, d)
              \/ EngineEdit(v) => AtInv'
<1>1. CASE Expire \/ RepoEdit(v)
  BY <1>1 DEF Expire, RepoEdit, AtInv, AtTypes, Journal, Verdicts
<1>2. CASE CheckoutEdit(v)
  <2>1. wt' = [exists |-> wt.exists, branch |-> wt.branch, tree |-> v, head |-> wt.head]
    BY <1>2 DEF CheckoutEdit, AtInv, AtTypes
  <2> QED
    BY <1>2, <2>1 DEF CheckoutEdit, AtInv, AtTypes, Journal, Verdicts
<1>3. CASE Reopen
  BY <1>3 DEF Reopen, AtInv, AtTypes, TaskStates, Journal, Verdicts, Before
<1>4. CASE Answer(k, v, d)
  <2>1. gates' \in [GateKinds -> [Contents -> {"none", "open", "approved", "rejected"}]]
    BY <1>4 DEF Answer, AtInv, AtTypes
  <2> QED
    BY <1>4, <2>1 DEF Answer, AtInv, AtTypes, Journal, Verdicts
<1>5. CASE EngineEdit(v)
  <2>1. wt' = [exists |-> wt.exists, branch |-> wt.branch, tree |-> v, head |-> wt.head]
    BY <1>5 DEF EngineEdit, AtInv, AtTypes
  <2>2. AtTypes'
    BY <1>5, <2>1 DEF EngineEdit, AtInv, AtTypes
  <2>3. Len(ops) \in 1 .. Len(ops)
    BY <1>5 DEF EngineEdit, AtInv, AtTypes, Journal
  <2>4. Journal'
    BY <1>5, <2>3 DEF EngineEdit, AtInv, Journal
  <2>5. Verdicts'
    BY <1>5 DEF EngineEdit, AtInv, Verdicts
  <2> QED
    BY <2>2, <2>4, <2>5 DEF AtInv
<1> QED
  BY <1>1, <1>2, <1>3, <1>4, <1>5

LEMMA RunBeginKeeps ==
    ASSUME AtConstants, AtInv, NEW e \in BOOLEAN, RunBegin(e) PROVE AtInv'
<1> DEFINE seen == IF wt.exists THEN wt
                   ELSE [exists |-> TRUE, branch |-> TRUE, tree |-> 0, head |-> 0]
           at == IF e THEN "start" ELSE "sync"
<1>1. 0 \in Contents
  BY DEF AtConstants, Contents
<1>2. /\ seen \in [exists : BOOLEAN, branch : BOOLEAN, tree : Contents, head : Contents]
      /\ seen.head \in Contents
  BY <1>1 DEF AtInv, AtTypes
<1>3. wt' = seen
  BY DEF RunBegin
<1>4. run' = [pc |-> at, editing |-> e, base |-> seen.head, attempt |-> 1, after |-> 0,
              res |-> NoRow, accepted |-> FALSE, open |-> FALSE, target |-> "none"]
  BY DEF RunBegin
<1>5. NoRow \in RowType
  BY <1>1 DEF NoRow, RowType
<1> HIDE DEF seen
<1>6. run' \in RunType /\ run'.pc \in {"start", "sync"}
  BY <1>1, <1>2, <1>4, <1>5 DEF RunType, Places
<1>7. AtTypes'
  BY <1>2, <1>3, <1>6 DEF RunBegin, AtInv, AtTypes
<1>8. Journal'
  BY <1>6 DEF RunBegin, AtInv, Journal
<1>9. Verdicts'
  BY <1>6 DEF RunBegin, AtInv, Verdicts, Before
<1> QED
  BY <1>7, <1>8, <1>9 DEF AtInv

\* The baseline of a verification, and the task's state: no verdict yet.
LEMMA OpeningKeeps ==
    ASSUME AtConstants, AtInv, NEW v \in Contents
    PROVE  Sync(v) \/ Rebase \/ Started \/ SyncFails => AtInv'
<1>1. CASE Sync(v) \/ Rebase
  <2>1. run \in RunType /\ wt.tree \in Contents
    BY <1>1 DEF Sync, Rebase, AtInv, AtTypes
  <2>2. wt' \in [exists : BOOLEAN, branch : BOOLEAN, tree : Contents, head : Contents]
    BY <1>1, <2>1 DEF Sync, Rebase, AtInv, AtTypes
  <2>3. run' \in RunType /\ run'.pc \in {"rebase", "start"}
    BY <1>1, <2>1 DEF Sync, Rebase, RunType, Places
  <2>4. UNCHANGED <<repo, state, ops, evidence, check, gates, unseen>>
    BY <1>1 DEF Sync, Rebase
  <2>5. AtTypes'
    BY <2>2, <2>3, <2>4 DEF AtInv, AtTypes
  <2>6. Journal' /\ Verdicts'
    BY <2>3, <2>4 DEF AtInv, Journal, Verdicts, Before
  <2> QED
    BY <2>5, <2>6 DEF AtInv
<1>2. CASE Started
  <2>1. run \in RunType
    BY <1>2 DEF Started, AtInv, AtTypes
  <2>2. run' \in RunType /\ run'.pc = "top"
    BY <1>2, <2>1 DEF Started, RunType, Places, Before
  <2>3. state' = "running" /\ UNCHANGED <<repo, wt, ops, evidence, check, gates, unseen>>
    BY <1>2 DEF Started
  <2>4. AtTypes'
    BY <2>2, <2>3 DEF AtInv, AtTypes, TaskStates
  <2>5. Journal' /\ Verdicts'
    BY <2>2, <2>3 DEF AtInv, Journal, Verdicts
  <2> QED
    BY <2>4, <2>5 DEF AtInv
<1>3. CASE SyncFails
  BY <1>3, Stopped DEF SyncFails, Failed, AtInv, AtTypes
<1> QED
  BY <1>1, <1>2, <1>3

\* The intent of a step.
LEMMA StepBeginKeeps == ASSUME AtConstants, AtInv, StepBegin PROVE AtInv'
<1>1. 0 \in Contents /\ wt.tree \in Contents /\ run \in RunType /\ "step" \in Places
  BY DEF AtConstants, Contents, StepBegin, AtInv, AtTypes, Places, Before
<1>2. ops \in Seq(OpType) /\ ops' = Begun("step", wt.tree)
  BY DEF StepBegin, AtInv, AtTypes
<1>3. /\ ops' \in Seq(OpType) /\ Len(ops') = Len(ops) + 1 /\ Len(ops) \in Nat
      /\ \A i \in 1 .. Len(ops) : ops'[i] = ops[i]
      /\ ops'[Len(ops')].kind = "step" /\ ~ops'[Len(ops')].outcome
  BY <1>1, <1>2, BegunMakes
<1>4. run' \in RunType /\ run'.pc = "step"
  BY <1>1, MoveMakes DEF StepBegin
<1>5. AtTypes'
  BY <1>3, <1>4 DEF StepBegin, AtInv, AtTypes
<1>6. Journal'
  <2>1. (unseen => \E i \in 1 .. Len(ops) : ops[i].kind = "step" /\ ~ops[i].outcome)'
    BY <1>3 DEF StepBegin, AtInv, Journal
  <2> QED
    BY <1>3, <1>4, <2>1 DEF Journal
<1>7. Verdicts'
  BY <1>4 DEF StepBegin, AtInv, Verdicts, Before
<1> QED
  BY <1>5, <1>6, <1>7 DEF AtInv

\* A step that returns closes its operation, and no edit is left uncovered.
LEMMA StepEndsKeeps ==
    ASSUME AtConstants, AtInv, NEW e \in BOOLEAN, StepEnds(e) PROVE AtInv'
<1>1. wt.tree \in Contents /\ run \in RunType /\ ops \in Seq(OpType) /\ Len(ops) > 0
  BY DEF StepEnds, AtInv, AtTypes, Journal
<1>2. ops' \in Seq(OpType) /\ Len(ops') = Len(ops)
  BY <1>1, CompletedMakes DEF StepEnds
<1>3. /\ run' \in RunType /\ "blocked" \in TaskStates
      /\ \/ run'.pc = "verify"
         \/ run'.pc = "finish" /\ run'.target = "blocked"
  <2>1. CASE e
    <3>1. run' = [run EXCEPT !.pc = "finish", !.target = "blocked", !.after = wt.tree]
      BY <2>1 DEF StepEnds
    <3>2. run' = [pc |-> "finish", editing |-> run.editing, base |-> run.base,
                  attempt |-> run.attempt, after |-> wt.tree, res |-> run.res,
                  accepted |-> run.accepted, open |-> run.open, target |-> "blocked"]
      BY <1>1, <3>1 DEF RunType
    <3> QED
      BY <1>1, <3>2 DEF RunType, Places, Before, TaskStates
  <2>2. CASE ~e
    <3>1. run' = [run EXCEPT !.pc = "verify", !.after = wt.tree]
      BY <2>2 DEF StepEnds
    <3>2. run' = [pc |-> "verify", editing |-> run.editing, base |-> run.base,
                  attempt |-> run.attempt, after |-> wt.tree, res |-> run.res,
                  accepted |-> run.accepted, open |-> run.open, target |-> run.target]
      BY <1>1, <3>1 DEF RunType
    <3> QED
      BY <1>1, <3>2 DEF RunType, Places, Before, TaskStates
  <2> QED
    BY <2>1, <2>2
<1>4. AtTypes'
  BY <1>2, <1>3 DEF StepEnds, AtInv, AtTypes
<1>5. Journal'
  BY <1>2, <1>3 DEF StepEnds, AtInv, Journal
<1>6. Verdicts'
  BY <1>3 DEF StepEnds, AtInv, Verdicts, Before
<1> QED
  BY <1>4, <1>5, <1>6 DEF AtInv

\* A step that fails leaves its operation uncertain, with whatever it edited.
LEMMA StepFailsKeeps == ASSUME AtConstants, AtInv, StepFails PROVE AtInv'
<1>1. ops \in Seq(OpType) /\ Len(ops) > 0 /\ 0 \in Contents /\ run'.pc = "idle"
  BY DEF AtConstants, Contents, StepFails, Failed, NoRun, AtInv, AtTypes, Journal
<1>2. /\ ops' \in Seq(OpType) /\ Len(ops') = Len(ops)
      /\ \A i \in 1 .. Len(ops) :
            ops'[i].kind = ops[i].kind /\ ops'[i].outcome = ops[i].outcome
  BY <1>1, InterruptedMakes DEF StepFails
<1>3. AtTypes'
  BY <1>1, <1>2 DEF StepFails, AtInv, AtTypes
<1>4. Journal'
  BY <1>1, <1>2 DEF StepFails, AtInv, Journal
<1>5. Verdicts'
  BY <1>1 DEF StepFails, AtInv, Verdicts, Before
<1> QED
  BY <1>3, <1>4, <1>5 DEF AtInv

\* The intent of a verification of what the step left.
LEMMA VerifyBeginKeeps == ASSUME AtConstants, AtInv, VerifyBegin PROVE AtInv'
<1>1. 0 \in Contents /\ run \in RunType /\ run.after \in Contents /\ "checks" \in Places
  BY DEF AtConstants, Contents, VerifyBegin, AtInv, AtTypes, RunType, Places, Before
<1>2. ops \in Seq(OpType) /\ ops' = Begun("verification", run.after)
  BY DEF VerifyBegin, AtInv, AtTypes
<1>3. /\ ops' \in Seq(OpType) /\ Len(ops') = Len(ops) + 1 /\ Len(ops) \in Nat
      /\ \A i \in 1 .. Len(ops) : ops'[i] = ops[i]
      /\ ops'[Len(ops')].kind = "verification" /\ ~ops'[Len(ops')].outcome
  BY <1>1, <1>2, BegunMakes
<1>4. run' \in RunType /\ run'.pc = "checks"
  BY <1>1, MoveMakes DEF VerifyBegin
<1>5. AtTypes'
  BY <1>3, <1>4 DEF VerifyBegin, AtInv, AtTypes
<1>6. Journal'
  <2>1. (unseen => \E i \in 1 .. Len(ops) : ops[i].kind = "step" /\ ~ops[i].outcome)'
    BY <1>3 DEF VerifyBegin, AtInv, Journal
  <2> QED
    BY <1>3, <1>4, <2>1 DEF Journal
<1>7. Verdicts'
  BY <1>4 DEF VerifyBegin, AtInv, Verdicts, Before
<1> QED
  BY <1>5, <1>6, <1>7 DEF AtInv

\* The result is about the candidate that was to be verified.
LEMMA RunChecksKeeps ==
    ASSUME AtConstants, AtInv, NEW v \in Contents, NEW s \in {"pass", "fail", "error"},
           RunChecks(v, s)
    PROVE  AtInv'
<1>1. run \in RunType /\ run.after \in Contents
  BY DEF RunChecks, AtInv, AtTypes, RunType
<1>2. wt' = [exists |-> wt.exists, branch |-> wt.branch, tree |-> v, head |-> wt.head]
  BY DEF RunChecks, AtInv, AtTypes
<1>3. PICK r : r = [status |-> s, cand |-> run.after]
  OBVIOUS
<1>4. r \in RowType /\ r.cand = run.after
  BY <1>1, <1>3 DEF RowType
<1>5. run' = [run EXCEPT !.pc = "record", !.res = r]
  BY <1>3 DEF RunChecks
<1>6. run' = [pc |-> "record", editing |-> run.editing, base |-> run.base,
              attempt |-> run.attempt, after |-> run.after, res |-> r,
              accepted |-> run.accepted, open |-> run.open, target |-> run.target]
  BY <1>1, <1>5 DEF RunType
<1>7. run' \in RunType /\ run'.pc = "record" /\ run'.res.cand = run'.after
  BY <1>1, <1>4, <1>6 DEF RunType, Places, Before
<1>8. AtTypes'
  BY <1>2, <1>7 DEF RunChecks, AtInv, AtTypes
<1>9. Journal'
  BY <1>7 DEF RunChecks, AtInv, Journal
<1>10. Verdicts'
  BY <1>7 DEF RunChecks, AtInv, Verdicts, Before
<1> QED
  BY <1>8, <1>9, <1>10 DEF AtInv

LEMMA RecordKeeps == ASSUME AtConstants, AtInv, RecordEvidence PROVE AtInv'
<1>1. run \in RunType /\ run.res \in RowType /\ "complete" \in Places
  BY DEF RecordEvidence, AtInv, AtTypes, RunType, Places, Before
<1>2. /\ run' \in RunType /\ run'.pc = "complete" /\ run'.after = run.after
      /\ run'.res = run.res
  BY <1>1, MoveMakes DEF RecordEvidence
<1>3. AtTypes'
  BY <1>1, <1>2 DEF RecordEvidence, AtInv, AtTypes
<1>4. Journal'
  BY <1>2 DEF RecordEvidence, AtInv, Journal
<1>5. Verdicts'
  BY <1>2 DEF RecordEvidence, AtInv, Verdicts, Before
<1> QED
  BY <1>3, <1>4, <1>5 DEF AtInv

LEMMA VerifyEndsKeeps == ASSUME AtConstants, AtInv, VerifyEnds PROVE AtInv'
<1>1. /\ run \in RunType /\ run.after \in Contents /\ "decide" \in Places
      /\ ops \in Seq(OpType) /\ Len(ops) > 0 /\ ops[Len(ops)].kind = "verification"
  BY DEF VerifyEnds, AtInv, AtTypes, RunType, Places, Before, Journal
<1>2. /\ ops' \in Seq(OpType) /\ Len(ops') = Len(ops)
      /\ \A i \in 1 .. Len(ops) : i # Len(ops) => ops'[i] = ops[i]
  BY <1>1, CompletedMakes DEF VerifyEnds
<1>3. /\ run' \in RunType /\ run'.pc = "decide" /\ run'.after = run.after
      /\ run'.res = run.res
  BY <1>1, MoveMakes DEF VerifyEnds
<1>4. AtTypes'
  BY <1>2, <1>3 DEF VerifyEnds, AtInv, AtTypes
<1>5. Journal'
  BY <1>1, <1>2, <1>3 DEF VerifyEnds, AtInv, Journal
<1>6. Verdicts'
  BY <1>3 DEF VerifyEnds, AtInv, Verdicts, Before
<1> QED
  BY <1>4, <1>5, <1>6 DEF AtInv

\* A run that goes on to settle: its candidate passed if it is to be accepted.
LEMMA Settling ==
    ASSUME AtInv, run.pc \in {"top", "gate", "scopegate"},
           run' \in RunType, run'.pc = "finish", run'.after = run.after,
           run'.target \in TaskStates, run'.target = "accepted" => run.pc = "gate",
           gates' \in [GateKinds -> [Contents -> {"none", "open", "approved", "rejected"}]],
           UNCHANGED <<repo, wt, state, ops, evidence, check, unseen>>
    PROVE  AtInv'
<1>1. AtTypes'
  BY DEF AtInv, AtTypes
<1>2. Journal'
  BY DEF AtInv, Journal
<1>3. Verdicts'
  BY DEF AtInv, Verdicts, Before
<1> QED
  BY <1>1, <1>2, <1>3 DEF AtInv

\* A run that goes back to the top for its next attempt.
LEMMA Retrying ==
    ASSUME AtInv, run.pc \in {"decide", "scopegate"},
           run' = [run EXCEPT !.pc = "top", !.attempt = @ + 1],
           gates' \in [GateKinds -> [Contents -> {"none", "open", "approved", "rejected"}]],
           UNCHANGED <<repo, wt, state, ops, evidence, check, unseen>>
    PROVE  AtInv'
<1>1. run' \in RunType /\ run'.pc = "top"
  BY RetryMakes DEF AtInv, AtTypes
<1>2. AtTypes'
  BY <1>1 DEF AtInv, AtTypes
<1>3. Journal'
  BY <1>1 DEF AtInv, Journal
<1>4. Verdicts'
  BY <1>1 DEF AtInv, Verdicts, Before
<1> QED
  BY <1>2, <1>3, <1>4 DEF AtInv

LEMMA DecideKeeps == ASSUME AtConstants, AtInv, Decide PROVE AtInv'
<1>1. run \in RunType
  BY DEF Decide, AtInv, AtTypes
<1>2. CASE Accepts
  <2>1. run' = [run EXCEPT !.pc = "gate", !.accepted = TRUE]
    BY <1>2 DEF Decide
  <2>2. run' = [pc |-> "gate", editing |-> run.editing, base |-> run.base,
                attempt |-> run.attempt, after |-> run.after, res |-> run.res,
                accepted |-> TRUE, open |-> run.open, target |-> run.target]
    BY <1>1, <2>1 DEF RunType
  <2>3. run' \in RunType /\ run'.pc = "gate" /\ run'.after = run.after /\ run'.res = run.res
    BY <1>1, <2>2 DEF RunType, Places, Before
  <2>4. AtTypes'
    BY <2>3 DEF Decide, AtInv, AtTypes
  <2>5. Journal'
    BY <2>3 DEF Decide, AtInv, Journal
  <2>6. Verdicts'
    BY <1>2, <2>3 DEF Decide, Accepts, AtInv, Verdicts, Before
  <2> QED
    BY <2>4, <2>5, <2>6 DEF AtInv
<1>3. CASE ~Accepts /\ Strays
  <2>1. "scopegate" \in Places /\ run' = [run EXCEPT !.pc = "scopegate"]
    BY <1>3 DEF Decide, Places, Before
  <2>2. /\ run' \in RunType /\ run'.pc = "scopegate" /\ run'.after = run.after
        /\ run'.res = run.res
    BY <1>1, <2>1, MoveMakes
  <2>3. AtTypes'
    BY <2>2 DEF Decide, AtInv, AtTypes
  <2>4. Journal'
    BY <2>2 DEF Decide, AtInv, Journal
  <2>5. Verdicts'
    BY <2>2 DEF Decide, AtInv, Verdicts, Before
  <2> QED
    BY <2>3, <2>4, <2>5 DEF AtInv
<1>4. CASE ~Accepts /\ ~Strays
  BY <1>4, Retrying DEF Decide, AtInv, AtTypes
<1> QED
  BY <1>2, <1>3, <1>4

\* An answer to a gate is on record, or the gate is open.
LEMMA AskMakes ==
    ASSUME AtTypes, NEW k \in GateKinds, NEW c \in Contents, Ask(k, c)
    PROVE  /\ gates' \in [GateKinds -> [Contents -> {"none", "open", "approved", "rejected"}]]
           /\ gates'[k][c] \in {"open", "approved", "rejected"}
  BY DEF AtTypes, Ask

LEMMA SettlingKeeps ==
    ASSUME AtConstants, AtInv, NEW readable \in BOOLEAN
    PROVE  OutOfTime \/ OutOfTokens \/ OutOfAttempts \/ GateSkipped(readable) \/ GateAsked \/ ScopeGate
              => AtInv'
<1>1. CASE OutOfTime \/ OutOfTokens
  <2>1. run \in RunType /\ "blocked" \in TaskStates /\ SettleAs("blocked", FALSE, FALSE)
    BY <1>1 DEF OutOfTime, OutOfTokens, AtInv, AtTypes, TaskStates
  <2>2. /\ run' \in RunType /\ run'.pc = "finish" /\ run'.after = run.after
        /\ run'.target = "blocked"
    BY <2>1, SettleMakes
  <2> QED
    BY <1>1, <2>1, <2>2, Settling DEF OutOfTime, OutOfTokens, AtInv, AtTypes
<1>2. CASE OutOfAttempts
  <2>1. run \in RunType /\ "failed" \in TaskStates /\ SettleAs("failed", FALSE, FALSE)
    BY <1>2 DEF OutOfAttempts, AtInv, AtTypes, TaskStates
  <2>2. /\ run' \in RunType /\ run'.pc = "finish" /\ run'.after = run.after
        /\ run'.target = "failed"
    BY <2>1, SettleMakes
  <2> QED
    BY <1>2, <2>1, <2>2, Settling DEF OutOfAttempts, AtInv, AtTypes
<1>3. CASE GateSkipped(readable)
  <2>1. run \in RunType /\ "accepted" \in TaskStates /\ SettleAs("accepted", TRUE, FALSE)
    BY <1>3 DEF GateSkipped, AtInv, AtTypes, TaskStates
  <2>2. /\ run' \in RunType /\ run'.pc = "finish" /\ run'.after = run.after
        /\ run'.target = "accepted"
    BY <2>1, SettleMakes
  <2> QED
    BY <1>3, <2>1, <2>2, Settling DEF GateSkipped, AtInv, AtTypes
<1>4. CASE GateAsked
  <2>1. run \in RunType /\ run.after \in Contents /\ "apply" \in GateKinds
    BY <1>4 DEF GateAsked, AtInv, AtTypes, RunType, GateKinds
  <2>2. /\ gates' \in [GateKinds -> [Contents -> {"none", "open", "approved", "rejected"}]]
        /\ gates'["apply"][run.after] \in {"open", "approved", "rejected"}
    BY <1>4, <2>1, AskMakes DEF GateAsked, AtInv
  <2>3. PICK st \in TaskStates, a \in BOOLEAN, o \in BOOLEAN : SettleAs(st, a, o)
    BY <1>4, <2>2 DEF GateAsked, TaskStates
  <2>4. /\ run' \in RunType /\ run'.pc = "finish" /\ run'.after = run.after
        /\ run'.target = st
    BY <2>1, <2>3, SettleMakes
  <2> QED
    BY <1>4, <2>2, <2>4, Settling DEF GateAsked
<1>5. CASE ScopeGate
  <2>1. run \in RunType /\ run.after \in Contents /\ "out_of_scope" \in GateKinds
    BY <1>5 DEF ScopeGate, AtInv, AtTypes, RunType, GateKinds
  <2>2. gates' \in [GateKinds -> [Contents -> {"none", "open", "approved", "rejected"}]]
    BY <1>5, <2>1, AskMakes DEF ScopeGate, AtInv
  <2>3. CASE gates'["out_of_scope"][run.after] = "open"
    <3>1. SettleAs("review", FALSE, TRUE) /\ "review" \in TaskStates
      BY <1>5, <2>3 DEF ScopeGate, TaskStates
    <3>2. /\ run' \in RunType /\ run'.pc = "finish" /\ run'.after = run.after
          /\ run'.target = "review"
      BY <2>1, <3>1, SettleMakes
    <3> QED
      BY <1>5, <2>2, <3>1, <3>2, Settling DEF ScopeGate
  <2>4. CASE gates'["out_of_scope"][run.after] # "open"
    BY <1>5, <2>2, <2>4, Retrying DEF ScopeGate
  <2> QED
    BY <2>3, <2>4
<1> QED
  BY <1>1, <1>2, <1>3, <1>4, <1>5

\* The checkpoint, then the state it names.
LEMMA FinishKeeps ==
    ASSUME AtConstants, AtInv PROVE Checkpoint \/ SetState \/ FinishFails => AtInv'
<1>1. CASE Checkpoint
  <2>1. run \in RunType /\ "state" \in Places
    BY <1>1 DEF Checkpoint, AtInv, AtTypes, Places, Before
  <2>2. /\ run' \in RunType /\ run'.pc = "state" /\ run'.after = run.after
        /\ run'.target = run.target
    BY <1>1, <2>1, MoveMakes DEF Checkpoint
  <2>3. check' = [state |-> run.target, cand |-> run.after]
    BY <1>1 DEF Checkpoint
  <2>4. check' \in CheckType /\ check'.state = run.target /\ check'.cand = run.after
    BY <2>1, <2>3 DEF CheckType, RunType
  <2>5. AtTypes'
    BY <1>1, <2>2, <2>4 DEF Checkpoint, AtInv, AtTypes
  <2>6. Journal'
    BY <1>1, <2>2 DEF Checkpoint, AtInv, Journal
  <2>7. Verdicts'
    BY <1>1, <2>2, <2>4 DEF Checkpoint, AtInv, Verdicts, Before
  <2> QED
    BY <2>5, <2>6, <2>7 DEF AtInv
<1>2. CASE SetState
  <2>1. run \in RunType /\ "cleanup" \in Places
    BY <1>2 DEF SetState, AtInv, AtTypes, Places
  <2>2. run' \in RunType /\ run'.pc = "cleanup"
    BY <1>2, <2>1, MoveMakes DEF SetState
  <2>3. state' \in TaskStates
    BY <1>2 DEF SetState, AtInv, Verdicts, AtTypes, RunType
  <2>4. AtTypes'
    BY <1>2, <2>2, <2>3 DEF SetState, AtInv, AtTypes
  <2>5. Journal'
    BY <1>2, <2>2 DEF SetState, AtInv, Journal
  <2>6. Verdicts'
    BY <1>2, <2>2 DEF SetState, AtInv, Verdicts, Before
  <2> QED
    BY <2>4, <2>5, <2>6 DEF AtInv
<1>3. CASE FinishFails
  <2>1. run \in RunType /\ "cleanup" \in Places
    BY <1>3 DEF FinishFails, AtInv, AtTypes, Places
  <2>2. run' \in RunType /\ run'.pc = "cleanup"
    BY <1>3, <2>1, MoveMakes DEF FinishFails
  <2>3. AtTypes'
    BY <1>3, <2>2 DEF FinishFails, AtInv, AtTypes
  <2>4. Journal'
    BY <1>3, <2>2 DEF FinishFails, AtInv, Journal
  <2>5. Verdicts'
    BY <1>3, <2>2 DEF FinishFails, AtInv, Verdicts, Before
  <2> QED
    BY <2>3, <2>4, <2>5 DEF AtInv
<1> QED
  BY <1>1, <1>2, <1>3

LEMMA AtStep == ASSUME AtConstants, AtInv, [AtNext]_atvars PROVE AtInv'
<1>1. CASE UNCHANGED atvars
  BY <1>1 DEF atvars, AtInv, AtTypes, Journal, Verdicts
<1>2. CASE \E e \in BOOLEAN : RunBegin(e) \/ StepEnds(e) \/ GateSkipped(e)
  BY <1>2, RunBeginKeeps, StepEndsKeeps, SettlingKeeps
<1>3. CASE StepBegin \/ OutOfTime \/ OutOfTokens \/ OutOfAttempts \/ StepFails
  BY <1>3, StepBeginKeeps, SettlingKeeps, StepFailsKeeps
<1>4. CASE \E v \in Contents : Sync(v) \/ EngineEdit(v) \/ RepoEdit(v) \/ CheckoutEdit(v)
  BY <1>4, AroundKeeps, OpeningKeeps DEF GateKinds
<1>5. CASE \E v \in {wt.tree, Generated}, s \in {"pass", "fail", "error"} : RunChecks(v, s)
  <2>1. wt.tree \in Contents /\ Generated \in Contents
    BY DEF AtConstants, AtInv, AtTypes
  <2> QED
    BY <1>5, <2>1, RunChecksKeeps
<1>6. CASE VerifyBegin \/ RecordEvidence \/ VerifyEnds \/ Decide \/ GateAsked \/ ScopeGate
  BY <1>6, VerifyBeginKeeps, RecordKeeps, VerifyEndsKeeps, DecideKeeps, SettlingKeeps
<1>7. CASE \E k \in GateKinds, c \in Contents, d \in {"approved", "rejected"} :
              Answer(k, c, d)
  BY <1>7, AroundKeeps
<1>8. CASE Checkpoint \/ SetState \/ FinishFails \/ Cleanup \/ Refused \/ Crash
  BY <1>8, FinishKeeps, StopsKeep
<1>9. CASE Expire \/ Reopen \/ Rebase \/ Started \/ SyncFails
  <2>1. 0 \in Contents /\ "apply" \in GateKinds
    BY DEF AtConstants, Contents, GateKinds
  <2> QED
    BY <1>9, <2>1, AroundKeeps, OpeningKeeps
<1> QED
  BY <1>1, <1>2, <1>3, <1>4, <1>5, <1>6, <1>7, <1>8, <1>9 DEF AtNext

-----------------------------------------------------------------------------
(* What recovery makes of it *)

\* A session told to plan on: there is no checkpoint, the content is the one of
\* the last completed operation, and the evidence, if any, is about it.
LEMMA ReplanMeans ==
    ASSUME AtTypes, NextAction = "replan"
    PROVE  ~Drifted /\ ~Stale
<1>1. check = NoCheck
  BY DEF AtTypes, NextAction, CheckType, TaskStates
<1> QED
  BY <1>1 DEF NextAction

\* Between runs of the unphased loop, edits that no operation recorded are those
\* of an operation without an outcome; a session told to plan on has evidence, if
\* any, of what the last completed operation left; and an accepted task has a
\* checkpoint that says so and passing evidence of the candidate it names: for any
\* budget, contents, crashes, expiries and edits by the operator.
THEOREM RecoveryIsTold ==
    ASSUME AtConstants
    PROVE  AtSpec => []DecidedOnEvidence
<1>1. AtInit => AtInv
  BY AtInit_Inv
<1>2. AtInv /\ [AtNext]_atvars => AtInv'
  BY AtStep
<1>3. AtInv => DecidedOnEvidence
  <2> SUFFICES ASSUME AtInv, run.pc = "idle"
               PROVE  /\ unseen => UncertainOps # {}
                      /\ (NextAction = "replan" /\ UncertainOps = {} /\ evidence # NoRow)
                            => evidence.cand = LastCompleted
                      /\ state = "accepted" =>
                            /\ check.state = "accepted"
                            /\ evidence.status = "pass" /\ evidence.cand = check.cand
    BY DEF DecidedOnEvidence
  <2>1. unseen => UncertainOps # {}
    BY DEF AtInv, Journal, UncertainOps, Certain
  <2>2. ASSUME NextAction = "replan", UncertainOps = {}, evidence # NoRow
        PROVE  evidence.cand = LastCompleted
    <3>1. ~Drifted /\ ~Stale
      BY <2>2, ReplanMeans DEF AtInv
    <3>2. Len(ops) \in 1 .. Len(ops)
      BY <2>2 DEF AtInv, AtTypes, Journal
    <3>3. Certain # {}
      BY <2>2, <3>2 DEF UncertainOps
    <3> QED
      BY <2>2, <3>1, <3>3 DEF Drifted, Stale
  <2>3. state = "accepted" =>
          /\ check.state = "accepted"
          /\ evidence.status = "pass" /\ evidence.cand = check.cand
    BY DEF AtInv, Verdicts
  <2> QED
    BY <2>1, <2>2, <2>3
<1> QED
  BY <1>1, <1>2, <1>3, PTL DEF AtSpec

-----------------------------------------------------------------------------
\* The context of a task.

\* The shape of a prefix and of a workflow: the fields they have.
PrefixShape(p) == p = [policy |-> p.policy, card |-> p.card, map |-> p.map, task |-> p.task]
WorkflowShape(s) ==
    s = [phase |-> s.phase, prefix |-> s.prefix, fence |-> s.fence, tokens |-> s.tokens,
         plans |-> s.plans]

\* The frozen region of a workflow's calls: its prefix without the plan.
Frozen(s) == [s.prefix EXCEPT !.task = 0]

\* A workflow keeps what its calls have sent.
Keeps(s) ==
    /\ WorkflowShape(s) /\ PrefixShape(s.prefix)
    /\ s.phase # "intake" => s.prefix.policy
    /\ \A a \in sent : a = [prefix |-> Frozen(s), fence |-> s.fence]
    /\ sent # {} => s.fence # 0 /\ s.prefix.policy

\* While the task runs, the workflow in memory is the stored one, and the stored
\* one carries the frozen region of every call made.
CxInv ==
    /\ fences \in Nat
    /\ up \in BOOLEAN /\ (up => mem = row)
    /\ Keeps(row)

LEMMA CxInit_Inv == ASSUME CxInit PROVE CxInv
<1>1. /\ row = [phase |-> "intake", prefix |-> NoPrefix, fence |-> 0,
                tokens |-> 0, plans |-> 0]
      /\ sent = {} /\ up = FALSE /\ fences = 0
  BY DEF CxInit, NoWorkflow
<1>2. WorkflowShape(row) /\ row.phase = "intake" /\ row.prefix = NoPrefix
  BY <1>1 DEF WorkflowShape
<1>3. PrefixShape(row.prefix)
  BY <1>2 DEF PrefixShape, NoPrefix
<1> QED
  BY <1>1, <1>2, <1>3 DEF CxInv, Keeps

\* The stored workflow is the one in memory, what it was, or the one to be stored.
LEMMA StoreKeeps ==
    ASSUME CxInv, NEW s, Keeps(s), sent' = sent, fences' \in Nat, Store(s) \/ Stop(s)
    PROVE  CxInv'
<1>1. row' = row \/ row' = s
  BY DEF Store, Stop
<1>2. Keeps(row)'
  BY <1>1 DEF CxInv, Keeps, Frozen
<1>3. up' \in BOOLEAN /\ (up' => mem' = row')
  BY DEF Store, Stop, CxInv
<1> QED
  BY <1>2, <1>3 DEF CxInv

\* What a change of one part of a workflow makes.
LEMMA PhaseMakes ==
    ASSUME NEW s, WorkflowShape(s), NEW x, NEW t, t = [s EXCEPT !.phase = x]
    PROVE  WorkflowShape(t) /\ t.phase = x /\ t.prefix = s.prefix /\ t.fence = s.fence
<1>1. t = [phase |-> x, prefix |-> s.prefix, fence |-> s.fence,
           tokens |-> s.tokens, plans |-> s.plans]
  BY DEF WorkflowShape
<1> QED
  BY <1>1 DEF WorkflowShape

LEMMA FenceMakes ==
    ASSUME NEW s, WorkflowShape(s), NEW f, NEW t, t = [s EXCEPT !.fence = f]
    PROVE  WorkflowShape(t) /\ t.phase = s.phase /\ t.prefix = s.prefix /\ t.fence = f
<1>1. t = [phase |-> s.phase, prefix |-> s.prefix, fence |-> f,
           tokens |-> s.tokens, plans |-> s.plans]
  BY DEF WorkflowShape
<1> QED
  BY <1>1 DEF WorkflowShape

\* The supervisor starts or dies, the index and the notes change.
LEMMA AroundTheTask == ASSUME CxInv PROVE Start \/ Killed \/ Change => CxInv'
<1>1. CASE Start
  BY <1>1 DEF Start, CxInv, Keeps, Frozen
<1>2. CASE Killed
  BY <1>2 DEF Killed, CxInv, Keeps, Frozen
<1>3. CASE Change
  BY <1>3 DEF Change, CxInv, Keeps, Frozen
<1> QED
  BY <1>1, <1>2, <1>3

\* The prefix is built once, before anything is sent.
LEMMA IntakeKeeps == ASSUME CxInv, Intake PROVE CxInv'
<1>1. Keeps(mem) /\ fences' = fences /\ fences' \in Nat /\ mem.phase = "intake"
  BY DEF Intake, CxInv
<1>2. CASE Store([mem EXCEPT !.prefix = WithPrefix(mem), !.phase = "localize"])
  <2>0. PICK p : p = WithPrefix(mem)
    OBVIOUS
  <2>1. PICK t : t = [mem EXCEPT !.prefix = p, !.phase = "localize"]
    OBVIOUS
  <2>2. WorkflowShape(t) /\ t.phase = "localize" /\ t.prefix = p /\ t.fence = mem.fence
    <3>1. t = [phase |-> "localize", prefix |-> p, fence |-> mem.fence,
               tokens |-> mem.tokens, plans |-> mem.plans]
      BY <1>1, <2>1 DEF Keeps, WorkflowShape
    <3> QED
      BY <3>1 DEF WorkflowShape
  <2>3. PrefixShape(p) /\ p.policy
    <3>1. CASE mem.prefix.policy
      BY <1>1, <2>0, <3>1 DEF WithPrefix, Keeps
    <3>2. CASE ~mem.prefix.policy
      BY <2>0, <3>2 DEF WithPrefix, PrefixShape
    <3> QED
      BY <3>1, <3>2
  <2>4. sent # {} => t.prefix = mem.prefix
    BY <1>1, <2>0, <2>2 DEF WithPrefix, Keeps
  <2>5. Keeps(t)
    BY <1>1, <2>2, <2>3, <2>4 DEF Keeps, Frozen
  <2>6. sent' = sent
    BY <1>2 DEF Store, Stop
  <2> QED
    BY <1>1, <1>2, <2>0, <2>1, <2>5, <2>6, StoreKeeps
<1>3. CASE /\ ~mem.prefix.policy
           /\ Stop([mem EXCEPT !.prefix = [WithPrefix(mem) EXCEPT !.map = <<>>]])
  <2>1. PICK p : p = [WithPrefix(mem) EXCEPT !.map = <<>>]
    OBVIOUS
  <2>2. p = [policy |-> TRUE, card |-> world.notes, map |-> <<>>, task |-> 0]
    BY <1>3, <2>1 DEF WithPrefix
  <2>3. PICK t : t = [mem EXCEPT !.prefix = p]
    OBVIOUS
  <2>4. t = [phase |-> mem.phase, prefix |-> p, fence |-> mem.fence,
             tokens |-> mem.tokens, plans |-> mem.plans]
    BY <1>1, <2>3 DEF Keeps, WorkflowShape
  <2>5. WorkflowShape(t) /\ PrefixShape(t.prefix) /\ t.prefix.policy
    BY <2>2, <2>4 DEF WorkflowShape, PrefixShape
  <2>6. sent = {}
    BY <1>1, <1>3 DEF Keeps
  <2>7. Keeps(t)
    BY <2>5, <2>6 DEF Keeps
  <2>8. sent' = sent
    BY <1>3 DEF Stop
  <2> QED
    BY <1>1, <1>3, <2>1, <2>3, <2>7, <2>8, StoreKeeps
<1> QED
  BY <1>2, <1>3 DEF Intake

\* The fence is stored before a call can use it.
LEMMA FenceKeeps == ASSUME CxInv, TaskFence PROVE CxInv'
<1>1. Keeps(mem) /\ mem.fence = 0 /\ fences' \in Nat
  BY DEF TaskFence, CxInv
<1>2. PICK t : t = [mem EXCEPT !.fence = fences']
  OBVIOUS
<1>3. WorkflowShape(t) /\ t.prefix = mem.prefix /\ t.phase = mem.phase
  BY <1>1, <1>2, FenceMakes DEF Keeps
<1>4. sent = {} /\ sent' = sent
  BY <1>1 DEF Keeps, TaskFence, Store, Stop
<1>5. Keeps(t)
  BY <1>1, <1>3, <1>4 DEF Keeps
<1> QED
  BY <1>1, <1>2, <1>4, <1>5, StoreKeeps DEF TaskFence

LEMMA TooLargeKeeps == ASSUME CxInv, TooLarge PROVE CxInv'
<1>1. Keeps(mem) /\ fences' \in Nat /\ sent' = sent /\ Stop(mem)
  BY DEF TooLarge, Stop, CxInv
<1> QED
  BY <1>1, StoreKeeps

\* A call sends what the workflow carries, and the workflow goes on with it.
LEMMA CallKeeps ==
    ASSUME CxInv, up, mem.phase # "intake", NEW next, next.phase # "intake", Call(next)
    PROVE  CxInv'
<1>1. Keeps(mem) /\ mem.prefix.policy /\ mem.fence # 0 /\ Keeps(row)
  BY DEF CxInv, Keeps, Call
<1>2. PICK cost \in EvidenceCosts :
        /\ sent' = sent \cup {[prefix |-> Frozen(mem), fence |-> mem.fence]}
        /\ LET paid == [mem EXCEPT !.tokens =
                           IF MaxTokens = 0 THEN 0 ELSE @ + PrefixTokens(mem.prefix) + cost]
           IN  \/ /\ row' = [paid EXCEPT !.phase = next.phase,
                                          !.plans = next.plans, !.prefix.task = next.task]
                  /\ mem' = row' /\ up' = up
               \/ row' \in {row, paid} /\ up' = FALSE
        /\ fences' = fences
  BY DEF Call, Frozen
<1>3. PICK n : n = IF MaxTokens = 0 THEN 0 ELSE mem.tokens + PrefixTokens(mem.prefix) + cost
  OBVIOUS
<1>4. PICK paid : paid = [mem EXCEPT !.tokens = n]
  OBVIOUS
<1>5. \/ /\ row' = [paid EXCEPT !.phase = next.phase,
                                !.plans = next.plans, !.prefix.task = next.task]
         /\ mem' = row' /\ up' = up
      \/ row' \in {row, paid} /\ up' = FALSE
  BY <1>2, <1>3, <1>4
<1>6. paid = [phase |-> mem.phase, prefix |-> mem.prefix,
              fence |-> mem.fence, tokens |-> n, plans |-> mem.plans]
  BY <1>1, <1>4 DEF Keeps, WorkflowShape
<1>7. WorkflowShape(paid) /\ paid.prefix = mem.prefix /\ paid.fence = mem.fence
  BY <1>6 DEF WorkflowShape
<1>8. ASSUME NEW s, WorkflowShape(s), PrefixShape(s.prefix), s.prefix.policy,
             s.fence = mem.fence, Frozen(s) = Frozen(mem), row' = s
      PROVE  Keeps(row)'
  <2>1. \A a \in sent' : a = [prefix |-> Frozen(s), fence |-> s.fence]
    BY <1>1, <1>2, <1>8 DEF Keeps
  <2> QED
    BY <1>1, <1>8, <2>1 DEF Keeps, Frozen, WorkflowShape, PrefixShape
<1>9. Keeps(row)'
  <2>1. CASE row' = [paid EXCEPT !.phase = next.phase,
                                 !.plans = next.plans, !.prefix.task = next.task]
    <3>1. PICK p : p = [mem.prefix EXCEPT !.task = next.task]
      OBVIOUS
    <3>2. p = [policy |-> mem.prefix.policy, card |-> mem.prefix.card,
               map |-> mem.prefix.map, task |-> next.task]
      BY <1>1, <3>1 DEF Keeps, PrefixShape
    <3>3. row' = [phase |-> next.phase, prefix |-> p,
                  fence |-> mem.fence, tokens |-> n, plans |-> next.plans]
      BY <1>6, <2>1, <3>1
    <3>4. PrefixShape(p) /\ p.policy
      BY <1>1, <3>2 DEF PrefixShape
    <3>5. [p EXCEPT !.task = 0] = [mem.prefix EXCEPT !.task = 0]
      <4>1. PICK q : q = mem.prefix
        OBVIOUS
      <4>2. q = [policy |-> q.policy, card |-> q.card, map |-> q.map, task |-> q.task]
        BY <1>1, <4>1 DEF Keeps, PrefixShape
      <4>3. [q EXCEPT !.task = 0] = [policy |-> q.policy, card |-> q.card, map |-> q.map,
                                     task |-> 0]
        BY <4>2
      <4>4. [p EXCEPT !.task = 0] = [policy |-> q.policy, card |-> q.card, map |-> q.map,
                                     task |-> 0]
        BY <3>2, <4>1
      <4> QED
        BY <4>1, <4>3, <4>4
    <3>6. PICK s : s = [phase |-> next.phase, prefix |-> p,
                        fence |-> mem.fence, tokens |-> n, plans |-> next.plans]
      OBVIOUS
    <3>7. WorkflowShape(s) /\ s.prefix = p /\ s.fence = mem.fence
      BY <3>6 DEF WorkflowShape
    <3>8. Frozen(s) = Frozen(mem)
      BY <3>5, <3>7 DEF Frozen
    <3> QED
      BY <1>8, <3>3, <3>4, <3>6, <3>7, <3>8
  <2>2. CASE row' = paid
    BY <1>1, <1>7, <1>8, <2>2 DEF Keeps, Frozen
  <2>3. CASE row' = row
    BY <1>1, <1>8, <2>3 DEF Keeps, CxInv
  <2> QED
    BY <1>5, <2>1, <2>2, <2>3
<1> QED
  BY <1>2, <1>5, <1>9 DEF CxInv

LEMMA CallsKeep ==
    ASSUME CxInv, NEW phase \in {"done", "edit"}
    PROVE  Localize \/ Planning \/ PlanRejected \/ Review(phase) => CxInv'
<1>1. CASE Localize
  <2>1. PICK next : /\ next.phase \in {"localize", "impact"} /\ Call(next)
    BY <1>1 DEF Localize, Onward
  <2> QED
    BY <1>1, <2>1, CallKeeps DEF Localize
<1>2. CASE Planning
  <2>1. PICK next : next.phase = "edit" /\ Call(next)
    BY <1>2 DEF Planning
  <2> QED
    BY <1>2, <2>1, CallKeeps DEF Planning
<1>3. CASE PlanRejected
  <2>1. PICK next : next.phase = "planning" /\ Call(next)
    BY <1>3 DEF PlanRejected, Onward
  <2> QED
    BY <1>3, <2>1, CallKeeps DEF PlanRejected
<1>4. CASE Review(phase)
  <2>1. PICK next : next.phase \in {"done", "edit"} /\ Call(next)
    BY <1>4 DEF Review, Onward
  <2> QED
    BY <1>4, <2>1, CallKeeps DEF Review
<1> QED
  BY <1>1, <1>2, <1>3, <1>4

\* A phase that makes no call of its own only moves the workflow on.
LEMMA PhasesKeep == ASSUME CxInv PROVE Impact \/ EditPhase => CxInv'
<1> SUFFICES ASSUME NEW x, x # "intake", up, mem.phase # "intake",
                    row' = [mem EXCEPT !.phase = x], mem' = row', up' = up, sent' = sent,
                    fences' = fences
             PROVE  CxInv'
  BY DEF Impact, EditPhase
<1>1. Keeps(mem) /\ mem.prefix.policy
  BY DEF CxInv, Keeps
<1>2. WorkflowShape(row') /\ row'.phase = x /\ row'.prefix = mem.prefix
      /\ row'.fence = mem.fence
  BY <1>1, PhaseMakes DEF Keeps
<1>3. Keeps(row)'
  BY <1>1, <1>2 DEF Keeps, Frozen, WorkflowShape, PrefixShape
<1> QED
  BY <1>3 DEF CxInv

\* Every call of a task sends the frozen region of its first one, for any budgets,
\* indexes, notes and packets, however often the index and the notes change and
\* the supervisor is killed and started again.
THEOREM PrefixStaysFrozen == CxSpec => []PrefixFrozen
<1>1. CxInit => CxInv
  BY CxInit_Inv
<1>2. CxInv /\ [CxNext]_cxvars => CxInv'
  <2> SUFFICES ASSUME CxInv, [CxNext]_cxvars PROVE CxInv'
    OBVIOUS
  <2>1. CASE UNCHANGED cxvars
    BY <2>1 DEF cxvars, CxInv, Keeps, Frozen
  <2>2. CASE CxNext
    BY <2>2, AroundTheTask, IntakeKeeps, FenceKeeps, TooLargeKeeps, CallsKeep, PhasesKeep
       DEF CxNext
  <2> QED
    BY <2>1, <2>2
<1>3. CxInv => PrefixFrozen
  <2> SUFFICES ASSUME CxInv PROVE PrefixFrozen
    OBVIOUS
  <2>1. \A a \in sent : a = [prefix |-> Frozen(row), fence |-> row.fence]
    BY DEF CxInv, Keeps
  <2>2. \A a, b \in sent : a = b
    BY <2>1
  <2>3. ASSUME NEW a \in sent, up
        PROVE  a.fence = mem.fence /\ a.prefix = [mem.prefix EXCEPT !.task = 0]
    BY <2>1, <2>3 DEF CxInv, Frozen
  <2> QED
    BY <2>2, <2>3 DEF PrefixFrozen
<1> QED
  BY <1>1, <1>2, <1>3, PTL DEF CxSpec

-----------------------------------------------------------------------------
(* The impact report *)

\* What is assumed of the constants: finitely many changed nodes, and ranks and
\* bounds that are numbers.
ImConstants ==
    /\ IsFiniteSet(Changed) /\ Limits \subseteq Nat /\ Depth \in Nat /\ BatchSize \in Nat
    /\ \A g \in Graphs : \A e \in g : e.rank \in Nat

\* A changed node is so many edges away.
Away(g, n, d) == IF d = 0 THEN n \in Changed ELSE Paths(g, n, d) # {}

\* It is that far away, and no less.
Far(g, n, d) == Away(g, n, d) /\ \A c \in Nat : c < d => ~Away(g, n, c)

\* A node that the walk knows rests on a way back that is no weaker than its rank.
Backed(g, n, d, r) == \E p \in Paths(g, n, d) : \A k \in 1 .. d : p[k].rank <= r

\* No way back of that length is stronger than the rank.
Strongest(g, n, d, r) == d # 0 => \A p \in Paths(g, n, d) : \E k \in 1 .. d : p[k].rank >= r

Settled(n, d) == n \in Visited /\ best[n].depth = d /\ Strongest(edges, n, d, best[n].rank)

\* All nodes nearer than h are known, at their distance and with their rank.
Whole(h) == \A n : \A d \in Nat : d < h /\ Far(edges, n, d) => Settled(n, d)

Listed(s) == {s[k] : k \in DOMAIN s}

\* An edge into the last hop's nodes that has been followed.
Followed(e) ==
    /\ e.from \in Visited
    /\ best[e.from].depth = depth => best[e.from].rank <= WeakestHop(best[e.to].rank, e.rank)

Known ==
    \A n \in Visited :
        /\ best[n].depth \in Nat /\ best[n].depth <= Depth /\ best[n].rank \in Nat
        /\ n \in Changed => best[n].depth = 0 /\ best[n].rank = 0
        /\ n \notin Changed => best[n].depth # 0 /\ Backed(edges, n, best[n].depth, best[n].rank)
        /\ pc = "hop" => best[n].depth < depth
        /\ pc \in {"batch", "rows", "cut"} => best[n].depth <= depth

\* Where the walk is.
Placed ==
    /\ pc \in {"hop", "batch", "rows", "cut", "load", "done"}
    /\ cut \in {"none", "nodes", "rows"} /\ (pc = "cut" => cut # "none")
    /\ depth \in Nat /\ depth # 0 /\ (pc \in {"batch", "rows", "cut"} => depth <= Depth)
    /\ frontier \in Seq(Visited) /\ found \in Seq(Visited)
    /\ pc \in {"hop", "batch", "rows"} => \A n \in Listed(frontier) : best[n].depth = depth - 1
    /\ pc \in {"batch", "rows", "cut"} => \A n \in Listed(found) : best[n].depth = depth
    /\ pc = "rows" => \A e \in rows : e \in edges /\ e.to \in Visited /\ best[e.to].depth = depth - 1

\* An edge that is still to be followed, or has been.
Attended(e) == e.to \in Listed(frontier) \/ (pc = "rows" /\ e \in rows) \/ Followed(e)

\* What the walk has not missed, as long as nothing cut it.
Complete ==
    /\ pc \in {"hop", "batch", "rows"} => Whole(depth)
    /\ pc = "hop" => \A n \in Visited : best[n].depth = depth - 1 => n \in Listed(frontier)
    /\ pc \in {"batch", "rows"} =>
          /\ \A n \in Visited : best[n].depth = depth => n \in Listed(found)
          /\ \A e \in edges : e.to \in Visited /\ best[e.to].depth = depth - 1 => Attended(e)
    /\ pc \in {"load", "done"} => Whole(Depth + 1)

Counted == IsFiniteSet(Visited) /\ limit \in Nat /\ (cut = "nodes" => Cardinality(Visited) >= limit)

ImInv ==
    /\ \A e \in edges : e.rank \in Nat
    /\ Changed \subseteq Visited
    /\ Known /\ Placed /\ Counted
    /\ cut = "none" => Complete

-----------------------------------------------------------------------------
LEMMA ImLeast ==
    ASSUME NEW S \in SUBSET Nat, S # {}
    PROVE  \E m \in S : \A k \in S : m <= k
<1>1. PICK R : R = OpToRel(<, Nat)
  OBVIOUS
<1>2. IsWellFoundedOn(R, Nat)
  BY <1>1, NatLessThanWellFounded
<1>3. PICK m \in S : \A y \in S : ~(<<y, m>> \in R)
  BY <1>2, WFMin
<1>4. \A y \in Nat : y < m => <<y, m>> \in R
  BY <1>1 DEF OpToRel
<1>5. \A k \in S : m <= k
  <2> SUFFICES ASSUME NEW k \in S, ~(m <= k) PROVE FALSE
    OBVIOUS
  <2>1. k \in Nat /\ m \in Nat /\ k < m
    OBVIOUS
  <2> QED BY <1>3, <1>4, <2>1
<1> QED BY <1>5

\* A way back is one edge longer from the other end of an edge.
LEMMA Longer ==
    ASSUME NEW g, NEW e \in g, NEW d \in Nat, d # 0, NEW p \in Paths(g, e.to, d)
    PROVE  \E q \in Paths(g, e.from, d + 1) : q[1] = e /\ \A k \in 1 .. d : q[k + 1] = p[k]
<1> DEFINE q == [k \in 1 .. d + 1 |-> IF k = 1 THEN e ELSE p[k - 1]]
<1>1. /\ p \in [1 .. d -> g] /\ p[1].from = e.to /\ p[d].to \in Changed
      /\ \A k \in 1 .. d - 1 : p[k].to = p[k + 1].from
  BY DEF Paths
<1>2. q \in [1 .. d + 1 -> g]
  BY <1>1
<1>3. q[1] = e /\ \A k \in 1 .. d : q[k + 1] = p[k]
  OBVIOUS
<1>4. q[1].from = e.from /\ q[d + 1].to \in Changed
  BY <1>1, <1>3
<1>5. ASSUME NEW k \in 1 .. (d + 1) - 1 PROVE q[k].to = q[k + 1].from
  <2>1. q[k + 1] = p[k]
    BY <1>3
  <2>2. CASE k = 1
    BY <1>1, <1>3, <2>1, <2>2
  <2>3. CASE k # 1
    <3>1. k - 1 \in 1 .. d - 1 /\ (k - 1) + 1 = k /\ q[k] = p[k - 1]
      BY <2>3
    <3>2. p[k - 1].to = p[(k - 1) + 1].from
      BY <1>1, <3>1
    <3> QED BY <2>1, <3>1, <3>2
  <2> QED BY <2>2, <2>3
<1> HIDE DEF q
<1>6. q \in Paths(g, e.from, d + 1)
  BY <1>2, <1>4, <1>5 DEF Paths
<1> QED BY <1>3, <1>6

LEMMA Single ==
    ASSUME NEW g, NEW e \in g, e.to \in Changed
    PROVE  \E q \in Paths(g, e.from, 1) : q[1] = e
<1> DEFINE q == [k \in 1 .. 1 |-> e]
<1>1. q \in Paths(g, e.from, 1) /\ q[1] = e
  BY DEF Paths
<1> QED BY <1>1

\* The first edge of a way back, and the way back from its other end.
LEMMA Shorter ==
    ASSUME NEW g, NEW n, NEW d \in Nat, d # 0, NEW p \in Paths(g, n, d)
    PROVE  /\ p[1] \in g /\ p[1].from = n
           /\ d = 1 => p[1].to \in Changed
           /\ d # 1 => \E q \in Paths(g, p[1].to, d - 1) : \A k \in 1 .. d - 1 : q[k] = p[k + 1]
<1>1. /\ p \in [1 .. d -> g] /\ p[1].from = n /\ p[d].to \in Changed
      /\ \A k \in 1 .. d - 1 : p[k].to = p[k + 1].from
  BY DEF Paths
<1>2. p[1] \in g
  BY <1>1
<1>3. ASSUME d # 1
      PROVE  \E q \in Paths(g, p[1].to, d - 1) : \A k \in 1 .. d - 1 : q[k] = p[k + 1]
  <2> DEFINE q == [k \in 1 .. d - 1 |-> p[k + 1]]
  <2>1. q \in [1 .. d - 1 -> g]
    BY <1>1
  <2>2. q[1].from = p[1].to /\ q[d - 1].to \in Changed
    <3>1. 1 \in 1 .. d - 1 /\ d - 1 \in 1 .. d - 1 /\ (d - 1) + 1 = d
      BY <1>3
    <3> QED BY <1>1, <3>1
  <2>3. ASSUME NEW k \in 1 .. (d - 1) - 1 PROVE q[k].to = q[k + 1].from
    <3>1. k \in 1 .. d - 1 /\ k + 1 \in 1 .. d - 1
      BY <1>3
    <3>2. q[k] = p[k + 1] /\ q[k + 1] = p[(k + 1) + 1]
      BY <3>1
    <3> QED BY <1>1, <3>1, <3>2
  <2>4. \A k \in 1 .. d - 1 : q[k] = p[k + 1]
    OBVIOUS
  <2> HIDE DEF q
  <2>5. q \in Paths(g, p[1].to, d - 1)
    BY <2>1, <2>2, <2>3 DEF Paths
  <2> QED BY <2>4, <2>5
<1> QED BY <1>1, <1>2, <1>3

\* One edge more.
LEMMA AwayMore ==
    ASSUME NEW g, NEW e \in g, NEW d \in Nat, Away(g, e.to, d)
    PROVE  Away(g, e.from, d + 1)
<1>1. CASE d = 0
  BY <1>1, Single DEF Away
<1>2. CASE d # 0
  <2>1. PICK p \in Paths(g, e.to, d) : TRUE
    BY <1>2 DEF Away
  <2> QED BY <1>2, <2>1, Longer DEF Away
<1> QED BY <1>1, <1>2

\* The other end of a shortest way's first edge is one edge nearer.
LEMMA FarLess ==
    ASSUME NEW g, NEW n, NEW d \in Nat, d # 0, Far(g, n, d), NEW p \in Paths(g, n, d)
    PROVE  p[1] \in g /\ p[1].from = n /\ Far(g, p[1].to, d - 1)
<1>1. p[1] \in g /\ p[1].from = n
  BY Shorter
<1>2. Away(g, p[1].to, d - 1)
  BY Shorter DEF Away
<1>3. ASSUME NEW c \in Nat, c < d - 1, Away(g, p[1].to, c) PROVE FALSE
  <2>1. Away(g, n, c + 1)
    BY <1>1, <1>3, AwayMore
  <2>2. c + 1 \in Nat /\ c + 1 < d
    BY <1>3
  <2> QED BY <2>1, <2>2 DEF Far
<1> QED BY <1>1, <1>2, <1>3 DEF Far

\* What is some edges away is some number of edges away and no less.
LEMMA Nearest ==
    ASSUME NEW g, NEW n, NEW d \in Nat, Away(g, n, d)
    PROVE  \E c \in Nat : c <= d /\ Far(g, n, c)
<1> DEFINE S == {c \in Nat : Away(g, n, c)}
<1>1. PICK m \in S : \A k \in S : m <= k
  <2>1. S \in SUBSET Nat /\ S # {}
    OBVIOUS
  <2> HIDE DEF S
  <2> QED BY <2>1, ImLeast
<1>2. m <= d /\ m \in Nat
  BY <1>1
<1>3. \A c \in Nat : c < m => ~Away(g, n, c)
  BY <1>1
<1> QED BY <1>1, <1>2, <1>3 DEF Far

\* Where nothing is so far away, nothing is farther.
LEMMA NothingBeyond ==
    ASSUME NEW g, NEW h \in Nat, \A n : ~Far(g, n, h), NEW m, NEW d \in Nat, Far(g, m, d), d >= h
    PROVE  FALSE
<1> DEFINE S == {c \in Nat : c >= h /\ \E n : Far(g, n, c)}
<1>1. PICK c \in S : \A k \in S : c <= k
  <2>1. S \in SUBSET Nat /\ S # {}
    OBVIOUS
  <2> HIDE DEF S
  <2> QED BY <2>1, ImLeast
<1>2. PICK n : Far(g, n, c)
  BY <1>1
<1>3. c \in Nat /\ c > h
  BY <1>1, <1>2
<1>4. PICK p \in Paths(g, n, c) : TRUE
  BY <1>2, <1>3 DEF Far, Away
<1>5. Far(g, p[1].to, c - 1)
  BY <1>2, <1>3, <1>4, FarLess
<1>6. c - 1 \in S
  BY <1>3, <1>5
<1> QED BY <1>1, <1>3, <1>6

LEMMA ImInit_Inv == ASSUME ImConstants, ImInit PROVE ImInv
<1> USE DEF ImInit
<1>1. Visited = Changed /\ \A n \in Changed : best[n].depth = 0 /\ best[n].rank = 0
  BY DEF Visited
<1>2. frontier \in Seq(Changed) /\ Listed(frontier) = Changed
  <2>1. Cardinality(Changed) \in Nat
    BY FS_CardinalityType DEF ImConstants
  <2>2. /\ frontier \in [1 .. Cardinality(Changed) -> Changed]
        /\ \A n \in Changed : \E k \in 1 .. Cardinality(Changed) : frontier[k] = n
    BY DEF Listings, Bijection, Injection, Surjection
  <2> QED BY <2>1, <2>2 DEF Listed
<1>3. Known
  BY <1>1 DEF Known, ImConstants
<1>4. Placed
  BY <1>1, <1>2 DEF Placed
<1>5. Counted
  BY <1>1 DEF Counted, ImConstants
<1>6. Whole(1)
  <2> SUFFICES ASSUME NEW n, NEW d \in Nat, d < 1, Far(edges, n, d) PROVE Settled(n, d)
    BY DEF Whole
  <2>1. d = 0 /\ n \in Changed
    BY DEF Far, Away
  <2> QED BY <1>1, <2>1 DEF Settled, Strongest
<1>7. Complete
  BY <1>1, <1>2, <1>6 DEF Complete
<1> QED BY <1>1, <1>3, <1>4, <1>5, <1>7 DEF ImInv, ImConstants

\* A known node is as far away as its depth says, or nearer.
LEMMA KnownAway ==
    ASSUME ImInv, NEW n \in Visited
    PROVE  Away(edges, n, best[n].depth)
  BY DEF ImInv, Known, Away, Backed

\* Once all nodes up to h are known, a known node is at its distance.
LEMMA WholeFar ==
    ASSUME ImInv, NEW h \in Nat, Whole(h), NEW n \in Visited, best[n].depth <= h
    PROVE  Far(edges, n, best[n].depth)
<1>1. best[n].depth \in Nat
  BY DEF ImInv, Known
<1>2. PICK c \in Nat : c <= best[n].depth /\ Far(edges, n, c)
  BY <1>1, KnownAway, Nearest
<1>3. CASE c = best[n].depth
  BY <1>2, <1>3
<1>4. CASE c # best[n].depth
  <2>1. c < h
    BY <1>1, <1>2, <1>4
  <2>2. Settled(n, c)
    BY <1>2, <2>1 DEF Whole
  <2> QED BY <1>4, <2>2 DEF Settled
<1> QED BY <1>3, <1>4

\* The last hop found nothing: everything there is is known.
LEMMA NothingLeft ==
    ASSUME ImInv, NEW h \in Nat, Whole(h), h # 0, \A n \in Visited : best[n].depth # h - 1
    PROVE  \A m \in Nat : Whole(m)
<1>1. \A n : ~Far(edges, n, h - 1)
  <2> SUFFICES ASSUME NEW n, Far(edges, n, h - 1) PROVE FALSE
    OBVIOUS
  <2>1. Settled(n, h - 1)
    BY DEF Whole
  <2> QED BY <2>1 DEF Settled
<1> SUFFICES ASSUME NEW n, NEW d \in Nat, Far(edges, n, d) PROVE Settled(n, d)
  BY DEF Whole
<1>2. CASE d < h
  BY <1>2 DEF Whole
<1>3. CASE d >= h
  <2>1. h - 1 \in Nat /\ d >= h - 1
    BY <1>3
  <2> QED BY <1>1, <2>1, NothingBeyond
<1> QED BY <1>2, <1>3

\* Every edge into the last hop's nodes is followed: the hop is whole.
LEMMA HopWhole ==
    ASSUME ImInv, Whole(depth), \A n \in Visited : best[n].depth <= depth,
           \A e \in edges : e.to \in Visited /\ best[e.to].depth = depth - 1 => Followed(e)
    PROVE  Whole(depth + 1)
<1>0. depth \in Nat /\ depth # 0
  BY DEF ImInv, Placed
<1> SUFFICES ASSUME NEW n, NEW d \in Nat, d < depth + 1, Far(edges, n, d) PROVE Settled(n, d)
  BY DEF Whole
<1>1. CASE d < depth
  BY <1>1 DEF Whole
<1>2. CASE d = depth
  <2>1. ASSUME NEW p \in Paths(edges, n, d)
        PROVE  /\ p[1] \in edges /\ p[1].from = n /\ p[1].to \in Visited
               /\ best[p[1].to].depth = d - 1 /\ Followed(p[1])
               /\ Strongest(edges, p[1].to, d - 1, best[p[1].to].rank)
    <3>1. p[1] \in edges /\ p[1].from = n /\ Far(edges, p[1].to, d - 1)
      BY <1>0, <1>2, FarLess
    <3>2. Settled(p[1].to, d - 1)
      BY <1>0, <1>2, <3>1 DEF Whole
    <3> QED BY <1>2, <3>1, <3>2 DEF Settled
  <2>2. PICK p \in Paths(edges, n, d) : TRUE
    BY <1>0, <1>2 DEF Far, Away
  <2>3. n \in Visited
    BY <2>1, <2>2 DEF Followed
  <2>4. best[n].depth = d
    <3>1. best[n].depth \in Nat /\ best[n].depth <= d
      BY <1>2, <2>3 DEF ImInv, Known
    <3>2. ~(best[n].depth < d)
      BY <2>3, <3>1, KnownAway DEF Far
    <3> QED BY <3>1, <3>2
  <2>5. ASSUME NEW q \in Paths(edges, n, d)
        PROVE  \E k \in 1 .. d : q[k].rank >= best[n].rank
    <3> DEFINE e == q[1]
               m == e.to
    <3>1. /\ e \in edges /\ e.from = n /\ m \in Visited /\ best[m].depth = d - 1 /\ Followed(e)
          /\ Strongest(edges, m, d - 1, best[m].rank)
      BY <2>1
    <3>2. best[n].rank \in Nat /\ best[m].rank \in Nat /\ e.rank \in Nat
      BY <2>3, <3>1 DEF ImInv, Known
    <3>3. best[n].rank <= best[m].rank \/ best[n].rank <= e.rank
      BY <1>2, <2>4, <3>1, <3>2 DEF Followed, WeakestHop
    <3>4. CASE best[n].rank <= e.rank
      <4>1. 1 \in 1 .. d /\ q[1].rank >= best[n].rank
        BY <1>0, <1>2, <3>2, <3>4
      <4> QED BY <4>1
    <3>5. CASE d = 1 /\ best[n].rank <= best[m].rank
      <4>1. m \in Changed
        BY <3>5, Shorter
      <4>2. best[m].rank = 0
        BY <3>1, <4>1 DEF ImInv, Known
      <4>3. 1 \in 1 .. d /\ q[1].rank >= best[n].rank
        BY <1>0, <1>2, <3>2, <3>5, <4>2
      <4> QED BY <4>3
    <3>6. CASE d # 1 /\ best[n].rank <= best[m].rank
      <4>1. PICK s \in Paths(edges, m, d - 1) : \A k \in 1 .. d - 1 : s[k] = q[k + 1]
        BY <1>0, <1>2, <3>6, Shorter
      <4>2. PICK k \in 1 .. d - 1 : s[k].rank >= best[m].rank
        BY <1>0, <1>2, <3>1, <3>6, <4>1 DEF Strongest
      <4>3. k + 1 \in 1 .. d /\ q[k + 1] = s[k] /\ q[k + 1] \in edges
        BY <4>1, <4>2 DEF Paths
      <4>4. q[k + 1].rank \in Nat
        BY <4>3 DEF ImInv
      <4>5. q[k + 1].rank >= best[n].rank
        BY <3>2, <3>6, <4>2, <4>3, <4>4
      <4> QED BY <4>3, <4>5
    <3> QED BY <3>3, <3>4, <3>5, <3>6
  <2> QED BY <2>3, <2>4, <2>5 DEF Settled, Strongest
<1> QED BY <1>0, <1>1, <1>2

LEMMA WholeStays ==
    ASSUME best' = best, edges' = edges, NEW h, Whole(h)
    PROVE  Whole(h)'
  BY DEF Whole, Settled, Visited

LEMMA HopBegin_Inv == ASSUME ImConstants, ImInv, HopBegin PROVE ImInv'
<1> DEFINE going == depth <= Depth /\ frontier # <<>>
           full == Cardinality(Visited) >= limit
<1>1. /\ pc = "hop" /\ pc' = IF going /\ ~full THEN "batch" ELSE "load"
      /\ cut' = IF full /\ frontier # <<>> THEN "nodes" ELSE cut
      /\ found' = <<>> /\ best' = best /\ edges' = edges /\ frontier' = frontier
      /\ depth' = depth /\ limit' = limit /\ Visited' = Visited
  BY DEF HopBegin, Walk, Visited
<1>2. depth \in Nat /\ depth # 0 /\ Depth \in Nat
  BY DEF ImInv, Placed, ImConstants
<1>3. Known'
  BY <1>1, <1>2 DEF ImInv, Known
<1>4. Placed'
  BY <1>1, <1>2 DEF ImInv, Placed, Listed
<1>5. Counted'
  BY <1>1 DEF ImInv, Counted
<1>6. ASSUME cut' = "none" PROVE Complete'
  <2>1. cut = "none" /\ Whole(depth) /\ (full => frontier = <<>>)
    BY <1>1, <1>6 DEF ImInv, Complete
  <2>2. \A n \in Visited : best[n].depth = depth - 1 => n \in Listed(frontier)
    BY <1>1, <2>1 DEF ImInv, Complete
  <2>3. CASE pc' = "batch"
    <3>1. Whole(depth)'
      BY <1>1, <2>1, WholeStays DEF Whole
    <3>2. \A n \in Visited : best[n].depth # depth
      BY <1>1, <1>2 DEF ImInv, Known
    <3>3. \A e \in edges : e.to \in Visited /\ best[e.to].depth = depth - 1 => Attended(e)'
      BY <1>1, <2>2 DEF Attended
    <3> QED BY <1>1, <2>3, <3>1, <3>2, <3>3 DEF Complete
  <2>4. CASE pc' = "load"
    <3>1. Whole(Depth + 1)
      <4>1. CASE frontier = <<>>
        <5>1. Listed(frontier) = {}
          BY <4>1 DEF Listed
        <5> QED BY <1>2, <2>1, <2>2, <5>1, NothingLeft
      <4>2. CASE depth > Depth
        <5>1. \A d \in Nat : d < Depth + 1 => d < depth
          BY <1>2, <4>2
        <5> QED BY <2>1, <5>1 DEF Whole
      <4> QED BY <1>1, <1>2, <2>1, <2>4, <4>1, <4>2
    <3>2. Whole(Depth + 1)'
      BY <1>1, <3>1 DEF Whole, Settled
    <3> QED BY <2>4, <3>2 DEF Complete
  <2> QED BY <1>1, <2>3, <2>4
<1> QED BY <1>1, <1>3, <1>4, <1>5, <1>6 DEF ImInv

\* A batch and what is left of the frontier.
LEMMA Batched ==
    ASSUME NEW S, NEW s \in Seq(S), NEW a \in Nat, a <= Len(s)
    PROVE  LET t == SubSeq(s, a + 1, Len(s)) IN
           /\ t \in Seq(S)
           /\ Listed(t) \subseteq Listed(s)
           /\ Listed(s) \subseteq {s[k] : k \in 1 .. a} \cup Listed(t)
<1> DEFINE t == SubSeq(s, a + 1, Len(s))
<1>1. /\ t \in Seq(S) /\ Len(t) = Len(s) - a /\ Len(s) \in Nat
      /\ \A k \in 1 .. Len(t) : t[k] = s[k + a]
  OBVIOUS
<1> HIDE DEF t
<1>2. DOMAIN t = 1 .. Len(t) /\ DOMAIN s = 1 .. Len(s)
  BY <1>1
<1>3. ASSUME NEW k \in DOMAIN t PROVE t[k] \in Listed(s)
  <2>1. k + a \in DOMAIN s /\ t[k] = s[k + a]
    BY <1>1, <1>2
  <2> QED BY <2>1 DEF Listed
<1>4. ASSUME NEW k \in DOMAIN s, k \notin 1 .. a PROVE s[k] \in Listed(t)
  <2>1. k - a \in DOMAIN t /\ (k - a) + a = k
    BY <1>1, <1>2, <1>4
  <2>2. t[k - a] = s[k]
    BY <1>1, <1>2, <2>1
  <2> QED BY <2>1, <2>2 DEF Listed
<1>5. Listed(t) \subseteq Listed(s) /\ Listed(s) \subseteq {s[k] : k \in 1 .. a} \cup Listed(t)
  BY <1>3, <1>4 DEF Listed
<1> QED BY <1>1, <1>5 DEF t

LEMMA BatchBegin_Inv == ASSUME ImConstants, ImInv, BatchBegin PROVE ImInv'
<1> DEFINE size == IF Len(frontier) < BatchSize THEN Len(frontier) ELSE BatchSize
           chunk == {frontier[k] : k \in 1 .. size}
           rest == SubSeq(frontier, size + 1, Len(frontier))
<1>1. /\ pc = "batch" /\ pc' = "rows" /\ rows' = {e \in edges : e.to \in chunk}
      /\ frontier' = rest
      /\ cut' = cut /\ found' = found /\ best' = best /\ edges' = edges
      /\ depth' = depth /\ limit' = limit /\ Visited' = Visited
  BY DEF BatchBegin, Visited
<1>2. frontier \in Seq(Visited) /\ Len(frontier) \in Nat /\ size \in Nat /\ size <= Len(frontier)
  BY DEF ImInv, Placed, ImConstants
<1> HIDE DEF size
<1>3. /\ rest \in Seq(Visited) /\ Listed(rest) \subseteq Listed(frontier)
      /\ Listed(frontier) \subseteq chunk \cup Listed(rest)
  BY <1>2, Batched
<1>4. chunk \subseteq Listed(frontier) /\ Listed(frontier) \subseteq Visited
  BY <1>2 DEF Listed
<1> HIDE DEF chunk, rest
<1>5. Known'
  BY <1>1 DEF ImInv, Known
<1>6. Placed'
  BY <1>1, <1>3, <1>4 DEF ImInv, Placed
<1>7. Counted'
  BY <1>1 DEF ImInv, Counted
<1>8. ASSUME cut' = "none" PROVE Complete'
  <2>1. /\ Whole(depth) /\ \A n \in Visited : best[n].depth = depth => n \in Listed(found)
        /\ \A e \in edges : e.to \in Visited /\ best[e.to].depth = depth - 1 => Attended(e)
    BY <1>1, <1>8 DEF ImInv, Complete
  <2>2. Whole(depth)'
    BY <1>1, <2>1 DEF Whole, Settled
  <2>3. ASSUME NEW e \in edges, e.to \in Visited, best[e.to].depth = depth - 1
        PROVE  Attended(e)'
    <3>1. e.to \in Listed(frontier) \/ Followed(e)
      BY <1>1, <2>1, <2>3 DEF Attended
    <3>2. CASE Followed(e)
      BY <1>1, <3>2 DEF Attended, Followed
    <3>3. CASE e.to \in Listed(frontier)
      BY <1>1, <1>3, <3>3 DEF Attended
    <3> QED BY <3>1, <3>2, <3>3
  <2> QED BY <1>1, <2>1, <2>2, <2>3 DEF Complete
<1> QED BY <1>1, <1>5, <1>6, <1>7, <1>8 DEF ImInv

LEMMA HopEnd_Inv == ASSUME ImConstants, ImInv, HopEnd PROVE ImInv'
<1>1. /\ pc = "batch" /\ pc' = "hop" /\ (frontier = <<>> \/ Cardinality(Visited) >= limit)
      /\ cut' = IF frontier = <<>> THEN cut ELSE "nodes"
      /\ frontier' = found /\ found' = found /\ best' = best /\ edges' = edges
      /\ depth' = depth + 1 /\ limit' = limit /\ Visited' = Visited
  BY DEF HopEnd, Walk, Visited
<1>2. depth \in Nat /\ depth # 0
  BY DEF ImInv, Placed
<1>3. Known'
  BY <1>1, <1>2 DEF ImInv, Known
<1>4. Placed'
  BY <1>1, <1>2 DEF ImInv, Placed
<1>5. Counted'
  BY <1>1 DEF ImInv, Counted
<1>6. ASSUME cut' = "none" PROVE Complete'
  <2>1. /\ cut = "none" /\ frontier = <<>> /\ Whole(depth)
        /\ \A n \in Visited : best[n].depth = depth => n \in Listed(found)
        /\ \A e \in edges : e.to \in Visited /\ best[e.to].depth = depth - 1 => Attended(e)
    BY <1>1, <1>6 DEF ImInv, Complete
  <2>2. \A e \in edges : e.to \in Visited /\ best[e.to].depth = depth - 1 => Followed(e)
    BY <1>1, <2>1 DEF Attended, Listed
  <2>3. \A n \in Visited : best[n].depth <= depth
    BY <1>1 DEF ImInv, Known
  <2>4. Whole(depth + 1)
    BY <2>1, <2>2, <2>3, HopWhole
  <2>5. Whole(depth)'
    BY <1>1, <2>4 DEF Whole, Settled
  <2>6. (depth + 1) - 1 = depth
    BY <1>2
  <2> QED BY <1>1, <2>1, <2>5, <2>6 DEF Complete
<1> QED BY <1>1, <1>3, <1>4, <1>5, <1>6 DEF ImInv

LEMMA RowsEnd_Inv == ASSUME ImInv, RowsEnd PROVE ImInv'
<1>1. /\ pc = "rows" /\ (rows = {} \/ room = 0) /\ pc' = IF room = 0 THEN "cut" ELSE "batch"
      /\ cut' = IF room = 0 THEN "rows" ELSE cut
      /\ frontier' = frontier /\ found' = found /\ best' = best /\ edges' = edges
      /\ depth' = depth /\ limit' = limit /\ Visited' = Visited
  BY DEF RowsEnd, Walk, Visited
<1>2. Known'
  BY <1>1 DEF ImInv, Known
<1>3. Placed'
  BY <1>1 DEF ImInv, Placed
<1>4. Counted'
  BY <1>1 DEF ImInv, Counted
<1>5. ASSUME cut' = "none" PROVE Complete'
  <2>1. /\ cut = "none" /\ rows = {} /\ pc' = "batch" /\ Whole(depth)
        /\ \A n \in Visited : best[n].depth = depth => n \in Listed(found)
        /\ \A e \in edges : e.to \in Visited /\ best[e.to].depth = depth - 1 => Attended(e)
    BY <1>1, <1>5 DEF ImInv, Complete
  <2>2. Whole(depth)'
    BY <1>1, <2>1 DEF Whole, Settled
  <2>3. \A e \in edges : Attended(e) => Attended(e)'
    BY <1>1, <2>1 DEF Attended, Followed
  <2> QED BY <1>1, <2>1, <2>2, <2>3 DEF Complete
<1> QED BY <1>1, <1>2, <1>3, <1>4, <1>5 DEF ImInv

LEMMA HopCut_Inv == ASSUME ImConstants, ImInv, HopCut PROVE ImInv'
<1>1. /\ pc = "cut" /\ pc' = "hop" /\ cut' = cut
      /\ frontier' = found /\ found' = found /\ best' = best /\ edges' = edges
      /\ depth' = depth + 1 /\ limit' = limit /\ Visited' = Visited
  BY DEF HopCut, Visited
<1>2. depth \in Nat /\ depth # 0 /\ cut # "none"
  BY <1>1 DEF ImInv, Placed
<1>3. Known'
  BY <1>1, <1>2 DEF ImInv, Known
<1>4. Placed'
  BY <1>1, <1>2 DEF ImInv, Placed
<1>5. Counted'
  BY <1>1 DEF ImInv, Counted
<1> QED BY <1>1, <1>2, <1>3, <1>4, <1>5 DEF ImInv

\* A row that leads to a new node, or to one of this hop by a stronger way.
LEMMA RowTaken ==
    ASSUME ImInv, NEW e \in rows, pc = "rows", pc' = pc, cut' = cut, frontier' = frontier,
           edges' = edges, depth' = depth, limit' = limit, rows' = rows \ {e},
           e.from \in Visited => /\ best[e.from].depth = depth
                                 /\ best[e.from].rank > WeakestHop(best[e.to].rank, e.rank),
           best' = [n \in Visited \cup {e.from} |->
                      IF n = e.from
                      THEN [depth |-> depth, rank |-> WeakestHop(best[e.to].rank, e.rank),
                            via |-> e.kind]
                      ELSE best[n]],
           found' = IF e.from \notin Visited THEN Append(found, e.from) ELSE found
    PROVE  ImInv'
<1> DEFINE f == e.from
           m == e.to
           w == WeakestHop(best[e.to].rank, e.rank)
<1>1. /\ Visited' = Visited \cup {f} /\ best'[f].depth = depth /\ best'[f].rank = w
      /\ \A n \in Visited : n # f => best'[n] = best[n]
  BY DEF Visited
<1>2. /\ e \in edges /\ m \in Visited /\ best[m].depth = depth - 1 /\ depth \in Nat /\ depth # 0
      /\ depth <= Depth
  BY DEF ImInv, Placed
<1>3. /\ best[m].rank \in Nat /\ e.rank \in Nat /\ w \in Nat /\ best[m].rank <= w /\ e.rank <= w
      /\ w = best[m].rank \/ w = e.rank
  BY <1>2 DEF ImInv, Known, WeakestHop
<1>4. f \notin Changed /\ \A n \in Visited : best[n].depth # depth => n # f
  BY <1>2 DEF ImInv, Known
<1>5. m # f /\ \A n \in Visited : best[n].depth = depth - 1 => n # f
  BY <1>2, <1>4
<1> HIDE DEF w
<1>6. Backed(edges, f, depth, w)
  <2>1. CASE m \in Changed
    <3>1. depth = 1
      BY <1>2, <2>1 DEF ImInv, Known
    <3>2. PICK q \in Paths(edges, f, 1) : q[1] = e
      BY <1>2, <2>1, Single
    <3> QED BY <1>3, <3>1, <3>2 DEF Backed
  <2>2. CASE m \notin Changed
    <3>1. depth - 1 # 0 /\ depth - 1 \in Nat /\ (depth - 1) + 1 = depth
      BY <1>2, <2>2 DEF ImInv, Known
    <3>2. PICK p \in Paths(edges, m, depth - 1) : \A k \in 1 .. depth - 1 : p[k].rank <= best[m].rank
      BY <1>2, <2>2 DEF ImInv, Known, Backed
    <3>3. PICK q \in Paths(edges, f, depth) :
            q[1] = e /\ \A k \in 1 .. depth - 1 : q[k + 1] = p[k]
      BY <1>2, <3>1, <3>2, Longer
    <3>4. ASSUME NEW k \in 1 .. depth PROVE q[k].rank <= w
      <4>1. CASE k = 1
        BY <1>3, <3>3, <4>1
      <4>2. CASE k # 1
        <5>1. k - 1 \in 1 .. depth - 1 /\ (k - 1) + 1 = k
          BY <1>2, <4>2
        <5>2. q[k] = p[k - 1] /\ p[k - 1].rank <= best[m].rank
          BY <3>2, <3>3, <5>1
        <5>3. p[k - 1].rank \in Nat
          BY <3>2, <5>1 DEF Paths, ImInv
        <5> QED BY <1>3, <5>2, <5>3
      <4> QED BY <4>1, <4>2
    <3> QED BY <3>3, <3>4 DEF Backed
  <2> QED BY <2>1, <2>2
<1>7. Known'
  <2> SUFFICES ASSUME NEW n \in Visited'
               PROVE  /\ best'[n].depth \in Nat /\ best'[n].depth <= Depth /\ best'[n].rank \in Nat
                      /\ n \in Changed => best'[n].depth = 0 /\ best'[n].rank = 0
                      /\ n \notin Changed =>
                            best'[n].depth # 0 /\ Backed(edges, n, best'[n].depth, best'[n].rank)
                      /\ best'[n].depth <= depth
    BY DEF Known
  <2>1. CASE n = f
    BY <1>1, <1>2, <1>3, <1>4, <1>6, <2>1
  <2>2. CASE n # f
    BY <1>1, <2>2 DEF ImInv, Known
  <2> QED BY <2>1, <2>2
<1>8. /\ found' \in Seq(Visited') /\ Listed(found)' = IF f \in Visited THEN Listed(found)
                                                    ELSE Listed(found) \cup {f}
  <2>1. found \in Seq(Visited) /\ found \in Seq(Visited')
    BY <1>1 DEF ImInv, Placed
  <2>2. CASE f \in Visited
    BY <2>1, <2>2 DEF Listed
  <2>3. CASE f \notin Visited
    <3> DEFINE s == Append(found, f)
    <3>1. /\ s \in Seq(Visited') /\ DOMAIN s = 1 .. Len(found) + 1 /\ s[Len(found) + 1] = f
          /\ \A k \in 1 .. Len(found) : s[k] = found[k]
          /\ Len(found) \in Nat /\ DOMAIN found = 1 .. Len(found)
      BY <1>1, <2>1
    <3>2. found' = s
      BY <2>3
    <3> HIDE DEF s
    <3>3. Listed(s) = Listed(found) \cup {f}
      BY <3>1 DEF Listed
    <3>4. Listed(found)' = Listed(s)
      BY <3>2 DEF Listed
    <3> QED BY <2>3, <3>1, <3>2, <3>3, <3>4
  <2> QED BY <2>2, <2>3
<1>9. Placed'
  <2>1. frontier' \in Seq(Visited') /\ Listed(frontier)' = Listed(frontier)
    BY <1>1 DEF ImInv, Placed, Listed
  <2>2. Listed(frontier) \subseteq Visited /\ Listed(found) \subseteq Visited
    BY DEF ImInv, Placed, Listed
  <2>3. \A n \in Listed(frontier) : best'[n].depth = depth - 1
    <3>1. \A n \in Listed(frontier) : best[n].depth = depth - 1
      BY DEF ImInv, Placed
    <3> QED BY <1>1, <1>5, <2>2, <3>1
  <2>4. \A n \in Listed(found)' : best'[n].depth = depth
    <3>1. \A n \in Listed(found) : best[n].depth = depth
      BY DEF ImInv, Placed
    <3> QED BY <1>1, <1>8, <2>2, <3>1
  <2>5. \A x \in rows' : x \in edges /\ x.to \in Visited' /\ best'[x.to].depth = depth - 1
    <3>1. \A x \in rows : x \in edges /\ x.to \in Visited /\ best[x.to].depth = depth - 1
      BY DEF ImInv, Placed
    <3> QED BY <1>1, <1>5, <3>1
  <2> QED BY <1>2, <1>8, <2>1, <2>3, <2>4, <2>5 DEF ImInv, Placed
<1>10. Counted'
  <2>1. IsFiniteSet(Visited) /\ Cardinality(Visited) \in Nat
    BY FS_CardinalityType DEF ImInv, Counted
  <2>2. IsFiniteSet(Visited') /\ Cardinality(Visited') >= Cardinality(Visited)
        /\ Cardinality(Visited') \in Nat
    <3>1. f \in Visited => Visited' = Visited
      BY <1>1
    <3>2. /\ IsFiniteSet(Visited \cup {f})
          /\ Cardinality(Visited \cup {f}) = IF f \in Visited THEN Cardinality(Visited)
                                             ELSE Cardinality(Visited) + 1
      BY <2>1, FS_AddElement
    <3> QED BY <1>1, <2>1, <3>1, <3>2
  <2> QED BY <2>1, <2>2 DEF ImInv, Counted
<1>11. ASSUME cut' = "none" PROVE Complete'
  <2>1. /\ Whole(depth)
        /\ \A n \in Visited : best[n].depth = depth => n \in Listed(found)
        /\ \A x \in edges : x.to \in Visited /\ best[x.to].depth = depth - 1 => Attended(x)
    BY <1>11 DEF ImInv, Complete
  <2>2. Whole(depth)'
    <3> SUFFICES ASSUME NEW n, NEW d \in Nat, d < depth, Far(edges, n, d) PROVE Settled(n, d)'
      BY DEF Whole
    <3>1. Settled(n, d)
      BY <2>1 DEF Whole
    <3>2. n \in Visited /\ n # f
      BY <1>2, <1>4, <3>1 DEF Settled
    <3> QED BY <1>1, <3>1, <3>2 DEF Settled
  <2>3. \A n \in Visited' : best'[n].depth = depth => n \in Listed(found)'
    BY <1>1, <1>8, <2>1
  <2>4. ASSUME NEW x \in edges, x.to \in Visited', best'[x.to].depth = depth - 1
        PROVE  Attended(x)'
    <3>1. x.to # f /\ x.to \in Visited /\ best'[x.to] = best[x.to]
      BY <1>1, <1>2, <2>4
    <3>2. Attended(x)
      BY <2>1, <2>4, <3>1
    <3>3. CASE x = e
      <4>1. Followed(e)'
        BY <1>1, <1>3, <1>5, <3>1, <3>3 DEF Followed, w
      <4> QED BY <3>3, <4>1 DEF Attended
    <3>4. CASE x # e /\ Followed(x)
      <4>1. CASE x.from = f
        <5>1. f \in Visited /\ best[f].depth = depth /\ best[f].rank > w
          BY <3>4, <4>1 DEF Followed, w
        <5>2. best[f].rank <= WeakestHop(best[x.to].rank, x.rank)
          BY <3>4, <4>1, <5>1 DEF Followed
        <5>3. best[f].rank \in Nat /\ WeakestHop(best[x.to].rank, x.rank) \in Nat
          BY <3>1, <5>1 DEF ImInv, Known, WeakestHop
        <5>4. w <= WeakestHop(best'[x.to].rank, x.rank)
          BY <1>3, <3>1, <5>1, <5>2, <5>3
        <5>5. Followed(x)'
          BY <1>1, <4>1, <5>4 DEF Followed
        <5> QED BY <5>5 DEF Attended
      <4>2. CASE x.from # f
        <5>1. Followed(x)'
          BY <1>1, <3>1, <3>4, <4>2 DEF Followed
        <5> QED BY <5>1 DEF Attended
      <4> QED BY <4>1, <4>2
    <3>5. CASE x # e /\ ~Followed(x)
      <4>1. x.to \in Listed(frontier) \/ x \in rows'
        BY <3>2, <3>5 DEF Attended
      <4> QED BY <4>1 DEF Attended, Listed
    <3> QED BY <3>3, <3>4, <3>5
  <2> QED BY <2>2, <2>3, <2>4 DEF Complete
<1>12. Changed \subseteq Visited' /\ \A x \in edges' : x.rank \in Nat
  BY <1>1 DEF ImInv
<1> QED BY <1>7, <1>9, <1>10, <1>11, <1>12 DEF ImInv

LEMMA FetchRow_Inv == ASSUME ImInv, NEW e \in rows, FetchRow(e) PROVE ImInv'
<1> DEFINE w == WeakestHop(best[e.to].rank, e.rank)
           new == e.from \notin Visited
           better == new \/ (best[e.from].depth = depth /\ best[e.from].rank > w)
<1>1. CASE new /\ Cardinality(Visited) >= limit
  <2>1. /\ pc = "rows" /\ pc' = "cut" /\ cut' = "nodes" /\ frontier' = frontier /\ found' = found
        /\ best' = best /\ edges' = edges /\ depth' = depth /\ limit' = limit /\ Visited' = Visited
    BY <1>1 DEF FetchRow, Walk, Visited
  <2>2. Known' /\ Placed' /\ Counted'
    <3>1. Known'
      BY <2>1 DEF ImInv, Known
    <3>2. Placed'
      BY <2>1 DEF ImInv, Placed
    <3>3. Counted'
      BY <1>1, <2>1 DEF ImInv, Counted
    <3> QED BY <3>1, <3>2, <3>3
  <2> QED BY <2>1, <2>2 DEF ImInv
<1>2. CASE ~(new /\ Cardinality(Visited) >= limit) /\ better
  <2>1. /\ pc = "rows" /\ pc' = pc /\ cut' = cut /\ frontier' = frontier
        /\ edges' = edges /\ depth' = depth /\ limit' = limit /\ rows' = rows \ {e}
        /\ best' = [n \in Visited \cup {e.from} |->
                      IF n = e.from THEN [depth |-> depth, rank |-> w, via |-> e.kind]
                      ELSE best[n]]
        /\ found' = IF e.from \notin Visited THEN Append(found, e.from) ELSE found
    BY <1>2 DEF FetchRow
  <2>2. e.from \in Visited => best[e.from].depth = depth /\ best[e.from].rank > w
    BY <1>2
  <2> QED BY <2>1, <2>2, RowTaken
<1>3. CASE ~better
  <2>1. /\ pc = "rows" /\ pc' = pc /\ cut' = cut /\ frontier' = frontier /\ found' = found
        /\ best' = best /\ edges' = edges /\ depth' = depth /\ limit' = limit /\ Visited' = Visited
        /\ rows' = rows \ {e} /\ e.from \in Visited
    BY <1>3 DEF FetchRow, Visited
  <2>2. Known'
    BY <2>1 DEF ImInv, Known
  <2>3. Placed'
    BY <2>1 DEF ImInv, Placed
  <2>4. Counted'
    BY <2>1 DEF ImInv, Counted
  <2>5. ASSUME cut' = "none" PROVE Complete'
    <3>1. /\ Whole(depth)
          /\ \A n \in Visited : best[n].depth = depth => n \in Listed(found)
          /\ \A x \in edges : x.to \in Visited /\ best[x.to].depth = depth - 1 => Attended(x)
      BY <2>1, <2>5 DEF ImInv, Complete
    <3>2. Followed(e)
      <4>1. e \in edges /\ e.to \in Visited
        BY <2>1 DEF ImInv, Placed
      <4>2. best[e.from].rank \in Nat /\ w \in Nat
        BY <2>1, <4>1 DEF ImInv, Known, WeakestHop
      <4>3. best[e.from].depth = depth => best[e.from].rank <= w
        BY <1>3, <4>2
      <4> QED BY <2>1, <4>3 DEF Followed
    <3>3. Whole(depth)'
      BY <2>1, <3>1 DEF Whole, Settled
    <3>4. \A x \in edges : Attended(x) => Attended(x)'
      BY <2>1, <3>2 DEF Attended, Followed
    <3> QED BY <2>1, <3>1, <3>3, <3>4 DEF Complete
  <2> QED BY <2>1, <2>2, <2>3, <2>4, <2>5 DEF ImInv
<1> QED BY <1>1, <1>2, <1>3

\* The report as buildImpact leaves it.
LEMMA ReportWhole ==
    ASSUME ImConstants, ImInv, NEW kind \in ChangeKinds, BuildImpact(kind)
    PROVE  ImpactIsWhole'
<1> DEFINE rest == Visited \ Changed
           C == {ConsumerOf(n, kind) : n \in rest}
           N == Cardinality(C)
           s == report'
           listed == {s[k].node : k \in DOMAIN s}
           consumers == {n \in {e.from : e \in edges} \ Changed : Distance(n) # {}}
<1>1. /\ pc = "load" /\ s \in Listings(C) /\ \A i, j \in DOMAIN s : i < j => Precedes(s[i], s[j])
      /\ UNCHANGED <<edges, limit, best, cut>> /\ Visited' = Visited
  BY DEF BuildImpact, Visited
<1>2. \A n : /\ ConsumerOf(n, kind).node = n /\ ConsumerOf(n, kind).depth = best[n].depth
             /\ ConsumerOf(n, kind).rank = best[n].rank
             /\ ConsumerOf(n, kind).verdict = VerdictFor(kind, best[n].via, best[n].rank)
  BY DEF ConsumerOf
<1>3. IsFiniteSet(C) /\ N \in Nat
  <2>1. IsFiniteSet(rest)
    BY FS_Subset DEF ImInv, Counted
  <2>2. IsFiniteSet(C)
    <3> DEFINE g == [n \in rest |-> ConsumerOf(n, kind)]
    <3>1. g \in [rest -> C] /\ \A c \in C : \E n \in rest : g[n] = c
      OBVIOUS
    <3> HIDE DEF g, C
    <3>2. g \in Surjection(rest, C)
      BY <3>1 DEF Surjection
    <3> QED BY <2>1, <3>2, FS_Surjection
  <2> QED BY <2>2, FS_CardinalityType
<1>4. /\ s \in [1 .. N -> C] /\ \A i, j \in 1 .. N : s[i] = s[j] => i = j
      /\ \A c \in C : \E k \in 1 .. N : s[k] = c
  <2>1. s \in Bijection(1 .. N, C)
    BY <1>1 DEF Listings
  <2> HIDE DEF s, N, C
  <2> QED BY <2>1 DEF Bijection, Injection, IsInjective, Surjection
<1> HIDE DEF N, s
<1>5. DOMAIN s = 1 .. N /\ Len(s) = N
  BY <1>3, <1>4
<1>6. ASSUME NEW k \in 1 .. N
      PROVE  /\ s[k].node \in rest /\ s[k] = ConsumerOf(s[k].node, kind)
             /\ s[k].depth = best[s[k].node].depth /\ s[k].rank = best[s[k].node].rank
             /\ s[k].verdict = VerdictFor(kind, best[s[k].node].via, best[s[k].node].rank)
  <2>1. s[k] \in C
    BY <1>4
  <2>2. PICK n \in rest : s[k] = ConsumerOf(n, kind)
    BY <2>1
  <2> QED BY <1>2, <2>2
<1>7. listed = rest
  <2>1. listed \subseteq rest
    BY <1>5, <1>6
  <2>2. ASSUME NEW n \in rest PROVE n \in listed
    <3>1. PICK k \in 1 .. N : s[k] = ConsumerOf(n, kind)
      BY <1>4
    <3>2. s[k].node = n
      BY <1>2, <3>1
    <3> QED BY <1>5, <3>2
  <2> QED BY <2>1, <2>2
<1>8. Cardinality(listed) = Len(s)
  <2> DEFINE t == [k \in 1 .. N |-> s[k].node]
  <2>1. t \in Bijection(1 .. N, listed)
    <3>1. t \in [1 .. N -> listed]
      BY <1>5
    <3>2. ASSUME NEW i \in 1 .. N, NEW j \in 1 .. N, t[i] = t[j] PROVE i = j
      <4>1. s[i].node = s[j].node
        BY <3>2
      <4>2. s[i] = s[j]
        BY <1>6, <4>1
      <4> QED BY <1>4, <4>2
    <3>3. \A x \in listed : \E k \in 1 .. N : t[k] = x
      BY <1>5
    <3> HIDE DEF t, listed
    <3> QED BY <3>1, <3>2, <3>3 DEF Bijection, Injection, IsInjective, Surjection
  <2>2. ExistsBijection(1 .. N, listed)
    BY <2>1 DEF ExistsBijection
  <2>3. IsFiniteSet(1 .. N) /\ Cardinality(1 .. N) = N
    BY <1>3, FS_Interval
  <2>4. Cardinality(listed) = N
    BY <2>2, <2>3, FS_Bijection
  <2> QED BY <1>5, <2>4
<1>9. ASSUME NEW n \in rest
      PROVE  /\ best[n].depth \in 1 .. Depth /\ best[n].rank \in Nat
             /\ Backed(edges, n, best[n].depth, best[n].rank)
             /\ n \in consumers /\ Distance(n) # {}
  <2>1. /\ best[n].depth \in 1 .. Depth /\ best[n].rank \in Nat
        /\ Backed(edges, n, best[n].depth, best[n].rank)
    BY DEF ImInv, Known, ImConstants
  <2>2. PICK c \in Nat : c <= best[n].depth /\ Far(edges, n, c)
    <3>1. best[n].depth \in Nat /\ Away(edges, n, best[n].depth)
      BY <2>1, KnownAway
    <3> QED BY <3>1, Nearest
  <2>3. c \in Distance(n)
    <3>1. c # 0
      BY <2>2 DEF Far, Away
    <3>2. c \in 1 .. Depth
      BY <2>1, <2>2, <3>1 DEF ImConstants
    <3>3. Paths(edges, n, c) # {}
      BY <2>2, <3>1 DEF Far, Away
    <3>4. \A a \in 1 .. c - 1 : Paths(edges, n, a) = {}
      BY <2>2 DEF Far, Away
    <3> QED BY <3>2, <3>3, <3>4 DEF Distance
  <2>4. \E e \in edges : e.from = n
    <3>1. PICK p \in Paths(edges, n, best[n].depth) : TRUE
      BY <2>1 DEF Backed
    <3> QED BY <2>1, <3>1, Shorter
  <2> QED BY <2>1, <2>3, <2>4
<1>10. ASSUME NEW n, NEW a, NEW b \in Nat
       PROVE  /\ VerdictFor(kind, a, b) \in {"breaking", "undetermined", "compiles", "compatible"}
              /\ VerdictFor(kind, a, b) = "undetermined" <=> ~CertainRank(b)
  BY DEF VerdictFor
<1>11. ASSUME NEW i \in 1 .. N, NEW j \in 1 .. N, i < j
       PROVE  Severity[s[i].verdict] <= Severity[s[j].verdict]
  <2>1. \A k \in 1 .. N : Severity[s[k].verdict] \in Nat
    <3> SUFFICES ASSUME NEW k \in 1 .. N PROVE Severity[s[k].verdict] \in Nat
      OBVIOUS
    <3>1. s[k].verdict \in {"breaking", "undetermined", "compiles", "compatible"}
      BY <1>6, <1>9, <1>10
    <3> QED BY <3>1 DEF Severity
  <2>2. Precedes(s[i], s[j])
    BY <1>1, <1>5, <1>11 DEF s
  <2> QED BY <2>1, <2>2 DEF Precedes
<1>12. ASSUME ~Truncated, cut # "rows"
       PROVE  /\ listed = consumers
              /\ \A k \in 1 .. N : LET r == s[k] IN
                    /\ r.depth \in Distance(r.node)
                    /\ (r.verdict = "undetermined") <=>
                          \A p \in Paths(edges, r.node, r.depth) :
                              \E h \in DOMAIN p : ~CertainRank(p[h].rank)
  <2>1. cut = "none"
    BY <1>12 DEF Truncated, ImInv, Placed, Counted
  <2>2. Whole(Depth + 1)
    BY <1>1, <2>1 DEF ImInv, Complete
  <2>3. ASSUME NEW n, n \notin Changed, NEW d \in Distance(n)
        PROVE  n \in rest /\ best[n].depth = d /\ Strongest(edges, n, d, best[n].rank)
    <3>1. d \in 1 .. Depth /\ Paths(edges, n, d) # {} /\ \A a \in 1 .. d - 1 : Paths(edges, n, a) = {}
      BY DEF Distance
    <3>2. ASSUME NEW a \in Nat, a < d PROVE ~Away(edges, n, a)
      <4>1. a = 0 \/ a \in 1 .. d - 1
        BY <3>1, <3>2
      <4> QED BY <2>3, <3>1, <4>1 DEF Away
    <3>3. Far(edges, n, d)
      BY <3>1, <3>2 DEF Far, Away
    <3>4. d \in Nat /\ d < Depth + 1
      BY <3>1 DEF ImConstants
    <3>5. Settled(n, d)
      BY <2>2, <3>3, <3>4 DEF Whole
    <3> QED BY <2>3, <3>5 DEF Settled
  <2>4. listed = consumers
    <3>1. consumers \subseteq rest
      BY <2>3
    <3> QED BY <1>7, <1>9, <3>1
  <2>5. ASSUME NEW k \in 1 .. N
        PROVE  LET r == s[k] IN
               /\ r.depth \in Distance(r.node)
               /\ (r.verdict = "undetermined") <=>
                     \A p \in Paths(edges, r.node, r.depth) :
                         \E h \in DOMAIN p : ~CertainRank(p[h].rank)
    <3> DEFINE n == s[k].node
               d == best[n].depth
    <3>1. n \in rest /\ s[k].depth = d /\ s[k].verdict = VerdictFor(kind, best[n].via, best[n].rank)
      BY <1>6
    <3>2. d \in 1 .. Depth /\ best[n].rank \in Nat /\ Backed(edges, n, d, best[n].rank)
      BY <1>9, <3>1
    <3>3. d \in Distance(n) /\ Strongest(edges, n, d, best[n].rank)
      <4>1. PICK c \in Distance(n) : TRUE
        BY <1>9, <3>1
      <4> QED BY <2>3, <3>1, <4>1
    <3>4. s[k].verdict = "undetermined" <=> ~CertainRank(best[n].rank)
      BY <1>10, <3>1, <3>2
    <3>5. \A p \in Paths(edges, n, d) : DOMAIN p = 1 .. d /\ \A h \in 1 .. d : p[h].rank \in Nat
      BY DEF Paths, ImInv
    <3>6. ASSUME ~CertainRank(best[n].rank), NEW p \in Paths(edges, n, d)
          PROVE  \E h \in DOMAIN p : ~CertainRank(p[h].rank)
      <4>1. PICK h \in 1 .. d : p[h].rank >= best[n].rank
        BY <3>2, <3>3 DEF Strongest
      <4>2. ~CertainRank(p[h].rank)
        BY <3>2, <3>5, <3>6, <4>1 DEF CertainRank
      <4> QED BY <3>5, <4>2
    <3>7. ASSUME CertainRank(best[n].rank)
          PROVE  \E p \in Paths(edges, n, d) : \A h \in DOMAIN p : CertainRank(p[h].rank)
      <4>1. PICK p \in Paths(edges, n, d) : \A h \in 1 .. d : p[h].rank <= best[n].rank
        BY <3>2 DEF Backed
      <4>2. \A h \in DOMAIN p : CertainRank(p[h].rank)
        BY <3>2, <3>5, <3>7, <4>1 DEF CertainRank
      <4> QED BY <4>2
    <3> QED BY <3>1, <3>3, <3>4, <3>6, <3>7
  <2> QED BY <2>4, <2>5
<1>13. listed \subseteq consumers
  BY <1>7, <1>9
<1>14. Truncated' = Truncated /\ \A n : Distance(n)' = Distance(n)
  BY <1>1 DEF Truncated, Distance
<1> HIDE DEF listed, consumers
<1>15. /\ listed = {report'[k].node : k \in DOMAIN report'}
       /\ consumers = {n \in {e.from : e \in edges'} \ Changed : Distance(n)' # {}}
  BY <1>1, <1>14 DEF listed, consumers, s
<1> QED BY <1>1, <1>5, <1>8, <1>11, <1>12, <1>13, <1>14, <1>15 DEF ImpactIsWhole, s

LEMMA BuildImpact_Inv ==
    ASSUME ImInv, NEW kind \in ChangeKinds, BuildImpact(kind)
    PROVE  ImInv'
<1>1. /\ pc = "load" /\ pc' = "done" /\ cut' = cut
      /\ frontier' = frontier /\ found' = found /\ best' = best /\ edges' = edges
      /\ depth' = depth /\ limit' = limit /\ Visited' = Visited
  BY DEF BuildImpact, Visited
<1>2. Known'
  BY <1>1 DEF ImInv, Known
<1>3. Placed'
  BY <1>1 DEF ImInv, Placed
<1>4. Counted'
  BY <1>1 DEF ImInv, Counted
<1>5. ASSUME cut = "none" PROVE Complete'
  <2>1. Whole(Depth + 1)
    BY <1>1, <1>5 DEF ImInv, Complete
  <2>2. Whole(Depth + 1)'
    BY <1>1, <2>1 DEF Whole, Settled
  <2> QED BY <1>1, <2>2 DEF Complete
<1> QED BY <1>1, <1>2, <1>3, <1>4, <1>5 DEF ImInv

LEMMA ImStays_Inv == ASSUME ImInv, UNCHANGED imvars PROVE ImInv' /\ (ImpactIsWhole => ImpactIsWhole')
<1>1. /\ pc' = pc /\ cut' = cut /\ rows' = rows /\ report' = report
      /\ frontier' = frontier /\ found' = found /\ best' = best /\ edges' = edges
      /\ depth' = depth /\ limit' = limit /\ Visited' = Visited
  BY DEF imvars, Visited
<1>2. Known' /\ Placed' /\ Counted'
  BY <1>1 DEF ImInv, Known, Placed, Counted
<1>3. ASSUME Complete PROVE Complete'
  <2>1. \A h : Whole(h) => Whole(h)'
    BY <1>1 DEF Whole, Settled
  <2>2. \A e \in edges : Attended(e) => Attended(e)'
    BY <1>1 DEF Attended, Followed
  <2> QED BY <1>1, <1>3, <2>1, <2>2 DEF Complete
<1>4. ImpactIsWhole => ImpactIsWhole'
  <2> SUFFICES ASSUME ImpactIsWhole, pc = "done" PROVE ImpactIsWhole'
    BY <1>1 DEF ImpactIsWhole
  <2> DEFINE listed == {report[k].node : k \in DOMAIN report}
             consumers == {n \in {e.from : e \in edges} \ Changed : Distance(n) # {}}
  <2>1. Truncated' = Truncated /\ \A n : Distance(n)' = Distance(n)
    BY <1>1 DEF Truncated, Distance
  <2>2. /\ listed = {report'[k].node : k \in DOMAIN report'}
        /\ consumers = {n \in {e.from : e \in edges'} \ Changed : Distance(n)' # {}}
    BY <1>1, <2>1
  <2>3. /\ Cardinality(listed) = Len(report) /\ listed \subseteq consumers
        /\ \A i, j \in DOMAIN report : i < j =>
              Severity[report[i].verdict] <= Severity[report[j].verdict]
        /\ (~Truncated /\ cut # "rows") =>
              /\ listed = consumers
              /\ \A k \in DOMAIN report : LET r == report[k] IN
                    /\ r.depth \in Distance(r.node)
                    /\ (r.verdict = "undetermined") <=>
                          \A p \in Paths(edges, r.node, r.depth) :
                              \E h \in DOMAIN p : ~CertainRank(p[h].rank)
    BY DEF ImpactIsWhole
  <2> HIDE DEF listed, consumers
  <2> QED BY <1>1, <2>1, <2>2, <2>3 DEF ImpactIsWhole
<1> QED BY <1>1, <1>2, <1>3, <1>4 DEF ImInv

\* The impact report is whole or says that it is not (graph/traverse.go and
\* graph/impact.go): the breadth-first walk in batches finds every consumer of a
\* changed node at its distance and with its strongest evidence, whatever order the
\* rows come in, and what the caps cut off is never invented.  For any graph, any
\* changed nodes and any caps.
THEOREM ReportIsWhole == ASSUME ImConstants PROVE ImSpec => []ImpactIsWhole
<1>1. ImInit => ImInv /\ ImpactIsWhole
  BY ImInit_Inv DEF ImInit, ImpactIsWhole
<1>2. ImInv /\ ImpactIsWhole /\ [ImNext]_imvars => (ImInv /\ ImpactIsWhole)'
  <2> SUFFICES ASSUME ImInv, ImpactIsWhole, [ImNext]_imvars PROVE ImInv' /\ ImpactIsWhole'
    OBVIOUS
  <2>1. CASE HopBegin \/ BatchBegin \/ HopEnd \/ RowsEnd \/ HopCut
    <3>1. ImInv'
      BY <2>1, HopBegin_Inv, BatchBegin_Inv, HopEnd_Inv, RowsEnd_Inv, HopCut_Inv
    <3>2. pc' # "done"
      BY <2>1 DEF HopBegin, BatchBegin, HopEnd, RowsEnd, HopCut, Walk
    <3> QED BY <3>1, <3>2 DEF ImpactIsWhole
  <2>2. ASSUME NEW e \in rows, FetchRow(e) PROVE ImInv' /\ ImpactIsWhole'
    <3>1. pc' # "done"
      BY <2>2 DEF FetchRow, Walk
    <3> QED BY <2>2, <3>1, FetchRow_Inv DEF ImpactIsWhole
  <2>3. ASSUME NEW kind \in ChangeKinds, BuildImpact(kind) PROVE ImInv' /\ ImpactIsWhole'
    BY <2>3, BuildImpact_Inv, ReportWhole
  <2>4. CASE UNCHANGED imvars
    BY <2>4, ImStays_Inv
  <2> QED BY <2>1, <2>2, <2>3, <2>4 DEF ImNext
<1> QED BY <1>1, <1>2, PTL DEF ImSpec

-----------------------------------------------------------------------------
(* The notes *)

\* What is assumed of the constants: there is a cap.
MeConstants == PerKind \in Nat /\ PerKind # 0

Note ==
    [text : Stores \X Nat, at : Nat, id : {<<>>} \cup (Nat \X Nat),
     source : Seq(Stores \cup {"operator"})]

\* A note whose chain of sources ends where it was first written,
Carried(n) == n \in Note /\ n.source # <<>> /\ n.source[Len(n.source)] = "operator"

\* and in a repository it was not written in begins with another.
Native(n, r) ==
    /\ Carried(n)
    /\ n.text[1] # r => Len(n.source) > 1 /\ n.source[1] \in Stores

\* What a process may write: notes with ids of their own, within the cap.
File(s, r) ==
    /\ s \in Seq(Note) /\ Len(s) <= PerKind
    /\ \A k \in 1 .. Len(s) : Native(s[k], r) /\ s[k].id \in Nat \X Nat
    /\ \A j, k \in 1 .. Len(s) : s[j].id = s[k].id => j = k

Rest(s, r) == s \in Seq(Note) /\ \A k \in 1 .. Len(s) : Native(s[k], r)

\* What a process writes follows from what it has read.
Derived(p) ==
    IF p.del = <<>>
    THEN \E old \in Sorted(p.base, DOMAIN p.base) :
            /\ p.note.id \in Nat \X Nat /\ p.note.id \notin Ids(old)
            /\ p.out = Trim(Append(old, p.note))
    ELSE p.out \in Sorted(p.base, {k \in DOMAIN p.base : p.base[k].id # p.del})

Writing == {"tmp", "fill", "inplace", "lost", "rename"}

\* A process knows its repository, and has built what it writes from a whole file.
Sane(p) ==
    /\ p.pc \in {"idle", "read"} \cup Writing
    /\ p.pc # "idle" => /\ p.repo \in Stores /\ Rest(p.rest, p.repo)
                        /\ p.del = <<>> => Native(p.note, p.repo)
    /\ p.pc = "read" => p.del = <<>>
    /\ p.pc \in Writing => File(p.base, p.repo) /\ File(p.out, p.repo) /\ Derived(p)

Present(n, f) == \E k \in DOMAIN f : f[k] = n

\* The notes that may push one out: added later, or no older.
Newer(s, i) == {j \in DOMAIN s \ {i} : j > i \/ s[j].at >= s[i].at}

\* Every note of the file was added, and every note that was added is accounted for.
Accounted(f, s, gone) ==
    /\ s \in Seq(Note)
    /\ \A k \in DOMAIN f : Present(f[k], s)
    /\ \A i \in DOMAIN s :
          Present(s[i], f) \/ s[i].id \in gone \/ Cardinality(Newer(s, i)) >= PerKind

MeInv ==
    /\ now \in Nat /\ used \in Nat
    /\ DOMAIN notes = Stores /\ \A r \in Stores : File(notes[r], r)
    /\ DOMAIN tmp = Stores /\ \A r \in Stores : tmp[r] # <<>> => File(tmp[r][1], r)
    /\ DOMAIN writer = Writers /\ \A w \in Writers : Sane(writer[w])
    /\ bundle.notes \in Seq(Note) /\ \A k \in 1 .. Len(bundle.notes) : Carried(bundle.notes[k])
    /\ bundle.notes # <<>> => bundle.from \in Stores
    /\ DOMAIN acked = Stores /\ DOMAIN removed = Stores
    /\ \A r \in Stores : r \notin overlap => /\ Accounted(notes[r], acked[r], removed[r])
                                             /\ <<r, "file">> \notin torn

-----------------------------------------------------------------------------
LEMMA UpTo ==
    ASSUME NEW n \in Nat
    PROVE  IsFiniteSet(1 .. n) /\ Cardinality(1 .. n) = n
  BY FS_Interval

LEMMA FileCards ==
    ASSUME NEW r, NEW s, File(s, r)
    PROVE  Cardinality(Ids(s)) = Len(s) /\ DOMAIN s = 1 .. Len(s) /\ Len(s) \in Nat
<1>1. Len(s) \in Nat /\ DOMAIN s = 1 .. Len(s)
  BY DEF File
<1> DEFINE t == [k \in 1 .. Len(s) |-> s[k].id]
           I == Ids(s)
<1>2. t \in [1 .. Len(s) -> I] /\ \A x \in I : \E k \in 1 .. Len(s) : t[k] = x
  BY <1>1 DEF Ids
<1>3. \A j, k \in 1 .. Len(s) : t[j] = t[k] => j = k
  BY DEF File
<1> HIDE DEF t, I
<1>4. t \in Bijection(1 .. Len(s), I)
  BY <1>2, <1>3 DEF Bijection, Injection, IsInjective, Surjection
<1>5. ExistsBijection(1 .. Len(s), I)
  BY <1>4 DEF ExistsBijection
<1>6. IsFiniteSet(1 .. Len(s)) /\ Cardinality(1 .. Len(s)) = Len(s)
  BY <1>1, UpTo
<1>7. Cardinality(I) = Len(s)
  BY <1>5, <1>6, FS_Bijection
<1> QED BY <1>1, <1>7 DEF I

\* Sorting keeps the notes at the places it is given, and them only.
LEMMA SortedFile ==
    ASSUME MeConstants, NEW r, NEW s, File(s, r), NEW P \in SUBSET DOMAIN s, NEW t \in Sorted(s, P)
    PROVE  /\ File(t, r) /\ Len(t) = Cardinality(P) /\ DOMAIN t = 1 .. Len(t)
           /\ \A k \in 1 .. Len(t) : \E p \in P : t[k] = s[p]
           /\ \A p \in P : \E k \in 1 .. Len(t) : t[k] = s[p]
           /\ \A i, j \in 1 .. Len(t) : i < j => t[i].at <= t[j].at
<1> DEFINE N == Cardinality(P)
<1>1. DOMAIN s = 1 .. Len(s) /\ Len(s) \in Nat
  BY FileCards
<1>2. IsFiniteSet(P) /\ N \in Nat /\ N <= Len(s)
  <2>1. IsFiniteSet(1 .. Len(s)) /\ Cardinality(1 .. Len(s)) = Len(s)
    BY <1>1, UpTo
  <2> QED BY <1>1, <2>1, FS_Subset, FS_CardinalityType
<1>3. PICK p \in Bijection(1 .. N, P) :
        /\ \A i, j \in 1 .. N : i < j =>
              \/ s[p[i]].at < s[p[j]].at
              \/ s[p[i]].at = s[p[j]].at /\ p[i] < p[j]
        /\ t = [k \in 1 .. N |-> s[p[k]]]
  BY DEF Sorted
<1> HIDE DEF N
<1>4. /\ p \in [1 .. N -> P] /\ \A i, j \in 1 .. N : p[i] = p[j] => i = j
      /\ \A x \in P : \E k \in 1 .. N : p[k] = x
  BY <1>3 DEF Bijection, Injection, IsInjective, Surjection
<1>5. \A k \in 1 .. N : p[k] \in 1 .. Len(s) /\ p[k] \in P /\ t[k] = s[p[k]]
  BY <1>1, <1>3, <1>4
<1>6. \A k \in 1 .. N : t[k] \in Note /\ Native(t[k], r) /\ t[k].id \in Nat \X Nat
  BY <1>5 DEF File, Native, Carried
<1>7. t \in Seq(Note) /\ Len(t) = N /\ DOMAIN t = 1 .. N
  BY <1>2, <1>3, <1>6
<1>8. \A i, j \in 1 .. N : t[i].id = t[j].id => i = j
  <2> SUFFICES ASSUME NEW i \in 1 .. N, NEW j \in 1 .. N, t[i].id = t[j].id PROVE i = j
    OBVIOUS
  <2>1. p[i] = p[j]
    BY <1>5 DEF File
  <2> QED BY <1>4, <2>1
<1>9. Len(t) <= PerKind
  <2>1. Len(s) <= PerKind /\ PerKind \in Nat
    BY DEF File, MeConstants
  <2> QED BY <1>1, <1>2, <1>7, <2>1
<1>10. \A i, j \in 1 .. N : i < j => t[i].at <= t[j].at
  <2> SUFFICES ASSUME NEW i \in 1 .. N, NEW j \in 1 .. N, i < j PROVE t[i].at <= t[j].at
    OBVIOUS
  <2>1. t[i].at \in Nat /\ t[j].at \in Nat
    BY <1>6 DEF Note
  <2>2. t[i].at < t[j].at \/ t[i].at = t[j].at
    BY <1>3, <1>5
  <2> QED BY <2>1, <2>2
<1>11. File(t, r)
  BY <1>6, <1>7, <1>8, <1>9 DEF File
<1> QED BY <1>4, <1>5, <1>7, <1>10, <1>11 DEF N

\* What Add writes: the sorted file without what the cap drops, the oldest, and the
\* new note last.
LEMMA Trimmed ==
    ASSUME MeConstants, NEW r, NEW old, File(old, r), NEW n, Native(n, r), n.id \in Nat \X Nat,
           n.id \notin Ids(old)
    PROVE  LET t == Trim(Append(old, n)) IN
           /\ File(t, r) /\ Len(t) # 0 /\ t[Len(t)] = n
           /\ \/ /\ Len(t) = Len(old) + 1
                 /\ \A k \in 1 .. Len(old) : t[k] = old[k]
              \/ /\ Len(t) = PerKind /\ Len(old) = PerKind
                 /\ \A k \in 1 .. PerKind - 1 : t[k] = old[k + 1]
<1>1. /\ old \in Seq(Note) /\ Len(old) \in Nat /\ Len(old) <= PerKind /\ n \in Note
      /\ PerKind \in Nat /\ PerKind # 0 /\ DOMAIN old = 1 .. Len(old)
  BY DEF File, Native, Carried, MeConstants
<1> DEFINE a == Append(old, n)
           L == Len(old)
<1>2. /\ a \in Seq(Note) /\ Len(a) = L + 1 /\ a[L + 1] = n /\ \A k \in 1 .. L : a[k] = old[k]
  BY <1>1
<1> HIDE DEF a
<1>3. \A k \in 1 .. L + 1 : a[k] \in Note /\ Native(a[k], r) /\ a[k].id \in Nat \X Nat
  <2> SUFFICES ASSUME NEW k \in 1 .. L + 1 PROVE Native(a[k], r) /\ a[k].id \in Nat \X Nat
    BY DEF Native, Carried
  <2>1. CASE k = L + 1
    BY <1>2, <2>1
  <2>2. CASE k # L + 1
    <3>1. k \in 1 .. L
      BY <1>1, <2>2
    <3> QED BY <1>2, <3>1 DEF File
  <2> QED BY <2>1, <2>2
<1>4. \A j, k \in 1 .. L + 1 : a[j].id = a[k].id => j = k
  <2> SUFFICES ASSUME NEW j \in 1 .. L + 1, NEW k \in 1 .. L + 1, a[j].id = a[k].id PROVE j = k
    OBVIOUS
  <2>1. \A m \in 1 .. L : a[m].id # n.id
    BY <1>1, <1>2 DEF Ids
  <2>2. CASE j \in 1 .. L /\ k \in 1 .. L
    BY <1>2, <2>2 DEF File
  <2>3. CASE j = L + 1 \/ k = L + 1
    <3>1. j \in 1 .. L \/ j = L + 1
      BY <1>1
    <3>2. k \in 1 .. L \/ k = L + 1
      BY <1>1
    <3> QED BY <1>2, <2>1, <2>3, <3>1, <3>2
  <2> QED BY <1>1, <2>2, <2>3
<1>5. CASE L + 1 <= PerKind
  <2>1. Trim(a) = a
    BY <1>1, <1>2, <1>5 DEF Trim
  <2>2. File(a, r)
    BY <1>2, <1>3, <1>4, <1>5 DEF File
  <2>3. Len(a) # 0
    BY <1>1, <1>2
  <2> QED BY <1>2, <2>1, <2>2, <2>3 DEF a
<1>6. CASE L = PerKind
  <2> DEFINE t == SubSeq(a, 2, L + 1)
  <2>1. Trim(a) = t
    <3>1. Len(a) > PerKind /\ Len(a) - PerKind + 1 = 2
      BY <1>1, <1>2, <1>6
    <3> QED BY <1>2, <3>1 DEF Trim
  <2>2. /\ t \in Seq(Note) /\ Len(t) = PerKind /\ \A k \in 1 .. PerKind : t[k] = a[k + 1]
    <3>1. 2 \in 1 .. Len(a) + 1 /\ L + 1 \in 0 .. Len(a) /\ L + 1 - 2 + 1 = PerKind
      BY <1>1, <1>2, <1>6
    <3> QED BY <1>1, <1>2, <1>6, <3>1
  <2> HIDE DEF t
  <2>3. \A k \in 1 .. PerKind : k + 1 \in 1 .. L + 1
    BY <1>1, <1>6
  <2>4. \A k \in 1 .. PerKind : Native(t[k], r) /\ t[k].id \in Nat \X Nat
    BY <1>3, <2>2, <2>3
  <2>5. \A j, k \in 1 .. PerKind : t[j].id = t[k].id => j = k
    <3> SUFFICES ASSUME NEW j \in 1 .. PerKind, NEW k \in 1 .. PerKind, t[j].id = t[k].id
                 PROVE  j = k
      OBVIOUS
    <3>1. j + 1 \in 1 .. L + 1 /\ k + 1 \in 1 .. L + 1
      BY <2>3
    <3>2. a[j + 1].id = a[k + 1].id
      <4>1. t[j] = a[j + 1] /\ t[k] = a[k + 1]
        BY <2>2
      <4> QED BY <4>1
    <3>3. j + 1 = k + 1
      BY <1>4, <3>1, <3>2
    <3> QED BY <1>1, <3>3
  <2>6. File(t, r)
    BY <1>1, <2>2, <2>4, <2>5 DEF File
  <2>7. t[PerKind] = n
    BY <1>1, <1>2, <1>6, <2>2
  <2>8. \A k \in 1 .. PerKind - 1 : t[k] = old[k + 1]
    <3>1. \A k \in 1 .. PerKind - 1 : k \in 1 .. PerKind /\ k + 1 \in 1 .. L
      BY <1>1, <1>6
    <3> QED BY <1>2, <2>2, <3>1
  <2> QED BY <1>1, <1>6, <2>1, <2>2, <2>6, <2>7, <2>8 DEF a
<1>7. L \in Nat /\ L <= PerKind
  BY <1>1
<1> HIDE DEF L
<1>8. L + 1 <= PerKind \/ L = PerKind
  BY <1>1, <1>7
<1> QED BY <1>5, <1>6, <1>8

-----------------------------------------------------------------------------
LEMMA MeInit_Inv == ASSUME MeConstants, MeInit PROVE MeInv
<1> USE DEF MeInit
<1>1. \A r \in Stores : File(notes[r], r)
  BY DEF File, MeConstants
<1>2. \A w \in Writers : Sane(writer[w])
  BY DEF Sane, NoWriter, Process, Writing
<1>3. \A r \in Stores : Accounted(notes[r], acked[r], removed[r])
  BY DEF Accounted
<1>4. bundle.notes = <<>>
  OBVIOUS
<1>5. bundle.notes \in Seq(Note) /\ \A k \in 1 .. Len(bundle.notes) : Carried(bundle.notes[k])
  BY <1>4
<1> QED BY <1>1, <1>2, <1>3, <1>4, <1>5 DEF MeInv

\* A process makes a step that changes no file.
LEMMA WriterMoves ==
    ASSUME MeInv, NEW w \in Writers, NEW p, Sane(p), writer' = [writer EXCEPT ![w] = p],
           used' \in Nat, UNCHANGED <<now, notes, tmp, bundle, acked, removed, overlap, torn>>
    PROVE  MeInv'
<1>1. DOMAIN writer' = Writers /\ \A v \in Writers : Sane(writer'[v])
  BY DEF MeInv
<1>2. /\ now' = now /\ notes' = notes /\ tmp' = tmp /\ bundle' = bundle /\ acked' = acked
      /\ removed' = removed /\ overlap' = overlap /\ torn' = torn
  OBVIOUS
<1> QED BY <1>1, <1>2 DEF MeInv

\* The note that an Add begins with.
LEMMA AddingSane ==
    ASSUME MeInv, NEW r \in Stores, NEW n, Native(n, r), NEW s, Rest(s, r)
    PROVE  Sane(Adding(r, n, s))
<1> DEFINE m == [n EXCEPT !.at = now]
<1>1. Native(m, r)
  <2>1. n \in Note /\ now \in Nat
    BY DEF Native, Carried, MeInv
  <2>2. m \in Note /\ m.text = n.text /\ m.source = n.source
    BY <2>1 DEF Note
  <2> HIDE DEF m
  <2> QED BY <2>2 DEF Native, Carried
<1> HIDE DEF m
<1>2. Adding(r, n, s) = Process("read", r, m, s, <<>>, <<>>, <<>>)
  BY DEF Adding, m
<1> QED BY <1>1, <1>2 DEF Sane, Process, Writing

LEMMA AddBegin_Inv ==
    ASSUME MeInv, NEW w \in Writers, NEW r \in Stores, AddBegin(w, r)
    PROVE  MeInv'
<1> DEFINE n == [text |-> <<r, used>>, at |-> 0, id |-> <<>>, source |-> <<"operator">>]
<1>1. Native(n, r)
  <2>1. used \in Nat
    BY DEF MeInv
  <2>2. <<"operator">> \in Seq(Stores \cup {"operator"})
    OBVIOUS
  <2>3. n \in Note
    BY <2>1, <2>2 DEF Note
  <2> QED BY <2>3 DEF Native, Carried
<1> HIDE DEF n
<1>2. Rest(<<>>, r)
  BY DEF Rest
<1>3. Sane(Adding(r, n, <<>>))
  BY <1>1, <1>2, AddingSane
<1>4. writer' = [writer EXCEPT ![w] = Adding(r, n, <<>>)]
  BY DEF AddBegin, To, n
<1>5. used' \in Nat /\ UNCHANGED <<now, notes, tmp, bundle, acked, removed, overlap, torn>>
  BY DEF AddBegin, MeInv
<1> QED BY <1>3, <1>4, <1>5, WriterMoves

LEMMA ImportedNative ==
    ASSUME NEW n, Carried(n), NEW f \in Stores, NEW r
    PROVE  Native(Imported(n, f), r)
<1> DEFINE s == <<f>> \o n.source
           m == Imported(n, f)
<1>1. n \in Note /\ n.source \in Seq(Stores \cup {"operator"}) /\ Len(n.source) \in Nat
  BY DEF Carried, Note
<1>2. n.source # <<>> /\ Len(n.source) # 0
  BY <1>1 DEF Carried
<1>3. <<f>> \in Seq(Stores \cup {"operator"}) /\ Len(<<f>>) = 1 /\ <<f>>[1] = f
  OBVIOUS
<1>4. /\ s \in Seq(Stores \cup {"operator"}) /\ Len(s) = 1 + Len(n.source) /\ s[1] = f
      /\ s[1 + Len(n.source)] = n.source[Len(n.source)]
  BY <1>1, <1>2, <1>3
<1> HIDE DEF s
<1>5. m = [text |-> n.text, at |-> 0, id |-> <<>>, source |-> s]
  BY DEF Imported, s
<1> HIDE DEF m
<1>6. m \in Note /\ m.source = s
  BY <1>1, <1>4, <1>5 DEF Note
<1>7. s # <<>> /\ s[Len(s)] = "operator" /\ Len(s) > 1
  BY <1>1, <1>2, <1>4 DEF Carried
<1> QED BY <1>4, <1>6, <1>7 DEF Native, Carried, m

LEMMA ImportBegin_Inv ==
    ASSUME MeInv, NEW w \in Writers, NEW r \in Stores, ImportBegin(w, r)
    PROVE  MeInv'
<1> DEFINE b == bundle.notes
           n == Imported(Head(b), bundle.from)
           s == [k \in 1 .. Len(b) - 1 |-> Imported(b[k + 1], bundle.from)]
<1>1. /\ b # <<>> /\ b \in Seq(Note) /\ bundle.from \in Stores
      /\ \A k \in 1 .. Len(b) : Carried(b[k])
  BY DEF MeInv, ImportBegin
<1>2. Len(b) \in Nat /\ Len(b) # 0 /\ Head(b) = b[1]
  BY <1>1
<1>3. Native(n, r)
  BY <1>1, <1>2, ImportedNative
<1>4. ASSUME NEW k \in 1 .. Len(b) - 1 PROVE s[k] \in Note /\ Native(s[k], r)
  <2>1. k + 1 \in 1 .. Len(b) /\ s[k] = Imported(b[k + 1], bundle.from)
    BY <1>2
  <2>2. Native(s[k], r)
    BY <1>1, <2>1, ImportedNative
  <2> QED BY <2>2 DEF Native, Carried
<1>5. Rest(s, r)
  <2>1. Len(b) - 1 \in Nat /\ s = [k \in 1 .. Len(b) - 1 |-> s[k]]
    BY <1>2
  <2>2. s \in [1 .. Len(b) - 1 -> Note] /\ DOMAIN s = 1 .. Len(b) - 1
    BY <1>4
  <2> HIDE DEF s
  <2>3. s \in Seq(Note) /\ Len(s) = Len(b) - 1
    BY <2>1, <2>2
  <2> QED BY <1>4, <2>3 DEF Rest
<1> HIDE DEF n, s
<1>6. Sane(Adding(r, n, s))
  BY <1>3, <1>5, AddingSane
<1>7. writer' = [writer EXCEPT ![w] = Adding(r, n, s)]
  BY DEF ImportBegin, To, n, s
<1>8. used' \in Nat /\ UNCHANGED <<now, notes, tmp, bundle, acked, removed, overlap, torn>>
  BY DEF ImportBegin, MeInv
<1> QED BY <1>6, <1>7, <1>8, WriterMoves

LEMMA AddRead_Inv == ASSUME MeConstants, MeInv, NEW w \in Writers, AddRead(w) PROVE MeInv'
<1> DEFINE p == writer[w]
           r == p.repo
           n(old) == [p.note EXCEPT !.id = NewID(p.note.at, Len(old))]
           q(old) == Process("tmp", r, n(old), p.rest, <<>>, notes[r], Trim(Append(old, n(old))))
<1>1. /\ p.pc = "read" /\ Sane(p) /\ r \in Stores /\ Rest(p.rest, r) /\ Native(p.note, r)
  BY DEF MeInv, AddRead, Sane
<1>2. PICK old \in List(r) :
        writer' = [writer EXCEPT ![w] = IF ~Readable(r) \/ n(old).id \in Ids(old) THEN NoWriter
                                        ELSE q(old)]
  BY DEF AddRead, To
<1>3. File(notes[r], r) /\ old \in Sorted(notes[r], DOMAIN notes[r])
  BY <1>1, <1>2 DEF MeInv, List
<1>4. File(old, r) /\ Len(old) \in Nat
  <2>1. File(old, r)
    BY <1>3, SortedFile
  <2> QED BY <2>1 DEF File
<1> DEFINE m == n(old)
<1>5. m \in Note /\ m.text = p.note.text /\ m.source = p.note.source /\ m.id \in Nat \X Nat
  <2>1. p.note \in Note /\ p.note.at \in Nat
    BY <1>1 DEF Native, Carried, Note
  <2>2. NewID(p.note.at, Len(old)) \in Nat \X Nat
    BY <1>4, <2>1 DEF NewID
  <2> QED BY <2>1, <2>2 DEF Note
<1> HIDE DEF n
<1>6. Native(m, r)
  BY <1>1, <1>5 DEF Native, Carried
<1>7. ASSUME m.id \notin Ids(old) PROVE Sane(q(old))
  <2> DEFINE t == Trim(Append(old, m))
             x == Process("tmp", r, m, p.rest, <<>>, notes[r], t)
  <2>1. File(t, r)
    BY <1>4, <1>5, <1>6, <1>7, Trimmed
  <2>2. /\ x.pc = "tmp" /\ x.repo = r /\ x.note = m /\ x.rest = p.rest /\ x.del = <<>>
        /\ x.base = notes[r] /\ x.out = t
    BY DEF Process
  <2>3. x = q(old)
    OBVIOUS
  <2> HIDE DEF x
  <2>4. Derived(x)
    BY <1>3, <1>5, <1>7, <2>2 DEF Derived
  <2>5. Sane(x)
    BY <1>1, <1>3, <1>6, <2>1, <2>2, <2>4 DEF Sane, Writing
  <2> QED BY <2>3, <2>5
<1>8. Sane(NoWriter)
  BY DEF Sane, NoWriter, Process, Writing
<1>9. used' \in Nat /\ UNCHANGED <<now, notes, tmp, bundle, acked, removed, overlap, torn>>
  BY DEF AddRead, MeInv
<1> HIDE DEF q
<1>10. CASE ~Readable(r) \/ m.id \in Ids(old)
  BY <1>2, <1>8, <1>9, <1>10, WriterMoves
<1>11. CASE Readable(r) /\ m.id \notin Ids(old)
  BY <1>2, <1>7, <1>9, <1>11, WriterMoves
<1> QED BY <1>10, <1>11

LEMMA RemoveRead_Inv ==
    ASSUME MeConstants, MeInv, NEW w \in Writers, NEW r \in Stores, NEW id \in Ids(notes[r]),
           RemoveRead(w, r, id)
    PROVE  MeInv'
<1> DEFINE P == {k \in DOMAIN notes[r] : notes[r][k].id # id}
<1>1. PICK out \in Sorted(notes[r], P) :
        writer' = [writer EXCEPT ![w] = Process("tmp", r, <<>>, <<>>, id, notes[r], out)]
  BY DEF RemoveRead, To
<1>2. File(notes[r], r)
  BY DEF MeInv
<1>3. File(out, r)
  <2>1. P \in SUBSET DOMAIN notes[r]
    OBVIOUS
  <2> HIDE DEF P
  <2> QED BY <1>1, <1>2, <2>1, SortedFile
<1>4. id # <<>>
  <2>1. PICK k \in DOMAIN notes[r] : id = notes[r][k].id
    BY DEF Ids
  <2>2. k \in 1 .. Len(notes[r])
    BY <1>2, <2>1, FileCards
  <2>3. id \in Nat \X Nat
    BY <1>2, <2>1, <2>2 DEF File
  <2>4. PICK a \in Nat, b \in Nat : id = <<a, b>>
    BY <2>3
  <2> QED BY <2>4
<1> DEFINE x == Process("tmp", r, <<>>, <<>>, id, notes[r], out)
<1>5. /\ x.pc = "tmp" /\ x.repo = r /\ x.rest = <<>> /\ x.del = id /\ x.base = notes[r]
      /\ x.out = out
  BY DEF Process
<1> HIDE DEF x
<1>6. Rest(<<>>, r)
  BY DEF Rest
<1>7. Sane(x)
  BY <1>1, <1>2, <1>3, <1>4, <1>5, <1>6 DEF Sane, Derived, Writing
<1>8. used' \in Nat /\ UNCHANGED <<now, notes, tmp, bundle, acked, removed, overlap, torn>>
  BY DEF RemoveRead, MeInv
<1>9. writer' = [writer EXCEPT ![w] = x]
  BY <1>1 DEF x
<1> QED BY <1>7, <1>8, <1>9, WriterMoves

\* A process that writes goes on writing.
LEMMA StillWriting ==
    ASSUME NEW p, Sane(p), p.pc \in Writing, NEW at \in Writing
    PROVE  LET x == [p EXCEPT !.pc = at] IN
           Sane(x) /\ x.repo = p.repo /\ x.pc = at
<1> DEFINE x == [p EXCEPT !.pc = at]
<1>1. /\ x.pc = at /\ x.repo = p.repo /\ x.note = p.note /\ x.rest = p.rest /\ x.del = p.del
      /\ x.base = p.base /\ x.out = p.out
  OBVIOUS
<1> HIDE DEF x
<1>2. Derived(x)
  BY <1>1 DEF Sane, Derived
<1>3. Sane(x)
  BY <1>1, <1>2 DEF Sane, Writing
<1> QED BY <1>1, <1>3 DEF x

\* The temporary file is emptied, then written.
LEMMA TmpMoves ==
    ASSUME MeConstants, MeInv, NEW w \in Writers, NEW at \in Writing, writer[w].pc \in Writing,
           NEW out \in {<<>>, writer[w].out}, tmp' = [tmp EXCEPT ![writer[w].repo] = <<out>>],
           NEW whole \in BOOLEAN,
           \/ torn' = torn \ {<<writer[w].repo, "tmp">>}
           \/ torn' = Torn(writer[w].repo, "tmp", whole),
           To(w, [writer[w] EXCEPT !.pc = at]),
           UNCHANGED <<now, used, notes, bundle, acked, removed, overlap>>
    PROVE  MeInv'
<1> DEFINE p == writer[w]
           x == [p EXCEPT !.pc = at]
<1>1. Sane(p) /\ p.repo \in Stores /\ File(p.out, p.repo)
  BY DEF MeInv, Sane, Writing
<1>2. Sane(x)
  BY <1>1, StillWriting
<1>3. writer' = [writer EXCEPT ![w] = x]
  BY DEF To
<1> HIDE DEF x
<1>4. DOMAIN writer' = Writers /\ \A v \in Writers : Sane(writer'[v])
  BY <1>2, <1>3 DEF MeInv
<1>5. File(<<>>, p.repo)
  BY DEF File, MeConstants
<1>6. DOMAIN tmp' = Stores /\ \A r \in Stores : tmp'[r] # <<>> => File(tmp'[r][1], r)
  <2>1. <<out>>[1] = out /\ File(out, p.repo)
    BY <1>1, <1>5
  <2> QED BY <1>1, <2>1 DEF MeInv
<1>7. \A r \in Stores : <<r, "file">> \in torn' => <<r, "file">> \in torn
  BY DEF Torn
<1> QED BY <1>4, <1>6, <1>7 DEF MeInv

LEMMA WriteTmp_Inv == ASSUME MeConstants, MeInv, NEW w \in Writers, WriteTmp(w) PROVE MeInv'
<1>1. /\ writer[w].pc \in Writing /\ "fill" \in Writing
      /\ tmp' = [tmp EXCEPT ![writer[w].repo] = <<<<>>>>]
      /\ torn' = torn \ {<<writer[w].repo, "tmp">>}
      /\ To(w, [writer[w] EXCEPT !.pc = "fill"])
      /\ UNCHANGED <<now, used, notes, bundle, acked, removed, overlap>>
  BY DEF WriteTmp, Writing
<1> QED BY <1>1, TmpMoves

LEMMA WriteBody_Inv ==
    ASSUME MeConstants, MeInv, NEW w \in Writers, NEW whole \in BOOLEAN, WriteBody(w, whole)
    PROVE  MeInv'
<1>1. /\ writer[w].pc \in Writing /\ "rename" \in Writing
      /\ tmp' = [tmp EXCEPT ![writer[w].repo] = <<writer[w].out>>]
      /\ torn' = Torn(writer[w].repo, "tmp", whole)
      /\ To(w, [writer[w] EXCEPT !.pc = "rename"])
      /\ UNCHANGED <<now, used, notes, bundle, acked, removed, overlap>>
  BY DEF WriteBody, Writing
<1> QED BY <1>1, TmpMoves

\* A process that writes to the notes themselves has overlapped another.
LEMMA WriteInPlace_Inv ==
    ASSUME MeInv, NEW w \in Writers, NEW whole \in BOOLEAN, WriteInPlace(w, whole)
    PROVE  MeInv'
<1> DEFINE p == writer[w]
           x == [p EXCEPT !.pc = "rename"]
<1>1. p.pc \in Writing /\ "rename" \in Writing
  BY DEF WriteInPlace, Writing
<1>2. Sane(p) /\ p.repo \in Stores /\ File(p.out, p.repo)
  BY <1>1 DEF MeInv, Sane, Writing
<1>3. /\ notes' = [notes EXCEPT ![p.repo] = p.out] /\ writer' = [writer EXCEPT ![w] = x]
      /\ overlap' = overlap \cup {p.repo} /\ torn' = Torn(p.repo, "file", whole)
      /\ UNCHANGED <<now, used, tmp, bundle, acked, removed>>
  BY DEF WriteInPlace, To
<1>4. Sane(x)
  BY <1>1, <1>2, StillWriting
<1> HIDE DEF x
<1>5. DOMAIN writer' = Writers /\ \A v \in Writers : Sane(writer'[v])
  BY <1>3, <1>4 DEF MeInv
<1>6. DOMAIN notes' = Stores /\ \A r \in Stores : File(notes'[r], r)
  BY <1>2, <1>3 DEF MeInv
<1>7. ASSUME NEW r \in Stores, r \notin overlap'
      PROVE  Accounted(notes'[r], acked'[r], removed'[r]) /\ <<r, "file">> \notin torn'
  <2>1. r # p.repo /\ r \notin overlap /\ notes'[r] = notes[r]
    BY <1>3, <1>7 DEF MeInv
  <2>2. <<r, "file">> \in torn' => <<r, "file">> \in torn
    BY <1>3, <2>1 DEF Torn
  <2> QED BY <1>3, <2>1, <2>2 DEF MeInv
<1> QED BY <1>3, <1>5, <1>6, <1>7 DEF MeInv

LEMMA WriteLost_Inv == ASSUME MeInv, NEW w \in Writers, WriteLost(w) PROVE MeInv'
<1> DEFINE x == [writer[w] EXCEPT !.pc = "rename"]
<1>1. writer[w].pc \in Writing /\ "rename" \in Writing
  BY DEF WriteLost, Writing
<1>2. Sane(x)
  BY <1>1, StillWriting DEF MeInv
<1>3. /\ writer' = [writer EXCEPT ![w] = x] /\ used' \in Nat
      /\ UNCHANGED <<now, notes, tmp, bundle, acked, removed, overlap, torn>>
  BY DEF WriteLost, To, MeInv
<1> HIDE DEF x
<1> QED BY <1>2, <1>3, WriterMoves

\* A rename moves the file another process has open, and nothing else of it.
LEMMA OpenFollows == ASSUME NEW p, Sane(p), NEW r PROVE Sane(Follow(p, r))
<1>1. CASE p.repo = r /\ p.pc = "fill"
  <2>1. p.pc \in Writing /\ "inplace" \in Writing /\ Follow(p, r) = [p EXCEPT !.pc = "inplace"]
    BY <1>1 DEF Follow, Writing
  <2> QED BY <2>1, StillWriting
<1>2. CASE p.repo = r /\ p.pc = "inplace"
  <2>1. p.pc \in Writing /\ "lost" \in Writing /\ Follow(p, r) = [p EXCEPT !.pc = "lost"]
    BY <1>2 DEF Follow, Writing
  <2> QED BY <2>1, StillWriting
<1>3. CASE ~(p.repo = r /\ p.pc \in {"fill", "inplace"})
  BY <1>3 DEF Follow
<1> QED BY <1>1, <1>2, <1>3

LEMMA MeDies_Inv == ASSUME MeInv, NEW w \in Writers, Dies(w) PROVE MeInv'
<1>1. Sane(NoWriter)
  BY DEF Sane, NoWriter, Process, Writing
<1>2. /\ writer' = [writer EXCEPT ![w] = NoWriter] /\ used' \in Nat
      /\ UNCHANGED <<now, notes, tmp, bundle, acked, removed, overlap, torn>>
  BY DEF Dies, To, MeInv
<1> QED BY <1>1, <1>2, WriterMoves

LEMMA Export_Inv == ASSUME MeConstants, MeInv, NEW r \in Stores, Export(r) PROVE MeInv'
<1>1. PICK s \in Sorted(notes[r], DOMAIN notes[r]) : bundle' = [from |-> r, notes |-> s]
  BY DEF Export, List
<1>2. File(s, r)
  BY <1>1, SortedFile DEF MeInv
<1>3. /\ bundle'.notes = s /\ bundle'.from = r /\ s \in Seq(Note)
      /\ \A k \in 1 .. Len(s) : Carried(s[k])
  BY <1>1, <1>2 DEF File, Native
<1>4. UNCHANGED <<now, used, notes, tmp, writer, acked, removed, overlap, torn>>
  BY DEF Export
<1> QED BY <1>3, <1>4 DEF MeInv

LEMMA Tick_Inv == ASSUME MeInv, Tick PROVE MeInv'
<1>1. now' \in Nat /\ UNCHANGED <<used, notes, tmp, writer, bundle, acked, removed, overlap, torn>>
  BY DEF Tick, MeInv
<1> QED BY <1>1 DEF MeInv

LEMMA MeStays_Inv == ASSUME MeInv, UNCHANGED mevars PROVE MeInv'
<1>1. UNCHANGED <<now, used, notes, tmp, writer, bundle, acked, removed, overlap, torn>>
  BY DEF mevars
<1> QED BY <1>1 DEF MeInv

\* The notes that may push one out only grow in number as notes are added.
LEMMA NewerGrows ==
    ASSUME NEW s \in Seq(Note), NEW n \in Note, NEW i \in DOMAIN s
    PROVE  LET t == Append(s, n) IN
           /\ i \in DOMAIN t /\ t[i] = s[i] /\ IsFiniteSet(Newer(t, i))
           /\ Cardinality(Newer(t, i)) \in Nat /\ Cardinality(Newer(s, i)) \in Nat
           /\ Cardinality(Newer(s, i)) <= Cardinality(Newer(t, i))
<1> DEFINE t == Append(s, n)
<1>1. /\ t \in Seq(Note) /\ Len(t) = Len(s) + 1 /\ DOMAIN t = 1 .. Len(t) /\ Len(s) \in Nat
      /\ DOMAIN s = 1 .. Len(s) /\ \A k \in 1 .. Len(s) : t[k] = s[k]
  OBVIOUS
<1> HIDE DEF t
<1>2. \A k \in DOMAIN s : k \in DOMAIN t /\ t[k] = s[k]
  BY <1>1
<1> DEFINE A == Newer(s, i)
           B == Newer(t, i)
<1>3. A \subseteq B /\ B \subseteq 1 .. Len(t)
  BY <1>1, <1>2 DEF Newer
<1>4. IsFiniteSet(1 .. Len(t))
  BY <1>1, UpTo
<1> HIDE DEF A, B
<1>5. IsFiniteSet(B)
  BY <1>3, <1>4, FS_Subset
<1>6. IsFiniteSet(A) /\ Cardinality(A) <= Cardinality(B)
  BY <1>3, <1>5, FS_Subset
<1> QED BY <1>2, <1>5, <1>6, FS_CardinalityType DEF A, B, t

\* An Add that nothing disturbed accounts for every note: what the cap drops is the
\* oldest of a full file, and every other note of it, and the new one, pushed it out.
LEMMA AddAccounts ==
    ASSUME MeConstants, NEW r, NEW f, File(f, r), NEW s, NEW gone, Accounted(f, s, gone),
           NEW old \in Sorted(f, DOMAIN f), NEW n, Native(n, r), n.id \in Nat \X Nat,
           n.id \notin Ids(old), NEW t, t = Trim(Append(old, n))
    PROVE  Accounted(t, Append(s, n), gone)
<1> DEFINE u == Append(s, n)
<1>1. /\ File(old, r) /\ DOMAIN old = 1 .. Len(old)
      /\ \A k \in 1 .. Len(old) : \E p \in DOMAIN f : old[k] = f[p]
      /\ \A p \in DOMAIN f : \E k \in 1 .. Len(old) : old[k] = f[p]
      /\ \A i, j \in 1 .. Len(old) : i < j => old[i].at <= old[j].at
  <2> DEFINE P == DOMAIN f
  <2>1. P \in SUBSET DOMAIN f
    OBVIOUS
  <2>2. old \in Sorted(f, P)
    OBVIOUS
  <2> HIDE DEF P
  <2>3. /\ File(old, r) /\ DOMAIN old = 1 .. Len(old)
        /\ \A k \in 1 .. Len(old) : \E p \in P : old[k] = f[p]
        /\ \A p \in P : \E k \in 1 .. Len(old) : old[k] = f[p]
        /\ \A i, j \in 1 .. Len(old) : i < j => old[i].at <= old[j].at
    BY <2>1, <2>2, SortedFile
  <2> QED BY <2>3 DEF P
<1>2. /\ File(t, r) /\ Len(t) # 0 /\ t[Len(t)] = n
      /\ \/ /\ Len(t) = Len(old) + 1
            /\ \A k \in 1 .. Len(old) : t[k] = old[k]
         \/ /\ Len(t) = PerKind /\ Len(old) = PerKind
            /\ \A k \in 1 .. PerKind - 1 : t[k] = old[k + 1]
  BY <1>1, Trimmed
<1>3. /\ Len(old) \in Nat /\ Len(t) \in Nat /\ DOMAIN t = 1 .. Len(t)
      /\ PerKind \in Nat /\ PerKind # 0
  BY <1>1, <1>2, FileCards DEF MeConstants
<1>4. /\ n \in Note /\ s \in Seq(Note) /\ u \in Seq(Note) /\ Len(s) \in Nat
      /\ Len(u) = Len(s) + 1 /\ u[Len(s) + 1] = n /\ DOMAIN u = 1 .. Len(s) + 1
      /\ DOMAIN s = 1 .. Len(s) /\ \A i \in 1 .. Len(s) : u[i] = s[i]
  BY DEF Native, Carried, Accounted
<1>5. \A k \in 1 .. Len(old) : Present(old[k], s)
  BY <1>1 DEF Accounted
<1>6. \A i \in 1 .. Len(s) :
        /\ u[i] = s[i] /\ IsFiniteSet(Newer(u, i)) /\ Cardinality(Newer(u, i)) \in Nat
        /\ Cardinality(Newer(s, i)) \in Nat /\ Cardinality(Newer(s, i)) <= Cardinality(Newer(u, i))
  BY <1>4, NewerGrows
<1> HIDE DEF u
<1>7. Len(s) + 1 \in DOMAIN u /\ \A i \in 1 .. Len(s) : i \in DOMAIN u
  BY <1>4
<1>8. \A m : Present(m, s) => Present(m, u)
  BY <1>4, <1>7 DEF Present
<1>9. ASSUME NEW k \in DOMAIN t PROVE Present(t[k], u)
  <2>1. CASE k = Len(t)
    BY <1>2, <1>4, <1>7, <2>1 DEF Present
  <2>2. CASE k # Len(t) /\ Len(t) = Len(old) + 1 /\ \A m \in 1 .. Len(old) : t[m] = old[m]
    <3>1. k \in 1 .. Len(old)
      BY <1>3, <2>2
    <3> QED BY <1>5, <1>8, <2>2, <3>1
  <2>3. CASE k # Len(t) /\ Len(t) = PerKind /\ Len(old) = PerKind
               /\ \A m \in 1 .. PerKind - 1 : t[m] = old[m + 1]
    <3>1. k \in 1 .. PerKind - 1 /\ k + 1 \in 1 .. Len(old)
      BY <1>3, <2>3
    <3> QED BY <1>5, <1>8, <2>3, <3>1
  <2> QED BY <1>2, <2>1, <2>2, <2>3
<1>10. ASSUME NEW i \in 1 .. Len(s), Present(s[i], f), ~Present(s[i], t)
       PROVE  Cardinality(Newer(u, i)) >= PerKind
  <2>1. PICK m \in 1 .. Len(old) : old[m] = s[i]
    BY <1>1, <1>10 DEF Present
  <2>2. /\ Len(t) = PerKind /\ Len(old) = PerKind
        /\ \A k \in 1 .. PerKind - 1 : t[k] = old[k + 1]
    <3>1. CASE Len(t) = Len(old) + 1 /\ \A k \in 1 .. Len(old) : t[k] = old[k]
      <4>1. m \in DOMAIN t
        BY <1>3, <3>1
      <4> QED BY <1>10, <2>1, <3>1, <4>1 DEF Present
    <3> QED BY <1>2, <3>1
  <2>3. m = 1
    <3>1. CASE m # 1
      <4>1. m - 1 \in 1 .. PerKind - 1 /\ m - 1 \in DOMAIN t /\ (m - 1) + 1 = m
        BY <1>3, <2>2, <3>1
      <4>2. t[m - 1] = s[i]
        BY <2>1, <2>2, <4>1
      <4> QED BY <1>10, <4>1, <4>2 DEF Present
    <3> QED BY <3>1
  <2> DEFINE place(k) == CHOOSE j \in DOMAIN s : s[j] = old[k + 1]
             J == [k \in 1 .. PerKind |-> IF k = PerKind THEN Len(s) + 1 ELSE place(k)]
             B == Newer(u, i)
  <2>4. ASSUME NEW k \in 1 .. PerKind - 1
        PROVE  place(k) \in 1 .. Len(s) /\ s[place(k)] = old[k + 1]
    <3>1. k + 1 \in 1 .. Len(old)
      BY <1>3, <2>2
    <3>2. \E j \in DOMAIN s : s[j] = old[k + 1]
      BY <1>5, <3>1 DEF Present
    <3> QED BY <1>4, <3>2
  <2> HIDE DEF place
  <2>5. ASSUME NEW k \in 1 .. PerKind - 1
        PROVE  place(k) # i /\ u[place(k)].at >= u[i].at
    <3>1. k + 1 \in 1 .. Len(old) /\ 1 \in 1 .. Len(old) /\ 1 < k + 1
      BY <1>3, <2>2
    <3>2. old[1].id # old[k + 1].id
      BY <1>1, <3>1 DEF File
    <3>3. old[1].at <= old[k + 1].at /\ old[1].at \in Nat /\ old[k + 1].at \in Nat
      <4>1. old[1] \in Note /\ old[k + 1] \in Note
        BY <1>1, <3>1 DEF File
      <4> QED BY <1>1, <3>1, <4>1 DEF Note
    <3>4. place(k) # i
      BY <2>1, <2>3, <2>4, <3>2
    <3>5. u[place(k)] = old[k + 1] /\ u[i] = old[1]
      BY <1>4, <2>1, <2>3, <2>4
    <3> QED BY <3>3, <3>4, <3>5
  <2>6. ASSUME NEW k \in 1 .. PerKind PROVE J[k] \in B
    <3>1. CASE k = PerKind
      <4>1. J[k] = Len(s) + 1 /\ Len(s) + 1 > i /\ Len(s) + 1 # i
        BY <1>4, <3>1
      <4> QED BY <1>7, <4>1 DEF Newer
    <3>2. CASE k # PerKind
      <4>1. k \in 1 .. PerKind - 1 /\ J[k] = place(k)
        BY <1>3, <3>2
      <4>2. place(k) \in DOMAIN u /\ place(k) # i /\ u[place(k)].at >= u[i].at
        BY <1>7, <2>4, <2>5, <4>1
      <4> QED BY <4>1, <4>2 DEF Newer
    <3> QED BY <3>1, <3>2
  <2>7. ASSUME NEW j \in 1 .. PerKind, NEW k \in 1 .. PerKind, J[j] = J[k] PROVE j = k
    <3>1. \A x \in 1 .. PerKind : x # PerKind => x \in 1 .. PerKind - 1 /\ J[x] = place(x)
      BY <1>3
    <3>2. J[PerKind] = Len(s) + 1 /\ \A x \in 1 .. PerKind - 1 : place(x) # Len(s) + 1
      <4>1. PerKind \in 1 .. PerKind /\ Len(s) + 1 \notin 1 .. Len(s)
        BY <1>3, <1>4
      <4> QED BY <2>4, <4>1
    <3>3. CASE j # PerKind /\ k # PerKind
      <4>1. j + 1 \in 1 .. Len(old) /\ k + 1 \in 1 .. Len(old)
        BY <1>3, <2>2, <3>3
      <4>2. old[j + 1] = old[k + 1]
        BY <2>4, <2>7, <3>1, <3>3
      <4>3. j + 1 = k + 1
        BY <1>1, <4>1, <4>2 DEF File
      <4> QED BY <4>3
    <3>4. CASE j = PerKind \/ k = PerKind
      BY <2>7, <3>1, <3>2, <3>4
    <3> QED BY <3>3, <3>4
  <2>8. J \in [1 .. PerKind -> B]
    <3>1. J = [k \in 1 .. PerKind |-> J[k]]
      OBVIOUS
    <3> HIDE DEF J, B
    <3> QED BY <2>6, <3>1
  <2>9. IsFiniteSet(B)
    BY <1>6
  <2> HIDE DEF J, B
  <2>10. J \in Injection(1 .. PerKind, B)
    BY <2>7, <2>8 DEF Injection, IsInjective
  <2>12. Cardinality(1 .. PerKind) = PerKind
    BY <1>3, UpTo
  <2>13. Cardinality(1 .. PerKind) <= Cardinality(B)
    BY <2>9, <2>10, FS_Injection
  <2>14. Cardinality(B) \in Nat
    BY <2>9, FS_CardinalityType
  <2>15. Cardinality(B) >= PerKind
    BY <1>3, <2>12, <2>13, <2>14
  <2> QED BY <2>15 DEF B
<1>11. ASSUME NEW i \in DOMAIN u
       PROVE  Present(u[i], t) \/ u[i].id \in gone \/ Cardinality(Newer(u, i)) >= PerKind
  <2>1. CASE i = Len(s) + 1
    <3>1. \A x \in Nat : x # 0 => x \in 1 .. x
      OBVIOUS
    <3>2. Len(t) \in DOMAIN t
      BY <1>2, <1>3, <3>1
    <3> QED BY <1>2, <1>4, <2>1, <3>2 DEF Present
  <2>2. CASE i # Len(s) + 1
    <3>1. i \in 1 .. Len(s)
      BY <1>4, <2>2
    <3>2. Present(s[i], f) \/ s[i].id \in gone \/ Cardinality(Newer(s, i)) >= PerKind
      BY <1>4, <3>1 DEF Accounted
    <3>3. CASE Cardinality(Newer(s, i)) >= PerKind
      BY <1>3, <1>6, <3>1, <3>3
    <3>4. CASE s[i].id \in gone
      BY <1>6, <3>1, <3>4
    <3>5. CASE Present(s[i], f)
      BY <1>6, <1>10, <3>1, <3>5
    <3> QED BY <3>2, <3>3, <3>4, <3>5
  <2> QED BY <2>1, <2>2
<1> QED BY <1>4, <1>9, <1>11 DEF Accounted, u

\* A Remove that nothing disturbed takes the notes with its id, and them only.
LEMMA RemoveAccounts ==
    ASSUME MeConstants, NEW r, NEW f, File(f, r), NEW s, NEW gone, Accounted(f, s, gone), NEW id,
           NEW t \in Sorted(f, {k \in DOMAIN f : f[k].id # id})
    PROVE  Accounted(t, s, gone \cup {id})
<1> DEFINE P == {k \in DOMAIN f : f[k].id # id}
<1>1. P \in SUBSET DOMAIN f /\ \A k \in DOMAIN f : k \in P \/ f[k].id = id
  OBVIOUS
<1> HIDE DEF P
<1>2. /\ DOMAIN t = 1 .. Len(t) /\ \A k \in 1 .. Len(t) : \E p \in P : t[k] = f[p]
      /\ \A p \in P : \E k \in 1 .. Len(t) : t[k] = f[p]
  <2>1. t \in Sorted(f, P)
    BY DEF P
  <2> QED BY <1>1, <2>1, SortedFile
<1>3. \A k \in DOMAIN t : Present(t[k], s)
  BY <1>1, <1>2 DEF Accounted
<1>4. \A m : Present(m, f) => Present(m, t) \/ m.id = id
  BY <1>1, <1>2 DEF Present
<1>5. \A i \in DOMAIN s :
        \/ Present(s[i], t) \/ s[i].id \in gone \cup {id} \/ Cardinality(Newer(s, i)) >= PerKind
  BY <1>4 DEF Accounted
<1> QED BY <1>3, <1>5 DEF Accounted

LEMMA Rename_Inv == ASSUME MeConstants, MeInv, NEW w \in Writers, Rename(w) PROVE MeInv'
<1> DEFINE p == writer[w]
           r == p.repo
           tears == <<r, "tmp">> \in torn
           clean == notes[r] = p.base /\ tmp[r] = <<p.out>> /\ ~tears
           q == IF p.rest = <<>> THEN NoWriter ELSE Adding(r, Head(p.rest), Tail(p.rest))
<1>1. /\ p.pc = "rename" /\ Sane(p) /\ r \in Stores /\ Rest(p.rest, r) /\ File(p.base, r)
      /\ File(p.out, r) /\ Derived(p) /\ (p.del = <<>> => Native(p.note, r))
  BY DEF MeInv, Rename, Sane, Writing
<1>2. Sane(NoWriter)
  BY DEF Sane, NoWriter, Process, Writing
<1>3. CASE tmp[r] = <<>>
  <2>1. writer' = [writer EXCEPT ![w] = NoWriter]
    BY <1>3 DEF Rename, To
  <2>2. used' \in Nat /\ UNCHANGED <<now, notes, tmp, bundle, acked, removed, overlap, torn>>
    BY <1>3 DEF Rename, MeInv
  <2> QED BY <1>2, <2>1, <2>2, WriterMoves
<1>4. CASE tmp[r] # <<>>
  <2>1. /\ notes' = [notes EXCEPT ![r] = tmp[r][1]]
        /\ tmp' = [tmp EXCEPT ![r] = <<>>]
        /\ overlap' = IF clean THEN overlap ELSE overlap \cup {r}
        /\ acked' = IF p.del = <<>> THEN [acked EXCEPT ![r] = Append(@, p.note)] ELSE acked
        /\ removed' = IF p.del = <<>> THEN removed ELSE [removed EXCEPT ![r] = @ \cup {p.del}]
        /\ writer' = [v \in Writers |-> IF v = w THEN q ELSE Follow(writer[v], r)]
        /\ torn' = (torn \ {<<r, "tmp">>, <<r, "file">>}) \cup
                   (IF tears THEN {<<r, "file">>} ELSE {})
        /\ now' = now /\ used' = used /\ bundle' = bundle
    BY <1>4 DEF Rename
  <2>2. Sane(q)
    <3>1. CASE p.rest # <<>>
      <4> DEFINE s == p.rest
      <4>1. s \in Seq(Note) /\ s # <<>> /\ \A k \in 1 .. Len(s) : Native(s[k], r)
        BY <1>1, <3>1 DEF Rest
      <4> HIDE DEF s
      <4>2. /\ Len(s) \in Nat /\ Len(s) # 0 /\ Head(s) = s[1] /\ Tail(s) \in Seq(Note)
            /\ Len(Tail(s)) = Len(s) - 1 /\ \A k \in 1 .. Len(s) - 1 : Tail(s)[k] = s[k + 1]
        BY <4>1
      <4>3. Native(Head(s), r)
        BY <4>1, <4>2
      <4>4. \A k \in 1 .. Len(s) - 1 : k + 1 \in 1 .. Len(s)
        BY <4>2
      <4>5. Rest(Tail(s), r)
        BY <4>1, <4>2, <4>4 DEF Rest
      <4>6. Sane(Adding(r, Head(s), Tail(s)))
        BY <1>1, <4>3, <4>5, AddingSane
      <4> QED BY <3>1, <4>6 DEF s
    <3> QED BY <1>2, <3>1
  <2> HIDE DEF q
  <2>3. DOMAIN writer' = Writers /\ \A v \in Writers : Sane(writer'[v])
    BY <2>1, <2>2, OpenFollows DEF MeInv
  <2>4. DOMAIN notes' = Stores /\ \A x \in Stores : File(notes'[x], x)
    BY <1>1, <1>4, <2>1 DEF MeInv
  <2>5. DOMAIN tmp' = Stores /\ \A x \in Stores : tmp'[x] # <<>> => File(tmp'[x][1], x)
    BY <1>1, <2>1 DEF MeInv
  <2>6. /\ DOMAIN acked' = Stores /\ DOMAIN removed' = Stores
        /\ \A x \in Stores \ {r} : /\ notes'[x] = notes[x] /\ acked'[x] = acked[x]
                                   /\ removed'[x] = removed[x]
    BY <2>1 DEF MeInv
  <2>7. overlap \subseteq overlap' /\ (r \notin overlap' => clean)
    BY <2>1
  <2>8. ASSUME r \notin overlap' PROVE Accounted(notes'[r], acked'[r], removed'[r])
    <3>1. notes[r] = p.base /\ tmp[r] = <<p.out>> /\ r \notin overlap
      BY <2>7, <2>8
    <3>2. notes'[r] = p.out
      <4>1. <<p.out>>[1] = p.out
        OBVIOUS
      <4> QED BY <1>1, <2>1, <3>1, <4>1 DEF MeInv
    <3>3. Accounted(p.base, acked[r], removed[r])
      BY <1>1, <3>1 DEF MeInv
    <3>4. CASE p.del = <<>>
      <4>1. PICK old \in Sorted(p.base, DOMAIN p.base) :
              /\ p.note.id \in Nat \X Nat /\ p.note.id \notin Ids(old)
              /\ p.out = Trim(Append(old, p.note))
        BY <1>1, <3>4 DEF Derived
      <4>2. Accounted(p.out, Append(acked[r], p.note), removed[r])
        BY <1>1, <3>3, <3>4, <4>1, AddAccounts
      <4>3. acked'[r] = Append(acked[r], p.note) /\ removed'[r] = removed[r]
        BY <1>1, <2>1, <3>4 DEF MeInv
      <4> QED BY <3>2, <4>2, <4>3
    <3>5. CASE p.del # <<>>
      <4>1. p.out \in Sorted(p.base, {k \in DOMAIN p.base : p.base[k].id # p.del})
        BY <1>1, <3>5 DEF Derived
      <4>2. Accounted(p.out, acked[r], removed[r] \cup {p.del})
        BY <1>1, <3>3, <4>1, RemoveAccounts
      <4>3. acked'[r] = acked[r] /\ removed'[r] = removed[r] \cup {p.del}
        BY <1>1, <2>1, <3>5 DEF MeInv
      <4> QED BY <3>2, <4>2, <4>3
    <3> QED BY <3>4, <3>5
  <2>9. \A x \in Stores : x \notin overlap' => /\ Accounted(notes'[x], acked'[x], removed'[x])
                                               /\ <<x, "file">> \notin torn'
    <3> SUFFICES ASSUME NEW x \in Stores, x \notin overlap'
                 PROVE  Accounted(notes'[x], acked'[x], removed'[x]) /\ <<x, "file">> \notin torn'
      OBVIOUS
    <3>1. CASE x = r
      <4>1. ~tears
        BY <2>7, <3>1
      <4>2. <<r, "file">> \notin torn'
        BY <2>1, <4>1
      <4> QED BY <2>8, <3>1, <4>2
    <3>2. CASE x # r
      <4>1. <<x, "file">> \in torn' => <<x, "file">> \in torn
        BY <2>1, <3>2
      <4> QED BY <2>6, <2>7, <3>2, <4>1 DEF MeInv
    <3> QED BY <3>1, <3>2
  <2> QED BY <2>1, <2>3, <2>4, <2>5, <2>6, <2>9 DEF MeInv
<1> QED BY <1>3, <1>4

LEMMA MeNext_Inv == ASSUME MeConstants, MeInv, [MeNext]_mevars PROVE MeInv'
<1>1. ASSUME NEW w \in Writers, NEW r \in Stores,
             \/ AddBegin(w, r) \/ ImportBegin(w, r)
             \/ \E id \in Ids(notes[r]) : RemoveRead(w, r, id)
      PROVE  MeInv'
  BY <1>1, AddBegin_Inv, ImportBegin_Inv, RemoveRead_Inv
<1>2. ASSUME NEW w \in Writers,
             \/ AddRead(w) \/ WriteTmp(w) \/ WriteLost(w) \/ Rename(w) \/ Dies(w)
             \/ \E whole \in BOOLEAN : WriteBody(w, whole) \/ WriteInPlace(w, whole)
      PROVE  MeInv'
  BY <1>2, AddRead_Inv, WriteTmp_Inv, WriteBody_Inv, WriteInPlace_Inv, WriteLost_Inv, Rename_Inv,
     MeDies_Inv
<1>3. ASSUME (\E r \in Stores : Export(r)) \/ Tick \/ UNCHANGED mevars PROVE MeInv'
  BY <1>3, Export_Inv, Tick_Inv, MeStays_Inv
<1> QED BY <1>1, <1>2, <1>3 DEF MeNext

\* What a repository remembers: a file of notes becomes unreadable only where two
\* writers overlapped; one that can be read holds no two notes with one id and never
\* more than the cap; a note whose Add succeeded is in it unless it was removed, as
\* many notes as the cap holds came after it or are no older, or two writers
\* overlapped; and a note from elsewhere names its chain of sources down to the first.
THEOREM NotesStayKept == ASSUME MeConstants PROVE MeSpec => []NotesKept
<1>1. MeInit => MeInv
  BY MeInit_Inv
<1>2. MeInv /\ [MeNext]_mevars => MeInv'
  BY MeNext_Inv
<1>3. MeInv => NotesKept
  <2> SUFFICES ASSUME MeInv, NEW r \in Stores
               PROVE  LET f == notes[r] IN
                      /\ Readable(r) \/ r \in overlap
                      /\ Readable(r) => Cardinality(Ids(f)) = Len(f) /\ Len(f) <= PerKind
                      /\ \A i \in DOMAIN acked[r] : LET n == acked[r][i] IN
                            ~(Readable(r) /\ \E k \in DOMAIN f : f[k] = n) =>
                                \/ n.id \in removed[r] \/ r \in overlap
                                \/ Cardinality({j \in DOMAIN acked[r] \ {i} :
                                                   j > i \/ acked[r][j].at >= n.at}) >= PerKind
                      /\ \A k \in DOMAIN f :
                            /\ f[k].source[Len(f[k].source)] = "operator"
                            /\ f[k].text[1] # r => Len(f[k].source) > 1 /\ f[k].source[1] \in Stores
    BY DEF NotesKept
  <2>1. File(notes[r], r) /\ (Readable(r) \/ r \in overlap)
    BY DEF MeInv, Readable
  <2>2. Cardinality(Ids(notes[r])) = Len(notes[r]) /\ DOMAIN notes[r] = 1 .. Len(notes[r])
    BY <2>1, FileCards
  <2>3. Len(notes[r]) <= PerKind
    BY <2>1 DEF File
  <2>4. ASSUME NEW k \in DOMAIN notes[r] PROVE Native(notes[r][k], r)
    BY <2>1, <2>2 DEF File
  <2>5. ASSUME NEW i \in DOMAIN acked[r],
               ~(Readable(r) /\ \E k \in DOMAIN notes[r] : notes[r][k] = acked[r][i])
        PROVE  \/ acked[r][i].id \in removed[r] \/ r \in overlap
               \/ Cardinality({j \in DOMAIN acked[r] \ {i} :
                                  j > i \/ acked[r][j].at >= acked[r][i].at}) >= PerKind
    BY <2>1, <2>5 DEF MeInv, Accounted, Present, Newer
  <2> QED BY <2>1, <2>2, <2>3, <2>4, <2>5 DEF Native, Carried
<1> QED BY <1>1, <1>2, <1>3, PTL DEF MeSpec
=============================================================================
