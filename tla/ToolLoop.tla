------------------------------ MODULE ToolLoop ------------------------------
(***************************************************************************)
(* The native engine's EDIT tool loop (Engine.Step) over the transcript it *)
(* saves, the journal it writes and the worktree it edits.                 *)
(*                                                                         *)
(* Step asks the model, takes its batch of calls one by one, and for each  *)
(* saves the transcript as pending, begins an operation in the journal,    *)
(* executes the tool, completes the operation and saves the result.  A     *)
(* process may die between any two of these.  The next Step reconciles the *)
(* pending batch with the journal before it asks the model again.          *)
(*                                                                         *)
(* A call is named by the step that asked for it and its place in the      *)
(* batch: the provider's call ids are taken to be distinct in a batch.     *)
(***************************************************************************)
EXTENDS Naturals, Sequences, FiniteSets

CONSTANTS
    MaxSteps,    \* Engine.MaxSteps: questions one transcript may ask
    MaxTools,    \* 40 in the code
    MaxVerify,   \* run_recipe calls, 3 in the code
    MaxInvalid,  \* refused calls, 3 in the code
    MaxCalls,    \* the longest batch
    Batches,     \* the batches a model may answer with
    Trees,       \* what the worktree may hold, as its manifest tells apart
    FirstTree,
    MaxFaults,   \* crashes, failed writes and provider errors, altogether
    MaxDrifts,   \* edits of the worktree by somebody else
    None         \* no manifest

\* The tools, by what they do to the worktree and to the counters; a "denied"
\* call is one authorize refuses.
Kind == {"read", "edit", "recipe", "denied", "done"}

ASSUME LimitsAssumption ==
    /\ MaxSteps \in Nat /\ MaxTools \in Nat /\ MaxVerify \in Nat
    /\ MaxInvalid \in Nat /\ MaxCalls \in Nat \ {0}
    /\ MaxFaults \in Nat /\ MaxDrifts \in Nat
ASSUME BatchesAssumption ==
    \A b \in Batches : b \in Seq(Kind) /\ Len(b) \in 1 .. MaxCalls
ASSUME TreesAssumption == FirstTree \in Trees /\ None \notin Trees

Call == (1 .. MaxSteps) \X (1 .. MaxCalls)

Says == {"result", "denied", "skipped"}

\* workflow.Transcript.  batch is the tool calls of the message each step
\* added, answers the tool messages that follow; cand is the manifest of the
\* worktree when the transcript was last saved.
Transcript ==
    [ seeded  : BOOLEAN,
      steps   : 0 .. MaxSteps,
      batch   : [1 .. MaxSteps -> Batches \cup {<<>>}],
      answers : SUBSET (Call \X Says),
      pending : BOOLEAN,
      outcome : {"open", "done", "stopped", "exhausted"},
      tools   : Nat,
      verify  : Nat,
      invalid : Nat,
      cand    : Trees \cup {None} ]

EmptyTranscript ==
    [ seeded |-> FALSE, steps |-> 0, batch |-> [s \in 1 .. MaxSteps |-> <<>>],
      answers |-> {}, pending |-> FALSE, outcome |-> "open",
      tools |-> 0, verify |-> 0, invalid |-> 0, cand |-> None ]

\* A row of the operations table: begun without an outcome, or completed.
NoOperation == [state |-> "none", before |-> None, after |-> None]

Operation ==
    [ state  : {"none", "begun", "result", "denied"},
      before : Trees \cup {None},
      after  : Trees \cup {None} ]

Place == {"idle", "reconcile", "open", "loop", "call", "exec", "begun", "ran",
          "completed", "stuck", "stopping"}

VARIABLES
    saved,   \* the transcript in the database
    journal, \* the operations of this transcript, by call
    tree,    \* the worktree
    runs,    \* how often each call was executed (what really happened)
    mem,     \* the transcript in the process
    pos,     \* the call of the batch being taken
    pc,      \* where the process is
    faults, drifts

vars == <<saved, journal, tree, runs, mem, pos, pc, faults, drifts>>

Init ==
    /\ saved = EmptyTranscript
    /\ journal = [c \in Call |-> NoOperation]
    /\ tree = FirstTree
    /\ runs = [c \in Call |-> 0]
    /\ mem = EmptyTranscript
    /\ pos = 1
    /\ pc = "idle"
    /\ faults = 0 /\ drifts = 0

-----------------------------------------------------------------------------
Fault == faults < MaxFaults /\ faults' = faults + 1

\* The calls of a transcript, and those of them that have a result.
AllCalls(t)  == {c \in Call : c[2] <= Len(t.batch[c[1]])}
Completed(t) == {a[1] : a \in t.answers}
KindOf(t, c) == t.batch[c[1]][c[2]]

\* Mutant of Save: the transcript keeps the manifest of an earlier save.
SaveUnstamped(t, next) ==
    \/ /\ mem' = [t EXCEPT !.cand = IF @ = None THEN tree ELSE @]
       /\ saved' = mem'
       /\ pc' = next
       /\ UNCHANGED faults
    \/ Fault /\ mem' = t /\ pc' = "stopping" /\ UNCHANGED saved

\* SaveTranscript stamps the transcript with the worktree's manifest; when the
\* manifest or the write fails, Step returns the error to its caller.
Save(t, next) ==
    \/ /\ mem' = [t EXCEPT !.cand = tree]
       /\ saved' = mem'
       /\ pc' = next
       /\ UNCHANGED faults
    \/ /\ Fault
       /\ \E m \in {tree, None} : mem' = [t EXCEPT !.cand = m]
       /\ pc' = "stopping"
       /\ UNCHANGED saved

\* finish: the transcript is closed with what the response says.
Finish(t, outcome) == Save([t EXCEPT !.outcome = outcome], "idle")

\* Step returns an error; stop saves the transcript as it is in memory.
Return(t) ==
    /\ mem' = t
    /\ pc' = "stopping"
    /\ UNCHANGED saved

\* The EDIT phase calls Step, unless the transcript is closed or describes
\* another worktree.
Enter ==
    /\ pc = "idle"
    /\ saved.outcome = "open"
    /\ saved.pending \/ saved.cand \in {None, tree}
    /\ mem' = saved
    /\ pc' = IF saved.pending THEN "reconcile" ELSE "open"
    /\ UNCHANGED <<saved, journal, tree, runs, pos, faults, drifts>>

\* reconcile looks for the last message with tool calls.
LastBatch(t) ==
    CHOOSE s \in 1 .. MaxSteps :
        /\ t.batch[s] # <<>>
        /\ \A r \in s + 1 .. MaxSteps : t.batch[r] = <<>>

\* The unanswered calls of the interrupted batch, in order.
Unanswered(t) ==
    {k \in 1 .. Len(t.batch[LastBatch(t)]) :
        <<LastBatch(t), k>> \notin Completed(t)}

\* The operation reconcile finds for a call: its step is the transcript's.
Match(t, k) == journal[<<t.steps, k>>]

Recovered(t) == {k \in Unanswered(t) : Match(t, k).state # "none"}

\* The candidate after the recovered calls before k, starting with the saved one.
Reached(t, k) ==
    LET earlier == {j \in Recovered(t) : j < k}
    IN IF earlier = {} THEN t.cand
       ELSE Match(t, CHOOSE j \in earlier : \A i \in earlier : i <= j).after

\* reconcile refuses an operation without an outcome, a broken candidate
\* chain, and a worktree that is not what the last recovered call left.
Reconcilable(t) ==
    /\ \A k \in Recovered(t) :
          Match(t, k).state # "begun" /\ Match(t, k).before = Reached(t, k)
    /\ Reached(t, MaxCalls + 1) = tree

\* Mutant of Reconciled: what is restored is not counted.
ReconciledUncounted(t) ==
    LET says(k) == IF k \in Recovered(t) THEN Match(t, k).state ELSE "skipped"
    IN [t EXCEPT
          !.answers = @ \cup {<<<<LastBatch(t), k>>, says(k)>> : k \in Unanswered(t)},
          !.pending = FALSE,
          !.outcome = IF Unanswered(t) # Recovered(t) THEN "exhausted" ELSE @]

\* Results on record are restored and counted; calls never begun are answered
\* as not executed and close the transcript.
Reconciled(t) ==
    LET s        == LastBatch(t)
        rec      == Recovered(t)
        boundary == Unanswered(t) # rec
        says(k)  == IF k \in rec THEN Match(t, k).state ELSE "skipped"
        finished == \E k \in rec : Match(t, k).state = "result" /\ t.batch[s][k] = "done"
    IN [t EXCEPT
          !.answers = @ \cup {<<<<s, k>>, says(k)>> : k \in Unanswered(t)},
          !.tools   = @ + Cardinality(rec),
          !.invalid = @ + Cardinality({k \in rec : Match(t, k).state = "denied"}),
          !.verify  = @ + Cardinality({k \in rec : t.batch[s][k] = "recipe"}),
          !.pending = FALSE,
          !.outcome = IF boundary THEN "exhausted" ELSE IF finished THEN "done" ELSE @]

\* Mutant of Reconcile: the batch is taken up again where its results end.
ReconcileReplay ==
    /\ pc = "reconcile"
    /\ pos' = CHOOSE k \in Unanswered(mem) : \A j \in Unanswered(mem) : k <= j
    /\ pc' = "call"
    /\ UNCHANGED <<saved, journal, tree, runs, mem, faults, drifts>>

Reconcile ==
    /\ pc = "reconcile"
    /\ IF Reconcilable(mem)
         THEN LET t == Reconciled(mem)
              IN Save(t, IF t.outcome = "open" THEN "open" ELSE "idle")
         ELSE Return(mem) /\ UNCHANGED faults
    /\ UNCHANGED <<journal, tree, runs, pos, drifts>>

\* A fresh transcript is seeded; a resumed one is saved as it is.
Open ==
    /\ pc = "open"
    /\ Save([mem EXCEPT !.seeded = TRUE], "loop")
    /\ UNCHANGED <<journal, tree, runs, pos, drifts>>

-----------------------------------------------------------------------------
Asked == [mem EXCEPT !.steps = @ + 1]

\* Mutant of Conclude: one question too many.
ConcludeLate ==
    /\ pc = "loop"
    /\ Finish(Asked, "stopped") \/ Finish(mem, "exhausted")
    /\ UNCHANGED <<journal, tree, runs, pos, drifts>>

\* The step, context or token budget is spent, or the model asks for no tool.
Conclude ==
    /\ pc = "loop"
    /\ \/ mem.steps = MaxSteps /\ Finish(mem, "stopped")
       \/ mem.steps < MaxSteps /\ Finish(mem, "exhausted")
       \/ mem.steps < MaxSteps /\ Finish(Asked, "stopped")
    /\ UNCHANGED <<journal, tree, runs, pos, drifts>>

\* Mutant of Abandon: a refused batch does not count as a step.
AbandonUncounted ==
    /\ pc = "loop" /\ mem.steps < MaxSteps
    /\ \E b \in Batches : Len(b) > 1 /\ \E k \in 1 .. Len(b) : b[k] = "done"
    /\ Return(mem)
    /\ UNCHANGED <<journal, tree, runs, pos, faults, drifts>>

\* The caller's deadline passed, the provider failed, or done came with others.
Abandon ==
    /\ pc = "loop" /\ mem.steps < MaxSteps
    /\ \/ Fault /\ Return(mem)
       \/ /\ \E b \in Batches : Len(b) > 1 /\ \E k \in 1 .. Len(b) : b[k] = "done"
          /\ Return(Asked)
          /\ UNCHANGED faults
    /\ UNCHANGED <<journal, tree, runs, pos, drifts>>

Chat ==
    /\ pc = "loop" /\ mem.steps < MaxSteps
    /\ \E b \in Batches :
          /\ Len(b) > 1 => \A k \in 1 .. Len(b) : b[k] # "done"
          /\ mem' = [Asked EXCEPT !.batch[mem.steps + 1] = b]
    /\ pos' = 1
    /\ pc' = "call"
    /\ UNCHANGED <<saved, journal, tree, runs, faults, drifts>>

Current == <<mem.steps, pos>>

Spent(t, kind) ==
    \/ t.tools >= MaxTools
    \/ kind = "recipe" /\ t.verify >= MaxVerify
    \/ t.invalid >= MaxInvalid

\* A phase budget is spent: the rest of the batch is answered as not executed.
Skip ==
    /\ pc = "call"
    /\ Spent(mem, KindOf(mem, Current))
    /\ Finish([mem EXCEPT
                 !.answers = @ \cup {<<<<mem.steps, k>>, "skipped">> :
                                     k \in pos .. Len(mem.batch[mem.steps])},
                 !.pending = FALSE], "exhausted")
    /\ UNCHANGED <<journal, tree, runs, pos, drifts>>

\* The transcript says a side effect may be coming before anything happens.
Intend ==
    /\ pc = "call"
    /\ ~Spent(mem, KindOf(mem, Current))
    /\ Save([mem EXCEPT !.pending = TRUE], "exec")
    /\ UNCHANGED <<journal, tree, runs, pos, drifts>>

\* exec: the journal records the decision and the worktree before the tool.
Begin ==
    /\ pc = "exec"
    /\ \/ /\ journal' = [journal EXCEPT ![Current] =
                           [state |-> "begun", before |-> tree, after |-> None]]
          /\ pc' = "begun"
          /\ UNCHANGED <<saved, mem, faults>>
       \/ Fault /\ Return(mem) /\ UNCHANGED journal
    /\ UNCHANGED <<tree, runs, pos, drifts>>

\* execute, unless authorize refused the call.
Execute ==
    /\ pc = "begun"
    /\ LET kind == KindOf(mem, Current)
       IN /\ tree' \in IF kind \in {"edit", "recipe"} THEN Trees ELSE {tree}
          /\ runs' = IF kind = "denied" THEN runs
                     ELSE [runs EXCEPT ![Current] = @ + 1]
    /\ pc' = "ran"
    /\ UNCHANGED <<saved, journal, mem, pos, faults, drifts>>

Complete ==
    /\ pc = "ran"
    /\ \/ /\ journal' = [journal EXCEPT
                ![Current].state = IF KindOf(mem, Current) = "denied"
                                   THEN "denied" ELSE "result",
                ![Current].after = tree]
          /\ pc' = "completed"
          /\ UNCHANGED <<saved, mem, faults>>
       \/ Fault /\ Return(mem) /\ UNCHANGED journal
    /\ UNCHANGED <<tree, runs, pos, drifts>>

\* Mutant of Record: only the call itself is pending, not the batch.
RecordAlone ==
    /\ pc = "completed"
    /\ LET last == pos = Len(mem.batch[mem.steps])
           t    == [mem EXCEPT
                      !.answers = @ \cup {<<Current, journal[Current].state>>},
                      !.pending = FALSE, !.tools = @ + 1]
       IN IF last THEN Save(t, "loop") /\ UNCHANGED pos
                  ELSE Save(t, "call") /\ pos' = pos + 1
    /\ UNCHANGED <<journal, tree, runs, drifts>>

\* The result is appended and counted; the batch stays pending until its last
\* call has one.  done closes the transcript; after a whole batch the progress
\* guard, which compares texts, may find the loop stuck.
Record ==
    /\ pc = "completed"
    /\ LET kind == KindOf(mem, Current)
           last == pos = Len(mem.batch[mem.steps])
           t    == [mem EXCEPT
                      !.answers = @ \cup {<<Current, journal[Current].state>>},
                      !.pending = ~last,
                      !.tools   = @ + 1,
                      !.verify  = IF kind = "recipe" THEN @ + 1 ELSE @,
                      !.invalid = IF kind = "denied" THEN @ + 1 ELSE @]
       IN CASE kind = "done" -> Finish(t, "done") /\ UNCHANGED pos
            [] kind # "done" /\ ~last -> Save(t, "call") /\ pos' = pos + 1
            [] kind # "done" /\ last  ->
                 /\ \E next \in {"loop", "stuck"} : Save(t, next)
                 /\ UNCHANGED pos
    /\ UNCHANGED <<journal, tree, runs, drifts>>

Stuck ==
    /\ pc = "stuck"
    /\ Finish(mem, "stopped")
    /\ UNCHANGED <<journal, tree, runs, pos, drifts>>

\* stop writes what the transcript holds, whatever the error was.
Stop ==
    /\ pc = "stopping"
    /\ saved' = mem
    /\ pc' = "idle"
    /\ UNCHANGED <<journal, tree, runs, mem, pos, faults, drifts>>

Crash ==
    /\ pc # "idle"
    /\ Fault
    /\ pc' = "idle"
    /\ UNCHANGED <<saved, journal, tree, runs, mem, pos, drifts>>

\* Somebody else edits the worktree.
Drift ==
    /\ drifts < MaxDrifts
    /\ drifts' = drifts + 1
    /\ tree' \in Trees \ {tree}
    /\ UNCHANGED <<saved, journal, runs, mem, pos, pc, faults>>

Step == \/ Enter \/ Reconcile \/ Open \/ Conclude \/ Abandon \/ Chat
        \/ Skip \/ Intend \/ Begin \/ Execute \/ Complete \/ Record
        \/ Stuck \/ Stop

Next == Step \/ Crash \/ Drift

Spec == Init /\ [][Next]_vars

\* Step runs to its return, and somebody retries a task that was stopped.
FairSpec == Spec /\ WF_vars(Step)

-----------------------------------------------------------------------------
\* Transcript, journal and position keep their types; a transcript never asks
\* more than MaxSteps questions.
TypeInv ==
    /\ saved \in Transcript /\ mem \in Transcript
    /\ journal \in [Call -> Operation]
    /\ tree \in Trees
    /\ runs \in [Call -> Nat]
    /\ pos \in 1 .. MaxCalls
    /\ pc \in Place
    /\ faults \in 0 .. MaxFaults /\ drifts \in 0 .. MaxDrifts

\* A transcript that is not pending has exactly one result for every call the
\* model asked for, so a resumed attempt never sends an orphaned batch.
EveryCallAnswered ==
    ~saved.pending =>
        /\ Completed(saved) = AllCalls(saved)
        /\ \A a, b \in saved.answers : a[1] = b[1] => a = b

\* The EDIT budgets bound what is begun over the whole transcript, however
\* often the attempt was interrupted and resumed.
WithinBudget ==
    LET begun(kinds) == {c \in Call : journal[c].state # "none" /\ KindOf(saved, c) \in kinds}
    IN /\ Cardinality(begun(Kind)) <= MaxTools
       /\ Cardinality(begun({"recipe"})) <= MaxVerify
       /\ Cardinality(begun({"denied"})) <= MaxInvalid

\* Step does not continue from the saved transcript: reconcile returns an error,
\* or the EDIT phase finds another worktree than the one saved.
Refused ==
    IF saved.pending THEN ~Reconcilable(saved) ELSE saved.cand \notin {None, tree}

Uncertain == \E c \in AllCalls(saved) : journal[c].state = "begun"

\* With nobody else in the worktree, an interrupted attempt is refused only for
\* an operation without an outcome, the one case reconcile may not decide, or
\* because the manifest could not be read when it was saved.
RefusedForCause ==
    pc = "idle" /\ drifts = 0 /\ saved.outcome = "open" /\ Refused
        => Uncertain \/ saved.cand = None

\* The session a transcript stands for; runs is what really happened.
Session == INSTANCE ToolSession WITH
    asked <- AllCalls(saved),
    effects <- runs,
    answers <- saved.answers,
    closed <- saved.outcome # "open"

\* Whatever stops Step and however often it is resumed, the durable transcript
\* is a tool session: "reconcile restores recorded results, never re-executes a
\* possibly completed side effect".
KeepsSession == Session!Spec

\* An attempt that is retried after every stop ends: Step closes the transcript,
\* or it is refused for good.
AttemptEnds == <>[](saved.outcome # "open" \/ Refused)
=============================================================================
