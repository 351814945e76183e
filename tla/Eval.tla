------------------------------- MODULE Eval --------------------------------
(***************************************************************************)
(* The evaluation harness: `le eval run` loads a task set, runs every task *)
(* under every arm as often as asked, each on a copy of the task's fixture *)
(* that a hidden acceptance command judges after the solver has finished,  *)
(* and aggregates the outcomes into a report, the component ladder and the *)
(* qualification gates.                                                    *)
(*                                                                         *)
(* A file of a copy is "base" as in the fixture, "hidden" when it is an    *)
(* acceptance file, "gone", or as a solver left it: "right" when it does   *)
(* what the task asks, "wrong", or "fool" when it makes the acceptance     *)
(* command pass without the work.  The work is right when the task's       *)
(* target is; a file of the fixture that is gone can fool the command too. *)
(***************************************************************************)
EXTENDS Integers, Sequences, FiniteSets, Functions

CONSTANTS
    TaskSets,   \* the task sets on disk, each a sequence of task files
    ArmLists,   \* the arms asked for on the command line
    Repeat,     \* passes over the set
    Repeats, HeldoutTasks, Finalists   \* thresholds of the qualification

VARIABLES
    disk,      \* the task set the command reads
    arms,      \* the arms it was asked for
    ev,        \* where the loop is: pc, rep, arm and task indices
    copy,      \* the task copy: path -> content
    before,    \* its content when the solver was started
    attempt,   \* attempts the solver has made
    claim,     \* the solver's own verdict
    stopped,   \* the operator interrupted the command
    late,      \* the wall-clock budget of this run has passed
    tampered,  \* what the solver changed of the files it was told to leave
    outcomes,  \* the outcomes, in order
    report     \* what was computed from them

evvars == <<disk, arms, ev, copy, before, attempt, claim, stopped, late, tampered,
            outcomes, report>>

-----------------------------------------------------------------------------
(* The arms, the ladder and the comparisons.                               *)

Arm(name) ==
    [name |-> name,
     supervised |-> name # "unsupervised",
     graph |-> name \in {"supervised", "supervised-no-verification", "frontier"},
     verification |-> name \in {"supervised", "supervised-no-graph", "frontier"},
     role |-> IF name = "frontier" THEN "verification" ELSE "coding"]

ArmNames == {"unsupervised", "supervised", "supervised-no-graph",
             "supervised-no-verification", "supervised-no-graph-no-verify", "frontier"}

\* Ladder: the rungs the harness can switch, in order, then those it cannot.
Rung(arm, wired) == [arm |-> arm, wired |-> wired]

Ladder ==
    << Rung("unsupervised", TRUE), Rung("supervised-no-graph-no-verify", TRUE),
       Rung("supervised-no-graph", TRUE), Rung("supervised", TRUE),
       Rung("supervised-review", FALSE), Rung("context-frozen", FALSE),
       Rung("supervised-memory", FALSE), Rung("supervised-embeddings", FALSE),
       Rung("supervised-reranker", FALSE) >>

WiredLadder == SelectSeq(Ladder, LAMBDA r : r.wired)

Comparisons ==
    << <<"unsupervised", "supervised">>, <<"supervised-no-graph", "supervised">>,
       <<"supervised-no-verification", "supervised">>, <<"supervised", "frontier">> >>

-----------------------------------------------------------------------------
(* Task files.                                                             *)

\* Task.Validate: a task the harness cannot decide, or whose hidden files the
\* fixture already shows, is not an evaluation task.
Valid(t) ==
    /\ t.id # "" /\ t.argv /\ t.hidden # {}
    /\ t.hidden \cap t.fixture = {}
    /\ t.attempts > 0 /\ t.wall > 0
    /\ t.leak # "" /\ t.set \in {"", "dev", "heldout"}

\* Task.Membership and Task.Synthetic.
Membership(t) == IF t.set = "" THEN "dev" ELSE t.set
Synthetic(t) == t.leak = "synthetic"

\* LoadSet: the whole set or nothing; ids are unique.
Loads(s) ==
    /\ s # <<>>
    /\ \A i \in DOMAIN s : Valid(s[i])
    /\ \A i, j \in DOMAIN s : s[i].id = s[j].id => i = j

\* The paths of a copy: those of the fixture, the hidden ones, and new ones.
Paths(t) == t.fixture \cup t.hidden \cup t.fresh

Now == [arm |-> Arm(arms[ev.arm]), task |-> disk[ev.task]]

-----------------------------------------------------------------------------
(* Outcomes.                                                               *)

NoOutcome ==
    [arm |-> "", task |-> "", rep |-> 0, err |-> FALSE, status |-> "", solved |-> FALSE,
     claimed |-> FALSE, tampered |-> FALSE, total |-> 0, passed |-> 0,
     judged |-> FALSE, right |-> FALSE, fooled |-> FALSE, fault |-> "none"]

\* Outcome.Classified.
Classified(o) ==
    IF o.status # "" THEN o.status
    ELSE IF o.err THEN "environment_failed"
    ELSE IF o.solved THEN "completed" ELSE "task_failed"

\* Outcome.EvidenceRun, Status.Evidence and Outcome.Errored.
Evidence(o) ==
    IF o.status = "" THEN ~ o.err ELSE o.status \in {"completed", "task_failed"}
Errored(o) == o.err

FalseAccept(o) == o.claimed /\ ~ o.solved
MissedSuccess(o) == ~ o.claimed /\ o.solved

-----------------------------------------------------------------------------
(* Judging a copy.                                                         *)

\* The acceptance command on this copy: one of these files can make it pass.
Fools(t, tree, f) == tree[f] = "fool" \/ (f \in t.fixture /\ f # t.target /\ tree[f] = "gone")
Fooled(t, tree, files) == \E f \in files \cap DOMAIN tree : Fools(t, tree, f)
Passes(t, tree) == tree[t.target] = "right" \/ Fooled(t, tree, Paths(t))

\* changedFiles and intersect.
Altered(old, new) == {f \in DOMAIN new : new[f] # "gone" /\ old[f] # new[f]}
Removed(old, new) == {f \in DOMAIN old : old[f] # "gone" /\ new[f] = "gone"}
AlteredOnly(old, new) == Altered(old, new)
ChangedFiles(old, new) == Altered(old, new) \cup Removed(old, new)

\* gradeRun: with no failing test named in the output, nothing is granted.
GradeRun(t, accepted, failed) ==
    IF t.tests = {} \/ (~ accepted /\ failed \cap t.tests = {})
    THEN [total |-> Cardinality(t.tests), passed |-> 0]
    ELSE IF accepted
    THEN [total |-> Cardinality(t.tests), passed |-> Cardinality(t.tests)]
    ELSE [total |-> Cardinality(t.tests),
          passed |-> Cardinality(t.tests) - Cardinality(failed \cap t.tests)]

-----------------------------------------------------------------------------
(* The report.                                                             *)

Runs == DOMAIN outcomes
OfArm(a) == {i \in Runs : outcomes[i].arm = a}
ArmsIn == {outcomes[i].arm : i \in Runs}
Has(a, b) == a \in ArmsIn /\ b \in ArmsIn
Count(S, P(_)) == Cardinality({i \in S : P(outcomes[i])})

Rate(n, total) == [successes |-> n, total |-> total]

\* summarise, summarizeArm, ConfusionOf and StatusCounts.
ArmResult(a) ==
    LET Kept == {i \in OfArm(a) : ~ Errored(outcomes[i])}
        Counted == {i \in OfArm(a) : Evidence(outcomes[i])}
        Claims == {i \in Counted : outcomes[i].claimed}
        Solved(o) == o.solved
        Tampered(o) == o.tampered
    IN  [solved |-> Rate(Count(Kept, Solved), Cardinality(Kept)),
         falseAccept |-> Rate(Count(Kept, FalseAccept), Cardinality(Kept)),
         missed |-> Rate(Count(Kept, MissedSuccess), Cardinality(Kept)),
         tampered |-> Rate(Count(Kept, Tampered), Cardinality(Kept)),
         errored |-> Cardinality(OfArm(a)) - Cardinality(Kept),
         evidence |-> Cardinality(Counted),
         success |-> Rate(Count(Counted, Solved), Cardinality(Counted)),
         acceptance |-> Rate(Count(Claims, FalseAccept), Cardinality(Claims))]

\* pairArms: one entry per task and repetition, the last outcome of an arm
\* standing for it; an errored run pairs with nothing.
PairEntry(t, rep, a) ==
    LET S == {i \in OfArm(a) : /\ outcomes[i].task = t /\ outcomes[i].rep = rep
                               /\ ~ Errored(outcomes[i])}
    IN  IF S = {} THEN 0 ELSE CHOOSE i \in S : \A j \in S : j <= i

PairKeys(b, v) ==
    {k \in {<<outcomes[i].task, outcomes[i].rep>> : i \in Runs} :
        PairEntry(k[1], k[2], b) # 0 /\ PairEntry(k[1], k[2], v) # 0}

PairArms(b, v) ==
    LET keys == PairKeys(b, v)
        Won(k, a) == outcomes[PairEntry(k[1], k[2], a)].solved
        Those(x, y) == Cardinality({k \in keys : Won(k, b) = x /\ Won(k, v) = y})
    IN  [variantOnly |-> Those(FALSE, TRUE), baselineOnly |-> Those(TRUE, FALSE),
         both |-> Those(TRUE, TRUE), neither |-> Those(FALSE, FALSE)]

\* Paired.Decided over exactBinomialTwoSided: of the 2^n ways n pairs could
\* have disagreed, those at least as uneven are fewer than one in twenty.
Decided(p) ==
    LET n == p.variantOnly + p.baselineOnly
        lo == IF p.variantOnly < p.baselineOnly THEN p.variantOnly ELSE p.baselineOnly
        tail == Cardinality({S \in SUBSET (1 .. n) : Cardinality(S) <= lo})
    IN  n > 0 /\ 40 * tail < 2 ^ n

\* pairScores: how many pairs of graded runs there are.
PairScores(b, v) ==
    LET Graded(k, a) == outcomes[PairEntry(k[1], k[2], a)].total > 0
    IN  Cardinality({k \in PairKeys(b, v) : Graded(k, b) /\ Graded(k, v)})

\* verdictFor.
VerdictFor(b, v) ==
    LET p == PairArms(b, v)
        base == ArmResult(b).solved
        vary == ArmResult(v).solved
        delta == vary.successes * base.total - base.successes * vary.total
    IN  CASE base.total = 0 \/ vary.total = 0 -> "not run"
          [] PairKeys(b, v) = {} -> "no shared runs"
          [] Decided(p) /\ delta > 0 -> "better"
          [] Decided(p) /\ delta < 0 -> "worse"
          [] OTHER -> IF p.variantOnly + p.baselineOnly = 0 THEN "agreed"
                      ELSE "no detectable difference"

\* stability: cells of which the kept runs disagree.
Unstable ==
    Cardinality({c \in {<<outcomes[i].task, outcomes[i].arm>> : i \in Runs} :
        \E i, j \in Runs :
            /\ ~ Errored(outcomes[i]) /\ ~ Errored(outcomes[j])
            /\ <<outcomes[i].task, outcomes[i].arm>> = c
            /\ <<outcomes[j].task, outcomes[j].arm>> = c
            /\ outcomes[i].solved # outcomes[j].solved})

\* minimumRepeats: over the cells that have evidence at all.
Cells == {<<outcomes[i].task, outcomes[i].arm>> : i \in {j \in Runs : Evidence(outcomes[j])}}
RunsOf(c) == Cardinality({i \in Runs : /\ Evidence(outcomes[i])
                                       /\ <<outcomes[i].task, outcomes[i].arm>> = c})
MinimumRepeats ==
    LET counts == {RunsOf(c) : c \in Cells}
    IN  IF counts = {} THEN 0 ELSE CHOOSE n \in counts : \A m \in counts : n <= m

\* ladderChain: the longest unbroken run of wired rungs with evidence.
LadderChain ==
    LET wired == WiredLadder
        judged == {c[2] : c \in Cells}
        present == {i \in DOMAIN wired : wired[i].arm \in judged}
        Chains == {k \in 0 .. Len(wired) :
                     \E i \in 0 .. Len(wired) - k : i + 1 .. i + k \subseteq present}
    IN  CHOOSE k \in Chains : \A l \in Chains : l <= k

\* verdictFromInterval, bounds in hundredths.
VerdictFromInterval(low, high) ==
    CASE low > 0 -> "positive"
      [] high < 0 -> "negative"
      [] low <= 0 /\ high >= 0 /\ high - low <= 20 -> "no_material_difference"
      [] OTHER -> "insufficient"

\* HierarchicalCompare: tasks both arms have evidence for; the interval is
\* resampled, so any one can come out.
Common(b, v) == {c[1] : c \in {d \in Cells : d[2] = b}} \cap
                {c[1] : c \in {d \in Cells : d[2] = v}}
HierarchicalCompare(b, v) ==
    IF Common(b, v) = {} THEN {"insufficient"}
    ELSE {VerdictFromInterval(i[1], i[2]) : i \in {<<10, 30>>, <<-30, -10>>, <<-5, 5>>, <<-30, 30>>}}

\* Decide.
Decide(verdict) ==
    CASE verdict = "positive" -> "keep_enabled"
      [] verdict = "negative" -> "disable_by_default"
      [] OTHER -> "insufficient_evidence"

\* buildLadder: a rung is measured over the wired rung before it.
Measured ==
    {i \in 2 .. Len(Ladder) :
        /\ Ladder[i].wired
        /\ Has(Ladder[i - 1].arm, Ladder[i].arm)}
Retentions ==
    {[i \in Measured |-> Decide(f[i])] :
        f \in {g \in [Measured -> {"positive", "negative", "no_material_difference",
                                   "insufficient"}] :
                 \A i \in Measured :
                    g[i] \in HierarchicalCompare(Ladder[i - 1].arm, Ladder[i].arm)}}

\* EvidenceFrom: the gates that the tasks and the outcomes meet.
EvidenceFrom ==
    LET Heldout(t) == Membership(t) = "heldout" /\ ~ Synthetic(t)
        least == MinimumRepeats
        MetWhen(name, met) == IF met THEN {name} ELSE {}
    IN  UNION {
          MetWhen("heldout_real_tasks",
                  Cardinality({i \in DOMAIN disk : Heldout(disk[i])}) >= HeldoutTasks),
          MetWhen("finalist_repeats",
                  least >= Repeats /\ Cardinality({c[2] : c \in Cells}) >= Finalists),
          MetWhen("hidden_verification", disk # <<>> /\ \A i \in DOMAIN disk : disk[i].argv),
          MetWhen("baseline_comparison", Has("unsupervised", "supervised")),
          MetWhen("component_ladder", LadderChain >= 3),
          MetWhen("graph_ablation", Has("supervised-no-graph", "supervised")),
          MetWhen("context_ablation", Has("context-dynamic", "context-frozen")),
          MetWhen("false_acceptance_measured", \E i \in Runs : outcomes[i].claimed),
          MetWhen("paired_statistics", outcomes # <<>> /\ least > 0),
          MetWhen("raw_results", outcomes # <<>>)}

\* Qualify: to these come an environment that is captured complete or not, and a
\* reproduction that is asserted on the command line.
Qualify(evidence, complete, reproduced) ==
    evidence \cup {g \in {"environment_metadata"} : complete}
             \cup {g \in {"clean_reproduction"} : reproduced}

Gates == {"heldout_real_tasks", "finalist_repeats", "hidden_verification",
          "baseline_comparison", "component_ladder", "graph_ablation",
          "context_ablation", "false_acceptance_measured", "paired_statistics",
          "raw_results", "environment_metadata", "clean_reproduction"}

Status(met) == IF met = Gates THEN "pass" ELSE "fail"

-----------------------------------------------------------------------------
NoReport == [made |-> FALSE]

\* Where the loop is: its pass, its arm and its task.
Position(pc, rep, arm, task) == [pc |-> pc, rep |-> rep, arm |-> arm, task |-> task]

EvInit ==
    /\ disk \in TaskSets /\ arms \in ArmLists
    /\ ev = Position("load", 1, 1, 1)
    /\ copy = <<>> /\ before = <<>>
    /\ attempt = 0 /\ claim = FALSE
    /\ stopped = FALSE /\ late = FALSE /\ tampered = {}
    /\ outcomes = <<>> /\ report = NoReport

At(pc) == ev.pc = pc
Proceed(pc) == ev' = [ev EXCEPT !.pc = pc]

\* LoadSet and ArmByName: an unusable set or an unknown arm runs nothing; a command
\* that names no arm reports on no run.
Load ==
    /\ At("load")
    /\ Proceed(IF ~(Loads(disk) /\ Range(arms) \subseteq ArmNames) THEN "refused"
               ELSE IF arms = <<>> THEN "report" ELSE "prepare")
    /\ UNCHANGED <<disk, arms, copy, before, attempt, claim, stopped, late, tampered,
                   outcomes, report>>

\* The operator presses ctrl-c.
Interrupt ==
    /\ ev.pc \notin {"load", "refused", "report", "done"} /\ ~ stopped
    /\ stopped' = TRUE
    /\ UNCHANGED <<disk, arms, ev, copy, before, attempt, claim, late, tampered,
                   outcomes, report>>

\* The wall-clock budget of the run passes.
Expire ==
    /\ At("solve") /\ ~ late
    /\ late' = TRUE
    /\ UNCHANGED <<disk, arms, ev, copy, before, attempt, claim, stopped, tampered,
                   outcomes, report>>

\* The loop's next position: an interrupt leaves the innermost loop only.
After(at) ==
    IF at.task < Len(disk) /\ ~ stopped THEN Position("prepare", at.rep, at.arm, at.task + 1)
    ELSE IF at.arm < Len(arms) THEN Position("prepare", at.rep, at.arm + 1, 1)
    ELSE IF at.rep < Repeat THEN Position("prepare", at.rep + 1, 1, 1)
    ELSE Position("report", at.rep, at.arm, at.task)

\* The end of Runner.Run: the copy is removed, the run is classified, and the
\* loop appends it.  The file of the run in the raw directory,
\* which no command reads back, is left out.
Record(o) ==
    LET done == [o EXCEPT !.arm = arms[ev.arm], !.task = disk[ev.task].id, !.rep = ev.rep,
                          !.status = Classified(o)]
    IN  /\ outcomes' = Append(outcomes, done)
        /\ copy' = <<>> /\ before' = <<>> /\ attempt' = 0 /\ claim' = FALSE
        /\ late' = FALSE /\ tampered' = {}
        /\ ev' = After(ev)
        /\ UNCHANGED <<disk, arms, stopped, report>>

Error == [NoOutcome EXCEPT !.err = TRUE]

\* prepare, initRepo and the first snapshot: under a cancelled context the
\* repository cannot be made.
Prepare ==
    /\ At("prepare")
    /\ \/ ~ stopped
          /\ copy' = [f \in Paths(Now.task) |->
                        IF f \in Now.task.fixture THEN "base" ELSE "gone"]
          /\ before' = copy'
          /\ Proceed("solve")
          /\ UNCHANGED <<disk, arms, attempt, claim, stopped, late, tampered, outcomes, report>>
       \/ Record(Error)

\* What a step of a solver may do to a tree.
Edits(t, tree) ==
    {tree} \cup {[tree EXCEPT ![f] = c] : f \in Paths(t), c \in {"right", "wrong", "fool", "gone"}}

\* Solve returned: what it claims is kept beside what is then judged.
Returned(done) ==
    /\ Proceed("judge")
    /\ claim' = done
    /\ UNCHANGED <<disk, arms, before, stopped, late, tampered, outcomes, report>>

\* solveUnsupervised: one attempt, then the claim, a truncated answer, the
\* next attempt, or the end of the attempt budget.
Unsupervised ==
    /\ At("solve") /\ ~ Now.arm.supervised /\ ~ stopped /\ ~ late
    /\ attempt < Now.task.attempts
    /\ copy' \in Edits(Now.task, copy)
    /\ attempt' = attempt + 1
    /\ \/ Returned(TRUE)
       \/ Returned(FALSE)
       \/ /\ attempt' < Now.task.attempts
          /\ UNCHANGED <<disk, arms, ev, before, claim, stopped, late, tampered,
                         outcomes, report>>

\* applyBranch: git checkout of a branch's paths writes what the branch has
\* and deletes nothing.
ApplyBranch(tree, branch) ==
    [f \in DOMAIN tree |-> IF branch[f] = "gone" THEN tree[f] ELSE branch[f]]

\* solveSupervised: the pipeline works in a checkout of its own (module
\* Attempts) and brings back what it accepted.
Supervised ==
    /\ At("solve") /\ Now.arm.supervised /\ ~ stopped /\ ~ late
    /\ \E branch \in Edits(Now.task, copy), accepted \in BOOLEAN :
          /\ copy' = IF accepted THEN ApplyBranch(copy, branch) ELSE copy
          /\ attempt' \in 1 .. Now.task.attempts
          /\ Returned(accepted)

\* A solver whose budget passed returns unclaimed, with whatever it left.
OutOfTime ==
    /\ At("solve") /\ late /\ ~ stopped
    /\ Returned(FALSE)
    /\ UNCHANGED <<copy, attempt>>

\* The interrupt reached the solver.
Interrupted ==
    /\ At("solve") /\ stopped
    /\ Record([Error EXCEPT !.status = "cancelled"])

\* A fault of the solver: no provider, no index, a step that failed.
SolverFault ==
    /\ At("solve")
    /\ Record(Error)

\* The second snapshot, the tamper check, and then the hidden files: they are
\* written into the copy only now.
Judge ==
    /\ At("judge")
    /\ \/ /\ tampered' = ChangedFiles(before, copy) \cap Now.task.protected
          /\ copy' = [f \in DOMAIN copy |->
                        IF f \in Now.task.hidden THEN "hidden" ELSE copy[f]]
          /\ Proceed("command")
          /\ UNCHANGED <<disk, arms, before, attempt, claim, stopped, late, outcomes,
                         report>>
       \/ Record(Error)

\* The acceptance command: its exit decides.  One that could not be started, that
\* did not end in its time, or that the operator's interrupt killed, is a judgement
\* like any other: it has not passed.
Ended(fault, failed) ==
    LET solved == fault = "none" /\ Passes(Now.task, copy) /\ tampered = {}
        grade == GradeRun(Now.task, solved, failed)
        judged == [NoOutcome EXCEPT
            !.claimed = claim, !.judged = TRUE, !.fault = fault,
            !.right = copy[Now.task.target] = "right",
            !.fooled = Fooled(Now.task, copy, Paths(Now.task) \ Now.task.protected)]
    IN  [judged EXCEPT !.solved = solved, !.tampered = tampered # {},
                       !.total = grade.total, !.passed = grade.passed]

Command ==
    /\ At("command")
    /\ \E fault \in IF stopped THEN {"interrupt"} ELSE {"none", "unstarted", "late"},
          failed \in SUBSET Now.task.tests :
          /\ fault = "unstarted" => failed = {}
          /\ Record(Ended(fault, failed))

\* Aggregate, then `le eval results` and `le eval qualify` over the saved
\* outcomes.
Report ==
    /\ At("report")
    /\ LET results == [a \in ArmsIn |-> ArmResult(a)]
           evidence == EvidenceFrom
           unstable == Unstable
           compared == [c \in {d \in Range(Comparisons) : Has(d[1], d[2])} |->
                          [paired |-> PairArms(c[1], c[2]),
                           scores |-> PairScores(c[1], c[2]),
                           verdict |-> VerdictFor(c[1], c[2])]]
       IN  \E retention \in Retentions, complete, reproduced \in BOOLEAN :
              LET met == Qualify(evidence, complete, reproduced)
              IN  report' = [made |-> TRUE, arms |-> results, compared |-> compared,
                             retention |-> retention, unstable |-> unstable,
                             met |-> met, status |-> Status(met)]
    /\ Proceed("done")
    /\ UNCHANGED <<disk, arms, copy, before, attempt, claim, stopped, late, tampered, outcomes>>

EvNext ==
    \/ Load \/ Interrupt \/ Expire \/ Prepare \/ Unsupervised \/ Supervised
    \/ OutOfTime \/ Interrupted \/ SolverFault \/ Judge \/ Command \/ Report

EvSpec == EvInit /\ [][EvNext]_evvars

-----------------------------------------------------------------------------
(* Properties.                                                             *)

\* A number in a report is about judged runs.  A run counts exactly when the hidden
\* command judged the copy its solver left.  One counted as solved did the work, or
\* fooled the command through a file the task does not protect: whatever the solver
\* claims, no protected file helps it.  One counted as unsolved did not do the work,
\* or touched a protected file, or the command never gave its verdict: it timed out,
\* could not be started, or was killed by the operator's interrupt; the last two
\* count as failures of the system too.  A solve rate is over the arm's judged runs,
\* two arms are compared on exactly the tasks and passes both were judged on, also
\* when an arm is named twice, and the repeats gate is met only when every cell that
\* was judged at all was judged often enough.
RatesAreMeasured ==
    /\ \A i \in Runs : LET o == outcomes[i] IN
          /\ Evidence(o) <=> o.judged
          /\ o.solved => o.fault = "none" /\ (o.right \/ o.fooled)
          /\ Evidence(o) /\ ~ o.solved => ~ o.right \/ o.tampered \/ o.fault # "none"
    /\ report.made =>
          LET JudgedOf(a) == {i \in OfArm(a) : outcomes[i].judged}
              Keys(a) == {<<outcomes[i].task, outcomes[i].rep>> : i \in JudgedOf(a)}
          IN  /\ \A c \in DOMAIN report.compared : LET p == report.compared[c].paired IN
                    /\ p.variantOnly + p.baselineOnly + p.both + p.neither
                          = Cardinality(Keys(c[1]) \cap Keys(c[2]))
                    /\ report.arms[c[1]].solved.total = Cardinality(JudgedOf(c[1]))
              /\ "finalist_repeats" \in report.met =>
                    \A i \in Runs : outcomes[i].judged =>
                        Cardinality({j \in JudgedOf(outcomes[i].arm) :
                                        outcomes[j].task = outcomes[i].task}) >= Repeats
=============================================================================
