------------------------------ MODULE Recipes -------------------------------
(***************************************************************************)
(* One verification: the plan of recipes for a task's level, each run in   *)
(* the sandbox under its time limit, the declared steps a helper process   *)
(* of several phases that the limit kills between any two of them, what    *)
(* the commands write into the worktree, what the summarizers make of the  *)
(* tools' output, and the two contracts that read the results.             *)
(***************************************************************************)
EXTENDS Naturals, Sequences, FiniteSets, SequencesExt

CONSTANTS
    Tasks,          \* the tasks and their repositories: the level, whether the presets are
                    \* frozen, whether there is a go.mod, the steps that .le/verify.yaml
                    \* declares, the presets of .agent/verify.toml (<<>> for none), and the
                    \* manifests in the order of the walk
    Paths,          \* the paths that commands write
    Present,        \* those that are there when verification begins
    MaxTrouble,     \* how many recipes may end otherwise than clean
    MaxStrays       \* bound on the paths written where nobody cleans up, once each

VARIABLES
    task,      \* the task that is verified
    pc,
    plan,      \* the recipes to run
    results,   \* the results, and what was so: the truth of the check and the tree it saw
    tree,      \* the files in the worktree: 0 for none, else the content
    snap,      \* the outputs as the helper found them
    step,      \* what the helper knows so far: its status, and the truth of it
    live,      \* something that `up` brought up is running
    verdict,
    strays     \* the paths a command wrote that nothing puts back

rcvars == <<task, pc, plan, results, tree, snap, step, live, verdict, strays>>

\* The worktree as verification found it: the files that are there have content 1.
Found == [p \in Paths |-> IF p \in Present THEN 1 ELSE 0]

NoStep == [status |-> "none", truth |-> "none"]

RcInit ==
    /\ task \in Tasks
    /\ pc = "begin" /\ plan = <<>> /\ results = <<>> /\ tree = Found /\ snap = Found
    /\ step = NoStep /\ live = FALSE /\ verdict = "none" /\ strays = {}

-----------------------------------------------------------------------------
(* The plan *)

Kinds == {"build", "vet", "test", "race", "lint", "analyzer", "format", "generate", "integration",
          "custom"}

Includes(level) ==
    CASE level = "low" -> {"build"}
      [] level = "standard" -> {"build", "vet", "test", "format"}
      [] level = "high" -> Kinds

Required(level) ==
    CASE level = "low" -> {"build"}
      [] level = "standard" -> {"build", "vet", "test", "format"}
      [] level = "high" -> {"build", "vet", "test", "race", "format"}

\* The elements of a sequence at these positions, in order.
Chosen(s, positions) ==
    LET upto[n \in 0 .. Len(s)] ==
            IF n = 0 THEN <<>>
            ELSE IF n \in positions THEN Append(upto[n - 1], s[n]) ELSE upto[n - 1]
    IN upto[Len(s)]

\* AppliesTo: a recipe may need a go.mod, or a tool and its configuration.
Recipe(name, kind, tool, needs) == [name |-> name, kind |-> kind, tool |-> tool, needs |-> needs]

GoRecipes(level) ==
    LET all == << Recipe(<<"go_build">>, "build", "build", "gomod"),
                  Recipe(<<"go_vet">>, "vet", "vet", "gomod"),
                  Recipe(<<"go_test">>, "test", "test", "gomod"),
                  Recipe(<<"gofmt">>, "format", "gofmt", "gomod"),
                  Recipe(<<"go_race">>, "race", "race", "gomod"),
                  Recipe(<<"golangci">>, "lint", "golangci", "tool"),
                  Recipe(<<"semgrep">>, "analyzer", "semgrep", "tool") >>
    IN Chosen(all, {i \in DOMAIN all : all[i].kind \in Includes(level)})

MaxStepMinutes == 60

\* Declared.Validate: a step has a name of its own among its kind, a bounded time,
\* and a generator says what it writes.  A file that is not valid declares nothing.
Valid(d) ==
    /\ \A i \in DOMAIN d :
          /\ d[i].minutes <= MaxStepMinutes
          /\ d[i].kind = "generate" => d[i].outputs # {}
    /\ \A i, j \in DOMAIN d : (i # j /\ d[i].kind = d[j].kind) => d[i].name # d[j].name

\* DeclaredRecipes: a check is an analyzer; each is a run of the helper.
DeclaredRecipes(level, d, form) ==
    LET kind == IF form = "check" THEN "analyzer" ELSE form
        steps == Chosen(d, {i \in DOMAIN d : d[i].kind = form})
    IN IF ~Valid(d) \/ kind \notin Includes(level) THEN <<>>
       ELSE [i \in 1 .. Len(steps) |->
                [name |-> <<form, steps[i].name>>, kind |-> kind, tool |-> "declared",
                 needs |-> IF form = "check" THEN "tool" ELSE "none",
                 form |-> form, outputs |-> steps[i].outputs, up |-> steps[i].up,
                 down |-> steps[i].down]]

\* under: a directory is a sequence of names, and the root the empty one.
Under(dir, roots) == \E r \in roots : IsPrefix(r, dir)

\* The manifests in the order of the walk: a manifest below a root that was already
\* met adds nothing, and a root that is met later takes back what it covers.
RootsOf(walk, type) ==
    LET roots[k \in 0 .. Len(walk)] ==
            IF k = 0 THEN {}
            ELSE LET w == walk[k]  before == roots[k - 1] IN
                 IF w.type = type /\ w.workspace /\ ~Under(w.dir, before)
                 THEN before \cup {w.dir} ELSE before
    IN roots[Len(walk)]

\* The last pass over what the walk added: nothing below a root stays.
KeepsOutermost(w, roots) == ~\E r \in roots : r # w.dir /\ IsPrefix(r, w.dir)

\* The parser of a preset's output; go test runs with -json.
Parsers == {"generic", "build", "vet", "test_json", "gofmt"}

ParserOf(type, kind) ==
    IF type # "go" THEN "generic"
    ELSE CASE kind = "build" -> "build" [] kind = "vet" -> "vet" [] kind = "format" -> "gofmt"
           [] OTHER -> "test_json"

\* The manifests: one preset per script of those that count.
Discover(walk) ==
    LET added(k) == LET w == walk[k] IN
            w.type = "go" \/ ~Under(w.dir, RootsOf(SubSeq(walk, 1, k - 1), w.type))
        kept(k) == added(k) /\ (walk[k].type = "go"
                                \/ KeepsOutermost(walk[k], RootsOf(walk, walk[k].type)))
        found == Chosen(walk, {k \in DOMAIN walk : kept(k)})
    IN FlattenSeq([i \in 1 .. Len(found) |->
            LET w == found[i] IN
            [j \in 1 .. Len(w.scripts) |->
                Recipe(<<w.dir, w.type, w.scripts[j]>>, w.scripts[j],
                       ParserOf(w.type, w.scripts[j]), "none")]])

\* Preset.Validate, and no name twice.
ValidConfig(config) ==
    /\ \A i \in DOMAIN config : config[i].kind \in Kinds /\ config[i].tool \in Parsers
    /\ \A i, j \in DOMAIN config : i # j => config[i].name # config[j].name

\* DiscoverPresets and selectPresets: the declared commands, or those of the manifests.
Presets(level, config, walk) ==
    LET all == IF config # <<>> THEN config ELSE Discover(walk)
        selected(p) == p.kind \in Includes(level) \/ (level = "standard" /\ p.kind = "lint")
    IN Chosen(all, {i \in DOMAIN all : selected(all[i])})

\* The frozen presets, those that generate first.
Frozen ==
    LET all == Presets(task.level, task.config, task.walk)
        generates == {i \in DOMAIN all : all[i].kind = "generate"}
    IN Chosen(all, generates) \o Chosen(all, DOMAIN all \ generates)

\* The beginning of verify: the built-in recipes or the frozen presets; at the high
\* level the declared generators before them, the other declared steps after.  A
\* task without a preset, or with a file that is not valid, never comes here.
VerifyBegin ==
    LET level == task.level
        builtin == IF task.frozen THEN Frozen ELSE GoRecipes(level)
        declared(kind) == IF level = "high" THEN DeclaredRecipes(level, task.declared, kind)
                          ELSE <<>>
    IN
    /\ pc = "begin" /\ (task.frozen => builtin # <<>> /\ ValidConfig(task.config))
    /\ plan' = declared("generate") \o builtin \o declared("check") \o declared("integration")
    /\ pc' = "next"
    /\ UNCHANGED <<task, results, tree, snap, step, live, verdict, strays>>

-----------------------------------------------------------------------------
(* One recipe *)

Current == plan[Len(results) + 1]

Trouble == Cardinality({k \in DOMAIN results : results[k].truth # "clean"})

Result(r, status, truth, left) ==
    [name |-> r.name, kind |-> r.kind, status |-> status, truth |-> truth, saw |-> tree,
     left |-> left]

\* RunAll: a build that fails ends the run, and the rest is skipped.
Record(status, truth, left) ==
    LET done == Append(results, Result(Current, status, truth, left))
        rest == SubSeq(plan, Len(done) + 1, Len(plan))
    IN
    /\ results' = IF Current.kind = "build" /\ status = "fail"
                  THEN done \o [i \in DOMAIN rest |-> Result(rest[i], "skipped", "none", "none")]
                  ELSE done
    /\ pc' = "next"
    /\ step' = NoStep

\* A recipe that does not apply: no go.mod, no configuration, no tool.
Skip ==
    /\ pc = "next" /\ Len(results) < Len(plan) /\ Trouble < MaxTrouble
    /\ \/ Current.needs = "tool"
       \/ Current.needs = "gomod" /\ ~task.gomod
    /\ Record("skipped", "none", "none")
    /\ UNCHANGED <<task, plan, tree, snap, live, verdict, strays>>

\* The command starts: a tool, or the helper in the first of its phases.
Starts ==
    /\ pc = "next" /\ Len(results) < Len(plan)
    /\ Current.needs = "gomod" => task.gomod
    /\ pc' = IF Current.tool # "declared" THEN "tool"
             ELSE CASE Current.form = "generate" -> "snapshot"
                    [] Current.form = "integration" -> IF Current.up THEN "up" ELSE "test"
                    [] Current.form = "check" -> "test"
    /\ UNCHANGED <<task, plan, results, tree, snap, step, live, verdict, strays>>

\* A running command writes, creates or removes a file of the worktree, which it may
\* write everywhere; only a declared generator's outputs are somebody's to put back.
CommandWrites(path, content) ==
    LET cleaned == pc = "generate" /\ path \in Current.outputs IN
    /\ pc \in {"tool", "up", "test", "down", "generate"}
    /\ tree[path] # content
    /\ cleaned \/ (path \notin strays /\ Cardinality(strays) < MaxStrays)
    /\ tree' = [tree EXCEPT ![path] = content]
    /\ strays' = IF cleaned THEN strays ELSE strays \cup {path}
    /\ UNCHANGED <<task, pc, plan, results, snap, step, live, verdict>>

\* What the tools answer: the exit code and what the output holds.  An analyzer may
\* have findings and have failed on other files; output past the limit is cut, and
\* what is cut does not parse.
Emits(tool, truth) ==
    CASE truth = "clean" ->
            {<<0, "nothing">>}
                \cup (IF tool = "semgrep" THEN {<<0, "findings">>, <<0, "cut">>} ELSE {})
                \cup (IF tool \in {"golangci", "test_json"} THEN {<<0, "cut">>} ELSE {})
      [] truth = "problem" ->
            CASE tool = "gofmt" -> {<<0, "findings">>, <<2, "nothing">>}
              [] tool = "race" -> {<<1, "findings">>, <<0, "races">>}
              [] tool \in {"golangci", "semgrep"} ->
                    {<<1, "findings">>, <<1, "both">>, <<2, "both">>, <<1, "cut">>}
              [] tool = "test_json" -> {<<1, "findings">>, <<1, "nothing">>, <<1, "cut">>}
              [] OTHER -> {<<1, "findings">>, <<1, "nothing">>}
      [] truth = "none" ->
            {<<126, "nothing">>, <<127, "nothing">>}
                \cup (IF tool = "semgrep" THEN {<<0, "errors">>, <<2, "errors">>, <<2, "cut">>} ELSE {})
                \cup (IF tool = "golangci" THEN {<<3, "errors">>, <<3, "nothing">>, <<3, "cut">>} ELSE {})

(* The summarizers: a fault of the checking is an error and not a verdict. *)

Generic(exit) == IF exit = 0 THEN "pass" ELSE "fail"

\* go build, go vet and go test go by the exit code.
GoBuild(exit) == Generic(exit)

GoVet(exit) == Generic(exit)

GoTest(exit) == Generic(exit)

\* A race is the finding, even when the tests passed.
GoRace(exit, output) == IF output = "races" THEN "fail" ELSE GoTest(exit)

GofmtByExit(exit, output) == Generic(exit)

\* gofmt -l exits 0 either way: what it lists is the verdict.
Gofmt(exit, output) == IF output = "findings" THEN "fail" ELSE Generic(exit)

\* A test event too long to scan.
GoTestJSON(exit, output) == IF output = "cut" THEN "error" ELSE GoTest(exit)

\* Errors of the analyzer come before its findings.
Semgrep(exit, output) ==
    IF output \in {"errors", "both"} THEN "error"
    ELSE IF output = "nothing" THEN "pass" ELSE Generic(exit)

GolangciLint(exit, output) ==
    IF output = "cut" THEN Generic(exit)
    ELSE IF output \in {"errors", "both"} \/ (output = "nothing" /\ exit # 0) THEN "error"
    ELSE IF output = "nothing" THEN "pass" ELSE "fail"

Summarize(tool, exit, output) ==
    CASE tool = "build" -> GoBuild(exit)
      [] tool = "vet" -> GoVet(exit)
      [] tool = "test" -> GoTest(exit)
      [] tool = "test_json" -> GoTestJSON(exit, output)
      [] tool = "race" -> GoRace(exit, output)
      [] tool = "gofmt" -> Gofmt(exit, output)
      [] tool = "semgrep" -> Semgrep(exit, output)
      [] tool = "golangci" -> GolangciLint(exit, output)
      [] tool = "generic" -> Generic(exit)

\* Run: a command that could not be run says nothing of the code.
StatusOf(tool, exit, output) ==
    IF exit \in {126, 127} THEN "error" ELSE Summarize(tool, exit, output)

ToolEnds(truth, answer) ==
    /\ pc = "tool" /\ (truth = "clean" \/ Trouble < MaxTrouble)
    /\ answer \in Emits(Current.tool, truth)
    /\ Record(StatusOf(Current.tool, answer[1], answer[2]), truth, "none")
    /\ UNCHANGED <<task, plan, tree, snap, live, verdict, strays>>

\* The time limit of a recipe kills its command, a helper in whatever phase it is.
TimesOut ==
    /\ Trouble < MaxTrouble
    /\ pc \in {"tool", "up", "test", "down", "snapshot", "generate"}
    /\ Record("error", "none", "killed")
    /\ UNCHANGED <<task, plan, tree, snap, live, verdict, strays>>

\* RunAll stops before the next recipe when the run is cancelled, and verify then
\* fails to record what it has: there is no verdict.
Cancelled ==
    /\ pc = "next" /\ Len(results) < Len(plan)
    /\ pc' = "done"
    /\ UNCHANGED <<task, plan, results, tree, snap, step, live, verdict, strays>>

-----------------------------------------------------------------------------
(* verify-declared, the helper *)

\* `up`, which may fail and leave something behind all the same.
UpRuns(ok, left) ==
    /\ pc = "up" /\ (ok => left) /\ (ok \/ Trouble < MaxTrouble)
    /\ live' = (live \/ left)
    /\ step' = IF ok THEN step ELSE [status |-> "error", truth |-> "none"]
    /\ pc' = IF ok THEN "test" ELSE "down"
    /\ UNCHANGED <<task, plan, results, tree, snap, verdict, strays>>

\* The command of a check, or the test of an integration step.
StepTests(truth) ==
    LET status == CASE truth = "clean" -> "pass" [] truth = "problem" -> "fail" [] OTHER -> "error"
    IN
    /\ pc = "test" /\ (truth = "clean" \/ Trouble < MaxTrouble)
    /\ IF Current.form = "check"
       THEN Record(status, truth, "none")
       ELSE /\ step' = [status |-> status, truth |-> truth]
            /\ pc' = "down"
            /\ UNCHANGED results
    /\ UNCHANGED <<task, plan, tree, snap, live, verdict, strays>>

\* teardown, under a time of its own: without a `down` nothing is done, and one
\* that fails is a finding and not the verdict.
Teardown(ok) ==
    /\ pc = "down"
    /\ live' = (live /\ ~(Current.down /\ ok))
    /\ Record(step.status, step.truth,
              IF ~Current.down THEN "no_down" ELSE IF ok THEN "none" ELSE "down_failed")
    /\ UNCHANGED <<task, plan, tree, snap, verdict, strays>>

Snapshot(ok) ==
    /\ pc = "snapshot" /\ (ok \/ Trouble < MaxTrouble)
    /\ IF ok THEN /\ snap' = tree
                  /\ pc' = "generate"
                  /\ UNCHANGED <<results, step>>
       ELSE /\ Record("error", "none", "none")
            /\ UNCHANGED snap
    /\ UNCHANGED <<task, plan, tree, live, verdict, strays>>

Rewritten(outputs) ==
    [p \in Paths |-> IF p \in outputs /\ snap[p] # 0 THEN snap[p] ELSE tree[p]]

\* restore: what was created goes, then what was there is written back.
Restored(outputs) == [p \in Paths |-> IF p \in outputs THEN snap[p] ELSE tree[p]]

\* diffSnapshots, of the outputs.
Differs == \E p \in Current.outputs : tree[p] # snap[p]

\* The generator ran: compare, and put the outputs back.  A restore that fails
\* after some of them is a verdict.
GeneratorEnds(ok) ==
    /\ pc = "generate" /\ ((ok /\ ~Differs) \/ Trouble < MaxTrouble)
    /\ IF ok THEN /\ tree' = Restored(Current.outputs)
                  /\ Record(IF Differs THEN "fail" ELSE "pass",
                            IF Differs THEN "problem" ELSE "clean", "none")
       ELSE \E back \in SUBSET Current.outputs :
            /\ back # Current.outputs
            /\ tree' = Restored(back)
            /\ Record("fail", "none", "not_restored")
    /\ UNCHANGED <<task, plan, snap, live, verdict, strays>>

\* The generator could not run, or failed partway: what can be put back is put
\* back, and whether that worked is not looked at.
GeneratorFails(ok) ==
    /\ pc = "generate" /\ Trouble < MaxTrouble
    /\ \E back \in SUBSET Current.outputs :
          /\ ok <=> back = Current.outputs
          /\ tree' = Restored(back)
    /\ Record("error", "none", IF ok THEN "none" ELSE "unseen")
    /\ UNCHANGED <<task, plan, snap, live, verdict, strays>>

-----------------------------------------------------------------------------
(* The contracts *)

Rank == [pass |-> 0, skipped |-> 1, error |-> 2, fail |-> 3]

AnyOfKind(kind) ==
    LET of == {results[k].status : k \in {k \in DOMAIN results : results[k].kind = kind}}
    IN IF of = {} THEN "none" ELSE CHOOSE s \in of : \A t \in of : Rank[s] <= Rank[t]

\* The worst result of a kind stands for it.
WorstOfKind(kind) ==
    LET of == {results[k].status : k \in {k \in DOMAIN results : results[k].kind = kind}}
    IN IF of = {} THEN "none" ELSE CHOOSE s \in of : \A t \in of : Rank[t] <= Rank[s]

\* Accept: every required kind has passed, no check that ran has failed, nothing
\* changed outside the scope, and the task changed something.
Accept(inScope, made) ==
    /\ made /\ inScope
    /\ \A kind \in Required(task.level) : WorstOfKind(kind) = "pass"
    /\ \A kind \in Kinds : WorstOfKind(kind) # "fail"

\* CheckPresets: every preset has passed, the last result of its name counting.
CheckPresets(presets) ==
    /\ presets # <<>>
    /\ \A i \in DOMAIN presets :
          LET of == {k \in DOMAIN results : results[k].name = presets[i].name} IN
          of # {} /\ results[CHOOSE k \in of : \A j \in of : j <= k].status = "pass"

\* What the runner decides: the completion contract, or with frozen presets that
\* every one passed and nothing that ran failed or could not run.
Decide(inScope, made) ==
    LET contract ==
            IF task.frozen
            THEN /\ CheckPresets(Frozen) /\ inScope /\ made
                 /\ \A k \in DOMAIN results : results[k].status \notin {"fail", "error"}
            ELSE Accept(inScope, made)
    IN
    /\ pc = "next" /\ Len(results) = Len(plan)
    /\ verdict' = IF contract THEN "accepted" ELSE "refused"
    /\ pc' = "done"
    /\ UNCHANGED <<task, plan, results, tree, snap, step, live, strays>>

RcNext ==
    \/ VerifyBegin \/ Skip \/ Starts \/ TimesOut \/ Cancelled
    \/ \E truth \in {"clean", "problem", "none"} :
          \/ StepTests(truth)
          \/ \E exit \in {0, 1, 2, 3, 126, 127},
                output \in {"nothing", "findings", "races", "errors", "both", "cut"} :
                ToolEnds(truth, <<exit, output>>)
    \/ \E ok \in BOOLEAN :
          \/ Teardown(ok) \/ Snapshot(ok) \/ GeneratorEnds(ok) \/ GeneratorFails(ok)
          \/ \E left \in BOOLEAN : UpRuns(ok, left)
    \/ \E path \in Paths, content \in 0 .. 2 : CommandWrites(path, content)
    \/ \E inScope, made \in BOOLEAN : Decide(inScope, made)

RcSpec == RcInit /\ [][RcNext]_rcvars

-----------------------------------------------------------------------------
\* What a verification leaves behind has one of these causes.  A file that is not as
\* it was found was written where nothing cleans up, by a tool, a preset or a
\* generator outside its outputs; or a declared generator's result is an error,
\* of its time limit or its failure, or fails for what it could not put back: one
\* whose result is a verdict has put every output back, also after other
\* generators and commands.  What `up` brought up is gone, or its step was killed,
\* has no `down` or says that it failed.
LeftIsReported ==
    pc \in {"next", "done"} =>
        /\ \A p \in Paths : tree[p] = Found[p] \/ p \in strays \/ \E k \in DOMAIN results :
                results[k].kind = "generate" /\ results[k].left \in {"killed", "unseen", "not_restored"}
        /\ live => \E k \in DOMAIN results :
                results[k].kind = "integration" /\ results[k].left \in {"killed", "down_failed", "no_down"}

\* An accepted candidate was checked.  By the completion contract each kind its level
\* requires was looked at in full and is clean, and a problem that any other check
\* found went with an error of that check, which the contract does not count; with
\* frozen presets everything that ran is clean.  And what the checks saw is the
\* worktree as it was found but for what a command wrote into it, or, without
\* presets, what a generator's limit or failure left.
AcceptedIsChecked ==
    verdict = "accepted" =>
        /\ \A kind \in Required(task.level) : task.frozen \/
              /\ \E k \in DOMAIN results : results[k].kind = kind
              /\ \A k \in DOMAIN results : results[k].kind = kind => results[k].truth = "clean"
        /\ \A k \in DOMAIN results :
              /\ results[k].truth = "problem" => ~task.frozen /\ results[k].status = "error"
              /\ (task.frozen /\ results[k].status # "skipped") => results[k].truth = "clean"
              /\ results[k].kind = "generate" \/ \A p \in Paths :
                    \/ results[k].saw[p] = Found[p] \/ p \in strays
                    \/ ~task.frozen /\ \E j \in DOMAIN results :
                          results[j].kind = "generate" /\ results[j].left \in {"killed", "unseen"}

\* "The worktree is restored exactly as it was found" and teardown is guaranteed,
\* "because the moment you most need teardown is when the step timed out": declared
\* steps that write nothing but their outputs leave neither a generated file nor a
\* running service, unless a step says that its own cleaning up failed or is not
\* declared.
LeavesAsFound ==
    pc = "done" =>
        /\ \/ tree = Found \/ strays # {}
           \/ \E k \in DOMAIN results : results[k].left = "not_restored"
        /\ live => \E k \in DOMAIN results : results[k].left \in {"down_failed", "no_down"}
=============================================================================
