# A TLA+ model of local-engineer

local-engineer (`le`) supervises a language model that edits a repository. A
supervisor owns the control flow: it creates an isolated checkout per task,
walks the task through a fixed sequence of phases, lets a model edit files in
one of them, runs checks, asks for an independent review and a person's
approval, and commits. The model never decides that a task is done. Every
process may be killed at any moment and the next one continues from what SQLite,
git and the file system say.

This directory models that supervisor: what may reach the task branch, what a
crash may lose, who may write a checkout, which answers count, what ends; and
the parts around it: storage, index, impact, context, recipes, models, language
servers, proxy, memory, the supervised tools and the evaluation harness.

## Inventory

| Part | State it keeps | Operations | Talks to | What is hard | What makes it correct |
|---|---|---|---|---|---|
| phase machine (`task/phases.go`, `workflow/`) | `task_workflow` row: phase, candidate, budgets, EDIT transcript, results, verdict, final candidate | one handler per phase, `move`, `stop`, `Reopen` | worktree, broker, ledger, engine, recipes | crash between two effects, deadline inside a handler, stale candidate, loops with back edges | only verified, reviewed and approved content is committed; a recorded charge is never taken back; every run returns |
| runner (`task/runner.go`) | task state, lease, worktree | `Run`, `step`, `verify`, `finish`, `gate`, `cleanup` | ledger lease, worktree, broker | two processes, crash recovery, resume | one writer per checkout; a terminal task never runs |
| task store and plan (`task/task.go`, `task/plan.go`, `task/candidates.go`) | tasks, dependencies | `Create`, `SetState`, `Reopen`, `Materialise`, `AddDependency`, `Blockers`, `Rank` | runner, CLI | dependency cycles, partly created plans | blocked tasks are exactly those with an unfinished dependency |
| ledger (`ledger/`) | operations with intent and outcome, checkpoints, leases, evidence | `Begin`, `Complete`, `Fail`, `Interrupted`, `AcquireLease`, `RenewLease`, `ReleaseLease`, `Recover` | everything that has an effect | crash between intent and outcome, lease expiry | every started effect is accounted for; a live lease is never stolen |
| approval broker (`broker/`) | gates with decision, expiry and content | `Ask`, `Decide`, `Pending` | runner, CLI | ask and answer in different processes, expiry, re-asking | an answer given is never lost or transferred to other content |
| worktree (`worktree/`) | branch, base, checkout | `Create`, `Open`, `Commit`, `Reset`, `Rebase`, `SyncFrom`, `Remove` | git | base moves on resume | the diff of a task is all of its work |
| native engine (`engine/native/`) | the transcript of the tool loop | `Step`, `reconcile`, `exec`, `authorize` | model provider, ledger, checkout | crash inside a batch of tool calls | a tool call is never executed twice, and never forgotten |
| recipes (`recipe/`) | frozen presets, declared checks | `RunAll`, `CheckPresets`, declared runs | sandbox | teardown after failure, timeouts | skipped is not passed |
| supervisor, process manager (`supervisor/`, `procman/`) | children, restarts, state | start, probe, restart with backoff, shutdown | OS processes | races of exit, probe and stop | orderly shutdown, no child left behind |
| model access (`llm/`, `models/`, `config/`) | loaded model, router slots | chat, route, load, unload | llama-server | concurrent requests during a switch | no request reaches an unloaded model |
| index and retrieval (`index/`, `graph/`, `retrieval/`, `scipindex/`, `treesitter/`, `lsp/`, `analyzers/`) | SQLite graph, watcher queue, language servers | refresh, watch, impact, expand | file system | stale index, restarts of servers | a refreshed index reflects the tree |
| memory and context (`memory/`, `contextpack/`, `critic/`) | lessons, prefix, log | append, compact, render | engine | prefix stability, caps | the frozen prefix never changes |
| sandbox, policy, firewall, proxy (`sandbox/`, `policy/`, `firewall/`, `proxy/`, `trust/`) | rules | check, confine, allow | every subprocess | precedence of rules | nothing protected is written |
| storage (`store/`, `workspace/`, `session/`, `artifacts/`, `cache/`) | databases, migrations, pins | open, migrate, bind | all | half-applied migrations, two workspaces | isolation of workspaces |
| front ends (`cmd/le`, `api/`, `mcp/`, `acp/`, `opencode/`, `doctor/`, `telemetry/`, `eval/`) | little of their own | commands, tools, bridges | all of the above | bridged connections | they add no state of their own |

## Modules

Five modules model the core: four of them the path a change takes from a model's tool call to the task
branch, and one the children the supervisor keeps running beside it. Each covers
one concern in full detail and stands for the others by the one fact it needs of
them. Twelve more model one component each.

| Module | Code | Stands for the rest by |
|---|---|---|
| `Phases` | `task/phases.go`, `task/workflow_store.go`, the parts of `Runner` and `Store` they call | EDIT is a transcript with a number of tool calls; a gate is a decision per content |
| `Broker` | `broker/broker.go`, `broker/storage.go` | a caller is a process that asks about one content |
| `Runs` | `task/runner.go` around the work, `ledger/lease.go`, `worktree/`, `Store.Reopen`, `Store.Blockers` | the work itself is one action with any ending |
| `ToolLoop` | `engine/native/native.go`, `engine/native/reconcile.go`, the journal calls it makes in `ledger/` | a worktree is what its manifest tells apart |
| `ToolSession` | the promise of `reconcile` and of the Step comment, as an abstract specification | nothing: it has no process, no crash and no journal |
| `Procman` | `procman/procman.go`, `registerChildren` in `cmd/le/api.go` | a child is a process that may be healthy, die, or ignore a signal |
| `Attempts` | the unphased loop of `task/runner.go`, `ledger/ledger.go`, `ledger/recover.go`, `le task recover` | a content is a number; an engine's edit is a change of it |
| `Recipes` | `recipe/`, `le verify-declared`, the completion contracts of `task/` | a command is the truth about the code, an exit status and a kind of output |
| `Context` | `task/pack.go`, `contextpack/`, `retrieval/`, the cards | a slice, a note or a declaration is its cost and where it comes from |
| `Impact` | `graph/traverse.go`, `graph/impact.go` | a graph is a set of edges with kind and rank of evidence |
| `Index` | `index/`, `cache/`, the three callers (`le index`, `le_reindex`, the runner's refresh) | a file is its version, an analyzer a layer of nodes |
| `Storage` | `store/`, `session/`, `le backup`, `le restore` | a database is its migrations, its stamp and its origin |
| `Supervise` | `supervisor/lifecycle.go`, `mcp/supervise.go`, `mcp/edit.go`, `firewall/access.go` | the tree is one content, a path its target |
| `Memory` | `memory/`, `le memory`, `le lessons` | a text is where and when it was first written |
| `Models` | `llm/managed.go`, `llm/router.go` | a model is the configuration it was loaded from |
| `Lsp` | `lsp/` | a message is an id and a kind |
| `Lanes` | `proxy/`, `acp/bridge.go`, their start in `cmd/le/api.go` | a host is its labels |
| `Eval` | `eval/`, `le eval` | a file is what was done to it; a judge's command sees it |

Each `MC*` module gives the constants of one of them values that a `.cfg` file
cannot write. Eight `*Proofs` modules hold the theorems; five of them cover
several components (see Proofs).
`MCComponents` instantiates the twelve component modules, `Broker` and `Runs` side
by side: the initial state chooses the component that moves, so their state spaces
add instead of multiplying, and one run checks them all. Seven of them are there in
two instances, where one that reaches everything would be too large. They share no state in the
models; where the code makes one call another, the caller's module takes the
result as an input with every value the callee may give. An operator whose
comment calls it a faulty variant is there for a mutant run only.

### Phases: one task through its phases

State. `mem` is the `workflow.State` in the process, `saved` the `task_workflow`
row, `task` the state column, `checkpoint` the status in the latest ledger
checkpoint, `tree` and `branch` the contents of the checkout and of the branch
tip, `gates` the answer about applying each content. A content stands for its
manifest hash, so a candidate *is* a content. `pc` is where the process is.

Actions. Every phase handler of `runPhases` is split exactly where a durable
effect has happened that `saved` does not show yet: the planning call before the
save that follows it (`Decide`, then `Localized`, `Impact`, `PlanAccepted`,
`PlanRejected`), the tool call between its intent and its record
(`EngineIntend`, `EngineApply`, `EngineRecord`), the checks before the judgement
(`VerifyRun`, `VerifyRerun`, then `JudgeAccepts` or `JudgeRejects`), the card
before the final candidate (`FinalizeCard`, `FinalizeCandidate`), the gate, the
second candidate check and the commit (`FinalizeGate`, `FinalizeCheck`,
`FinalizeCommit`). `Move` and `SaveAndContinue` are the two ways a handler saves,
`StopWith`, `StopSave`, `FinishCheckpoint` and `FinishSetState` the three writes
of a run that stops, in the order the code makes them. `Crash` loses `mem` at any
point; an infrastructure error returned by a handler has the same durable effect
and is the same action. `Drift` is another person or process editing the
checkout, `DeadlinePasses` the wall-clock context ending inside a handler, and
`Reopen` is `le task retry`.

### Broker: asking and answering

`Ask` is four actions: look for an answer to exactly this content (`AskRead`),
journal (`AskBegin`), upsert the gate (`AskSave`), return (`AskDone`). `Decide`
is `DecideGet`, `DecideSave`, `DecideFind`, `DecideComplete`; expiry in
`Pending` is a `Decide` with the answer "expired" once `Expires` is true. Every
one of these is a transaction in the code and nothing spans two of them, so any
two calls interleave there and either process may die there. `given` is a
history variable: the answers people have really saved.

### Runs: which process may work where

One process walks `RunGet`, `RunBlockers`, `RunOpen`, `AcquireLease`, `RunBegin`,
`RunWork`, `RunReset`, `RunFinalize`, `RunCommit`, `RunFinish`, `CleanupCommit`,
`CleanupRemove`, `ReleaseLease`, or leaves early through `RunBlock` and `RunFails`;
`ReopenGet` and `ReopenSet` are the read and the write of `Store.Reopen`. `RunReset`
is `Worktree.Reset`, with which VERIFY discards the uncommitted work of a phased task;
`RunFinalize` is FINALIZE's save of its candidate (`decided`). Time is the number of
ticks a lease still has to run, kept in the table and by its holder, so that there is
no clock to bound; it passes whatever a process does, as nothing renews a lease. A
process that dies comes back under another pid: its lease stays in the table, held by
nobody, until it expires. `overlap` is a history variable: the tasks that two
processes were at work on at once.

### ToolLoop and ToolSession: an EDIT attempt

`ToolLoop` is `Engine.Step` with its transcript (`saved`, `mem`), the ledger's
operations (`journal`) and what tools really did (`runs`, a history variable).
`Enter` starts or resumes, `Reconcile` applies the journal to a pending batch,
`Open` saves a fresh transcript, `Chat` is an answer with tool calls, `Conclude`
and `Abandon` are the answers and limits that close the transcript, `Skip` is a
call that exceeds a limit, `Intend`, `Begin`, `Execute`, `Complete`, `Record`
are the five effects of one call in the order the code has them, `Stuck` and
`Stop` are the error returns. A call is named by the step that asked for it and
its place in the batch. The journal is searched by session, step, call id and
arguments; the model assumes that a provider's call ids are distinct in a batch.

`ToolSession` is what a transcript promises to whoever reads it: a call runs at
most once and only after it is on record, an answer is given only once and says
what happened, a new batch needs every older call answered, and nothing follows
a closed transcript. `ToolLoop!Session` maps a saved transcript to it.

### Procman: the supervisor's children

One goroutine per child walks `supervise` and `runOnce`; `loop` is where it is.
`LoopTop` counts the starts still in the window and gives up or starts, `Launch`
and `Publish` are the start of the process and the moment `Stop` can see it,
`ReadyProbe` and `ReadyFails` are the outcomes of `waitReady`, `WatchCancelled`,
`WatchExit` and `WatchProbe` the cases of the watching select, `SignalChild`,
`GraceEnds` and `Drain` the stop of a loop's own child. `Exit` and `ContextKill`
belong to the process and to `exec.CommandContext`. `Stop` runs in another
goroutine: it cancels, then signals, waits for and kills each child in turn while
the loops do the same. `done` is the one-element channel that `cmd.Wait` reports
to, kept because who receives from it is where the code is wrong.

### Attempts: the unphased loop and recovery

`repo` and `wt` are the repository and the task's checkout, `ops` the journal,
`evidence` the evidence row, `check` the checkpoint, `gates` the answers, `run`
the process. `RunBegin`, `Sync` or `Rebase`, `Started`, `StepBegin`, `EngineEdit`, `StepEnds` or `StepFails`,
`VerifyBegin`, `RunChecks`, `RecordEvidence`, `VerifyEnds`, `Decide`, the gates,
`Checkpoint`, `SetState` and `Cleanup` are the writes in the order of the code;
`OutOfTime`, `OutOfTokens` and `OutOfAttempts` are the budgets, `Expire` is the
deadline and `Crash` the end of the process at any of them.
`Drifted`, `Stale`, `UncertainOps` and `NextAction` are what `RecoverTask` makes
of what is left.

### Recipes: what a verification runs and leaves

`VerifyBegin` builds the list of recipes: the frozen presets (`.agent/verify.toml` or
what `Discover` finds in the manifests, generate presets first) or the built-in ones
of the level, and the declared steps. Each is skipped, or it starts (`Starts`) and is
run by its tool (`ToolEnds`, with `Summarize` and `StatusOf` for the parser of that
tool) or by the helper: `UpRuns`, `StepTests`, `Teardown` for an integration step,
`Snapshot`, `GeneratorEnds` or `GeneratorFails` for a generator. Whatever runs may
write: `CommandWrites` puts a declared output or a stray file into the worktree, of
which the helper restores the outputs of its own generator and nothing else.
`TimesOut` kills what runs, `Cancelled` ends the list. A tool may emit findings and
errors together, which its parser makes an error; `Decide` is the completion
contract, frozen or by level.

### Context: what a call sends

`Start`, `Intake`, `TaskFence`, `Localize`, `Impact`, `Planning`, `PlanRejected`,
`EditPhase` and `Review` are the places that build a prompt or a packet; the step
reached within LOCALIZE is in memory only; `row` is the stored workflow and
`mem` the one in the process, so that `Killed` loses what was not saved. `Packed`
fills a packet in the order of the code: notes, what impact demands, named
symbols and hits, then what the graph reaches, each within its share.

### Impact: who depends on a change

One traversal, hop by hop and batch by batch (`HopBegin`, `BatchBegin`,
`FetchRow`, `RowsEnd`, `HopEnd`), with the cap on nodes and the cap on rows
(`HopCut`); `BuildImpact` classifies and sorts. It is compared with a reference
definition over all paths of the graph.

### Index: one pass is many reads

A pass is `Walk`, `ClearGraph`, `WriteTree`, `WriteChunks`, one `Analyze` or
`AnalyzeCached` per analyzer, `WriteNodes`, `WriteEdges`, `RecordIndexKey`, each
a transaction of its own; `Abandon` ends it anywhere. The watcher is
`WatchBegin`, `Flush`, `WatchEnd`, and `Edit` is everybody else. A file belongs to
every repository whose directory it is under and is marked for the innermost one
(`RepositoryFor`); a pass may walk another directory than the repository's own, as
`le_reindex` and the runner's refresh do. `hole` is a history variable: how a change
escaped the mark.

### Storage: databases of a workspace

A session walks `Open`, then `OpenDB`, `BackupBeforeMigrating`, `Migrate`,
`VerifyStamp` per database, `SwitchTo` and the three writes of `workspace.json`.
`Backup`, `RestoreBegin`, `RestoreFile`, `RestoreCopy` and `RestoreNext` are the
commands: a restore goes file by file, skips one its backup does not have, empties the
file and then writes it. `Crash` between these leaves some files of the backup and
some of before, one of them cut short or empty; an empty file is a new database to the
next open.

### Supervise, Memory, Models, Lsp, Lanes

`Supervise`: overlapping tool calls on a supervised task, each split at its
reads and writes, and cut off anywhere (`Abandon`), while links are moved
(`Relink`). `Memory`: processes that read, change and replace the notes of a
repository without a lock, and carry them to another; they share one temporary file,
which is emptied (`WriteTmp`), written (`WriteBody`), or written where another process
has renamed it to (`WriteInPlace`, `WriteLost`), and renamed; `torn` says which files
hold half of something. `Models`: `Acquire`, `Reuse` or `Unload`, `Probe`, `Launch`,
`Healthy`, `Send`, `Leave` of the calls that share the one process slot, with
servers that load, die and race other programs for the port. `Lsp`: `For`,
`Started`, `Call`, `Write`, `Written`, `Deregister`, `Receive` or `Timeout` of the
callers against `Lookup`, `Deliver` and `ReadEnds` of the receive loop; a write keeps
the client's lock while the pipe is full, and the loop also ends on a frame it cannot
read from a server that lives. `Lanes`: `Connect`, `Checked`, `Admit`, `Dial`,
`HalfClose`, `Finish` of a tunnel and `Accept`, `StartAgent`, `EndSession`, `Reaped`,
`Leave` of an editor's session; what is checked is host, port and rule.

### Eval: how a number comes about

`Load` validates the task set, `Prepare` copies a fixture, `Unsupervised` and
`Supervised` are the solvers' attempts, `OutOfTime`, `Interrupted` and
`SolverFault` their other ends, `Judge` and `Command` the verdict on the copy (a
command that cannot start, is late or is interrupted gives one, too: unsolved),
`Expire` and `Interrupt` the deadline and the operator at any moment, `Report` the aggregation with pairing, the exact sign test, the ladder and the
qualification.

## Runs

The states counted are distinct states; each passing run ends well within the
five minutes of a laptop.

| Run | Question | Bounds | Result |
|---|---|---|---|
| `phases_drift` | is what is committed what was verified and approved, and is a recorded charge ever taken back, with crashes everywhere, deadlines, retries and edits from outside? | two attempts, one tool call, two contents with and without the card, edits anywhere but in the three windows | holds |
| `phases_solo` | with a generator and nobody else in the checkout: is what is committed what was reviewed, does a resumed EDIT ever mistake its own writes for somebody else's, does every run return? | two attempts, so that VERIFY and REVIEW go back to EDIT, PLAN and LOCALIZE; three contents, crashes everywhere | holds |
| `phases_verdict` | is a verdict ever applied to drifted code? | edits between phases only | violated, finding |
| `phases_generator` | is a generator's rewrite taken for an edit from outside? | no crash, no edit from outside | violated, finding |
| `broker_overlap` | does an answer stand once it is given? | one asker, one person, one content | violated, finding |
| `runs_long` | do two instances ever write one worktree? | one task, two processes, leases of one tick | violated, finding |
| `runs_stale` | is an accepted task final? | one task, two processes | violated, finding |
| `toolloop` | is every call executed at most once and answered truthfully through any interruption, do the budgets hold, does an attempt end? | three questions, four calls, batches of two, three faults, one edit from outside, two trees | holds (317,864 states) |
| `procman` | are children doubled or left behind, is readiness reported for one that is down, do the loops end, is a dead child started again? | two children, one probed, two starts per window | holds (47,800 states) |
| `procman_early` | is a child restarted whenever it dies? | one probed child | violated, finding |
| `components` | twenty-one properties of fourteen components, below | one or two instances per component, below | holds (4.3 million states) |
| `recipes_timeout` | does verification leave the worktree as it found it and nothing running? | one task with a service and a generator, one thing wrong, commands that write only where they may | violated, finding |

`components` asks of each part the question its hazards raise:

| Property | Says | Instance |
|---|---|---|
| `GatesTyped` | whoever is about to open or answer a gate works on an operation in the journal | one asker, two that answer or expire, two contents, two journalled questions |
| `ApprovalIsAPersons` | an approval that is reported was given by a person for exactly this content | the same |
| `JournalledFirst` | no gate waits that the journal does not know | the same |
| `ClosedAsGiven` | the journal closes a gate only with an answer that was saved | the same |
| `LeaseIsHeld` | a process whose lease has not run out is its holder in the table | two processes on one task with leases of two ticks; one process on two tasks, one depending on the other |
| `OneWriterInTime` | of two processes on one worktree the lease of one has run out | the same |
| `WorkIsKept` | the work of a phased task that never had two processes at once is discarded only before a candidate is decided, in a checkout that stays; after that it leaves for the branch and stays there | the same |
| `SchemasSound` | each database has had its migrations once and in order, an older one was copied first, no store is handed out at another version, with another stamp or visibly damaged | two sessions, two databases of two versions, one foreign backup, crashes between and within the files of a restore |
| `StaleIsExplained` | a clean key means the graph of the files, or one of nine known gaps | two files of which the watcher ignores one, two analyzers, one edit; a repository inside another, one analyzer |
| `LiveLayerServes` | a late answer never wedges the receive loop; an empty success means that this loop has ended; no server outlives the pool | two callers, two launches, one request of the server's own |
| `OneModel` | one managed process at a time, and each request at its own model | two calls, three providers of two configurations, three launches |
| `PlacesKept` | places are neither lost nor given twice; bytes flow only where a rule and the journal say so | two connections and an editor, an allowed and another port; one connection and two editors; limits of one |
| `AcceptedOnEvidence` | the newest verification on record decides, not the agent; `le_edit` stays in scope through links as they were judged | two calls at once, two verifications; links that move, one verification |
| `NotesKept` | a file is unreadable only after an overlap; ids unique, cap kept, sources kept; a note is lost only for a known reason | two repositories, two writers, cap of two |
| `DecidedOnEvidence` | what a dead run leaves is uncertain or on record; accepted means passed on that candidate | one attempt, three operations, one edit from outside; two attempts |
| `ImpactIsWhole` | the list of consumers is whole, or says it was cut | 382 graphs of up to nine edges, three hops, caps of three and six |
| `LeftIsReported` | a generated file or a service left behind is in a result, unless a command wrote where nothing cleans up | eleven tasks with one thing wrong; one with two; one stray write |
| `AcceptedIsChecked` | what the contracts accept was looked at by every required kind; a problem another check found went with an error the contract does not count | the same: three levels, two layouts of manifests, presets of a file |
| `RatesAreMeasured` | a rate counts judged runs, each for what it did or for a command that gave no verdict | three task sets, no arm and two pairs of arms, one of them named twice; two passes of a bare task |
| `PrefixFrozen` | every call of a task sends the prefix of its first | one change of the index, a plan made again, a review, crashes |
| `ConsumersArrive` | no consumer is lost to the packet's budget | budgets that not everything fits |

The properties that name exceptions (`StaleIsExplained`, `NotesKept`,
`LeftIsReported`, `AcceptedIsChecked`, `RatesAreMeasured`, `ImpactIsWhole`) name those
the code has. They are lists of
known gaps rather than approvals of them: a further gap violates the property.

Some configurations belong to no run of `PROJECT.json`. Each checks one sentence
of the repository that the model contradicts, for whoever wants the trace:

| Configuration (module) | Sentence | What the trace shows |
|---|---|---|
| `IndexReindex.cfg` (`MCIndex`) | `le_reindex`: "Re-analyse the repository so the index matches the working tree" (`docs/reference/cli.md:409`) | it builds its indexer with no analyzers (`mcp/tools.go:285`): the graph is cleared, only the file layer comes back, and the key is clean |
| `StorageStamp.cfg` (`MCStorage`) | "a database file may only ever be opened as the workspace that created it" (`store/migrate.go`) | migrating an older file of another workspace stamps it with this one's id before the stamp is verified |
| `AttemptsRecover.cfg` (`Attempts`) | recover will "reconcile the worktree against the last completed operation" (`cmd/le/task.go`) | it compares with the repository root, although the work is in the task's checkout |
| `AttemptsRemoved.cfg` (`Attempts`) | work that is not accepted keeps its checkout (`task/runner.go:332`) | the deadline passes before the state is written; the checkout goes, the task stays running |
| `SuperviseStale.cfg` (`MCSupervise`) | "every result is tied to the exact content hash it describes" (`mcp/supervise.go`) | a task is finished VERIFIED over a tree edited since its verification |

Why these bounds reach the interesting cases. Two attempts are the fewest with
a repair after a failed check and the exhaustion of the repairs. One tool call
per transcript still has the three places where a crash can separate an effect
from its record. Two contents are what "the same as before" and "changed"
need; a third is the generator's output. In `toolloop` every limit is smaller
than what the batches may ask for, so each is hit by some behaviour, and three
faults allow a resumption to be interrupted twice. Two processes are enough for
every race of `Runs`, whose steps involve one process and one row; the theorems
take over for more.

The three windows of `phases_drift` are the points where a handler relies on a
candidate it computed earlier: between the top of the loop and the handler,
between writing the card and hashing it, inside `git commit`. An edit inside
them is invisible to the code by design; everywhere else the run allows it.

`CHECK_DEADLOCK FALSE` stands in the configurations of `Phases`, `Runs`,
`ToolLoop`, `Procman`, `Recipes` and the components: a task that is accepted, a
transcript that is refused, a supervisor that has shut down, an evaluation that has
reported leave nothing to do.

## Fairness

Three models use fairness. In `phases_solo` a process that is inside a run takes its
next step or, when its deadline has passed, gives up: that is a goroutine that
is scheduled and a context that its callers watch. Nothing forces anybody to
start, to answer a gate or to retry, so `RunReturns` says only that a run that
has begun comes back. In `toolloop` fairness is on `Engine.Step` including its
re-entry: somebody retries a task that was stopped. That is not a promise of the
code, and it is what "the attempt ends" has to assume; crashes, provider errors
and failed writes are bounded by `MaxFaults`, so that they cannot go on for ever. In
`procman` every goroutine that can go on does, a select takes a case that stays
ready, and a process that was sent SIGKILL dies; no child has to become healthy,
to obey a signal or to fail.

## Proofs

All theorems hold for every value of the constants that satisfies the named
assumptions, in particular for any number of processes, tasks, contents,
attempts, tool calls and faults. `PhasesProofs`, `BrokerProofs` and
`ToolLoopProofs` are about one module each; `RunsProofs` is about `Runs` and `Eval`,
`TaskProofs` about `Attempts`, `Context`, `Impact` and `Memory`, `ExecutionProofs`
about `Models` and `Recipes`, `ServingProofs` about `Lanes`, `Supervise` and `Lsp`,
`WorkspaceProofs` about `Procman`, `Index` and `Storage`.
The run `components` checks a property `P` of a component as `part = ... => P`,
because one component moves at a time there; the theorem is about `P` and the
component's own specification.

**Phases.**

- `TypeCorrect`. The type invariant carries two facts beyond types: a rerun of the
  checks still has a verify loop to spend, and a stopping run has a state to
  record.
- `ApprovalPrecedesCommit`: whatever crashes and edits happen, what is on the
  branch was approved as exactly this content, unless somebody edits inside the
  commit. `CommittedIsApproved` is not inductive: between the answer and the
  commit the run must still hold the approved content. `ApprovedInv` adds that the
  content is held from the gate on, is approved past it, and is what the checkout
  has inside the commit.
- `VerificationPrecedesCommit`: what is on the branch passed every check, for
  generators that change nothing and edits outside the three windows.
  `VerifiedInv` says of the state in memory *and* of the saved one that results
  are labelled with what they ran on, that nothing past VERIFY lacks a pass and
  that a final candidate is the verified content plus the card (`Sound`), where
  the checkout still is the candidate (`Placed`), and that memory and the saved
  row agree about the final candidate (`Held`), which is what survives a crash
  between the approval and the commit.
- `BudgetsOnlySpent` and `ApprovalSubjectStands`, the action properties
  `BudgetsNeverRewind` and `FinalCandidateIsFixed`, without any assumption.
  `BudgetsNeverRewind` is about the row: the counters grow in memory, and a charge that
  was not saved dies with the process. What it says is that the row never shows work
  without its charge (`PaidInv`: past VERIFY a loop, with a transcript an attempt, back
  in planning a replan) and that no step takes a charge out of the row. A
  crash forgets `mem` and a resume copies the row, so both need `ProgressInv`: while
  a run is under way `mem` is never behind the row it will replace (`Follows`), a
  final candidate exists only in FINALIZE (`AtEnd`), and each place in the code goes with its phase (`Placing`).
- `ReviewPrecedesCommit` (for `DriftPoints = {}`; finding 1 is why) and
  `OwnEditsResume`. `SoloInv` says of memory and of the row that a transcript which
  is not pending describes the checkout, that a verdict was given on the candidate,
  and where a tool call may have moved the checkout away from both.

**Broker.** `BrokerTypeCorrect`; `AnswersAreGiven` (`ApprovalIsAPersons`),
`GatesAreJournalled` (`JournalledFirst`) and `JournalTellsAnswers` (`ClosedAsGiven`).
The common strengthening is that an answer in a gate, in a closed operation or in
the hands of a process about to save it has really been given, and that a gate
being answered exists.

**Runs.** `LeaseHeld`: a process whose own count has not run out is the holder in
the table with the same time left. `OneWriterWithinLease` follows: two processes with
time left would both be the holder. Nothing is assumed about how long a run takes;
that "two instances never write the same worktree" without this condition is finding 6.
`WorkStaysKept` is the action property `WorkIsKept`: two processes on one task are
noted in `overlap` (`OverlapInv`), and one that is alone on its task removes the
checkout only after its commit, knows whether a candidate is decided, and from its
commit to the end leaves nothing uncommitted, with the work on the branch (`KeptBy`).

**ToolLoop.**

- `LoopInvariant`, from which `ToolLoopTypeCorrect`, `NoOrphanedCall` and
  `LoopKeepsSession` follow. `LoopInv` has four parts: the saved transcript is well
  formed (one answer per call, only the last batch may be incomplete, and only
  when pending), it is truthful (an answer says what the journal says), the
  journal says what really ran and knows only calls on record, and the process at
  each point is between the two states that a crash there could leave.
  `Extends(t)` says that `t` may replace the saved transcript; every save
  establishes it, and from it both the invariant and the step of `ToolSession`
  follow (lemma `Publishing`). There is one lemma per action.
- `BudgetsHold` (`WithinBudget`). The code tests counters in the transcript, the
  property is about what the journal says was begun. `CountInv` ties the two: the
  counters are the cardinalities of the sets of answered calls, in memory and in
  the saved transcript, those `reconcile` restored included (`Tally`), and at the
  one call that is being executed the test has passed.
- `RefusalsHaveCause` (`RefusedForCause`). `CauseInv`: while nobody else edits, the
  saved transcript can be resumed or has a cause not to be (`Resumes`), the
  manifest it carries is that of the checkout between two calls, and the operation
  of the call being taken starts from it.

**Procman.** `ProcmanTypeCorrect`, which bounds the starts in a window.
`NoProcessLeft`: outside `runOnce` a child has no process, and a `Stop` without an
error leaves none; a result in the channel is that of a process that is gone, and
`Stop` returned only after every loop ended. `ReadyzIsTrue` (`ReadyIsServing`): a
status "ready" belongs to a loop that watches its child or is stopping it.

**The other components.**

| Theorem | Property | Assumes of the constants | What has to be added |
|---|---|---|---|
| `RecoveryIsTold` | `Attempts!DecidedOnEvidence` | contents are numbered, the generated one is among them | edits that no operation covers belong to a step without an outcome (`Journal`); while a run decides, the row on record is the one it read (`Verdicts`) |
| `PrefixStaysFrozen` | `Context!PrefixFrozen` | nothing | the stored workflow carries the frozen region and the fence of every call made (`Keeps`), and while the process is up its own workflow has the stored ones |
| `OneModelAtATime` | `Models!OneModel` | a name for nobody | who has the turn (`Turns`), which process the slot knows at each step of a switch (`SlotHolds`), what the holder of the turn knows of it (`Progress`) |
| `CleanedUpOrReported` | `Recipes!LeftIsReported` | declarations, presets, walks and scripts are sequences | outside a generator's own steps every file is as it was found, or told, or written where nothing cleans up; within them only the generator's outputs and strays differ from the snapshot (`TreeHolds`, `FilesTold`); the same of a service outside its integration step (`LiveHolds`) |
| `AcceptanceIsEarned` | `Recipes!AcceptedIsChecked` | the same | the plan has only entries the loaders make and the place fits the entry (`PlanHolds`); a status tells what was found, except that errors of the tool hide findings (`ResultsHold`) |
| `LanesKeepPlaces` | `Lanes!PlacesKept` | finitely many clients and editors; bounds and labels have their types | the counters are the cardinalities of the tunnels and sessions (`Counted`); a connection past its check has an allowed host and port and one recorded decision (`Decided`); an agent belongs to a session that has a place (`Agents`) |
| `TasksDecidedOnEvidence` | `Supervise!AcceptedOnEvidence` | contents are numbered | a review is backed by a passed verification from the moment it is drawn up and journalled before it decides (`Evidence`); an edit under way is inside the scope (`Scoped`) |
| `ServesLive` | `Lsp!LiveLayerServes` | the quotas are numbers and the first launch may make the most requests; a name for nobody | an id is under way once – still to be written, to be answered, in the pipe, in the hands of the receive loop or in its channel – as long as the server numbers no request itself (`Single`; ids still to be written are new and apart, `Fresh` and `Apart`), and what it numbered itself is known by its id wherever it is (`Traced`); where a caller is fits what it was given (`Served`); a running server is in the pool or in the hands of the caller that starts or shuts it (`Kept`) |
| `ReportIsWhole` | `Impact!ImpactIsWhole` | finitely many changed nodes; ranks, caps and the depth are numbers | every node so many edges away is settled once its hop is over, with its strongest evidence (`Whole`), every edge to a node of the frontier is fetched, waiting or followed (`Complete`), and the count of visited nodes reaches the cap when one is said to (`Counted`) |
| `NotesStayKept` | `Memory!NotesKept` | the cap is not zero, as `Open` sees to | what a process writes follows from the whole file it has read (`Derived`), its note or its rest of an import included (`Sane`); where no two writers overlapped, the file is not torn, every note of it was added and every added note is there, removed, or pushed out (`Accounted`) |
| `RatesStayMeasured` | `Eval!RatesAreMeasured` | the repeats are numbers, a task names finitely many tests, arms are strings | an outcome is honest when it is recorded (`Honest`); the copy began as the fixture (`Copied`); a protected file with which a solver could fool the command has been seen changed (`Guarded`); the totals of the report are those of the judged runs (`Matches`) |
| `NoSilentStaleness` | `Index!StaleIsExplained` | every file has an innermost repository; no analyzer is called "file" | a pass is where its own record says (`InOrder`); one that nothing disturbed has read the files on disk and has written the graph of them as far as it got (`Undisturbed`, `Written`); a settled repository without a gap has that graph (`GraphFresh`) |
| `SchemasMoveForward` | `Storage!SchemasSound` | databases are numbered in the order of opening, each has a migration; a name for no workspace | every whole file went through its migrations in order and a copy of each older one exists (`FilesSound`); what a session half-way through opening relies on in files others migrate too (`Relies`), a session that restores being alone in its workspace (`Alone`); a step of another adds a file or one migration (`Evolves`) |

`le eval run` does not refuse an arm that is named twice. Its runs then count twice in
the arm's totals while the pairs go by task and pass; `RatesStayMeasured` covers this:
totals count every judged run, and no pair counts one that was not.
`NotesStayKept` counts by an injection: when the cap drops a note, the other notes of
the full file and the new one, each found again among those that were added, are as
many as the cap holds. `ReportIsWhole` compares the traversal with all paths of the
graph without an induction over paths: a path of `d` edges to a node ends in an edge
from one that is `d - 1` away, and the invariant speaks of every distance up to the
hop under way. Where the order of a listing is the database's or the map's, the models
choose any listing (`Impact!Listings`), and where it is a stable sort by time the one
such listing (`Memory!Sorted`).

`NoSilentStaleness` is for any repositories, nested ones included. Of the nine gaps it
names two are theirs: the watcher marks a file for the innermost repository only
(`"nested"`), and `le_reindex` and the runner's refresh walk one root for every
repository (`"elsewhere"`).

`Recipes` selects entries with a recursive function and flattens with the
library's fold. What they return is proved by a least counterexample: the lemma
`LeastNumber` takes the minimum of a set of numbers from `WFMin`, whose set is an
ordinary parameter, so that no induction principle with an operator parameter is
needed.

The attempt to prove `SchemasSound` showed that two arms of the `CASE` in
`Storage!Course` overlapped, so that which one applied was `CHOOSE`'s business; the
code's `switch` takes the first, and the definition now does.

Only model-checked:

- what fairness gives: `RunReturns`, `AttemptEnds`, `LoopsEnd`,
  `RestartedOnceReady` (liveness is out of the prover's reach);
- `ConsumersArrive`: the sums over what a packet holds are folds over sequences of any
  length, and what such a fold returns needs an induction over data;
- what `MinimumRepeats`, `LadderChain` and the sign test of `Eval` return, which only
  the qualification reads.

## Findings

Seven runs show the code doing something other than what a comment or a document
says. `PROJECT.json` quotes the sentences.

1. REVIEW never compares the candidate it reviews with the verified one. An edit
   after VERIFY that is undone before FINALIZE has a verdict applied to code the
   critic did not see (`phases_verdict`).
2. VERIFY labels its results with the candidate from before the generate presets
   ran. A generator that rewrites a file blocks its own task as drifted
   (`phases_generator`).
3. A second `Ask` that read "no answer" upserts the gate as pending over an
   answer saved meanwhile (`broker_overlap`).
4. `Run` reads the task's state before it has the lease and not again; an
   accepted task whose checkout is gone can be set back to running
   (`runs_stale`).
5. A child that exits before its first healthy probe has its result received
   twice, the second time for ever: it is neither restarted nor failed, and the
   shutdown can only time out (`procman_early`).
6. The lease of a worktree lasts a minute and nothing renews it. A run that takes
   longer, as one with a model does, loses it while it works, and a second process
   takes it and writes the same checkout (`runs_long`).
7. The time limit of a declared recipe is that of the helper that holds the snapshot
   and the `down` command. When it ends the helper is killed: what a generator wrote
   and what `up` started stays (`recipes_timeout`).

Observations met while reading, for which there is no run:

- phase-transition decisions are journalled as operations, and recovery lists the
  failed ones as rejected hypotheses (`ledger/recover.go:72`, `:222`);
- a retried task keeps its exhausted budgets (`task/runner.go:209`,
  `task/task.go:270`), and a closed EDIT transcript that did not complete makes
  every retry return the same blocked answer;
- the legacy loop's wall-time expiry calls `finish` with a context that is
  already dead (`task/runner.go:377`, `:798`);
- with the default of three attempts, a failure that asks to localize again
  practically never gets to: the attempts are spent first;
- an empty or repeated provider call id defeats the `completed` map of
  `reconcile`, and a transcript saved as pending after a failed manifest read is
  refused for good;
- `Manager.Stop` cancels the shared context before it walks the children in
  reverse order, so that every loop stops its child at once; and the inference
  server is built with `exec.CommandContext`, which kills it at that moment. The
  order ("children are stopped in reverse start order",
  `docs/how-to/start-stop-update.md:38`) and the grace period do not happen;
- nothing acts on an essential child that has failed ("Essential children fail
  the whole supervisor", `procman/procman.go:63`), it only makes `/readyz` false;
- storage: the slots of a workspace are only dropped by a Root that has switched
  before, and every session has a new one (`store/store.go:338`,
  `session/session.go:67`); all sessions write `workspace.json` through one
  temporary name (`store/store.go:157`); `le restore` without `--force` never
  succeeds, and with it overwrites before it validates (`store/blobs.go:137`); a
  restore that is interrupted after a file was emptied leaves one that the next open
  takes for a new database (`store/blobs.go:171`);
- index: a mark set while a pass is under way is lost; a pass abandoned over a
  clean key leaves half a graph; an analyzer's result is cached under hashes it
  did not read; `flush` drops its paths when the mark fails; in a workspace of
  several repositories both `le_reindex` and the refresh use one root for all;
- language servers: a dead server stays in the pool, a closed channel is an empty
  success, a server's own request under one of our ids is taken for the answer,
  `For` after `Close` starts a new server; a frame that cannot be read ends the
  receive loop of a server that lives (`lsp/client.go:493`), and its later requests
  find nobody who receives;
- models: `Embed`, `Infill` and `Health` of a serialised provider do not take
  turns; the port is probed and then bound by another process
  (`llm/managed.go:137`);
- proxy and bridge: tunnels outlive `Shutdown`; a request that is no proxy request
  is not journalled; the bridge's `cancel` kills the agent before its "moment to
  exit" (`acp/bridge.go:184`);
- supervised tasks: verifying at a low level makes a standard task VERIFIED;
  `le_edit` is allowed on finished tasks; two edits of one file lose one;
- memory: ids collide at the cap and after a removal, and the second add fails;
  concurrent writers lose updates and share one temporary file, so that one may rename
  what another has half written (`memory/memory.go:254`);
- unphased loop: an error of `Diff` gives an empty diff and an auto-approved gate;
  approving an out-of-scope gate never leads to acceptance; `Open` takes the
  commit of cleanup as the new base; `SafeToResume` holds with an uncertain
  recipe run;
- impact: the cap on rows (`graph/traverse.go:182`) can cut a hop without
  `Truncated`;
- recipes: an invalid `.le/verify.yaml` declares nothing without a word; a failed
  restore is ignored when the generator failed (`recipe/declared_run.go:244`);
  unparseable JSON of semgrep or golangci-lint with exit 0 is a pass; a
  grandchild that holds stdout keeps a recipe waiting past its limit; a frozen generate
  preset and any tool may write into the worktree and nothing restores it
  (`task/runner.go:630`); findings that come together with errors are an error, and an
  error of a kind that is not required does not keep a task from being accepted
  (`recipe/summarize.go:302`, `task/runner.go:1030`);
- evaluation: a command that cannot start, is late or is interrupted while a run is
  judged is recorded as unsolved evidence (`eval/run.go:337`);
  a branch is applied without its deletions; tests that never ran after a panic
  count as passed; raw files carry repetition 0; the ablation gate of `qualify`
  asks for arms that do not exist;
- context: when the repository map fails after the policy is set, the stopped task
  keeps an empty map for good (`task/pack.go:72`); the task card changes with
  every new plan.

## Not modelled, and what is left

`PROJECT.json` gives the reason per component. In short:

- **Parsers and generators of text**: the analyzers, tree-sitter and SCIP import,
  the wire formats of the providers, secrets and globs, compaction and rendering
  of prompts, OpenCode's configuration files. What they compute depends on text
  the models abstract away; where the control flow reads a result it is an input.
- **Measurements and views**: model benchmarks, doctor, telemetry, the dashboard.
  Nothing reads them back to decide.
- **Kernel facilities**: the sandbox builds arguments; what it guarantees is the
  kernel's.
- **Configuration**: loading and validating files, no state.
- `Plan.Validate` and `Rank`, deriving workspace ids: one call each on one value.

What is left, in order:

1. **Proofs**: `ConsumersArrive`, by filling a packet slice by slice so that its sums
   become part of the state.
2. **An abstract task lifecycle** (pending, running, blocked, review, accepted,
   failed, with who may move it) which `Phases`, `Runs` and `Attempts` implement.
3. **Liveness of the components**: a caller of a language server returns, a
   call waiting for the model slot gets its turn or gives up, a marked repository
   is refreshed.
