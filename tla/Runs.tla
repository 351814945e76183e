-------------------------------- MODULE Runs --------------------------------
(***************************************************************************)
(* Runner.Run around the work itself: which process may run a task, on     *)
(* which checkout, under which lease, and what is left behind.             *)
(*                                                                         *)
(* Several `le` processes share the SQLite file, the worktree directory    *)
(* and the git repository.  Run reads the task's state, looks for          *)
(* blockers, opens the checkout, takes the lease, works, records the state *)
(* and cleans up; each of these is a step, because each is a transaction   *)
(* or a git command of its own.  The work inside is the subject of Phases. *)
(***************************************************************************)
EXTENDS Integers, FiniteSets

CONSTANTS
    Procs,    \* processes; a lease's holder is host and pid
    Tasks,
    Phased,   \* the tasks whose engine edits: they run through the phases
    Deps,     \* task_deps: <<task, the task it depends on>>
    TTL,      \* ticks a lease lasts
    None      \* no holder, or one that died

TaskState == {"pending", "running", "review", "blocked", "accepted", "failed"}

Terminal == {"accepted", "failed"}

\* The states a run ends in.
Endings == {"accepted", "failed", "blocked", "review"}

VARIABLES
    task,      \* tasks.state
    checkout,  \* the tasks whose worktree directory exists
    branch,    \* each task branch: absent, without or with the task's commits
    dirty,     \* the tasks whose checkout holds uncommitted work
    decided,   \* the tasks whose saved workflow has its final candidate
    lease,     \* the leases table: holder and ticks until expires_at
    run,       \* what each process is doing
    overlap    \* (not in the code) the tasks two processes have worked on at once

vars == <<task, checkout, branch, dirty, decided, lease, run, overlap>>

Lease == [holder : Procs \cup {None}, left : 0..TTL]

NoLease == [holder |-> None, left |-> 0]

Points == {"idle", "blockers", "block", "open", "acquire", "begin", "work",
           "commit", "remove", "release", "reopen"}

\* left is the time until the lease this process took runs out; final, that the
\* workflow in its memory has a final candidate.  The Outcome is the ending,
\* whether it was recorded, and whether something was committed.
RunState == [pc : Points, task : Tasks, left : 0..TTL, final : BOOLEAN,
             committed : BOOLEAN, ending : Endings, recorded : BOOLEAN]

TypeOK ==
    /\ task \in [Tasks -> TaskState]
    /\ checkout \subseteq Tasks
    /\ branch \in [Tasks -> {"none", "base", "work"}]
    /\ dirty \subseteq Tasks
    /\ decided \subseteq Tasks
    /\ overlap \subseteq Tasks
    /\ lease \in [Tasks -> Lease]
    /\ run \in [Procs -> RunState]

\* Run's body and its deferred cleanup: everything between taking and dropping
\* the lease.
Writing(p) == run[p].pc \in {"begin", "work", "commit", "remove"}

AnyTask == CHOOSE t \in Tasks : TRUE

Idle == [pc |-> "idle", task |-> AnyTask, left |-> 0, final |-> FALSE,
         committed |-> FALSE, ending |-> "failed", recorded |-> FALSE]

Init ==
    /\ task = [t \in Tasks |-> "pending"]
    /\ checkout = {}
    /\ branch = [t \in Tasks |-> "none"]
    /\ dirty = {}
    /\ decided = {}
    /\ overlap = {}
    /\ lease = [t \in Tasks |-> NoLease]
    /\ run = [p \in Procs |-> Idle]

Goto(p, pc) == run' = [run EXCEPT ![p].pc = pc]
Return(p)   == run' = [run EXCEPT ![p] = Idle]

\* The run is over but for its lease.
Leave(p) == run' = [run EXCEPT ![p] = [Idle EXCEPT !.pc = "release",
                                                   !.task = run[p].task]]

-----------------------------------------------------------------------------
(* Before the lease *)

\* A terminal task is refused.
RunGet(p, t) ==
    /\ run[p].pc = "idle"
    /\ task[t] \notin Terminal
    /\ run' = [run EXCEPT ![p] = [Idle EXCEPT !.pc = "blockers", !.task = t]]
    /\ UNCHANGED <<task, checkout, branch, dirty, lease, decided, overlap>>

Blockers(t) == {d \in Tasks : <<t, d>> \in Deps /\ task[d] # "accepted"}

RunBlockers(p) ==
    /\ run[p].pc = "blockers"
    /\ Goto(p, IF Blockers(run[p].task) = {} THEN "open" ELSE "block")
    /\ UNCHANGED <<task, checkout, branch, dirty, lease, decided, overlap>>

RunBlock(p) ==
    /\ run[p].pc = "block"
    /\ task' = [task EXCEPT ![run[p].task] = "blocked"]
    /\ Return(p)
    /\ UNCHANGED <<checkout, branch, dirty, lease, decided, overlap>>

\* Manager.Create makes directory and branch, and refuses a directory or a
\* branch that exists; Manager.Open takes a directory that exists.
RunOpen(p) ==
    /\ run[p].pc = "open"
    /\ LET t == run[p].task
       IN \/ /\ t \notin checkout /\ branch[t] = "none"
             /\ checkout' = checkout \cup {t}
             /\ branch' = [branch EXCEPT ![t] = "base"]
             /\ Goto(p, "acquire")
          \/ /\ t \in checkout
             /\ Goto(p, "acquire")
             /\ UNCHANGED <<checkout, branch>>
          \/ /\ t \notin checkout /\ branch[t] # "none"
             /\ Return(p)
             /\ UNCHANGED <<checkout, branch>>
    /\ UNCHANGED <<task, dirty, lease, decided, overlap>>

Live(l) == l.left > 0

\* The task somebody else is working on when p takes its lease.
Overlapped(p) ==
    {t \in {run[p].task} : \E q \in Procs \ {p} : Writing(q) /\ run[q].task = t}

AcquireLeaseStealing(p) ==
    /\ run[p].pc = "acquire"
    /\ lease' = [lease EXCEPT ![run[p].task] = [holder |-> p, left |-> TTL]]
    /\ run' = [run EXCEPT ![p].pc = "begin", ![p].left = TTL]
    /\ overlap' = overlap \cup Overlapped(p)
    /\ UNCHANGED <<task, checkout, branch, dirty, decided>>

\* A live lease of another holder is an error; else the row is overwritten.
AcquireLease(p) ==
    /\ run[p].pc = "acquire"
    /\ LET t == run[p].task
       IN \/ /\ Live(lease[t]) /\ lease[t].holder # p
             /\ Return(p) /\ UNCHANGED <<lease, overlap>>
          \/ /\ ~(Live(lease[t]) /\ lease[t].holder # p)
             /\ lease' = [lease EXCEPT ![t] = [holder |-> p, left |-> TTL]]
             /\ run' = [run EXCEPT ![p].pc = "begin", ![p].left = TTL]
             /\ overlap' = overlap \cup Overlapped(p)
    /\ UNCHANGED <<task, checkout, branch, dirty, decided>>

-----------------------------------------------------------------------------
(* Under the lease *)

\* The operator's uncommitted changes are synced in and made the baseline when
\* asked for, the task is running and its workflow is loaded; one of these may
\* fail.
RunBegin(p) ==
    /\ run[p].pc = "begin"
    /\ \/ /\ task' = [task EXCEPT ![run[p].task] = "running"]
          /\ run' = [run EXCEPT ![p].pc = "work",
                                ![p].final = run[p].task \in decided]
       \/ task' = task /\ Leave(p)
    /\ UNCHANGED <<checkout, branch, dirty, decided, lease, overlap>>

\* SaveWorkflow: the row becomes what this process has in memory.
SaveWorkflow(p) ==
    decided' = IF run[p].final THEN decided \cup {run[p].task}
               ELSE decided \ {run[p].task}

\* The engine or a check writes files; the phases before FINALIZE save the
\* workflow as they go.
RunWork(p) ==
    /\ run[p].pc = "work" /\ ~run[p].committed /\ ~run[p].final
    /\ run[p].task \in checkout
    /\ dirty' = dirty \cup {run[p].task}
    /\ SaveWorkflow(p)
    /\ UNCHANGED <<task, checkout, branch, lease, run, overlap>>

RunResetAlways(p) ==
    /\ run[p].pc = "work" /\ ~run[p].committed
    /\ LET t == run[p].task
       IN /\ t \in Phased /\ t \in checkout
          /\ dirty' = dirty \ {t}
          /\ branch' = [branch EXCEPT ![t] = "base"]
    /\ SaveWorkflow(p)
    /\ UNCHANGED <<task, checkout, lease, run, overlap>>

\* Worktree.Reset when VERIFY gives up a candidate: everything since the base is
\* discarded, and the workflow is saved at LOCALIZE or as failed.
RunReset(p) ==
    /\ run[p].pc = "work" /\ ~run[p].committed /\ ~run[p].final
    /\ LET t == run[p].task
       IN /\ t \in Phased /\ t \in checkout
          /\ dirty' = dirty \ {t}
          /\ branch' = [branch EXCEPT ![t] = "base"]
    /\ SaveWorkflow(p)
    /\ UNCHANGED <<task, checkout, lease, run, overlap>>

\* FINALIZE saves the candidate it is going to ask for and to commit.
RunFinalize(p) ==
    /\ run[p].pc = "work" /\ ~run[p].final
    /\ run[p].task \in Phased /\ run[p].task \in checkout
    /\ run' = [run EXCEPT ![p].final = TRUE]
    /\ decided' = decided \cup {run[p].task}
    /\ UNCHANGED <<task, checkout, branch, dirty, lease, overlap>>

\* FINALIZE commits, as the last thing a phased run does; a resumed one may
\* find that everything was committed before the crash.
RunCommit(p) ==
    /\ run[p].pc = "work" /\ ~run[p].committed /\ run[p].final
    /\ LET t == run[p].task
       IN /\ t \in Phased /\ t \in checkout
          /\ t \in dirty \/ branch[t] = "work"
          /\ branch' = [branch EXCEPT ![t] = "work"]
          /\ dirty' = dirty \ {t}
    /\ run' = [run EXCEPT ![p].committed = TRUE]
    /\ UNCHANGED <<task, checkout, decided, lease, overlap>>

\* run returns an error and no outcome: nothing is cleaned up.
RunFails(p) ==
    /\ run[p].pc = "work"
    /\ Leave(p)
    /\ UNCHANGED <<task, checkout, branch, dirty, lease, decided, overlap>>

\* The workflow is saved, and Runner.finish records the checkpoint and the state;
\* or one of them fails and the outcome is returned unrecorded.
RunFinish(p, ending, ok) ==
    /\ run[p].pc = "work"
    /\ LET t == run[p].task
       IN /\ t \in Phased => (ending = "accepted" <=> run[p].committed)
          /\ task' = IF ok THEN [task EXCEPT ![t] = ending] ELSE task
          /\ run' = [run EXCEPT ![p].pc = "commit", ![p].ending = ending,
                                ![p].recorded = ok]
          /\ IF t \in Phased THEN SaveWorkflow(p) ELSE decided' = decided
    /\ UNCHANGED <<checkout, branch, dirty, lease, overlap>>

\* cleanup, first half.  A phased task that is not accepted is left as it is and
\* an accepted one was committed in FINALIZE; the others are committed here,
\* whatever the ending, unless nothing changed or the commit fails.  Only an
\* accepted task's checkout goes on to be removed.
CleanupCommit(p) ==
    /\ run[p].pc = "commit"
    /\ LET t == run[p].task
           Proceed == IF run[p].ending = "accepted" THEN Goto(p, "remove") ELSE Leave(p)
       IN \/ /\ t \in Phased
             /\ IF run[p].recorded THEN Proceed ELSE Leave(p)
             /\ UNCHANGED <<branch, dirty>>
          \/ /\ t \notin Phased /\ t \in dirty /\ t \in checkout
             /\ branch' = [branch EXCEPT ![t] = "work"]
             /\ dirty' = dirty \ {t}
             /\ IF run[p].ending = "accepted"
                THEN run' = [run EXCEPT ![p].pc = "remove", ![p].committed = TRUE]
                ELSE Leave(p)
          \/ /\ t \notin Phased /\ t \notin dirty
             /\ Proceed
             /\ UNCHANGED <<branch, dirty>>
          \/ /\ t \notin Phased /\ Leave(p)
             /\ UNCHANGED <<branch, dirty>>
    /\ UNCHANGED <<task, checkout, lease, decided, overlap>>

CleanupRemoveBranch(p) ==
    /\ run[p].pc = "remove"
    /\ checkout' = checkout \ {run[p].task}
    /\ dirty' = dirty \ {run[p].task}
    /\ branch' = [branch EXCEPT ![run[p].task] = "none"]
    /\ Leave(p)
    /\ UNCHANGED <<task, lease, decided, overlap>>

\* cleanup, second half: the directory goes, and with it the branch unless
\* something was committed.  Removing may fail.
CleanupRemove(p) ==
    /\ run[p].pc = "remove"
    /\ LET t == run[p].task
       IN \/ /\ checkout' = checkout \ {t}
             /\ dirty' = dirty \ {t}
             /\ branch' = IF run[p].committed THEN branch
                          ELSE [branch EXCEPT ![t] = "none"]
          \/ UNCHANGED <<checkout, dirty, branch>>
    /\ Leave(p)
    /\ UNCHANGED <<task, lease, decided, overlap>>

ReleaseLeaseAnyones(p) ==
    /\ run[p].pc = "release"
    /\ lease' = [lease EXCEPT ![run[p].task] = NoLease]
    /\ Return(p)
    /\ UNCHANGED <<task, checkout, branch, dirty, decided, overlap>>

\* The deferred ReleaseLease: only the holder's row, and not when the context
\* is gone.
ReleaseLease(p) ==
    /\ run[p].pc = "release"
    /\ LET t == run[p].task
       IN lease' \in {lease, IF lease[t].holder = p
                             THEN [lease EXCEPT ![t] = NoLease] ELSE lease}
    /\ Return(p)
    /\ UNCHANGED <<task, checkout, branch, dirty, decided, overlap>>

-----------------------------------------------------------------------------
(* Retry, time and crashes *)

\* Store.Reopen reads the state and then sets it.
ReopenGet(p, t) ==
    /\ run[p].pc = "idle"
    /\ task[t] = "failed"
    /\ run' = [run EXCEPT ![p] = [Idle EXCEPT !.pc = "reopen", !.task = t]]
    /\ UNCHANGED <<task, checkout, branch, dirty, lease, decided, overlap>>

ReopenSet(p) ==
    /\ run[p].pc = "reopen"
    /\ task' = [task EXCEPT ![run[p].task] = "pending"]
    /\ Return(p)
    /\ UNCHANGED <<checkout, branch, dirty, lease, decided, overlap>>

Less(n) == IF n = 0 THEN 0 ELSE n - 1

\* Time passes, for a run that is under way too: nothing renews its lease.
Tick ==
    /\ lease' = [t \in Tasks |-> [lease[t] EXCEPT !.left = Less(@)]]
    /\ run' = [p \in Procs |-> [run[p] EXCEPT !.left = Less(@)]]
    /\ lease' # lease
    /\ UNCHANGED <<task, checkout, branch, dirty, decided, overlap>>

\* A process dies and another takes its place, with another pid: the leases it
\* held are nobody's until they expire.
Crash(p) ==
    /\ run[p].pc # "idle"
    /\ Return(p)
    /\ lease' = [t \in Tasks |-> IF lease[t].holder = p
                                 THEN [lease[t] EXCEPT !.holder = None]
                                 ELSE lease[t]]
    /\ UNCHANGED <<task, checkout, branch, dirty, decided, overlap>>

Step(p) ==
    \/ \E t \in Tasks : RunGet(p, t) \/ ReopenGet(p, t)
    \/ RunBlockers(p) \/ RunBlock(p) \/ RunOpen(p) \/ AcquireLease(p)
    \/ RunBegin(p) \/ RunWork(p) \/ RunReset(p) \/ RunFinalize(p) \/ RunCommit(p)
    \/ RunFails(p)
    \/ \E ending \in Endings, ok \in BOOLEAN : RunFinish(p, ending, ok)
    \/ CleanupCommit(p) \/ CleanupRemove(p) \/ ReleaseLease(p)
    \/ ReopenSet(p) \/ Crash(p)

Next == Tick \/ \E p \in Procs : Step(p)

Spec == Init /\ [][Next]_vars

-----------------------------------------------------------------------------
(* Properties *)

\* A process under way on a leased checkout whose time has not run out is the
\* holder in the table, with the same time left.
HoldsLease ==
    \A p \in Procs :
        Writing(p) /\ run[p].left > 0 =>
            lease[run[p].task] = [holder |-> p, left |-> run[p].left]

\* The types of the variables, and nobody can have taken or dropped the lease of
\* a process whose time has not run out: AcquireLease refuses a live lease of
\* another holder and ReleaseLease deletes only the holder's own row.
TypeInv == TypeOK /\ HoldsLease

\* Two instances never write the same worktree.
OneWriter ==
    \A p, q \in Procs :
        Writing(p) /\ Writing(q) /\ run[p].task = run[q].task => p = q

\* What the lease does give: of two processes that are at work on one worktree the
\* lease of one has run out (AcquireLease refuses a live lease, ReleaseLease drops
\* its own only; the leases of dead processes are waited for).
OneWriterInTime ==
    \A p, q \in Procs :
        Writing(p) /\ Writing(q) /\ run[p].task = run[q].task =>
            p = q \/ run[p].left = 0 \/ run[q].left = 0

\* An accepted task that was cleaned up stays accepted, whoever read its state
\* before it was: no process with a stale view revives or fails it.  (Tasks two
\* processes were at work on at once are OneWriter's subject.)
AcceptedIsFinal ==
    [][\A t \in Phased \ overlap' :
          task[t] = "accepted" /\ t \notin checkout => task'[t] = "accepted"]_vars

\* What a step may do to the work of a phased task that never had two processes at
\* once: until FINALIZE has decided on a candidate it leaves the checkout only by a
\* Reset inside it; from then on only for the task branch, and what is on the
\* branch stays.
Kept ==
    \A t \in Phased \ overlap' :
        /\ t \in dirty /\ t \notin dirty' =>
              branch'[t] = "work" \/ (t \notin decided /\ t \in checkout')
        /\ branch[t] = "work" => branch'[t] = "work"

\* Such work is not lost by crashes, failed commits, removals, retries and cleanups
\* (Runner.cleanup, Worktree.Remove).
WorkIsKept == [][Kept]_vars
=============================================================================
