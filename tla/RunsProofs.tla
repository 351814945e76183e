----------------------------- MODULE RunsProofs -----------------------------
(***************************************************************************)
(* Proofs about Runs, for any number of processes and tasks and any length *)
(* of a lease: a process whose lease has not run out is its holder in the  *)
(* table, so of two processes on one worktree one has overrun its lease,   *)
(* and no work of a phased task is lost unless that has happened to it.    *)
(*                                                                         *)
(* Then about Eval, which measures such runs: for any tasks, arms and      *)
(* passes, every number of a report is about judged runs.                  *)
(***************************************************************************)
EXTENDS Runs, Eval, FiniteSetTheorems, WellFoundedInduction, TLAPS

\* What is assumed of the constants: there are tasks, and a lease lasts some time.
RnConstants == TTL \in Nat \ {0} /\ Tasks # {} /\ Phased \subseteq Tasks

\* Updating the fields of a run keeps its type.
LEMMA SetPc == ASSUME NEW r \in RunState, NEW c \in Points
               PROVE  /\ [r EXCEPT !.pc = c] \in RunState
                      /\ [r EXCEPT !.pc = c, !.committed = TRUE] \in RunState
  BY DEF RunState

LEMMA SetTask == ASSUME NEW r \in RunState, NEW c \in Points, NEW t \in Tasks
                 PROVE  [r EXCEPT !.pc = c, !.task = t] \in RunState
  BY DEF RunState

LEMMA SetLease == ASSUME RnConstants, NEW r \in RunState
                  PROVE  [r EXCEPT !.pc = "begin", !.left = TTL] \in RunState
<1>1. TTL \in 0..TTL /\ "begin" \in Points
  BY DEF RnConstants, Points
<1> QED
  BY <1>1 DEF RunState

LEMMA SetCommitted == ASSUME NEW r \in RunState
                      PROVE  [r EXCEPT !.committed = TRUE] \in RunState
  BY DEF RunState

LEMMA SetFinal == ASSUME NEW r \in RunState, NEW b \in BOOLEAN
                  PROVE  /\ [r EXCEPT !.final = b] \in RunState
                         /\ [r EXCEPT !.pc = "work", !.final = b] \in RunState
  BY DEF RunState, Points

LEMMA SetEnding == ASSUME NEW r \in RunState, NEW e \in Endings, NEW b \in BOOLEAN
                   PROVE  [r EXCEPT !.pc = "commit", !.ending = e,
                                    !.recorded = b] \in RunState
  BY DEF RunState, Points

LEMMA SetLeft == ASSUME RnConstants, NEW r \in RunState
                 PROVE  [r EXCEPT !.left = Less(r.left)] \in RunState
  BY DEF RnConstants, RunState, Less

LEMMA IdleTyped == ASSUME RnConstants PROVE Idle \in RunState /\ Idle.pc = "idle"
<1>1. AnyTask \in Tasks
  BY DEF RnConstants, AnyTask
<1> QED
  BY <1>1 DEF RnConstants, Idle, RunState, Endings, Points

LEMMA LeaseTyped ==
    ASSUME RnConstants
    PROVE  /\ NoLease \in Lease
           /\ \A p \in Procs : [holder |-> p, left |-> TTL] \in Lease
           /\ \A l \in Lease : /\ [l EXCEPT !.holder = None] \in Lease
                               /\ [l EXCEPT !.left = Less(l.left)] \in Lease
  BY DEF RnConstants, Lease, NoLease, Less

-----------------------------------------------------------------------------
(* The lease of a process under way *)

\* A step that moves only process p, to a point where it writes nothing, or
\* that leaves it on the same task with the same time, and that leaves the
\* leases alone.
Moves(p) ==
    /\ lease' = lease
    /\ \A q \in Procs \ {p} : run'[q] = run[q]
    /\ \/ run'[p].pc \notin {"begin", "work", "commit", "remove"}
       \/ /\ Writing(p) /\ run'[p].task = run[p].task /\ run'[p].left = run[p].left

\* Leaving is such a step.
LEMMA LeaveMoves ==
    ASSUME RnConstants, NEW p \in Procs, TypeOK, Leave(p)
    PROVE  /\ run' \in [Procs -> RunState]
           /\ run'[p].pc = "release" /\ run'[p].task = run[p].task
           /\ \A q \in Procs \ {p} : run'[q] = run[q]
<1> DEFINE x == [Idle EXCEPT !.pc = "release", !.task = run[p].task]
<1>1. run[p].task \in Tasks
  BY DEF TypeOK, RunState
<1>2. x \in RunState
  BY <1>1, IdleTyped, SetTask DEF Points
<1>3. x.pc = "release" /\ x.task = run[p].task
  BY DEF Idle
<1>4. run' = [run EXCEPT ![p] = x]
  BY DEF Leave
<1> HIDE DEF x
<1> QED
  BY <1>2, <1>3, <1>4 DEF TypeOK

\* Such a step leaves every process with the lease it holds.
LEMMA MovesKeepLease ==
    ASSUME NEW p \in Procs, HoldsLease, Moves(p)
    PROVE  HoldsLease'
  BY DEF HoldsLease, Moves, Writing

\* Every variable keeps its type, and whoever works under a lease that has not
\* run out is the holder in the table with exactly that time left: AcquireLease
\* takes nobody's live lease and ReleaseLease drops nobody else's.
THEOREM LeaseHeld == ASSUME RnConstants PROVE Spec => []TypeInv
<1>1. Init => TypeInv
  BY IdleTyped, LeaseTyped
  DEF Init, TypeInv, TypeOK, HoldsLease, Writing, TaskState
<1>2. TypeInv /\ [Next]_vars => TypeInv'
  <2> SUFFICES ASSUME TypeInv, [Next]_vars PROVE TypeInv'
    OBVIOUS
  <2> USE DEF TypeInv
  <2>r. \A q \in Procs : run[q] \in RunState /\ run[q].task \in Tasks
    BY DEF TypeOK, RunState
  <2>1. ASSUME NEW p \in Procs, NEW t \in Tasks, RunGet(p, t) \/ ReopenGet(p, t)
        PROVE  TypeInv'
    <3>1. PICK c \in {"blockers", "reopen"} :
             run' = [run EXCEPT ![p] = [Idle EXCEPT !.pc = c, !.task = t]]
      BY <2>1 DEF RunGet, ReopenGet
    <3> DEFINE x == [Idle EXCEPT !.pc = c, !.task = t]
    <3>2. x \in RunState
      BY IdleTyped, SetTask DEF Points
    <3>3. x.pc = c
      BY DEF Idle
    <3>4. UNCHANGED <<task, checkout, branch, dirty, decided, lease, overlap>>
      BY <2>1 DEF RunGet, ReopenGet
    <3> HIDE DEF x
    <3>5. TypeOK'
      BY <3>1, <3>2, <3>4 DEF TypeOK, x
    <3>6. Moves(p)
      BY <3>1, <3>3, <3>4 DEF TypeOK, Moves, x
    <3> QED
      BY <3>5, <3>6, MovesKeepLease
  <2>o. ASSUME NEW p \in Procs, RunFails(p)
        PROVE  TypeInv'
    <3>1. Leave(p) /\ UNCHANGED <<task, checkout, branch, dirty, decided, lease, overlap>>
      BY <2>o DEF RunFails
    <3>2. TypeOK' /\ Moves(p)
      BY <3>1, LeaveMoves DEF TypeOK, Moves
    <3> QED
      BY <3>2, MovesKeepLease
  <2>2. ASSUME NEW p \in Procs, RunBlockers(p)
        PROVE  TypeInv'
    <3>1. PICK c \in {"open", "block"} : run' = [run EXCEPT ![p].pc = c]
      BY <2>2 DEF RunBlockers, Goto
    <3>2. UNCHANGED <<task, checkout, branch, dirty, decided, lease, overlap>>
      BY <2>2 DEF RunBlockers
    <3>3. TypeOK'
      BY <2>r, <3>1, <3>2, SetPc DEF TypeOK, Points
    <3>4. Moves(p)
      BY <2>r, <3>1, <3>2 DEF TypeOK, Moves, RunState
    <3> QED
      BY <3>3, <3>4, MovesKeepLease
  <2>3. ASSUME NEW p \in Procs, RunBlock(p) \/ ReopenSet(p)
        PROVE  TypeInv'
    <3>1. /\ run' = [run EXCEPT ![p] = Idle]
          /\ UNCHANGED <<checkout, branch, dirty, decided, lease, overlap>>
          /\ task' \in [Tasks -> TaskState]
      BY <2>3, <2>r DEF RunBlock, ReopenSet, Return, TypeOK, TaskState
    <3>2. TypeOK' /\ Moves(p)
      BY <3>1, IdleTyped DEF TypeOK, Moves
    <3> QED
      BY <3>2, MovesKeepLease
  <2>4. ASSUME NEW p \in Procs, RunOpen(p)
        PROVE  TypeInv'
    <3>1. /\ checkout' \subseteq Tasks
          /\ branch' \in [Tasks -> {"none", "base", "work"}]
          /\ UNCHANGED <<task, dirty, decided, lease, overlap>>
      BY <2>4, <2>r DEF RunOpen, TypeOK
    <3>2. \/ run' = [run EXCEPT ![p].pc = "acquire"]
          \/ run' = [run EXCEPT ![p] = Idle]
      BY <2>4 DEF RunOpen, Goto, Return
    <3>3. run' \in [Procs -> RunState]
      <4>1. [run[p] EXCEPT !.pc = "acquire"] \in RunState
        BY <2>r, SetPc DEF Points
      <4> QED
        BY <3>2, <4>1, IdleTyped DEF TypeOK
    <3>4. Moves(p)
      BY <2>r, <3>1, <3>2, IdleTyped DEF TypeOK, Moves, RunState
    <3> QED
      BY <3>1, <3>3, <3>4, MovesKeepLease DEF TypeOK
  <2>5. ASSUME NEW p \in Procs, AcquireLease(p)
        PROVE  TypeInv'
    <3> DEFINE t == run[p].task
    <3>0. UNCHANGED <<task, checkout, branch, dirty, decided>> /\ overlap' \subseteq Tasks
      BY <2>5, <2>r DEF AcquireLease, TypeOK, Overlapped
    <3>1. CASE run' = [run EXCEPT ![p] = Idle] /\ lease' = lease
      <4>1. TypeOK' /\ Moves(p)
        BY <3>0, <3>1, IdleTyped DEF TypeOK, Moves
      <4> QED
        BY <4>1, MovesKeepLease
    <3>2. CASE /\ ~(Live(lease[t]) /\ lease[t].holder # p)
               /\ lease' = [lease EXCEPT ![t] = [holder |-> p, left |-> TTL]]
               /\ run' = [run EXCEPT ![p].pc = "begin", ![p].left = TTL]
      <4>1. run' = [run EXCEPT ![p] = [run[p] EXCEPT !.pc = "begin", !.left = TTL]]
        BY <3>2
      <4>2. TypeOK'
        <5>1. [run[p] EXCEPT !.pc = "begin", !.left = TTL] \in RunState
          BY <2>r, SetLease
        <5>2. run' \in [Procs -> RunState]
          BY <4>1, <5>1 DEF TypeOK
        <5>3. lease' \in [Tasks -> Lease]
          BY <3>2, LeaseTyped DEF TypeOK
        <5> QED
          BY <3>0, <5>2, <5>3 DEF TypeOK
      <4>3. run'[p].task = t /\ run'[p].left = TTL
        BY <2>r, <4>1 DEF TypeOK, RunState
      <4>4. \A q \in Procs \ {p} : Writing(q) /\ run[q].left > 0 => run[q].task # t
        <5> SUFFICES ASSUME NEW q \in Procs \ {p}, Writing(q), run[q].left > 0,
                            run[q].task = t
                     PROVE  FALSE
          OBVIOUS
        <5>1. lease[t] = [holder |-> q, left |-> run[q].left]
          BY DEF HoldsLease
        <5> QED
          BY <3>2, <5>1 DEF Live
      <4>5. \A q \in Procs \ {p} : run'[q] = run[q]
        BY <4>1 DEF TypeOK
      <4>6. HoldsLease'
        <5> SUFFICES ASSUME NEW q \in Procs, Writing(q)', run'[q].left > 0
                     PROVE  lease'[run'[q].task] = [holder |-> q, left |-> run'[q].left]
          BY DEF HoldsLease
        <5>1. CASE q = p
          BY <2>r, <3>2, <4>3, <5>1 DEF TypeOK
        <5>2. CASE q # p
          <6>1. run'[q] = run[q] /\ Writing(q) /\ run[q].task # t
            BY <4>4, <4>5, <5>2 DEF Writing
          <6> QED
            BY <2>r, <3>2, <6>1 DEF HoldsLease, TypeOK
        <5> QED
          BY <5>1, <5>2
      <4> QED
        BY <4>2, <4>6
    <3> QED
      BY <2>5, <3>1, <3>2 DEF AcquireLease, Return
  <2>6. ASSUME NEW p \in Procs, RunBegin(p)
        PROVE  TypeInv'
    <3>1. /\ task' \in [Tasks -> TaskState]
          /\ UNCHANGED <<checkout, branch, dirty, decided, lease, overlap>>
      BY <2>6, <2>r DEF RunBegin, TypeOK, TaskState
    <3>2. CASE Leave(p)
      <4>1. TypeOK' /\ Moves(p)
        BY <3>1, <3>2, LeaveMoves DEF TypeOK, Moves
      <4> QED
        BY <4>1, MovesKeepLease
    <3>3. CASE run' = [run EXCEPT ![p].pc = "work", ![p].final = run[p].task \in decided]
      <4> DEFINE x == [run[p] EXCEPT !.pc = "work", !.final = run[p].task \in decided]
      <4>0. (run[p].task \in decided) \in BOOLEAN
        OBVIOUS
      <4>1. x \in RunState
        BY <2>r, <4>0, SetFinal
      <4>2. x.task = run[p].task /\ x.left = run[p].left
        BY <2>r DEF RunState
      <4>3. run' = [run EXCEPT ![p] = x]
        BY <3>3
      <4> HIDE DEF x
      <4>4. TypeOK'
        BY <3>1, <4>1, <4>3 DEF TypeOK
      <4>5. Moves(p)
        BY <2>6, <3>1, <4>2, <4>3 DEF TypeOK, Moves, RunBegin, Writing
      <4> QED
        BY <4>4, <4>5, MovesKeepLease
    <3> QED
      BY <2>6, <3>2, <3>3 DEF RunBegin
  <2>7. ASSUME NEW p \in Procs, RunWork(p) \/ RunReset(p)
        PROVE  TypeInv'
    <3>1. /\ UNCHANGED <<task, checkout, lease, run, overlap>>
          /\ branch' \in [Tasks -> {"none", "base", "work"}] /\ dirty' \subseteq Tasks
          /\ decided' \subseteq Tasks
      BY <2>7, <2>r DEF RunWork, RunReset, SaveWorkflow, TypeOK
    <3> QED
      BY <3>1 DEF TypeOK, HoldsLease, Writing
  <2>f. ASSUME NEW p \in Procs, RunFinalize(p)
        PROVE  TypeInv'
    <3> DEFINE x == [run[p] EXCEPT !.final = TRUE]
    <3>1. /\ run' = [run EXCEPT ![p] = x] /\ decided' \subseteq Tasks /\ Writing(p)
          /\ UNCHANGED <<task, checkout, branch, dirty, lease, overlap>>
      BY <2>f, <2>r DEF RunFinalize, TypeOK, Writing
    <3>2. x \in RunState
      BY <2>r, SetFinal
    <3>3. x.task = run[p].task /\ x.left = run[p].left
      BY <2>r DEF RunState
    <3> HIDE DEF x
    <3>4. TypeOK' /\ Moves(p)
      BY <3>1, <3>2, <3>3 DEF TypeOK, Moves
    <3> QED
      BY <3>4, MovesKeepLease
  <2>8. ASSUME NEW p \in Procs, RunCommit(p)
        PROVE  TypeInv'
    <3>1. run' = [run EXCEPT ![p] = [run[p] EXCEPT !.committed = TRUE]]
      BY <2>8 DEF RunCommit
    <3>2. /\ branch' \in [Tasks -> {"none", "base", "work"}] /\ dirty' \subseteq Tasks
          /\ UNCHANGED <<task, checkout, decided, lease, overlap>>
      BY <2>8, <2>r DEF RunCommit, TypeOK
    <3>3. TypeOK'
      BY <2>r, <3>1, <3>2, SetCommitted DEF TypeOK
    <3>4. Moves(p)
      BY <2>8, <2>r, <3>1, <3>2 DEF TypeOK, Moves, RunState, RunCommit, Writing
    <3> QED
      BY <3>3, <3>4, MovesKeepLease
  <2>9. ASSUME NEW p \in Procs, NEW ending \in Endings, NEW ok \in BOOLEAN,
               RunFinish(p, ending, ok)
        PROVE  TypeInv'
    <3>1. run' = [run EXCEPT ![p] = [run[p] EXCEPT !.pc = "commit", !.ending = ending,
                                                   !.recorded = ok]]
      BY <2>9 DEF RunFinish
    <3>2. /\ task' \in [Tasks -> TaskState] /\ decided' \subseteq Tasks
          /\ UNCHANGED <<checkout, branch, dirty, lease, overlap>>
      BY <2>9, <2>r DEF RunFinish, SaveWorkflow, TypeOK, TaskState, Endings
    <3>3. TypeOK'
      BY <2>r, <3>1, <3>2, SetEnding DEF TypeOK
    <3>4. Moves(p)
      BY <2>9, <2>r, <3>1, <3>2 DEF TypeOK, Moves, RunState, RunFinish, Writing
    <3> QED
      BY <3>3, <3>4, MovesKeepLease
  <2>10. ASSUME NEW p \in Procs, CleanupCommit(p)
         PROVE  TypeInv'
    <3>1. /\ branch' \in [Tasks -> {"none", "base", "work"}] /\ dirty' \subseteq Tasks
          /\ UNCHANGED <<task, checkout, decided, lease, overlap>> /\ Writing(p)
      BY <2>10, <2>r DEF CleanupCommit, TypeOK, Writing
    <3>2. CASE Leave(p)
      <4>1. TypeOK' /\ Moves(p)
        BY <3>1, <3>2, LeaveMoves DEF TypeOK, Moves
      <4> QED
        BY <4>1, MovesKeepLease
    <3>3. ASSUME NEW x \in RunState, run' = [run EXCEPT ![p] = x],
                 x.task = run[p].task, x.left = run[p].left
          PROVE  TypeInv'
      <4>1. TypeOK' /\ Moves(p)
        BY <3>1, <3>3 DEF TypeOK, Moves
      <4> QED
        BY <4>1, MovesKeepLease
    <3>4. CASE Goto(p, "remove")
      <4>1. /\ [run[p] EXCEPT !.pc = "remove"] \in RunState
            /\ [run[p] EXCEPT !.pc = "remove"].task = run[p].task
            /\ [run[p] EXCEPT !.pc = "remove"].left = run[p].left
        <5>1. "remove" \in Points
          BY DEF Points
        <5>2. [run[p] EXCEPT !.pc = "remove"] \in RunState
          BY <2>r, <5>1, SetPc
        <5> QED
          BY <2>r, <5>2 DEF RunState
      <4>2. run' = [run EXCEPT ![p] = [run[p] EXCEPT !.pc = "remove"]]
        BY <3>4 DEF Goto
      <4> QED
        BY <3>3, <4>1, <4>2
    <3>5. CASE run' = [run EXCEPT ![p].pc = "remove", ![p].committed = TRUE]
      <4>1. /\ [run[p] EXCEPT !.pc = "remove", !.committed = TRUE] \in RunState
            /\ [run[p] EXCEPT !.pc = "remove", !.committed = TRUE].task = run[p].task
            /\ [run[p] EXCEPT !.pc = "remove", !.committed = TRUE].left = run[p].left
        <5>1. "remove" \in Points
          BY DEF Points
        <5>2. [run[p] EXCEPT !.pc = "remove", !.committed = TRUE] \in RunState
          BY <2>r, <5>1, SetPc
        <5> QED
          BY <2>r, <5>2 DEF RunState
      <4>2. run' = [run EXCEPT ![p] = [run[p] EXCEPT !.pc = "remove", !.committed = TRUE]]
        BY <3>5
      <4> QED
        BY <3>3, <4>1, <4>2
    <3> QED
      BY <2>10, <3>2, <3>4, <3>5 DEF CleanupCommit
  <2>11. ASSUME NEW p \in Procs, CleanupRemove(p)
         PROVE  TypeInv'
    <3>1. /\ checkout' \subseteq Tasks /\ dirty' \subseteq Tasks
          /\ branch' \in [Tasks -> {"none", "base", "work"}]
          /\ UNCHANGED <<task, decided, lease, overlap>> /\ Leave(p)
      BY <2>11, <2>r DEF CleanupRemove, TypeOK
    <3>2. TypeOK' /\ Moves(p)
      BY <3>1, LeaveMoves DEF TypeOK, Moves
    <3> QED
      BY <3>2, MovesKeepLease
  <2>12. ASSUME NEW p \in Procs, ReleaseLease(p) \/ Crash(p)
         PROVE  TypeInv'
    <3>1. /\ run' = [run EXCEPT ![p] = Idle]
          /\ UNCHANGED <<task, checkout, branch, dirty, decided, overlap>>
      BY <2>12 DEF ReleaseLease, Crash, Return
    <3>2. /\ lease' \in [Tasks -> Lease]
          /\ \A t \in Tasks : lease[t].holder # p => lease'[t] = lease[t]
      <4>1. CASE ReleaseLease(p)
        BY <2>r, <4>1, LeaseTyped DEF ReleaseLease, TypeOK
      <4>2. CASE Crash(p)
        BY <4>2, LeaseTyped DEF Crash, TypeOK
      <4> QED
        BY <2>12, <4>1, <4>2
    <3>3. TypeOK'
      BY <3>1, <3>2, IdleTyped DEF TypeOK
    <3>4. HoldsLease'
      <4> SUFFICES ASSUME NEW q \in Procs, Writing(q)', run'[q].left > 0
                   PROVE  lease'[run'[q].task] = [holder |-> q, left |-> run'[q].left]
        BY DEF HoldsLease
      <4>1. q # p /\ run'[q] = run[q] /\ Writing(q)
        BY <3>1, IdleTyped DEF Writing, TypeOK
      <4>2. lease[run[q].task] = [holder |-> q, left |-> run[q].left]
        BY <4>1 DEF HoldsLease
      <4> QED
        BY <2>r, <3>2, <4>1, <4>2
    <3> QED
      BY <3>3, <3>4
  <2>13. CASE Tick
    <3>1. /\ lease' = [t \in Tasks |-> [lease[t] EXCEPT !.left = Less(lease[t].left)]]
          /\ run' = [p \in Procs |-> [run[p] EXCEPT !.left = Less(run[p].left)]]
          /\ UNCHANGED <<task, checkout, branch, dirty, decided, overlap>>
      BY <2>13 DEF Tick
    <3>2. TypeOK'
      BY <2>r, <3>1, SetLeft, LeaseTyped DEF TypeOK
    <3>3. HoldsLease'
      <4> SUFFICES ASSUME NEW q \in Procs, Writing(q)', run'[q].left > 0
                   PROVE  lease'[run'[q].task] = [holder |-> q, left |-> run'[q].left]
        BY DEF HoldsLease
      <4>1. /\ run'[q].pc = run[q].pc /\ run'[q].task = run[q].task
            /\ run'[q].left = Less(run[q].left)
        BY <2>r, <3>1 DEF RunState
      <4>2. run[q].left > 0 /\ Writing(q)
        <5>1. run[q].left \in Nat
          BY <2>r DEF RnConstants, RunState
        <5> QED
          BY <4>1, <5>1 DEF Less, Writing
      <4>3. lease[run[q].task] = [holder |-> q, left |-> run[q].left]
        BY <4>2 DEF HoldsLease
      <4> QED
        BY <2>r, <3>1, <4>1, <4>3
    <3> QED
      BY <3>2, <3>3
  <2>14. CASE UNCHANGED vars
    BY <2>14 DEF vars, TypeOK, HoldsLease, Writing
  <2> QED
    BY <2>o, <2>1, <2>2, <2>3, <2>4, <2>5, <2>6, <2>7, <2>f, <2>8, <2>9, <2>10, <2>11,
       <2>12, <2>13, <2>14
    DEF Next, Step
<1> QED
  BY <1>1, <1>2, PTL DEF Spec

-----------------------------------------------------------------------------
(* One writer *)

\* Of two processes at work on one worktree the lease of one has run out, whatever
\* crashes, fails or is retried, for any number of processes and tasks: both cannot
\* be the holder in the table.  (Nothing renews a lease, so one may well have.)
THEOREM OneWriterWithinLease == ASSUME RnConstants PROVE Spec => []OneWriterInTime
<1>1. TypeInv => OneWriterInTime
  <2> SUFFICES ASSUME TypeInv, NEW p \in Procs, NEW q \in Procs,
                      Writing(p), Writing(q), run[p].task = run[q].task,
                      run[p].left # 0, run[q].left # 0
               PROVE  p = q
    BY DEF OneWriterInTime
  <2>1. run[p].left > 0 /\ run[q].left > 0
    BY DEF RnConstants, TypeInv, TypeOK, RunState
  <2>2. /\ lease[run[p].task] = [holder |-> p, left |-> run[p].left]
        /\ lease[run[p].task] = [holder |-> q, left |-> run[q].left]
    BY <2>1 DEF TypeInv, HoldsLease
  <2>3. lease[run[p].task].holder = p /\ lease[run[p].task].holder = q
    BY <2>2
  <2> QED
    BY <2>3
<1> QED
  BY <1>1, LeaseHeld, PTL

-----------------------------------------------------------------------------
(* Work is kept *)

Before == {"idle", "blockers", "block", "open", "acquire", "begin", "release", "reopen"}

\* A task two processes are at work on is marked as one.
OverlapInv ==
    \A p, q \in Procs :
        Writing(p) /\ Writing(q) /\ run[p].task = run[q].task /\ p # q =>
            run[p].task \in overlap

\* What process p, the only one on its phased task, knows about the work: whether
\* the candidate is decided; it removes the checkout only after a commit, and once
\* it has committed nothing uncommitted is left.
KeptBy(p) ==
    /\ run[p].pc \in Before => ~run[p].committed
    /\ run[p].task \in Phased /\ run[p].task \notin overlap /\ Writing(p) =>
          /\ run[p].pc # "begin" => (run[p].final <=> run[p].task \in decided)
          /\ run[p].committed => /\ run[p].final /\ run[p].task \notin dirty
                                 /\ branch[run[p].task] = "work"
          /\ run[p].pc = "commit" /\ run[p].ending = "accepted" => run[p].committed
          /\ run[p].pc = "remove" => run[p].committed

\* Only a decided candidate is on a task branch.
BranchInv == \A t \in Phased : t \notin overlap /\ branch[t] = "work" => t \in decided

KeptInv == OverlapInv /\ BranchInv /\ \A p \in Procs : KeptBy(p)

\* A step of p touches the work of p's own task only, and only under the lease.
Local(p) ==
    /\ \A q \in Procs \ {p} : run'[q] = run[q]
    /\ overlap \subseteq overlap'
    /\ \A t \in Tasks :
          t # run[p].task \/ ~Writing(p) =>
              /\ t \in dirty' <=> t \in dirty
              /\ t \in decided' <=> t \in decided
              /\ branch'[t] = "work" <=> branch[t] = "work"

\* What it makes of its own task's work.
OwnKept(p) ==
    run[p].task \in Phased /\ run[p].task \notin overlap /\ Writing(p) =>
        /\ run[p].task \in dirty /\ run[p].task \notin dirty' =>
              \/ branch'[run[p].task] = "work"
              \/ run[p].task \notin decided /\ run[p].task \in checkout'
        /\ branch[run[p].task] = "work" => branch'[run[p].task] = "work"
        /\ branch'[run[p].task] = "work" => run[p].task \in decided'

\* Writing starts with a lease: a process that writes after a step of its own wrote
\* before it, on the same task, or its task is marked if somebody else is on it.
Enters(p) ==
    Writing(p)' =>
        \/ Writing(p) /\ run'[p].task = run[p].task
        \/ \A q \in Procs \ {p} :
              Writing(q) /\ run[q].task = run'[p].task => run'[p].task \in overlap'

Keeping(p) == Local(p) /\ OwnKept(p) /\ Enters(p) /\ KeptBy(p)'

\* So the others, who write other worktrees, still know what they knew.
LEMMA OthersKeep ==
    ASSUME KeptInv, NEW p \in Procs, Keeping(p), Phased \subseteq Tasks,
           \A q \in Procs : run[q].task \in Tasks
    PROVE  KeptInv' /\ Kept
<1>1. \A q \in Procs \ {p} : run'[q] = run[q] /\ KeptBy(q) /\ run[q].task \in Tasks
  BY DEF Keeping, Local, KeptInv
<1>2. \A q \in Procs \ {p} :
        Writing(q) /\ run[q].task \notin overlap' => run[q].task # run[p].task \/ ~Writing(p)
  BY DEF KeptInv, OverlapInv, Keeping, Local
<1>3. OverlapInv'
  <2> SUFFICES ASSUME NEW q \in Procs, NEW r \in Procs, Writing(q)', Writing(r)',
                      run'[q].task = run'[r].task, q # r
               PROVE  run'[q].task \in overlap'
    BY DEF OverlapInv
  <2>1. ASSUME NEW s \in Procs \ {p}, Writing(s), run[s].task = run'[p].task, Writing(p)'
        PROVE  run'[p].task \in overlap'
    BY <2>1 DEF Keeping, Enters, KeptInv, OverlapInv, Local
  <2>2. CASE q # p /\ r # p
    BY <1>1, <2>2 DEF KeptInv, OverlapInv, Writing, Keeping, Local
  <2>3. CASE q = p
    BY <1>1, <2>1, <2>3 DEF Writing
  <2>4. CASE r = p
    BY <1>1, <2>1, <2>4 DEF Writing
  <2> QED
    BY <2>2, <2>3, <2>4
<1>4. \A q \in Procs \ {p} : KeptBy(q)'
  BY <1>1, <1>2 DEF KeptBy, Keeping, Local, Writing
<1>5. BranchInv'
  BY DEF KeptInv, BranchInv, Keeping, Local, OwnKept
<1>6. Kept
  BY DEF Kept, Keeping, Local, OwnKept
<1> QED
  BY <1>3, <1>4, <1>5, <1>6 DEF KeptInv, Keeping

\* Leaving, whatever the run came to, forgets the run.
LEMMA LeavingKeeps ==
    ASSUME RnConstants, NEW p \in Procs, TypeInv,
           Leave(p) \/ Return(p), UNCHANGED <<branch, dirty, decided, overlap>>,
           BranchInv
    PROVE  Keeping(p)
<1>1. /\ \A q \in Procs \ {p} : run'[q] = run[q]
      /\ run'[p].pc \in {"release", "idle"} /\ ~run'[p].committed
  <2> DEFINE x == [Idle EXCEPT !.pc = "release", !.task = run[p].task]
  <2>1. Idle.pc = "idle" /\ ~Idle.committed /\ x.pc = "release" /\ ~x.committed
    BY DEF Idle
  <2>2. run' = [run EXCEPT ![p] = x] \/ run' = [run EXCEPT ![p] = Idle]
    BY DEF Leave, Return
  <2> HIDE DEF x
  <2> QED
    BY <2>1, <2>2 DEF TypeInv, TypeOK
<1> QED
  BY <1>1 DEF Keeping, Local, OwnKept, Enters, KeptBy, Writing, BranchInv

LEMMA KeptStep ==
    ASSUME RnConstants, TypeInv, KeptInv, [Next]_vars
    PROVE  KeptInv' /\ Kept
<1>r. /\ \A q \in Procs : run[q] \in RunState /\ run[q].task \in Tasks
      /\ run \in [Procs -> RunState] /\ Phased \subseteq Tasks
      /\ branch \in [Tasks -> {"none", "base", "work"}]
  BY DEF RnConstants, TypeInv, TypeOK, RunState
<1>a. BranchInv /\ \A p \in Procs : KeptBy(p)
  BY DEF KeptInv
<1>1. ASSUME NEW p \in Procs, Step(p)
      PROVE  Keeping(p)
  <2>1. ASSUME NEW t \in Tasks, RunGet(p, t) \/ ReopenGet(p, t)
        PROVE  Keeping(p)
    <3>1. PICK c \in {"blockers", "reopen"} :
             run' = [run EXCEPT ![p] = [Idle EXCEPT !.pc = c, !.task = t]]
      BY <2>1 DEF RunGet, ReopenGet
    <3>2. UNCHANGED <<branch, dirty, decided, overlap>> /\ ~Writing(p)
      BY <2>1 DEF RunGet, ReopenGet, Writing
    <3>3. run'[p].pc = c /\ ~run'[p].committed
      BY <1>r, <3>1 DEF Idle
    <3> QED
      BY <1>r, <3>1, <3>2, <3>3 DEF Keeping, Local, OwnKept, Enters, KeptBy, Writing
  <2>2. CASE RunBlockers(p) \/ RunOpen(p)
    <3>1. /\ \A q \in Procs \ {p} : run'[q] = run[q]
          /\ run[p].pc \in {"blockers", "open"}
          /\ UNCHANGED <<dirty, decided, overlap>>
      BY <2>2, <1>r DEF RunBlockers, RunOpen, Goto, Return
    <3>2. run'[p].pc \in {"open", "block", "acquire", "idle"} /\ ~run'[p].committed
      <4>1. \/ \E c \in {"open", "block", "acquire"} : run' = [run EXCEPT ![p].pc = c]
            \/ run' = [run EXCEPT ![p] = Idle]
        BY <2>2 DEF RunBlockers, RunOpen, Goto, Return
      <4>2. ~run[p].committed
        BY <1>a, <3>1 DEF KeptBy, Before
      <4> QED
        BY <1>r, <4>1, <4>2 DEF Idle, RunState
    <3>3. \A t \in Tasks : branch'[t] = "work" <=> branch[t] = "work"
      BY <2>2, <1>r DEF RunBlockers, RunOpen
    <3> QED
      BY <1>r, <3>1, <3>2, <3>3 DEF Keeping, Local, OwnKept, Enters, KeptBy, Writing
  <2>3. CASE RunBlock(p) \/ ReleaseLease(p) \/ ReopenSet(p) \/ Crash(p) \/ RunFails(p)
    BY <1>a, <2>3, LeavingKeeps DEF RunBlock, ReleaseLease, ReopenSet, Crash, RunFails
  <2>4. CASE AcquireLease(p)
    <3>1. /\ UNCHANGED <<branch, dirty, decided>> /\ ~Writing(p)
          /\ \A q \in Procs \ {p} : run'[q] = run[q]
      BY <2>4, <1>r DEF AcquireLease, Return, Writing
    <3>2. CASE Return(p) /\ overlap' = overlap
      BY <1>a, <3>1, <3>2, LeavingKeeps
    <3>3. CASE /\ run' = [run EXCEPT ![p] = [run[p] EXCEPT !.pc = "begin", !.left = TTL]]
               /\ overlap' = overlap \cup Overlapped(p)
      <4>1. ~run[p].committed
        BY <1>a, <2>4 DEF KeptBy, Before, AcquireLease
      <4>2. run'[p].pc = "begin" /\ ~run'[p].committed /\ run'[p].task = run[p].task
        BY <1>r, <3>3, <4>1 DEF RunState
      <4>3. Enters(p)
        BY <3>3, <4>2 DEF Enters, Overlapped
      <4> QED
        BY <1>r, <3>1, <3>3, <4>2, <4>3 DEF Keeping, Local, OwnKept, KeptBy, Writing
    <3> QED
      BY <2>4, <3>2, <3>3 DEF AcquireLease
  <2>5. CASE RunBegin(p)
    <3>1. UNCHANGED <<branch, dirty, decided, overlap>> /\ Writing(p) /\ run[p].pc = "begin"
      BY <2>5 DEF RunBegin, Writing
    <3>2. CASE Leave(p)
      BY <1>a, <3>1, <3>2, LeavingKeeps
    <3>3. CASE run' = [run EXCEPT ![p] = [run[p] EXCEPT !.pc = "work",
                                                        !.final = run[p].task \in decided]]
      <4>1. /\ run'[p].pc = "work" /\ run'[p].task = run[p].task
            /\ run'[p].committed = run[p].committed
            /\ run'[p].final = (run[p].task \in decided)
            /\ \A q \in Procs \ {p} : run'[q] = run[q]
        BY <1>r, <3>3 DEF RunState
      <4>2. ~run[p].committed
        BY <1>a, <3>1 DEF KeptBy, Before
      <4> QED
        BY <1>r, <1>a, <3>1, <4>1, <4>2
        DEF Keeping, Local, OwnKept, Enters, KeptBy, Writing, Before, BranchInv
    <3> QED
      BY <2>5, <3>2, <3>3 DEF RunBegin
  <2>6. CASE RunWork(p) \/ RunReset(p)
    <3>1. /\ run' = run /\ UNCHANGED <<overlap, checkout>> /\ run[p].task \in checkout
          /\ ~run[p].committed /\ ~run[p].final /\ run[p].pc = "work" /\ Writing(p)
          /\ decided' = decided \ {run[p].task}
          /\ dirty' \in {dirty \cup {run[p].task}, dirty \ {run[p].task}}
          /\ branch' \in {branch, [branch EXCEPT ![run[p].task] = "base"]}
      BY <2>6 DEF RunWork, RunReset, SaveWorkflow, Writing
    <3>2. run[p].task \in Phased /\ run[p].task \notin overlap =>
            run[p].task \notin decided /\ branch[run[p].task] # "work"
      BY <1>a, <3>1 DEF KeptBy, BranchInv
    <3>3. Local(p) /\ Enters(p)
      BY <1>r, <3>1 DEF Local, Enters
    <3>4. OwnKept(p)
      BY <1>r, <3>1, <3>2 DEF OwnKept
    <3>5. KeptBy(p)'
      BY <3>1, <3>2 DEF KeptBy, Writing, Before
    <3> QED
      BY <3>3, <3>4, <3>5 DEF Keeping
  <2>f. CASE RunFinalize(p)
    <3>1. /\ run' = [run EXCEPT ![p] = [run[p] EXCEPT !.final = TRUE]]
          /\ UNCHANGED <<branch, dirty, overlap>> /\ Writing(p) /\ run[p].pc = "work"
          /\ decided' = decided \cup {run[p].task}
      BY <2>f DEF RunFinalize, Writing
    <3>2. /\ run'[p].pc = "work" /\ run'[p].task = run[p].task /\ run'[p].final
          /\ run'[p].committed = run[p].committed
          /\ \A q \in Procs \ {p} : run'[q] = run[q]
      BY <1>r, <3>1 DEF RunState
    <3> QED
      BY <1>r, <1>a, <3>1, <3>2
      DEF Keeping, Local, OwnKept, Enters, KeptBy, Writing, Before
  <2>7. CASE RunCommit(p)
    <3>1. run' = [run EXCEPT ![p] = [run[p] EXCEPT !.committed = TRUE]]
      BY <2>7 DEF RunCommit
    <3>2. /\ run'[p].pc = "work" /\ run'[p].task = run[p].task /\ Writing(p)
          /\ run'[p].pc = run[p].pc /\ run'[p].committed
          /\ run'[p].final = run[p].final /\ run[p].final
          /\ \A q \in Procs \ {p} : run'[q] = run[q]
      BY <2>7, <1>r, <3>1 DEF RunCommit, RunState, Writing
    <3>3. /\ dirty' = dirty \ {run[p].task}
          /\ branch' = [branch EXCEPT ![run[p].task] = "work"]
          /\ UNCHANGED <<decided, overlap>>
      BY <2>7 DEF RunCommit
    <3> QED
      BY <1>r, <1>a, <3>2, <3>3 DEF Keeping, Local, OwnKept, Enters, KeptBy, Writing, Before
  <2>8. ASSUME NEW ending \in Endings, NEW ok \in BOOLEAN, RunFinish(p, ending, ok)
        PROVE  Keeping(p)
    <3>1. run' = [run EXCEPT ![p] = [run[p] EXCEPT !.pc = "commit", !.ending = ending,
                                                   !.recorded = ok]]
      BY <2>8 DEF RunFinish
    <3>2. /\ run'[p].pc = "commit" /\ run'[p].ending = ending
          /\ run'[p].task = run[p].task /\ run'[p].committed = run[p].committed
          /\ run'[p].final = run[p].final
          /\ \A q \in Procs \ {p} : run'[q] = run[q]
      BY <1>r, <3>1 DEF RunState
    <3>3. /\ UNCHANGED <<branch, dirty, overlap>> /\ Writing(p) /\ run[p].pc = "work"
          /\ run[p].task \in Phased => (ending = "accepted" <=> run[p].committed)
      BY <2>8 DEF RunFinish, Writing
    <3>4. \/ decided' = decided /\ run[p].task \notin Phased
          \/ decided' = (IF run[p].final THEN decided \cup {run[p].task}
                         ELSE decided \ {run[p].task})
      BY <2>8 DEF RunFinish, SaveWorkflow
    <3>5. Local(p) /\ Enters(p)
      BY <1>r, <3>2, <3>3, <3>4 DEF Local, Enters
    <3>6. run[p].task \in Phased /\ run[p].task \notin overlap =>
            (run[p].task \in decided' <=> run[p].task \in decided)
      BY <1>a, <3>3, <3>4 DEF KeptBy
    <3>7. OwnKept(p)
      BY <1>a, <3>3, <3>6 DEF OwnKept, BranchInv
    <3>8. KeptBy(p)'
      BY <1>a, <3>2, <3>3, <3>6 DEF KeptBy, Writing, Before
    <3> QED
      BY <3>5, <3>7, <3>8 DEF Keeping
  <2>9. CASE CleanupCommit(p)
    <3>1. Writing(p) /\ run[p].pc = "commit" /\ UNCHANGED <<decided, overlap>>
      BY <2>9 DEF CleanupCommit, Writing
    <3>2. CASE Leave(p) /\ UNCHANGED <<branch, dirty>>
      BY <1>a, <3>1, <3>2, LeavingKeeps
    <3>3. CASE run[p].ending = "accepted" /\ Goto(p, "remove") /\ UNCHANGED <<branch, dirty>>
      <4>1. run' = [run EXCEPT ![p] = [run[p] EXCEPT !.pc = "remove"]]
        BY <3>3 DEF Goto
      <4>2. /\ run'[p].pc = "remove" /\ run'[p].task = run[p].task
            /\ run'[p].committed = run[p].committed /\ run'[p].final = run[p].final
            /\ \A q \in Procs \ {p} : run'[q] = run[q]
        BY <1>r, <4>1 DEF RunState
      <4> QED
        BY <1>r, <1>a, <3>1, <3>3, <4>2
        DEF Keeping, Local, OwnKept, Enters, KeptBy, Writing, Before, BranchInv
    <3>4. CASE run[p].task \notin Phased
      <4>1. \/ UNCHANGED <<branch, dirty>>
            \/ /\ branch' = [branch EXCEPT ![run[p].task] = "work"]
               /\ dirty' = dirty \ {run[p].task}
        BY <2>9 DEF CleanupCommit
      <4>2. /\ run'[p].pc \in {"remove", "release"} /\ run'[p].task = run[p].task
            /\ run'[p].pc = "release" => ~run'[p].committed
            /\ \A q \in Procs \ {p} : run'[q] = run[q]
        <5>1. CASE Leave(p)
          BY <1>r, <5>1 DEF Leave, Idle
        <5>2. CASE Goto(p, "remove")
          BY <1>r, <5>2 DEF Goto, RunState
        <5>3. CASE run' = [run EXCEPT ![p] = [run[p] EXCEPT !.pc = "remove", !.committed = TRUE]]
          BY <1>r, <5>3 DEF RunState
        <5> QED
          BY <2>9, <5>1, <5>2, <5>3 DEF CleanupCommit
      <4> QED
        BY <1>r, <3>1, <3>4, <4>1, <4>2
        DEF Keeping, Local, OwnKept, Enters, KeptBy, Writing, Before
    <3>5. CASE run[p].task \in Phased
      BY <2>9, <3>2, <3>3, <3>5 DEF CleanupCommit
    <3> QED
      BY <3>4, <3>5
  <2>10. CASE CleanupRemove(p)
    <3>1. Leave(p) /\ Writing(p) /\ run[p].pc = "remove" /\ UNCHANGED <<decided, overlap>>
      BY <2>10 DEF CleanupRemove, Writing
    <3>2. /\ run'[p].pc = "release" /\ ~run'[p].committed
          /\ \A q \in Procs \ {p} : run'[q] = run[q]
      BY <1>r, <3>1 DEF Leave, Idle
    <3>3. /\ \A t \in Tasks \ {run[p].task} :
               branch'[t] = branch[t] /\ (t \in dirty' <=> t \in dirty)
          /\ run[p].committed => branch' = branch
      BY <2>10, <1>r DEF CleanupRemove
    <3>4. run[p].task \in Phased /\ run[p].task \notin overlap =>
            /\ run[p].committed /\ run[p].task \notin dirty
            /\ branch[run[p].task] = "work" /\ run[p].task \in decided
      BY <1>a, <3>1 DEF KeptBy
    <3>5. OwnKept(p)
      BY <1>r, <3>1, <3>3, <3>4 DEF OwnKept
    <3> QED
      BY <1>r, <3>1, <3>2, <3>3, <3>5 DEF Keeping, Local, Enters, KeptBy, Writing, Before
  <2> QED
    BY <1>1, <2>1, <2>2, <2>3, <2>4, <2>5, <2>6, <2>f, <2>7, <2>8, <2>9, <2>10 DEF Step
<1>2. CASE Tick
  <2>1. /\ run' = [q \in Procs |-> [run[q] EXCEPT !.left = Less(run[q].left)]]
        /\ UNCHANGED <<branch, dirty, decided, overlap>>
    BY <1>2 DEF Tick
  <2>2. \A q \in Procs : /\ run'[q].pc = run[q].pc /\ run'[q].task = run[q].task
                         /\ run'[q].ending = run[q].ending /\ run'[q].final = run[q].final
                         /\ run'[q].committed = run[q].committed
    BY <1>r, <2>1 DEF RunState
  <2>3. OverlapInv' /\ BranchInv'
    <3>1. \A q \in Procs : Writing(q)' <=> Writing(q)
      BY <2>2 DEF Writing
    <3>2. ASSUME NEW q \in Procs, NEW r \in Procs, Writing(q)', Writing(r)',
                 run'[q].task = run'[r].task, q # r
          PROVE  run'[q].task \in overlap'
      <4>1. Writing(q) /\ Writing(r) /\ run[q].task = run[r].task
        BY <2>2, <3>1, <3>2
      <4>2. run[q].task \in overlap
        BY <3>2, <4>1 DEF KeptInv, OverlapInv
      <4> QED
        BY <2>1, <2>2, <4>2
    <3>3. BranchInv'
      BY <1>a, <2>1 DEF BranchInv
    <3> QED
      BY <3>2, <3>3 DEF OverlapInv
  <2>4. ASSUME NEW q \in Procs PROVE KeptBy(q)'
    BY <1>a, <2>1, <2>2 DEF KeptBy, Writing
  <2>5. Kept
    BY <2>1 DEF Kept
  <2> QED
    BY <2>3, <2>4, <2>5 DEF KeptInv
<1>3. CASE UNCHANGED vars
  BY <1>3 DEF vars, KeptInv, OverlapInv, BranchInv, KeptBy, Kept, Writing
<1> QED
  BY <1>r, <1>1, <1>2, <1>3, OthersKeep DEF Next

\* The work of a phased task that never had two processes at once is not lost by
\* crashes, failed commits and removals, retries and cleanups of any number of
\* processes: before FINALIZE has decided on a candidate it is discarded only in a
\* checkout that stays (Worktree.Reset), after that it leaves the checkout for the
\* task branch, and what is there stays (Runner.cleanup removes a checkout).
THEOREM WorkStaysKept == ASSUME RnConstants PROVE Spec => WorkIsKept
<1>1. Init => KeptInv
  <2> SUFFICES ASSUME Init PROVE KeptInv
    OBVIOUS
  <2>1. \A p \in Procs : run[p].pc = "idle" /\ ~run[p].committed
    BY DEF Init, Idle
  <2>2. \A t \in Phased : branch[t] = "none"
    BY DEF RnConstants, Init
  <2> QED
    BY <2>1, <2>2 DEF KeptInv, OverlapInv, BranchInv, KeptBy, Writing
<1>2. TypeInv /\ KeptInv /\ [Next]_vars => KeptInv'
  BY KeptStep
<1>3. TypeInv /\ KeptInv /\ [Next]_vars => [Kept]_vars
  BY KeptStep
<1> QED
  BY <1>1, <1>2, <1>3, LeaseHeld, PTL DEF Spec, WorkIsKept

-----------------------------------------------------------------------------
(* The evaluation harness *)

\* A task of a set, as its file describes it.
TaskFile ==
    [id : STRING, argv : BOOLEAN, hidden : SUBSET STRING, fixture : SUBSET STRING,
     protected : SUBSET STRING, fresh : SUBSET STRING, target : STRING,
     tests : SUBSET STRING, attempts : Int, wall : Int, leak : STRING, set : STRING]

\* What is assumed of the inputs: a task names finitely many tests.
EvConstants ==
    /\ Repeat \in Nat /\ Repeats \in Nat
    /\ TaskSets \subseteq Seq({t \in TaskFile : IsFiniteSet(t.tests)})
    /\ ArmLists \subseteq Seq(STRING)

Text == STRING \cup {""}
Statuses == {"", "cancelled", "environment_failed", "completed", "task_failed"}
Faults == {"none", "unstarted", "late", "interrupt"}
OutcomeType ==
    [arm : Text, task : Text, rep : Nat, err : BOOLEAN, status : Statuses, solved : BOOLEAN,
     claimed : BOOLEAN, tampered : BOOLEAN, total : Nat, passed : Int,
     judged : BOOLEAN, right : BOOLEAN, fooled : BOOLEAN, fault : Faults]

\* An outcome counts exactly when it was judged, and for what its run did.
Honest(o) ==
    /\ o.err = ~ o.judged /\ (Evidence(o) <=> o.judged)
    /\ o.solved => o.fault = "none" /\ (o.right \/ o.fooled)
    /\ Evidence(o) /\ ~ o.solved => ~ o.right \/ o.tampered \/ o.fault # "none"

Stages == {"load", "refused", "prepare", "solve", "judge", "command", "report", "done"}
Working == {"prepare", "solve", "judge", "command"}
Busy(e) == e.pc \in Working

\* The copy began as the fixture and still has its paths.
Copied(t, old, new) ==
    /\ old = [f \in Paths(t) |-> IF f \in t.fixture THEN "base" ELSE "gone"]
    /\ DOMAIN new = Paths(t)

\* At the acceptance command, a protected file that could fool it was seen changed.
Guarded(t, tree, seen) ==
    \A f \in t.protected \cap DOMAIN tree : Fools(t, tree, f) => seen # {}

\* The judged runs of an arm, and the tasks and passes they are of.
JudgedRuns(s, a) == {i \in DOMAIN s : s[i].arm = a /\ s[i].judged}
JudgedIn(s, a) == {<<s[i].task, s[i].rep>> : i \in JudgedRuns(s, a)}

\* The comparisons of a report count the runs that both arms were judged on, and its
\* repeats gate counts the runs of every cell.
Matches(r, s) ==
    r.made =>
      /\ \A c \in DOMAIN r.compared :
            LET p == r.compared[c].paired IN
            /\ p.variantOnly + p.baselineOnly + p.both + p.neither
                  = Cardinality(JudgedIn(s, c[1]) \cap JudgedIn(s, c[2]))
            /\ r.arms[c[1]].solved.total = Cardinality(JudgedRuns(s, c[1]))
      /\ "finalist_repeats" \in r.met =>
            \A i \in DOMAIN s : s[i].judged =>
                Cardinality({j \in JudgedRuns(s, s[i].arm) : s[j].task = s[i].task}) >= Repeats

Sound(s) == s \in Seq(OutcomeType) /\ \A i \in DOMAIN s : Honest(s[i])

Loop == [pc : Stages, rep : Nat, arm : Nat, task : Nat]

EvInv ==
    /\ disk \in TaskSets /\ arms \in ArmLists /\ claim \in BOOLEAN /\ stopped \in BOOLEAN
    /\ ev \in Loop
    /\ ev.pc = "load" => outcomes = <<>> /\ ev.arm = 1 /\ ev.task = 1
    /\ Busy(ev) => ev.arm \in DOMAIN arms /\ ev.task \in DOMAIN disk
    /\ ev.pc \in {"solve", "judge", "command"} => Copied(disk[ev.task], before, copy)
    /\ ev.pc = "command" => Guarded(disk[ev.task], copy, tampered)
    /\ Sound(outcomes)
    /\ report.made => ev.pc = "done"
    /\ Matches(report, outcomes)

-----------------------------------------------------------------------------
\* A set of numbers that is not empty has a least one, and a greatest one if bounded.
LEMMA EvLeast ==
    ASSUME NEW S \in SUBSET Nat, S # {}
    PROVE  \E m \in S : \A k \in S : m <= k
<1>1. PICK R : R = OpToRel(<, Nat)
  OBVIOUS
<1>2. IsWellFoundedOn(R, Nat)
  BY <1>1, NatLessThanWellFounded
<1>3. PICK m \in S : \A y \in S : ~(<<y, m>> \in R)
  BY <1>2, WFMin
<1>4. \A y \in Nat : y < m => <<y, m>> \in R
  BY <1>1 DEF OpToRel
<1>5. \A k \in S : m <= k
  <2> SUFFICES ASSUME NEW k \in S, ~(m <= k) PROVE FALSE
    OBVIOUS
  <2>1. k \in Nat /\ m \in Nat /\ k < m
    OBVIOUS
  <2> QED BY <1>3, <1>4, <2>1
<1> QED BY <1>5

LEMMA EvGreatest ==
    ASSUME NEW n \in Nat, NEW S \in SUBSET (1 .. n), S # {}
    PROVE  \E m \in S : \A k \in S : k <= m
<1> DEFINE T == {x \in Nat : x <= n /\ n - x \in S}
<1>1. \A k \in S : n - k \in T
  OBVIOUS
<1>2. T # {} /\ T \in SUBSET Nat
  BY <1>1
<1>3. PICK y \in T : \A x \in T : y <= x
  <2> HIDE DEF T
  <2> QED BY <1>2, EvLeast
<1>4. n - y \in S
  OBVIOUS
<1>5. \A k \in S : k <= n - y
  BY <1>1, <1>3
<1> QED BY <1>4, <1>5

LEMMA UpToN ==
    ASSUME NEW n \in Nat
    PROVE  IsFiniteSet(1 .. n) /\ Cardinality(1 .. n) = n
  BY FS_Interval

\* An outcome is in error exactly when it was not judged.
LEMMA Judging ==
    ASSUME NEW s, Sound(s), NEW i \in DOMAIN s
    PROVE  /\ s[i].judged \in BOOLEAN /\ s[i].solved \in BOOLEAN /\ s[i].err = ~ s[i].judged
           /\ DOMAIN s = 1 .. Len(s) /\ Len(s) \in Nat
<1>1. s[i] \in OutcomeType /\ Honest(s[i]) /\ DOMAIN s = 1 .. Len(s) /\ Len(s) \in Nat
  BY DEF Sound
<1> QED BY <1>1 DEF OutcomeType, Honest

\* Two questions split a set in four.
LEMMA Quarters ==
    ASSUME NEW K, IsFiniteSet(K), NEW f \in [K -> BOOLEAN], NEW g \in [K -> BOOLEAN]
    PROVE  Cardinality({k \in K : f[k] = FALSE /\ g[k] = TRUE})
           + Cardinality({k \in K : f[k] = TRUE /\ g[k] = FALSE})
           + Cardinality({k \in K : f[k] = TRUE /\ g[k] = TRUE})
           + Cardinality({k \in K : f[k] = FALSE /\ g[k] = FALSE})
           = Cardinality(K)
<1> DEFINE A == {k \in K : f[k] = FALSE /\ g[k] = TRUE}
           B == {k \in K : f[k] = TRUE /\ g[k] = FALSE}
           C == {k \in K : f[k] = TRUE /\ g[k] = TRUE}
           D == {k \in K : f[k] = FALSE /\ g[k] = FALSE}
<1>1. A \subseteq K /\ B \subseteq K /\ C \subseteq K /\ D \subseteq K
  OBVIOUS
<1>2. /\ K = (A \cup B) \cup (C \cup D) /\ A \cap B = {} /\ C \cap D = {}
      /\ (A \cup B) \cap (C \cup D) = {}
  <2>1. \A k \in K : f[k] \in BOOLEAN /\ g[k] \in BOOLEAN
    OBVIOUS
  <2>2. \A k \in K : k \in A \/ k \in B \/ k \in C \/ k \in D
    BY <2>1
  <2>3. /\ A \cap B = {} /\ C \cap D = {} /\ A \cap C = {} /\ A \cap D = {}
        /\ B \cap C = {} /\ B \cap D = {}
    OBVIOUS
  <2> HIDE DEF A, B, C, D
  <2> QED BY <1>1, <2>2, <2>3
<1> HIDE DEF A, B, C, D
<1>3. IsFiniteSet(A) /\ IsFiniteSet(B) /\ IsFiniteSet(C) /\ IsFiniteSet(D)
  BY <1>1, FS_Subset
<1>4. /\ Cardinality(A) \in Nat /\ Cardinality(B) \in Nat /\ Cardinality(C) \in Nat
      /\ Cardinality(D) \in Nat /\ Cardinality({}) = 0
  BY <1>3, FS_CardinalityType, FS_EmptySet
<1>5. /\ Cardinality(A \cap B) = 0 /\ Cardinality(C \cap D) = 0
      /\ Cardinality((A \cup B) \cap (C \cup D)) = 0
  BY <1>2, <1>4, Zenon
<1>6. IsFiniteSet(A \cup B) /\ Cardinality(A \cup B) = Cardinality(A) + Cardinality(B)
  <2>1. /\ IsFiniteSet(A \cup B)
        /\ Cardinality(A \cup B) = Cardinality(A) + Cardinality(B) - Cardinality(A \cap B)
    BY <1>3, FS_Union
  <2> QED BY <1>4, <1>5, <2>1
<1>7. IsFiniteSet(C \cup D) /\ Cardinality(C \cup D) = Cardinality(C) + Cardinality(D)
  <2>1. /\ IsFiniteSet(C \cup D)
        /\ Cardinality(C \cup D) = Cardinality(C) + Cardinality(D) - Cardinality(C \cap D)
    BY <1>3, FS_Union
  <2> QED BY <1>4, <1>5, <2>1
<1>8. Cardinality(K) = Cardinality(A \cup B) + Cardinality(C \cup D)
                       - Cardinality((A \cup B) \cap (C \cup D))
  BY <1>2, <1>6, <1>7, FS_Union
<1>9. Cardinality(K) = Cardinality(A) + Cardinality(B) + Cardinality(C) + Cardinality(D)
  BY <1>4, <1>6, <1>7, <1>8, <1>5
<1> QED BY <1>9 DEF A, B, C, D

\* There are finitely many judged runs, so of finitely many tasks and passes.
LEMMA JudgedFinite ==
    ASSUME NEW s, Sound(s), NEW a
    PROVE  IsFiniteSet(JudgedRuns(s, a)) /\ IsFiniteSet(JudgedIn(s, a))
<1> DEFINE D == JudgedRuns(s, a)
           J == JudgedIn(s, a)
           t == [i \in D |-> <<s[i].task, s[i].rep>>]
<1>1. D \subseteq 1 .. Len(s) /\ Len(s) \in Nat
  BY DEF Sound, JudgedRuns
<1>2. /\ t \in [D -> J] /\ \A x \in J : \E i \in D : t[i] = x
  BY DEF JudgedIn
<1> HIDE DEF D, J, t
<1>3. IsFiniteSet(D)
  <2>1. IsFiniteSet(1 .. Len(s))
    BY <1>1, UpToN
  <2> QED BY <1>1, <2>1, FS_Subset
<1>4. t \in Surjection(D, J)
  BY <1>2 DEF Surjection
<1>5. IsFiniteSet(J)
  BY <1>3, <1>4, FS_Surjection
<1> QED BY <1>3, <1>5 DEF D, J

\* pairArms finds a run of an arm for a task and a pass, if one was judged.
LEMMA EntryJudged ==
    ASSUME Sound(outcomes), NEW a, NEW t, NEW r
    PROVE  LET e == PairEntry(t, r, a) IN
           /\ e # 0 <=> <<t, r>> \in JudgedIn(outcomes, a)
           /\ e # 0 => e \in DOMAIN outcomes
<1> DEFINE S == {i \in OfArm(a) : /\ outcomes[i].task = t /\ outcomes[i].rep = r
                                  /\ ~ Errored(outcomes[i])}
<1>1. PairEntry(t, r, a) = IF S = {} THEN 0 ELSE CHOOSE i \in S : \A j \in S : j <= i
  BY DEF PairEntry
<1>2. /\ DOMAIN outcomes = 1 .. Len(outcomes) /\ Len(outcomes) \in Nat
      /\ \A i \in DOMAIN outcomes : /\ outcomes[i].judged \in BOOLEAN
                                     /\ outcomes[i].err = ~ outcomes[i].judged
  BY Judging DEF Sound
<1>3. \A i : i \in S <=> /\ i \in DOMAIN outcomes /\ outcomes[i].arm = a /\ outcomes[i].task = t
                         /\ outcomes[i].rep = r /\ outcomes[i].judged
  BY <1>2 DEF OfArm, Runs, Errored
<1>4. S # {} <=> <<t, r>> \in JudgedIn(outcomes, a)
  <2> HIDE DEF S
  <2>1. ASSUME NEW i \in S PROVE <<t, r>> \in JudgedIn(outcomes, a)
    BY <1>3, <2>1 DEF JudgedIn, JudgedRuns
  <2>2. ASSUME <<t, r>> \in JudgedIn(outcomes, a) PROVE S # {}
    <3>1. PICK i \in JudgedRuns(outcomes, a) : <<t, r>> = <<outcomes[i].task, outcomes[i].rep>>
      BY <2>2 DEF JudgedIn
    <3> QED BY <1>3, <3>1 DEF JudgedRuns
  <2> QED BY <2>1, <2>2
<1> HIDE DEF S
<1>5. CASE S = {}
  BY <1>1, <1>4, <1>5
<1>6. CASE S # {}
  <2>1. S \in SUBSET (1 .. Len(outcomes))
    BY <1>2, <1>3
  <2>2. \E i \in S : \A j \in S : j <= i
    BY <1>2, <1>6, <2>1, EvGreatest
  <2>4. PairEntry(t, r, a) \in S
    BY <1>1, <1>6, <2>2
  <2>5. \A x \in 1 .. Len(outcomes) : x # 0
    BY <1>2
  <2> QED BY <1>2, <1>3, <1>4, <1>6, <2>4, <2>5
<1> QED BY <1>5, <1>6

LEMMA KeysJudged ==
    ASSUME Sound(outcomes), NEW b, NEW v
    PROVE  PairKeys(b, v) = JudgedIn(outcomes, b) \cap JudgedIn(outcomes, v)
<1>1. ASSUME NEW k \in PairKeys(b, v)
      PROVE  k \in JudgedIn(outcomes, b) /\ k \in JudgedIn(outcomes, v)
  <2>1. PICK i \in Runs : k = <<outcomes[i].task, outcomes[i].rep>>
    BY <1>1 DEF PairKeys
  <2>2. k = <<k[1], k[2]>>
    BY <2>1
  <2>3. PairEntry(k[1], k[2], b) # 0 /\ PairEntry(k[1], k[2], v) # 0
    BY <1>1 DEF PairKeys
  <2> QED BY <2>2, <2>3, EntryJudged
<1>2. ASSUME NEW k, k \in JudgedIn(outcomes, b), k \in JudgedIn(outcomes, v)
      PROVE  k \in PairKeys(b, v)
  <2>1. PICK i \in DOMAIN outcomes : k = <<outcomes[i].task, outcomes[i].rep>>
    BY <1>2 DEF JudgedIn, JudgedRuns
  <2>2. k = <<k[1], k[2]>>
    BY <2>1
  <2>3. PairEntry(k[1], k[2], b) # 0 /\ PairEntry(k[1], k[2], v) # 0
    BY <1>2, <2>2, EntryJudged
  <2>4. k \in {<<outcomes[j].task, outcomes[j].rep>> : j \in Runs}
    BY <2>1 DEF Runs
  <2> QED BY <2>3, <2>4 DEF PairKeys
<1> QED BY <1>1, <1>2

\* What Aggregate counts for two arms.
LEMMA PairsCounted ==
    ASSUME Sound(outcomes), NEW b, NEW v
    PROVE  LET p == PairArms(b, v) IN
           p.variantOnly + p.baselineOnly + p.both + p.neither
              = Cardinality(JudgedIn(outcomes, b) \cap JudgedIn(outcomes, v))
<1> DEFINE K == PairKeys(b, v)
           won(k, a) == outcomes[PairEntry(k[1], k[2], a)].solved
           f == [k \in K |-> won(k, b)]
           g == [k \in K |-> won(k, v)]
<1>1. K = JudgedIn(outcomes, b) \cap JudgedIn(outcomes, v)
  BY KeysJudged
<1>2. IsFiniteSet(K)
  <2>1. IsFiniteSet(JudgedIn(outcomes, b))
    BY JudgedFinite
  <2>2. K \subseteq JudgedIn(outcomes, b)
    BY <1>1
  <2> HIDE DEF K
  <2> QED BY <2>1, <2>2, FS_Subset
<1>3. ASSUME NEW k \in K PROVE won(k, b) \in BOOLEAN /\ won(k, v) \in BOOLEAN
  <2>1. PairEntry(k[1], k[2], b) # 0 /\ PairEntry(k[1], k[2], v) # 0
    BY <1>3 DEF PairKeys
  <2>2. PairEntry(k[1], k[2], b) \in DOMAIN outcomes /\ PairEntry(k[1], k[2], v) \in DOMAIN outcomes
    BY <2>1, EntryJudged
  <2>3. \A i \in DOMAIN outcomes : outcomes[i].solved \in BOOLEAN
    BY Judging
  <2> QED BY <2>2, <2>3
<1>4. PairArms(b, v) =
        [variantOnly |-> Cardinality({k \in K : won(k, b) = FALSE /\ won(k, v) = TRUE}),
         baselineOnly |-> Cardinality({k \in K : won(k, b) = TRUE /\ won(k, v) = FALSE}),
         both |-> Cardinality({k \in K : won(k, b) = TRUE /\ won(k, v) = TRUE}),
         neither |-> Cardinality({k \in K : won(k, b) = FALSE /\ won(k, v) = FALSE})]
  BY DEF PairArms
<1> HIDE DEF K, won
<1>5. f \in [K -> BOOLEAN] /\ g \in [K -> BOOLEAN]
  BY <1>3
<1>6. /\ {k \in K : won(k, b) = FALSE /\ won(k, v) = TRUE} = {k \in K : f[k] = FALSE /\ g[k] = TRUE}
      /\ {k \in K : won(k, b) = TRUE /\ won(k, v) = FALSE} = {k \in K : f[k] = TRUE /\ g[k] = FALSE}
      /\ {k \in K : won(k, b) = TRUE /\ won(k, v) = TRUE} = {k \in K : f[k] = TRUE /\ g[k] = TRUE}
      /\ {k \in K : won(k, b) = FALSE /\ won(k, v) = FALSE} = {k \in K : f[k] = FALSE /\ g[k] = FALSE}
  OBVIOUS
<1> HIDE DEF f, g
<1>7. LET p == PairArms(b, v) IN
      /\ p.variantOnly = Cardinality({k \in K : f[k] = FALSE /\ g[k] = TRUE})
      /\ p.baselineOnly = Cardinality({k \in K : f[k] = TRUE /\ g[k] = FALSE})
      /\ p.both = Cardinality({k \in K : f[k] = TRUE /\ g[k] = TRUE})
      /\ p.neither = Cardinality({k \in K : f[k] = FALSE /\ g[k] = FALSE})
  BY <1>4, <1>6
<1>8. Cardinality({k \in K : f[k] = FALSE /\ g[k] = TRUE})
      + Cardinality({k \in K : f[k] = TRUE /\ g[k] = FALSE})
      + Cardinality({k \in K : f[k] = TRUE /\ g[k] = TRUE})
      + Cardinality({k \in K : f[k] = FALSE /\ g[k] = FALSE})
      = Cardinality(K)
  BY <1>2, <1>5, Quarters
<1> QED BY <1>1, <1>7, <1>8

\* and for one.
LEMMA ArmCounted ==
    ASSUME Sound(outcomes), NEW a
    PROVE  ArmResult(a).solved.total = Cardinality(JudgedRuns(outcomes, a))
<1> DEFINE own == {i \in OfArm(a) : ~ Errored(outcomes[i])}
<1>1. ArmResult(a).solved.total = Cardinality(own)
  BY DEF ArmResult, Rate
<1>2. own = JudgedRuns(outcomes, a)
  <2>1. \A i \in DOMAIN outcomes : /\ outcomes[i].judged \in BOOLEAN
                                    /\ outcomes[i].err = ~ outcomes[i].judged
    BY Judging
  <2> QED BY <2>1 DEF OfArm, Runs, Errored, JudgedRuns
<1> HIDE DEF own
<1> QED BY <1>1, <1>2

\* The repeats gate is met only when every cell that was judged was judged often enough.
LEMMA RepeatsCounted ==
    ASSUME EvConstants, Sound(outcomes), MinimumRepeats >= Repeats, NEW i \in DOMAIN outcomes,
           outcomes[i].judged
    PROVE  Cardinality({j \in JudgedRuns(outcomes, outcomes[i].arm) :
                           outcomes[j].task = outcomes[i].task}) >= Repeats
<1> DEFINE c == <<outcomes[i].task, outcomes[i].arm>>
           N == {RunsOf(k) : k \in Cells}
<1>1. \A j \in DOMAIN outcomes : Evidence(outcomes[j]) <=> outcomes[j].judged
  BY DEF Sound, Honest
<1>2. c \in Cells
  BY <1>1 DEF Cells, Runs
<1>3. /\ \A j : j \in {k \in Runs : /\ Evidence(outcomes[k])
                                    /\ <<outcomes[k].task, outcomes[k].arm>> = c}
            <=> j \in {k \in JudgedRuns(outcomes, outcomes[i].arm) :
                          outcomes[k].task = outcomes[i].task}
  BY <1>1 DEF Runs, JudgedRuns
<1>4. RunsOf(c) = Cardinality({j \in JudgedRuns(outcomes, outcomes[i].arm) :
                                  outcomes[j].task = outcomes[i].task})
  <2>1. {k \in Runs : Evidence(outcomes[k]) /\ <<outcomes[k].task, outcomes[k].arm>> = c}
         = {k \in JudgedRuns(outcomes, outcomes[i].arm) : outcomes[k].task = outcomes[i].task}
    BY <1>3
  <2> HIDE DEF c
  <2> QED BY <2>1 DEF RunsOf
<1> HIDE DEF c
<1>5. \A k : RunsOf(k) \in Nat
  <2> SUFFICES ASSUME NEW k PROVE RunsOf(k) \in Nat
    OBVIOUS
  <2> DEFINE Z == {x \in Runs : Evidence(outcomes[x]) /\ <<outcomes[x].task, outcomes[x].arm>> = k}
  <2>1. Z \subseteq 1 .. Len(outcomes) /\ Len(outcomes) \in Nat
    BY DEF Sound, Runs
  <2>2. RunsOf(k) = Cardinality(Z)
    BY DEF RunsOf
  <2> HIDE DEF Z
  <2>3. IsFiniteSet(1 .. Len(outcomes))
    BY <2>1, UpToN
  <2> QED BY <2>1, <2>2, <2>3, FS_Subset, FS_CardinalityType
<1>6. N \in SUBSET Nat /\ N # {}
  BY <1>2, <1>5
<1>7. RunsOf(c) \in N
  BY <1>2
<1>8. MinimumRepeats = CHOOSE n \in N : \A m \in N : n <= m
  BY <1>6 DEF MinimumRepeats
<1>9. MinimumRepeats \in N /\ MinimumRepeats <= RunsOf(c)
  <2> HIDE DEF N
  <2>1. \E n \in N : \A m \in N : n <= m
    BY <1>6, EvLeast
  <2> QED BY <1>7, <1>8, <2>1
<1>10. MinimumRepeats \in Nat /\ RunsOf(c) \in Nat /\ Repeats \in Nat
  BY <1>5, <1>6, <1>9 DEF EvConstants
<1>11. RunsOf(c) >= Repeats
  BY <1>9, <1>10
<1> QED BY <1>4, <1>11

-----------------------------------------------------------------------------
LEMMA EvInit_Inv == ASSUME EvConstants, EvInit PROVE EvInv
<1> USE DEF EvInit
<1>1. ev \in Loop /\ ev.pc = "load" /\ ev.arm = 1 /\ ev.task = 1
  BY DEF Loop, Position, Stages
<1>2. Sound(outcomes)
  BY DEF Sound
<1>3. report.made = FALSE
  BY DEF NoReport
<1> QED BY <1>1, <1>2, <1>3 DEF EvInv, Busy, Working, Matches

\* What the loop is about.
LEMMA Inputs ==
    ASSUME EvConstants, EvInv
    PROVE  /\ DOMAIN disk = 1 .. Len(disk) /\ Len(disk) \in Nat /\ (disk # <<>> => Len(disk) # 0)
           /\ \A y \in DOMAIN disk : disk[y] \in TaskFile /\ IsFiniteSet(disk[y].tests)
           /\ arms \in Seq(STRING) /\ DOMAIN arms = 1 .. Len(arms) /\ Len(arms) \in Nat
           /\ (arms # <<>> => Len(arms) # 0)
<1> DEFINE T == {t \in TaskFile : IsFiniteSet(t.tests)}
<1>1. /\ disk \in Seq(T) /\ arms \in Seq(STRING)
  BY DEF EvConstants, EvInv
<1>2. \A t \in T : t \in TaskFile /\ IsFiniteSet(t.tests)
  OBVIOUS
<1> HIDE DEF T
<1> QED BY <1>1, <1>2

LEMMA Proceeds ==
    ASSUME EvInv, NEW p \in Stages, Proceed(p)
    PROVE  /\ ev' \in Loop
           /\ ev'.pc = p /\ ev'.rep = ev.rep /\ ev'.arm = ev.arm /\ ev'.task = ev.task
  BY DEF EvInv, Loop, Proceed

\* A step that records nothing.
LEMMA EvMoves ==
    ASSUME EvInv, NEW p, ev' \in Loop, ev'.pc = p, ev'.rep = ev.rep, ev'.arm = ev.arm,
           ev'.task = ev.task, p # "load", ev.pc # "load", ev.pc = "done" => p = "done",
           UNCHANGED <<disk, arms, outcomes, report>>, claim' \in BOOLEAN, stopped' \in BOOLEAN,
           p \in Working => ev.pc \in Working,
           p \in {"solve", "judge", "command"} => Copied(disk[ev.task], before', copy'),
           p = "command" => Guarded(disk[ev.task], copy', tampered')
    PROVE  EvInv'
<1>1. /\ ev' \in Loop
      /\ ev'.pc = p /\ ev'.rep = ev.rep /\ ev'.arm = ev.arm /\ ev'.task = ev.task
  OBVIOUS
<1>2. disk' = disk /\ arms' = arms /\ outcomes' = outcomes /\ report' = report
  OBVIOUS
<1>3. Busy(ev') => Busy(ev)
  BY <1>1 DEF Busy
<1>4. Busy(ev') => ev'.arm \in DOMAIN arms' /\ ev'.task \in DOMAIN disk'
  BY <1>1, <1>2, <1>3 DEF EvInv
<1>5. /\ ev'.pc \in {"solve", "judge", "command"} => Copied(disk'[ev'.task], before', copy')
      /\ ev'.pc = "command" => Guarded(disk'[ev'.task], copy', tampered')
  BY <1>1, <1>2
<1>6. Sound(outcomes') /\ Matches(report', outcomes')
  BY <1>2 DEF EvInv
<1>7. report'.made => ev'.pc = "done"
  BY <1>1, <1>2 DEF EvInv
<1>8. disk' \in TaskSets /\ arms' \in ArmLists /\ claim' \in BOOLEAN /\ stopped' \in BOOLEAN
  BY <1>2 DEF EvInv
<1> QED BY <1>1, <1>4, <1>5, <1>6, <1>7, <1>8 DEF EvInv

\* What Run may hand to the end of the run.
Fair(o) ==
    /\ o \in OutcomeType /\ o.err = ~ o.judged
    /\ (o.judged => o.status = "") /\ (~ o.judged => o.status \in {"", "cancelled"})
    /\ (o.solved => o.judged /\ o.fault = "none" /\ (o.right \/ o.fooled))
    /\ (o.judged /\ ~ o.solved => ~ o.right \/ o.tampered \/ o.fault # "none")

LEMMA FairIsHonest ==
    ASSUME NEW o, Fair(o), NEW d, d.err = o.err, d.judged = o.judged, d.status = Classified(o),
           d.solved = o.solved, d.right = o.right, d.tampered = o.tampered,
           d.fooled = o.fooled, d.fault = o.fault
    PROVE  Honest(d)
<1>1. o.err \in BOOLEAN /\ o.judged \in BOOLEAN /\ o.solved \in BOOLEAN
  BY DEF Fair, OutcomeType
<1>2. CASE o.judged
  <2>1. d.status \in {"completed", "task_failed"}
    BY <1>1, <1>2 DEF Fair, Classified
  <2> QED BY <1>1, <1>2, <2>1 DEF Honest, Evidence, Fair
<1>3. CASE ~ o.judged
  <2>1. d.status \in {"cancelled", "environment_failed"}
    BY <1>1, <1>3 DEF Fair, Classified
  <2>2. ~ Evidence(d)
    BY <2>1 DEF Evidence
  <2>3. d.judged = FALSE /\ d.err = TRUE /\ ~ d.solved
    BY <1>1, <1>3 DEF Fair
  <2> QED BY <2>2, <2>3 DEF Honest
<1> QED BY <1>2, <1>3

LEMMA Record_Inv ==
    ASSUME EvConstants, EvInv, Busy(ev), NEW o, Fair(o), Record(o)
    PROVE  EvInv'
<1> DEFINE d == [o EXCEPT !.arm = arms[ev.arm], !.task = disk[ev.task].id, !.rep = ev.rep,
                          !.status = Classified(o)]
<1>1. /\ outcomes' = Append(outcomes, d) /\ claim' = FALSE /\ ev' = After(ev)
      /\ disk' = disk /\ arms' = arms /\ stopped' = stopped /\ report' = report
  BY DEF Record
<1>2. /\ ev \in Loop /\ ev.rep \in Nat /\ ev.arm \in Nat /\ ev.task \in Nat
      /\ ev.arm \in DOMAIN arms
      /\ ev.task \in DOMAIN disk /\ Sound(outcomes)
  BY DEF EvInv, Loop
<1>3. arms[ev.arm] \in STRING /\ disk[ev.task].id \in STRING /\ ev.rep \in Nat
  <2>1. disk[ev.task] \in TaskFile /\ arms \in Seq(STRING)
    BY <1>2, Inputs
  <2> QED BY <1>2, <2>1 DEF TaskFile
<1>4. /\ d \in OutcomeType /\ d.arm = arms[ev.arm] /\ d.task = disk[ev.task].id /\ d.rep = ev.rep
      /\ d.err = o.err /\ d.judged = o.judged /\ d.status = Classified(o) /\ d.solved = o.solved
      /\ d.right = o.right /\ d.tampered = o.tampered /\ d.fooled = o.fooled
      /\ d.fault = o.fault
  <2>1. Classified(o) \in Statuses
    BY DEF Classified, Fair, OutcomeType, Statuses
  <2> QED BY <1>3, <2>1 DEF Fair, OutcomeType, Text
<1> HIDE DEF d
<1>5. Honest(d)
  BY <1>4, FairIsHonest
<1>7. /\ outcomes \in Seq(OutcomeType) /\ outcomes' \in Seq(OutcomeType) /\ Len(outcomes) \in Nat
      /\ DOMAIN outcomes = 1 .. Len(outcomes) /\ DOMAIN outcomes' = 1 .. Len(outcomes) + 1
      /\ outcomes'[Len(outcomes) + 1] = d
      /\ \A i \in 1 .. Len(outcomes) : outcomes'[i] = outcomes[i]
  <2>1. outcomes \in Seq(OutcomeType)
    BY <1>2 DEF Sound
  <2> QED BY <1>1, <1>4, <2>1
<1>8. \A i \in DOMAIN outcomes' :
        (i \in DOMAIN outcomes /\ outcomes'[i] = outcomes[i])
        \/ (i = Len(outcomes) + 1 /\ outcomes'[i] = d)
  BY <1>7
<1>9. Sound(outcomes')
  <2>1. \A i \in DOMAIN outcomes' : Honest(outcomes'[i])
    BY <1>2, <1>5, <1>8 DEF Sound
  <2> QED BY <1>7, <2>1 DEF Sound
<1>11. /\ DOMAIN disk = 1 .. Len(disk) /\ Len(disk) \in Nat
       /\ DOMAIN arms = 1 .. Len(arms) /\ Len(arms) \in Nat
  BY Inputs
<1>12. ~ report.made
  BY DEF EvInv, Busy, Working
<1>13. /\ disk' \in TaskSets /\ arms' \in ArmLists /\ claim' \in BOOLEAN /\ stopped' \in BOOLEAN
       /\ (report'.made => ev'.pc = "done") /\ Matches(report', outcomes')
  BY <1>1, <1>12 DEF EvInv, Matches
<1>14. ASSUME ev' \in Loop, ev'.pc = "prepare", ev'.arm \in DOMAIN arms, ev'.task \in DOMAIN disk
       PROVE  EvInv'
  BY <1>1, <1>9, <1>13, <1>14 DEF EvInv
<1>15. CASE ev.task < Len(disk) /\ ~ stopped
  <2>1. ev' = Position("prepare", ev.rep, ev.arm, ev.task + 1)
    BY <1>1, <1>15 DEF After
  <2>2. /\ ev' \in Loop /\ ev'.pc = "prepare"
        /\ ev'.rep = ev.rep /\ ev'.arm = ev.arm /\ ev'.task = ev.task + 1
    BY <1>2, <2>1 DEF Loop, Position, Stages
  <2>3. ev'.arm \in DOMAIN arms /\ ev'.task \in DOMAIN disk
    BY <1>2, <1>11, <1>15, <2>2
  <2> QED BY <1>14, <2>2, <2>3
<1>16. CASE ~ (ev.task < Len(disk) /\ ~ stopped) /\ ev.arm < Len(arms)
  <2>1. ev' = Position("prepare", ev.rep, ev.arm + 1, 1)
    BY <1>1, <1>16 DEF After
  <2>2. /\ ev' \in Loop /\ ev'.pc = "prepare"
        /\ ev'.rep = ev.rep /\ ev'.arm = ev.arm + 1 /\ ev'.task = 1
    BY <1>2, <2>1 DEF Loop, Position, Stages
  <2>3. ev'.arm \in DOMAIN arms /\ ev'.task \in DOMAIN disk
    BY <1>2, <1>11, <1>16, <2>2
  <2> QED BY <1>14, <2>2, <2>3
<1>17. CASE ~ (ev.task < Len(disk) /\ ~ stopped) /\ ~ (ev.arm < Len(arms)) /\ ev.rep < Repeat
  <2>1. ev' = Position("prepare", ev.rep + 1, 1, 1)
    BY <1>1, <1>17 DEF After
  <2>2. /\ ev' \in Loop /\ ev'.pc = "prepare"
        /\ ev'.rep = ev.rep + 1 /\ ev'.arm = 1 /\ ev'.task = 1
    BY <1>2, <2>1 DEF Loop, Position, Stages
  <2>3. ev'.arm \in DOMAIN arms /\ ev'.task \in DOMAIN disk
    BY <1>2, <1>11, <2>2
  <2> QED BY <1>14, <2>2, <2>3
<1>18. CASE ~ (ev.task < Len(disk) /\ ~ stopped) /\ ~ (ev.arm < Len(arms)) /\ ~ (ev.rep < Repeat)
  <2>1. ev' = Position("report", ev.rep, ev.arm, ev.task)
    BY <1>1, <1>18 DEF After
  <2>2. ev' \in Loop /\ ev'.pc = "report"
    BY <1>2, <2>1 DEF Loop, Position, Stages
  <2>3. ~ Busy(ev')
    BY <2>2 DEF Busy, Working
  <2> QED BY <1>9, <1>13, <2>2, <2>3 DEF EvInv
<1> QED BY <1>15, <1>16, <1>17, <1>18

LEMMA ErrorFair == Fair(Error)
<1>1. NoOutcome \in OutcomeType
  BY DEF NoOutcome, OutcomeType, Text, Statuses, Faults
<1>2. /\ NoOutcome.judged = FALSE /\ NoOutcome.status = "" /\ NoOutcome.solved = FALSE
  BY DEF NoOutcome
<1> QED BY <1>1, <1>2 DEF Error, Fair, OutcomeType

LEMMA CancelledFair == Fair([Error EXCEPT !.status = "cancelled"])
<1>1. Fair(Error) /\ Error \in OutcomeType
  BY ErrorFair DEF Fair
<1>2. Error.judged = FALSE
  <2>1. NoOutcome \in OutcomeType
    BY DEF NoOutcome, OutcomeType, Text, Statuses, Faults
  <2>2. NoOutcome.judged = FALSE
    BY DEF NoOutcome
  <2> QED BY <2>1, <2>2 DEF Error, OutcomeType
<1> HIDE DEF Error
<1> QED BY <1>1, <1>2 DEF Fair, OutcomeType, Statuses

LEMMA GradeType ==
    ASSUME NEW t \in TaskFile, IsFiniteSet(t.tests), NEW a \in BOOLEAN, NEW failed \in SUBSET t.tests
    PROVE  GradeRun(t, a, failed).total \in Nat /\ GradeRun(t, a, failed).passed \in Int
<1>1. IsFiniteSet(failed \cap t.tests)
  BY FS_Intersection
<1> DEFINE n == Cardinality(t.tests)
           m == Cardinality(failed \cap t.tests)
<1>2. n \in Nat /\ m \in Nat
  BY <1>1, FS_CardinalityType
<1>3. \/ GradeRun(t, a, failed) = [total |-> n, passed |-> 0]
      \/ GradeRun(t, a, failed) = [total |-> n, passed |-> n]
      \/ GradeRun(t, a, failed) = [total |-> n, passed |-> n - m]
  BY DEF GradeRun
<1> HIDE DEF n, m
<1> QED BY <1>2, <1>3

-----------------------------------------------------------------------------
LEMMA Load_Inv == ASSUME EvConstants, EvInv, Load PROVE EvInv'
<1> DEFINE p == IF ~(Loads(disk) /\ Range(arms) \subseteq ArmNames) THEN "refused"
                ELSE IF arms = <<>> THEN "report" ELSE "prepare"
<1>1. /\ ev.pc = "load" /\ Proceed(p)
      /\ UNCHANGED <<disk, arms, copy, before, attempt, claim, stopped, late, tampered, outcomes,
                     report>>
  BY DEF Load, At
<1>2. p \in {"refused", "report", "prepare"} /\ (p = "prepare" => Loads(disk) /\ arms # <<>>)
  OBVIOUS
<1> HIDE DEF p
<1>3. /\ ev' \in Loop /\ ev'.pc = p /\ ev'.arm = 1 /\ ev'.task = 1 /\ outcomes = <<>>
  <2>1. p \in Stages
    BY <1>2 DEF Stages
  <2> QED BY <1>1, <2>1, Proceeds DEF EvInv
<1>4. Busy(ev') => ev'.arm \in DOMAIN arms' /\ ev'.task \in DOMAIN disk'
  <2> SUFFICES ASSUME Busy(ev') PROVE ev'.arm \in DOMAIN arms' /\ ev'.task \in DOMAIN disk'
    OBVIOUS
  <2>1. p = "prepare"
    BY <1>2, <1>3 DEF Busy, Working
  <2>2. Loads(disk) /\ arms # <<>> /\ disk # <<>>
    BY <1>2, <2>1 DEF Loads
  <2>3. 1 \in DOMAIN arms /\ 1 \in DOMAIN disk
    <3>1. /\ DOMAIN disk = 1 .. Len(disk) /\ Len(disk) \in Nat /\ Len(disk) # 0
          /\ DOMAIN arms = 1 .. Len(arms) /\ Len(arms) \in Nat /\ Len(arms) # 0
      BY <2>2, Inputs
    <3>2. \A n \in Nat : n # 0 => 1 \in 1 .. n
      OBVIOUS
    <3> QED BY <3>1, <3>2
  <2> QED BY <1>1, <1>3, <2>3
<1>5. ~ report'.made
  BY <1>1 DEF EvInv
<1>6. ev'.pc \notin {"load", "solve", "judge", "command"}
  BY <1>2, <1>3
<1>7. Sound(outcomes')
  BY <1>1 DEF EvInv
<1>8. disk' \in TaskSets /\ arms' \in ArmLists /\ claim' \in BOOLEAN /\ stopped' \in BOOLEAN
  BY <1>1 DEF EvInv
<1> QED BY <1>3, <1>4, <1>5, <1>6, <1>7, <1>8 DEF EvInv, Matches

LEMMA Timing_Inv == ASSUME EvInv, Interrupt \/ Expire PROVE EvInv'
<1>1. /\ UNCHANGED <<disk, arms, ev, copy, before, attempt, claim, tampered, outcomes, report>>
      /\ stopped' \in BOOLEAN /\ ev.pc # "load"
  BY DEF Interrupt, Expire, At, EvInv
<1>2. /\ ev' \in Loop /\ ev'.pc = ev.pc /\ ev'.rep = ev.rep /\ ev'.arm = ev.arm
      /\ ev'.task = ev.task /\ claim' \in BOOLEAN
      /\ (ev.pc \in {"solve", "judge", "command"} => Copied(disk[ev.task], before', copy'))
      /\ (ev.pc = "command" => Guarded(disk[ev.task], copy', tampered'))
  BY <1>1 DEF EvInv
<1> QED BY <1>1, <1>2, EvMoves

LEMMA Prepare_Inv == ASSUME EvConstants, EvInv, Prepare PROVE EvInv'
<1>1. ev.pc = "prepare" /\ Busy(ev) /\ claim \in BOOLEAN /\ stopped \in BOOLEAN
  BY DEF Prepare, At, Busy, Working, EvInv
<1>2. CASE Record(Error)
  BY <1>1, <1>2, ErrorFair, Record_Inv
<1>3. CASE /\ copy' = [f \in Paths(Now.task) |-> IF f \in Now.task.fixture THEN "base" ELSE "gone"]
           /\ before' = copy' /\ Proceed("solve")
           /\ UNCHANGED <<disk, arms, attempt, claim, stopped, late, tampered, outcomes, report>>
  <2>1. Copied(disk[ev.task], before', copy')
    BY <1>3 DEF Copied, Now
  <2>2. /\ ev' \in Loop /\ ev'.pc = "solve" /\ ev'.rep = ev.rep /\ ev'.arm = ev.arm /\ ev'.task = ev.task
    BY <1>3, Proceeds DEF Stages
  <2> QED BY <1>1, <1>3, <2>1, <2>2, EvMoves DEF Busy
<1> QED BY <1>2, <1>3 DEF Prepare

LEMMA EditsKeep ==
    ASSUME NEW t, NEW old, NEW new \in Edits(t, old) PROVE DOMAIN new = DOMAIN old
  BY DEF Edits

\* The solver has worked on, and maybe returned.
LEMMA Works ==
    ASSUME EvInv, ev.pc = "solve", before' = before, DOMAIN copy' = DOMAIN copy,
           UNCHANGED <<disk, arms, outcomes, report>>, claim' \in BOOLEAN, stopped' \in BOOLEAN,
           Proceed("judge") \/ ev' = ev
    PROVE  EvInv'
<1>1. Copied(disk[ev.task], before', copy')
  BY DEF EvInv, Copied
<1>2. CASE Proceed("judge")
  <2>1. /\ ev' \in Loop /\ ev'.pc = "judge" /\ ev'.rep = ev.rep /\ ev'.arm = ev.arm /\ ev'.task = ev.task
    BY <1>2, Proceeds DEF Stages
  <2>2. ev.pc \in Working
    BY DEF Working
  <2> QED BY <1>1, <2>1, <2>2, EvMoves
<1>3. CASE ev' = ev
  <2>1. ev' \in Loop /\ ev'.pc = "solve" /\ ev'.rep = ev.rep /\ ev'.arm = ev.arm /\ ev'.task = ev.task
    BY <1>3 DEF EvInv
  <2>2. ev.pc \in Working
    BY DEF Working
  <2> QED BY <1>1, <2>1, <2>2, EvMoves
<1> QED BY <1>2, <1>3

LEMMA Solving_Inv ==
    ASSUME EvInv, Unsupervised \/ Supervised \/ OutOfTime
    PROVE  EvInv'
<1>1. ev.pc = "solve" /\ claim \in BOOLEAN /\ stopped \in BOOLEAN
  BY DEF Unsupervised, Supervised, OutOfTime, At, EvInv
<1>2. CASE Unsupervised
  <2>1. DOMAIN copy' = DOMAIN copy
    BY <1>2, EditsKeep DEF Unsupervised
  <2>2. /\ UNCHANGED <<disk, arms, before, stopped, outcomes, report>>
        /\ claim' \in BOOLEAN /\ (Proceed("judge") \/ ev' = ev)
    BY <1>1, <1>2 DEF Unsupervised, Returned
  <2> QED BY <1>1, <2>1, <2>2, Works
<1>3. CASE Supervised
  <2>1. PICK br \in Edits(Now.task, copy), accepted \in BOOLEAN :
          /\ copy' = IF accepted THEN ApplyBranch(copy, br) ELSE copy
          /\ Returned(accepted)
    BY <1>3 DEF Supervised
  <2>2. DOMAIN copy' = DOMAIN copy
    BY <2>1 DEF ApplyBranch
  <2>3. /\ UNCHANGED <<disk, arms, before, stopped, outcomes, report>>
        /\ claim' \in BOOLEAN /\ Proceed("judge")
    BY <2>1 DEF Returned
  <2> QED BY <1>1, <2>2, <2>3, Works
<1>4. CASE OutOfTime
  <2>1. /\ UNCHANGED <<disk, arms, before, copy, stopped, outcomes, report>>
        /\ claim' \in BOOLEAN /\ Proceed("judge")
    BY <1>4 DEF OutOfTime, Returned
  <2> QED BY <1>1, <2>1, Works
<1> QED BY <1>2, <1>3, <1>4

LEMMA Faulting_Inv ==
    ASSUME EvConstants, EvInv, Interrupted \/ SolverFault
    PROVE  EvInv'
<1>1. Busy(ev)
  BY DEF Interrupted, SolverFault, At, Busy, Working
<1>2. CASE Interrupted
  <2> DEFINE o == [Error EXCEPT !.status = "cancelled"]
  <2>1. Record(o) /\ Fair(o)
    BY <1>2, CancelledFair DEF Interrupted
  <2> HIDE DEF o
  <2> QED BY <1>1, <2>1, Record_Inv
<1>3. CASE SolverFault
  BY <1>1, <1>3, ErrorFair, Record_Inv DEF SolverFault
<1> QED BY <1>2, <1>3

\* A protected file that could fool the command is not as it began: the tamper check has
\* seen it, before the hidden files were written.
LEMMA GuardsWatched ==
    ASSUME NEW t, NEW old, NEW new, Copied(t, old, new), NEW tree,
           tree = [f \in DOMAIN new |-> IF f \in t.hidden THEN "hidden" ELSE new[f]]
    PROVE  Guarded(t, tree, ChangedFiles(old, new) \cap t.protected)
<1> SUFFICES ASSUME NEW f \in t.protected, f \in DOMAIN tree, Fools(t, tree, f)
             PROVE  f \in ChangedFiles(old, new)
  BY DEF Guarded
<1>1. f \in DOMAIN new /\ DOMAIN new = Paths(t) /\ DOMAIN old = Paths(t)
  BY DEF Copied
<1>2. tree[f] = new[f] /\ f \notin t.hidden
  BY DEF Fools
<1>3. CASE new[f] = "fool"
  <2>1. old[f] \in {"base", "gone"}
    BY <1>1 DEF Copied
  <2> QED BY <1>1, <1>3, <2>1 DEF ChangedFiles, Altered
<1>4. CASE new[f] = "gone" /\ f \in t.fixture
  <2>1. old[f] = "base"
    BY <1>1, <1>4 DEF Copied
  <2> QED BY <1>1, <1>4, <2>1 DEF ChangedFiles, Removed
<1> QED BY <1>2, <1>3, <1>4 DEF Fools

LEMMA Judge_Inv == ASSUME EvConstants, EvInv, Judge PROVE EvInv'
<1>1. ev.pc = "judge" /\ Busy(ev) /\ claim \in BOOLEAN /\ stopped \in BOOLEAN
  BY DEF Judge, At, Busy, Working, EvInv
<1>2. CASE Record(Error)
  BY <1>1, <1>2, ErrorFair, Record_Inv
<1>3. CASE /\ tampered' = ChangedFiles(before, copy) \cap Now.task.protected
           /\ copy' = [f \in DOMAIN copy |-> IF f \in Now.task.hidden THEN "hidden" ELSE copy[f]]
           /\ Proceed("command")
           /\ UNCHANGED <<disk, arms, before, attempt, claim, stopped, late, outcomes, report>>
  <2>1. Copied(disk[ev.task], before, copy) /\ Now.task = disk[ev.task]
    BY <1>1 DEF EvInv, Now
  <2>2. Copied(disk[ev.task], before', copy')
    BY <1>3, <2>1 DEF Copied
  <2>3. Guarded(disk[ev.task], copy', tampered')
    BY <1>3, <2>1, GuardsWatched
  <2>4. /\ ev' \in Loop /\ ev'.pc = "command" /\ ev'.rep = ev.rep /\ ev'.arm = ev.arm
        /\ ev'.task = ev.task
    BY <1>3, Proceeds DEF Stages
  <2> QED BY <1>1, <1>3, <2>2, <2>3, <2>4, EvMoves DEF Busy
<1> QED BY <1>2, <1>3 DEF Judge

LEMMA Command_Inv == ASSUME EvConstants, EvInv, Command PROVE EvInv'
<1>1. /\ ev.pc = "command" /\ Busy(ev) /\ claim \in BOOLEAN /\ stopped \in BOOLEAN
      /\ Guarded(Now.task, copy, tampered)
  BY DEF Command, At, Busy, Working, EvInv, Now
<1>2. PICK x \in Faults, failed \in SUBSET Now.task.tests : Record(Ended(x, failed))
  BY <1>1 DEF Command, Faults
<1> DEFINE s == x = "none" /\ Passes(Now.task, copy) /\ tampered = {}
           r == copy[Now.task.target] = "right"
           w == Fooled(Now.task, copy, Paths(Now.task) \ Now.task.protected)
           tm == tampered # {}
           n == GradeRun(Now.task, s, failed).total
           m == GradeRun(Now.task, s, failed).passed
<1>3. s \in BOOLEAN /\ tm \in BOOLEAN /\ r \in BOOLEAN /\ w \in BOOLEAN
  BY Zenon DEF Fooled
<1>5. n \in Nat /\ m \in Int
  <2>1. Now.task \in TaskFile /\ IsFiniteSet(Now.task.tests)
    BY <1>1, Inputs DEF Now, EvInv
  <2> HIDE DEF s
  <2> QED BY <1>3, <2>1, GradeType
<1>6. s => x = "none" /\ (r \/ w)
  <2> SUFFICES ASSUME s, ~ r PROVE x = "none" /\ w
    BY <1>3
  <2>1. Passes(Now.task, copy) /\ tampered = {} /\ x = "none"
    OBVIOUS
  <2>2. PICK f \in Paths(Now.task) \cap DOMAIN copy : Fools(Now.task, copy, f)
    BY <2>1 DEF Passes, Fooled
  <2>3. f \notin Now.task.protected
    BY <1>1, <2>1, <2>2 DEF Guarded
  <2> QED BY <2>1, <2>2, <2>3 DEF Fooled
<1>7. ~ s => ~ r \/ tm \/ x # "none"
  BY DEF Passes
<1> DEFINE e == [NoOutcome EXCEPT !.claimed = claim, !.judged = TRUE, !.fault = x, !.right = r,
                                  !.fooled = w]
           o == [e EXCEPT !.solved = s, !.tampered = tm, !.total = n, !.passed = m]
<1>8. Record(o)
  BY <1>2 DEF Ended
<1> HIDE DEF s, tm, r, w, n, m
<1>9. /\ NoOutcome \in OutcomeType /\ NoOutcome.status = "" /\ NoOutcome.err = FALSE
  BY DEF NoOutcome, OutcomeType, Text, Statuses, Faults
<1>10. /\ e \in OutcomeType /\ e.status = "" /\ e.err = FALSE /\ e.judged = TRUE /\ e.right = r
       /\ e.fooled = w /\ e.fault = x
  BY <1>1, <1>3, <1>9 DEF OutcomeType
<1> HIDE DEF e
<1>11. /\ o \in OutcomeType /\ o.status = "" /\ o.err = FALSE /\ o.solved = s /\ o.tampered = tm
       /\ o.judged = TRUE /\ o.right = r /\ o.fooled = w /\ o.fault = x
  BY <1>3, <1>5, <1>10 DEF OutcomeType
<1> HIDE DEF o
<1>12. Fair(o)
  BY <1>6, <1>7, <1>11 DEF Fair
<1> QED BY <1>1, <1>8, <1>12, Record_Inv

LEMMA Report_Inv == ASSUME EvConstants, EvInv, Report PROVE EvInv'
<1> DEFINE C == {d \in Range(Comparisons) : Has(d[1], d[2])}
           results == [a \in ArmsIn |-> ArmResult(a)]
           compared == [c \in C |-> [paired |-> PairArms(c[1], c[2]),
                                     scores |-> PairScores(c[1], c[2]),
                                     verdict |-> VerdictFor(c[1], c[2])]]
<1>1. /\ ev.pc = "report" /\ Proceed("done")
      /\ UNCHANGED <<disk, arms, copy, before, attempt, claim, stopped, late, tampered, outcomes>>
  BY DEF Report, At
<1>2. PICK rt, st, complete, reproduced :
        report' = [made |-> TRUE, arms |-> results, compared |-> compared,
                   retention |-> rt, unstable |-> Unstable, met |-> Qualify(EvidenceFrom, complete, reproduced),
                   status |-> st]
  BY DEF Report
<1>3. /\ report'.made = TRUE /\ report'.arms = results /\ report'.compared = compared
      /\ report'.met = Qualify(EvidenceFrom, complete, reproduced)
  BY <1>2
<1>4. /\ ev' \in Loop /\ ev'.pc = "done"
  BY <1>1, Proceeds DEF Stages
<1>5. Sound(outcomes)
  BY DEF EvInv
<1>6. ASSUME NEW c \in DOMAIN compared
      PROVE  LET p == compared[c].paired IN
             /\ p.variantOnly + p.baselineOnly + p.both + p.neither
                   = Cardinality(JudgedIn(outcomes, c[1]) \cap JudgedIn(outcomes, c[2]))
             /\ results[c[1]].solved.total = Cardinality(JudgedRuns(outcomes, c[1]))
  <2>1. c \in C /\ c[1] \in ArmsIn
    BY <1>6 DEF Has
  <2>2. compared[c].paired = PairArms(c[1], c[2]) /\ results[c[1]] = ArmResult(c[1])
    BY <2>1
  <2> HIDE DEF compared, results
  <2> QED BY <1>5, <2>2, PairsCounted, ArmCounted
<1> HIDE DEF compared, results
<1>7. Matches(report', outcomes')
  <2>1. outcomes' = outcomes
    BY <1>1
  <2>2. ASSUME "finalist_repeats" \in report'.met, NEW i \in DOMAIN outcomes, outcomes[i].judged
        PROVE  Cardinality({j \in JudgedRuns(outcomes, outcomes[i].arm) :
                               outcomes[j].task = outcomes[i].task}) >= Repeats
    <3>1. MinimumRepeats >= Repeats
      BY <1>3, <2>2 DEF Qualify, EvidenceFrom
    <3> QED BY <1>5, <2>2, <3>1, RepeatsCounted
  <2> QED BY <1>3, <1>6, <2>1, <2>2 DEF Matches
<1>8. ~ Busy(ev') /\ ev'.pc \notin {"load", "solve", "judge", "command"}
  BY <1>4 DEF Busy, Working
<1>9. /\ disk' \in TaskSets /\ arms' \in ArmLists /\ claim' \in BOOLEAN /\ stopped' \in BOOLEAN
      /\ Sound(outcomes')
  BY <1>1 DEF EvInv
<1> QED BY <1>4, <1>7, <1>8, <1>9 DEF EvInv

LEMMA EvStays_Inv == ASSUME EvInv, UNCHANGED evvars PROVE EvInv'
<1>1. UNCHANGED <<disk, arms, ev, copy, before, claim, stopped, tampered, outcomes, report>>
  BY DEF evvars
<1> QED BY <1>1 DEF EvInv

\* Every number of a report is about judged runs: a run counts exactly when the hidden
\* command judged it, as solved only when the command ended and the work is right or an
\* unprotected file fooled it, two arms are compared on exactly the tasks and passes
\* that both were judged on, and the repeats gate counts every judged cell; whatever the
\* tasks, the arms (one named twice among them), the passes and the moment of an
\* interrupt (Runner.attempt, Aggregate, Qualify).
THEOREM RatesStayMeasured == ASSUME EvConstants PROVE EvSpec => []RatesAreMeasured
<1>1. EvInit => EvInv
  BY EvInit_Inv
<1>2. EvInv /\ [EvNext]_evvars => EvInv'
  BY Load_Inv, Timing_Inv, Prepare_Inv, Solving_Inv, Faulting_Inv, Judge_Inv, Command_Inv,
     Report_Inv, EvStays_Inv DEF EvNext
<1>3. EvInv => RatesAreMeasured
  <2> SUFFICES ASSUME EvInv PROVE RatesAreMeasured
    OBVIOUS
  <2>1. \A i \in Runs : Honest(outcomes[i])
    BY DEF EvInv, Sound, Runs
  <2>2. Matches(report, outcomes)
    BY DEF EvInv
  <2>3. \A a : /\ JudgedRuns(outcomes, a) = {j \in OfArm(a) : outcomes[j].judged}
               /\ JudgedIn(outcomes, a) = {<<outcomes[i].task, outcomes[i].rep>> :
                                             i \in {j \in OfArm(a) : outcomes[j].judged}}
    BY DEF JudgedIn, JudgedRuns, OfArm, Runs
  <2> QED BY <2>1, <2>2, <2>3 DEF RatesAreMeasured, Honest, Matches, Runs
<1> QED BY <1>1, <1>2, <1>3, PTL DEF EvSpec
=============================================================================
