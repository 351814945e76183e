------------------------------- MODULE Procman -------------------------------
(***************************************************************************)
(* The process manager of the supervisor: one goroutine per child that     *)
(* starts it, waits for its first healthy probe, watches it and restarts   *)
(* it, the child processes themselves, and the shutdown that stops them    *)
(* all, from another goroutine.                                            *)
(*                                                                         *)
(* Times are abstracted: a deadline may pass at any moment, and any of the *)
(* earlier restarts may have left the restart window.  A process group is  *)
(* one process.                                                            *)
(***************************************************************************)
EXTENDS Naturals

CONSTANTS
    N,             \* children, numbered in the order they were registered
    Probed,        \* the children with a health check
    Essential,     \* the children readiness depends on
    MaxRestarts    \* Child.MaxRestarts

Children == 1 .. N

ASSUME NAssumption        == N \in Nat
ASSUME ChildrenAssumption == Probed \subseteq Children /\ Essential \subseteq Children
ASSUME RestartsAssumption == MaxRestarts \in Nat

State == {"stopped", "starting", "ready", "degraded", "failed", "stopping"}

\* Where the goroutine of a child is.  "stop" and "grace" are stopChild, "drain"
\* is the receive from done after it.
Place == {"off", "top", "start", "launched", "wait", "watch", "stop", "grace",
          "drain", "exited", "backoff", "ended"}

VARIABLES
    loop,       \* supervise and runOnce, per child
    recent,     \* len(restartTimes)
    status,     \* Status.State
    cmd,        \* supervised.cmd: none, a process of an earlier run, or this one's
    proc,       \* the process: none, alive, sent the stop signal, or killed
    done,       \* the result of cmd.Wait is in the channel
    cancelled,  \* the context all loops share
    stopper     \* Manager.Stop: the child it is at, and where it is with it

vars == <<loop, recent, status, cmd, proc, done, cancelled, stopper>>

Stopper == [at : 0 .. N, pc : {"idle", "signal", "grace", "wait", "returned", "late"}]

\* Every variable has its type, and no child is started more often within the
\* window than its budget allows.
TypeInv ==
    /\ loop \in [Children -> Place]
    /\ recent \in [Children -> 0 .. MaxRestarts]
    /\ status \in [Children -> State]
    /\ cmd \in [Children -> {"none", "stale", "current"}]
    /\ proc \in [Children -> {"none", "alive", "signalled", "killed"}]
    /\ done \in [Children -> BOOLEAN]
    /\ cancelled \in BOOLEAN
    /\ stopper \in Stopper
    /\ stopper.pc \in {"signal", "grace"} => stopper.at # 0

Init ==
    /\ loop = [c \in Children |-> "off"]
    /\ recent = [c \in Children |-> 0]
    /\ status = [c \in Children |-> "stopped"]
    /\ cmd = [c \in Children |-> "none"]
    /\ proc = [c \in Children |-> "none"]
    /\ done = [c \in Children |-> FALSE]
    /\ cancelled = FALSE
    /\ stopper = [at |-> N, pc |-> "idle"]

Started == \A c \in Children : loop[c] # "off"

Goto(c, place) == loop' = [loop EXCEPT ![c] = place]

SetState(c, state) == status' = [status EXCEPT ![c] = state]

\* Manager.Start.
Start ==
    /\ \A c \in Children : loop[c] = "off"
    /\ loop' = [c \in Children |-> "top"]
    /\ UNCHANGED <<recent, status, cmd, proc, done, cancelled, stopper>>

-----------------------------------------------------------------------------
(* supervise *)

\* The restarts that are still in the window are counted; a child that has used
\* them up is failed for good, any other is started.
LoopTopUnbounded(c) ==
    /\ loop[c] = "top" /\ ~cancelled
    /\ \E kept \in 0 .. recent[c] : recent' = [recent EXCEPT ![c] = kept + 1]
    /\ SetState(c, "starting")
    /\ Goto(c, "start")
    /\ UNCHANGED <<cmd, proc, done, cancelled, stopper>>

LoopTop(c) ==
    /\ loop[c] = "top" /\ ~cancelled
    /\ \E kept \in 0 .. recent[c] :
          IF kept >= MaxRestarts
          THEN /\ recent' = [recent EXCEPT ![c] = kept]
               /\ SetState(c, "failed")
               /\ Goto(c, "ended")
          ELSE /\ recent' = [recent EXCEPT ![c] = kept + 1]
               /\ SetState(c, "starting")
               /\ Goto(c, "start")
    /\ UNCHANGED <<cmd, proc, done, cancelled, stopper>>

\* The loop looks at the context at its top, after runOnce and in the backoff.
LoopCancelled(c) ==
    /\ loop[c] \in {"top", "exited", "backoff"} /\ cancelled
    /\ Goto(c, "ended")
    /\ UNCHANGED <<recent, status, cmd, proc, done, cancelled, stopper>>

LoopBackoff(c) ==
    /\ \/ loop[c] = "exited" /\ ~cancelled /\ Goto(c, "backoff")
       \/ loop[c] = "backoff" /\ Goto(c, "top")
    /\ UNCHANGED <<recent, status, cmd, proc, done, cancelled, stopper>>

-----------------------------------------------------------------------------
(* runOnce *)

\* Build and cmd.Start; a command built with a cancelled context does not start.
Launch(c) ==
    /\ loop[c] = "start" /\ ~cancelled
    /\ proc' = [proc EXCEPT ![c] = "alive"]
    /\ done' = [done EXCEPT ![c] = FALSE]
    /\ cmd' = [cmd EXCEPT ![c] = IF @ = "none" THEN "none" ELSE "stale"]
    /\ Goto(c, "launched")
    /\ UNCHANGED <<recent, status, cancelled, stopper>>

LaunchFails(c) ==
    /\ loop[c] = "start"
    /\ SetState(c, "starting")
    /\ Goto(c, "exited")
    /\ UNCHANGED <<recent, cmd, proc, done, cancelled, stopper>>

\* The command becomes visible to Stop; a child without a health check is ready.
Publish(c) ==
    /\ loop[c] = "launched"
    /\ cmd' = [cmd EXCEPT ![c] = "current"]
    /\ IF c \in Probed THEN Goto(c, "wait") /\ UNCHANGED status
                       ELSE Goto(c, "watch") /\ SetState(c, "ready")
    /\ UNCHANGED <<recent, proc, done, cancelled, stopper>>

\* A probe is answered by a live process, and not with a cancelled context.
Healthy(c) == proc[c] # "none" /\ ~cancelled

ReadyProbe(c) ==
    /\ loop[c] = "wait" /\ Healthy(c)
    /\ SetState(c, "ready")
    /\ Goto(c, "watch")
    /\ UNCHANGED <<recent, cmd, proc, done, cancelled, stopper>>

\* waitReady gives up: the context is cancelled, the deadline has passed, or the
\* process has exited, in which case its result is taken out of the channel.
ReadyFailsAlone(c) ==
    /\ loop[c] = "wait"
    /\ Goto(c, "exited")
    /\ UNCHANGED <<recent, status, cmd, proc, done, cancelled, stopper>>

ReadyFails(c) ==
    /\ loop[c] = "wait"
    /\ \/ UNCHANGED done
       \/ done[c] /\ done' = [done EXCEPT ![c] = FALSE]
    /\ Goto(c, "stop")
    /\ UNCHANGED <<recent, status, cmd, proc, cancelled, stopper>>

\* The select of the watching loop: cancelled, exited, or time for a probe.
WatchCancelled(c) ==
    /\ loop[c] = "watch" /\ cancelled
    /\ Goto(c, "stop")
    /\ UNCHANGED <<recent, status, cmd, proc, done, cancelled, stopper>>

WatchExitQuietly(c) ==
    /\ loop[c] = "watch" /\ done[c]
    /\ done' = [done EXCEPT ![c] = FALSE]
    /\ Goto(c, "exited")
    /\ UNCHANGED <<recent, status, cmd, proc, cancelled, stopper>>

WatchExitTwice(c) ==
    /\ loop[c] = "watch" /\ done[c]
    /\ done' = [done EXCEPT ![c] = FALSE]
    /\ SetState(c, "stopped")
    /\ Goto(c, "drain")
    /\ UNCHANGED <<recent, cmd, proc, cancelled, stopper>>

WatchExit(c) ==
    /\ loop[c] = "watch" /\ done[c]
    /\ done' = [done EXCEPT ![c] = FALSE]
    /\ SetState(c, "stopped")
    /\ Goto(c, "exited")
    /\ UNCHANGED <<recent, cmd, proc, cancelled, stopper>>

WatchProbe(c) ==
    /\ loop[c] = "watch" /\ c \in Probed
    /\ \/ SetState(c, "degraded")
       \/ Healthy(c) /\ SetState(c, "ready")
    /\ UNCHANGED <<loop, recent, cmd, proc, done, cancelled, stopper>>

-----------------------------------------------------------------------------
(* stopChild, which a loop calls for its own child and Stop for every child *)

Signalled(c) == IF proc[c] = "alive" THEN "signalled" ELSE proc[c]

Killed(c) == IF proc[c] = "none" THEN "none" ELSE "killed"

SignalChild(c) ==
    /\ loop[c] = "stop"
    /\ SetState(c, "stopping")
    /\ proc' = [proc EXCEPT ![c] = Signalled(c)]
    /\ Goto(c, "grace")
    /\ UNCHANGED <<recent, cmd, done, cancelled, stopper>>

GraceForever(c) ==
    /\ loop[c] = "grace" /\ proc[c] = "none"
    /\ Goto(c, "drain")
    /\ UNCHANGED <<recent, status, cmd, proc, done, cancelled, stopper>>

\* The group is gone, or the grace period is over and it is killed.
GraceEnds(c) ==
    /\ loop[c] = "grace"
    /\ proc' \in {proc, [proc EXCEPT ![c] = Killed(c)]}
    /\ proc'[c] \in {"none", "killed"}
    /\ Goto(c, "drain")
    /\ UNCHANGED <<recent, status, cmd, done, cancelled, stopper>>

\* runOnce waits for the process's result and returns.
Drain(c) ==
    /\ loop[c] = "drain" /\ done[c]
    /\ done' = [done EXCEPT ![c] = FALSE]
    /\ Goto(c, "exited")
    /\ UNCHANGED <<recent, status, cmd, proc, cancelled, stopper>>

-----------------------------------------------------------------------------
(* The processes *)

\* A process exits, of itself or of a signal; the goroutine that waits for it
\* puts its result into the channel of this run.
Exit(c) ==
    /\ proc[c] # "none"
    /\ proc' = [proc EXCEPT ![c] = "none"]
    /\ done' = [done EXCEPT ![c] = TRUE]
    /\ UNCHANGED <<loop, recent, status, cmd, cancelled, stopper>>

\* The children are built with exec.CommandContext, which kills the process as
\* soon as its context is cancelled.
ContextKill(c) ==
    /\ cancelled /\ proc[c] \in {"alive", "signalled"}
    /\ proc' = [proc EXCEPT ![c] = "killed"]
    /\ UNCHANGED <<loop, recent, status, cmd, done, cancelled, stopper>>

-----------------------------------------------------------------------------
(* Shutdown *)

\* SIGTERM cancels the context of the whole program.
Sigterm ==
    /\ Started /\ ~cancelled
    /\ cancelled' = TRUE
    /\ UNCHANGED <<loop, recent, status, cmd, proc, done, stopper>>

\* The server has returned, because of the signal or of an error.
StopBegin ==
    /\ Started /\ stopper.pc = "idle"
    /\ cancelled' = TRUE
    /\ stopper' = [at |-> N, pc |-> IF N = 0 THEN "wait" ELSE "signal"]
    /\ UNCHANGED <<loop, recent, status, cmd, proc, done>>

\* Stop goes on to the child registered before this one.
StopNext ==
    stopper' = [at |-> stopper.at - 1, pc |-> IF stopper.at = 1 THEN "wait" ELSE "signal"]

StopSignal ==
    /\ stopper.pc = "signal"
    /\ LET c == stopper.at
       IN /\ IF cmd[c] = "none" THEN UNCHANGED status ELSE SetState(c, "stopping")
          /\ IF cmd[c] = "current"
             THEN /\ proc' = [proc EXCEPT ![c] = Signalled(c)]
                  /\ stopper' = [stopper EXCEPT !.pc = "grace"]
             ELSE UNCHANGED proc /\ StopNext
    /\ UNCHANGED <<loop, recent, cmd, done, cancelled>>

StopGrace ==
    /\ stopper.pc = "grace"
    /\ proc' \in {proc, [proc EXCEPT ![stopper.at] = Killed(stopper.at)]}
    /\ proc'[stopper.at] \in {"none", "killed"}
    /\ StopNext
    /\ UNCHANGED <<loop, recent, status, cmd, done, cancelled>>

\* Stop returns when every loop has, or with an error when its time is over.
StopWait ==
    /\ stopper.pc = "wait"
    /\ \/ /\ \A c \in Children : loop[c] = "ended"
          /\ stopper' = [stopper EXCEPT !.pc = "returned"]
       \/ stopper' = [stopper EXCEPT !.pc = "late"]
    /\ UNCHANGED <<loop, recent, status, cmd, proc, done, cancelled>>

-----------------------------------------------------------------------------

Supervise(c) == \/ LoopTop(c) \/ LoopCancelled(c) \/ LoopBackoff(c)
                \/ Launch(c) \/ LaunchFails(c) \/ Publish(c)
                \/ ReadyProbe(c) \/ ReadyFails(c)
                \/ WatchCancelled(c) \/ WatchExit(c)
                \/ SignalChild(c) \/ GraceEnds(c) \/ Drain(c)

Stop == StopBegin \/ StopSignal \/ StopGrace \/ StopWait

Next ==
    \/ Start \/ Sigterm \/ Stop
    \/ \E c \in Children : Supervise(c) \/ WatchProbe(c) \/ Exit(c) \/ ContextKill(c)

Spec == Init /\ [][Next]_vars

\* A goroutine that can go on does, a select takes a case that stays ready, and
\* a killed process dies.  Nothing has to fail, to be probed or to be stopped.
Fairness ==
    /\ WF_vars(Start)
    /\ WF_vars(StopSignal \/ StopGrace \/ StopWait)
    /\ \A c \in Children :
          /\ WF_vars(Supervise(c))
          /\ WF_vars(Exit(c) /\ proc[c] = "killed")

FairSpec == Spec /\ Fairness

-----------------------------------------------------------------------------
\* Manager.Ready, which /readyz serves.
Ready == \A c \in Essential : status[c] = "ready"

\* A loop is outside runOnce, or Stop has returned without an error, only when
\* the child's process is gone: a restart never doubles a child, and an orderly
\* shutdown leaves none behind.
NoneLeftBehind ==
    /\ \A c \in Children :
          loop[c] \in {"off", "top", "start", "exited", "backoff", "ended"} => proc[c] = "none"
    /\ stopper.pc = "returned" => \A c \in Children : proc[c] = "none"

\* /readyz reports ready only while every essential child has been started and
\* was ready since; a child that is being restarted, whether Stop, a probe or its
\* own loop wrote its status last, is not reported as ready.
ReadyIsServing ==
    Ready => \A c \in Essential : loop[c] \in {"watch", "stop"}

\* The loop is waiting for a result that was already taken out of the channel.
Stuck(c) == loop[c] = "drain" /\ proc[c] = "none" /\ ~done[c]

\* After the context is cancelled every loop ends, whatever its child does with
\* the stop signal and wherever the loop was, but for children that exited before
\* they were ready.
LoopsEnd ==
    \A c \in Children : cancelled ~> (loop[c] = "ended" \/ Stuck(c))

\* A child that dies after it was ready is started again, unless its restarts
\* are used up or the supervisor is stopping.
RestartedOnceReady ==
    \A c \in Children :
        (loop[c] = "watch" /\ proc[c] = "none") ~> loop[c] \in {"start", "ended"}

\* The same of a child that dies at any time: "restarts it with backoff if it
\* dies".
Restarted ==
    \A c \in Children :
        (loop[c] \in {"wait", "watch"} /\ proc[c] = "none") ~> loop[c] \in {"start", "ended"}
=============================================================================
