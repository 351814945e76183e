------------------------------- MODULE Models --------------------------------
(***************************************************************************)
(* The local model server: provider instances that share one process slot, *)
(* load their model on demand and unload the previous one, and providers   *)
(* for a server somebody else runs, which only take turns.  Calls overlap, *)
(* servers die, startups time out, processes survive their kill, and       *)
(* another program may take the port (external).                           *)
(***************************************************************************)
EXTENDS Naturals, FiniteSets

CONSTANTS
    Providers,   \* managedProvider instances, of one router or of several
    Key,         \* the configuration each one loads
    Calls,       \* goroutines that call a provider
    NoOne,       \* no call, provider or process
    MaxLoads     \* bound on the processes started

Loads == 1 .. MaxLoads
Free == 0
Other == MaxLoads + 1

VARIABLES
    slot,      \* localSlot: the gate's holder, the owner and the process
    procs,     \* the processes prepare started
    port,      \* who listens on the endpoint: nobody, another program or a process
    call,      \* the calls
    ext        \* the gate of an external endpoint, and the chats in flight

movars == <<slot, procs, port, call, ext>>

NoCall == [pc |-> "idle", p |-> NoOne, served |-> Free]

MoInit ==
    /\ slot = [gate |-> NoOne, owner |-> NoOne, cmd |-> 0]
    /\ procs = [n \in Loads |-> [state |-> "none", key |-> NoOne]]
    /\ port \in {Free, Other}
    /\ call = [c \in Calls |-> NoCall]
    /\ ext = [gate |-> NoOne, inflight |-> {}]

Alive(n) == procs[n].state \in {"loading", "up"}

To(c, pc) == call' = [call EXCEPT ![c].pc = pc]

\* The deferred release of every error path, and of a call that is done.
Release(c) ==
    /\ call' = [call EXCEPT ![c] = NoCall]
    /\ slot' = [slot EXCEPT !.gate = NoOne]

\* A process that exits gives the port back.
Freed(n) == IF port = n THEN Free ELSE port

-----------------------------------------------------------------------------
(* Chat, ChatStructured, Embed, Infill, Health and Close of a managed provider *)

\* acquire.  A call whose context ends first never comes this far.
Acquire(c, p, pc) ==
    /\ call[c].pc = "idle" /\ slot.gate = NoOne
    /\ slot' = [slot EXCEPT !.gate = c]
    /\ call' = [call EXCEPT ![c] = [NoCall EXCEPT !.pc = pc, !.p = p]]
    /\ UNCHANGED <<procs, port, ext>>

\* prepare, with the model it wants in the slot: it is used as it is, unless its
\* process has exited.
Reuse(c) ==
    /\ call[c].pc = "prepare" /\ slot.owner # NoOne
    /\ Key[slot.owner] = Key[call[c].p]
    /\ IF Alive(slot.cmd) THEN To(c, "send") /\ UNCHANGED slot
       ELSE To(c, "start") /\ slot' = [slot EXCEPT !.owner = NoOne, !.cmd = 0]
    /\ UNCHANGED <<procs, port, ext>>

\* processSlot.stop: TERM, KILL and at most ten seconds; then the slot is free,
\* or the process is still there and keeps it.
Stop(c, ok) ==
    LET n == slot.cmd IN
    IF n = 0 THEN ok /\ UNCHANGED <<slot, procs, port>>
    ELSE IF ok \/ ~Alive(n)
    THEN /\ ok
         /\ slot' = [slot EXCEPT !.owner = NoOne, !.cmd = 0]
         /\ procs' = [procs EXCEPT ![n].state = IF Alive(n) THEN "killed" ELSE @]
         /\ port' = Freed(n)
    ELSE UNCHANGED <<slot, procs, port>>

Wants(c) == ~(slot.owner # NoOne /\ Key[slot.owner] = Key[call[c].p])

\* A faulty variant: the old process is left to end by itself.
UnloadLeaving(c) ==
    /\ call[c].pc = "prepare" /\ Wants(c)
    /\ slot' = [slot EXCEPT !.owner = NoOne, !.cmd = 0]
    /\ To(c, "start")
    /\ UNCHANGED <<procs, port, ext>>

Unload(c) ==
    /\ call[c].pc = "prepare" /\ Wants(c)
    /\ Stop(c, TRUE)
    /\ To(c, "start")
    /\ UNCHANGED ext

\* "refusing to load another model".
UnloadFails(c) ==
    /\ call[c].pc = "prepare" /\ Wants(c)
    /\ slot.cmd # 0 /\ Alive(slot.cmd)
    /\ Release(c)
    /\ UNCHANGED <<procs, port, ext>>

\* The pinned hash and the probe of the port: either may end the call.
Probe(c) ==
    /\ call[c].pc = "start"
    /\ port = Free
    /\ To(c, "launch")
    /\ UNCHANGED <<slot, procs, port, ext>>

ProbeFails(c) ==
    /\ call[c].pc = "start"
    /\ Release(c)
    /\ UNCHANGED <<procs, port, ext>>

\* cmd.Start: the process becomes the slot's.
Launch(c) ==
    LET n == Cardinality({k \in Loads : procs[k].state # "none"}) + 1 IN
    /\ call[c].pc = "launch" /\ n <= MaxLoads
    /\ procs' = [procs EXCEPT ![n] = [state |-> "loading", key |-> Key[call[c].p]]]
    /\ slot' = [slot EXCEPT !.owner = call[c].p, !.cmd = n]
    /\ To(c, "wait")
    /\ UNCHANGED <<port, ext>>

\* The startup loop: the process exits,
ExitsInStartup(c) ==
    /\ call[c].pc = "wait" /\ ~Alive(slot.cmd)
    /\ call' = [call EXCEPT ![c] = NoCall]
    /\ slot' = [slot EXCEPT !.gate = NoOne, !.owner = NoOne, !.cmd = 0]
    /\ UNCHANGED <<procs, port, ext>>

\* the time is up or the caller gone, and the process stopped, or not,
StartupTimeout(c, ok) ==
    /\ call[c].pc = "wait"
    /\ Stop(c, ok)
    /\ To(c, "leave")
    /\ UNCHANGED ext

\* or the endpoint says it is healthy, whoever answers there.
Healthy(c) ==
    /\ call[c].pc = "wait"
    /\ port # Free
    /\ To(c, "send")
    /\ UNCHANGED <<slot, procs, port, ext>>

\* The request goes to whoever listens now.
Send(c) ==
    /\ call[c].pc = "send"
    /\ call' = [call EXCEPT ![c].pc = IF port = Free THEN "leave" ELSE "sent",
                            ![c].served = port]
    /\ UNCHANGED <<slot, procs, port, ext>>

Leave(c) ==
    /\ call[c].pc \in {"sent", "leave"}
    /\ Release(c)
    /\ UNCHANGED <<procs, port, ext>>

\* Close stops the process of this very instance.
CloseProvider(c, ok) ==
    /\ call[c].pc = "close"
    /\ IF slot.owner = call[c].p THEN Stop(c, ok) ELSE ok /\ UNCHANGED <<slot, procs, port>>
    /\ To(c, "leave")
    /\ UNCHANGED ext

-----------------------------------------------------------------------------
(* serializedProvider: the chats take turns, the other requests do not *)

ExtChat(c) ==
    /\ call[c].pc = "idle" /\ ext.gate = NoOne
    /\ ext' = [gate |-> c, inflight |-> ext.inflight \cup {c}]
    /\ To(c, "extchat")
    /\ UNCHANGED <<slot, procs, port>>

ExtReturn(c) ==
    /\ call[c].pc = "extchat"
    /\ ext' = [gate |-> NoOne, inflight |-> ext.inflight \ {c}]
    /\ To(c, "idle")
    /\ UNCHANGED <<slot, procs, port>>

-----------------------------------------------------------------------------
(* Servers and other programs (external) *)

\* The model is loaded and the server binds the port, or finds it taken and exits.
Serves(n) ==
    /\ procs[n].state = "loading"
    /\ procs' = [procs EXCEPT ![n].state = IF port = Free THEN "up" ELSE "dead"]
    /\ port' = IF port = Free THEN n ELSE port
    /\ UNCHANGED <<slot, call, ext>>

Dies(n) ==
    /\ Alive(n)
    /\ procs' = [procs EXCEPT ![n].state = "dead"]
    /\ port' = Freed(n)
    /\ UNCHANGED <<slot, call, ext>>

Foreign ==
    /\ port \in {Free, Other}
    /\ port' = IF port = Free THEN Other ELSE Free
    /\ UNCHANGED <<slot, procs, call, ext>>

MoNext ==
    \/ \E c \in Calls :
          \/ \E p \in Providers : \E pc \in {"prepare", "close"} : Acquire(c, p, pc)
          \/ Reuse(c) \/ Unload(c) \/ UnloadFails(c) \/ Probe(c) \/ ProbeFails(c) \/ Launch(c)
          \/ ExitsInStartup(c) \/ Healthy(c) \/ Send(c) \/ Leave(c)
          \/ \E ok \in BOOLEAN : StartupTimeout(c, ok) \/ CloseProvider(c, ok)
          \/ ExtChat(c) \/ ExtReturn(c)
    \/ \E n \in Loads : Serves(n) \/ Dies(n)
    \/ Foreign

MoSpec == MoInit /\ [][MoNext]_movars

-----------------------------------------------------------------------------
\* One model at a time, and the right one: at most one process that prepare
\* started is alive; a request under way at one of them is at the one its
\* provider configured, which nobody stops before the request is over; the slot
\* never forgets a live process; and the chats of an external endpoint take turns.
OneModel ==
    /\ Cardinality({n \in Loads : Alive(n)}) <= 1
    /\ \A n \in Loads : Alive(n) => slot.cmd = n
    /\ \A c \in Calls : LET q == call[c].served IN
          call[c].pc = "sent" /\ q \in Loads =>
              procs[q].key = Key[call[c].p] /\ procs[q].state # "killed"
    /\ Cardinality(ext.inflight) <= 1
=============================================================================
