--------------------------- MODULE WorkspaceProofs ---------------------------
(***************************************************************************)
(* Theorems about what stands behind a workspace, each component for every *)
(* value of its constants: the children of the process manager are what it *)
(* says they are and none is left behind (ProcmanTypeCorrect,              *)
(* NoProcessLeft, ReadyzIsTrue), an index that claims to be fresh is that  *)
(* of the files on disk unless a known gap explains it (NoSilentStaleness),*)
(* and the databases only move forward while sessions open, migrate, copy  *)
(* and restore them and crash (SchemasMoveForward).                        *)
(***************************************************************************)
EXTENDS Procman, Index, Storage, TLAPS

-----------------------------------------------------------------------------
(* The process manager *)

\* For any number of children, every variable keeps its type and no child is
\* started more often within its restart window than its budget allows.
THEOREM ProcmanTypeCorrect == Spec => []TypeInv
<1> USE NAssumption, ChildrenAssumption, RestartsAssumption DEF Children
<1>1. Init => TypeInv
  <2> SUFFICES ASSUME Init PROVE TypeInv
    OBVIOUS
  <2>1. loop \in [Children -> Place] /\ status \in [Children -> State]
    BY DEF Init, Place, State
  <2>2. recent \in [Children -> 0 .. MaxRestarts]
    BY DEF Init
  <2>3. /\ cmd \in [Children -> {"none", "stale", "current"}]
        /\ proc \in [Children -> {"none", "alive", "signalled", "killed"}]
    BY DEF Init
  <2>4. done \in [Children -> BOOLEAN] /\ cancelled \in BOOLEAN
    BY Zenon DEF Init
  <2>5. stopper \in Stopper /\ stopper.pc = "idle"
    BY DEF Init, Stopper
  <2> QED
    BY <2>1, <2>2, <2>3, <2>4, <2>5 DEF TypeInv
<1>2. TypeInv /\ [Next]_vars => TypeInv'
  <2> SUFFICES ASSUME TypeInv, [Next]_vars PROVE TypeInv'
    OBVIOUS
  <2> USE DEF TypeInv
  <2>1. CASE Start
    BY <2>1 DEF Start, Place
  <2>2. CASE Sigterm
    BY <2>2 DEF Sigterm
  <2>3. CASE StopBegin
    BY <2>3 DEF StopBegin, Stopper
  <2>4. ASSUME stopper.pc \in {"signal", "grace"}, StopNext
        PROVE  stopper' \in Stopper /\ (stopper'.pc \in {"signal", "grace"} => stopper'.at # 0)
    BY <2>4 DEF StopNext, Stopper
  <2>5. CASE StopSignal
    <3>1. stopper.at \in Children
      BY <2>5 DEF StopSignal, Stopper
    <3>2. proc' \in [Children -> {"none", "alive", "signalled", "killed"}]
      BY <2>5, <3>1 DEF StopSignal, Signalled
    <3>3. status' \in [Children -> State]
      BY <2>5, <3>1 DEF StopSignal, SetState, State
    <3>4. stopper' \in Stopper /\ (stopper'.pc \in {"signal", "grace"} => stopper'.at # 0)
      BY <2>4, <2>5 DEF StopSignal, Stopper
    <3> QED
      BY <2>5, <3>2, <3>3, <3>4 DEF StopSignal
  <2>6. CASE StopGrace
    <3>1. proc' \in [Children -> {"none", "alive", "signalled", "killed"}]
      BY <2>6 DEF StopGrace, Killed
    <3> QED
      BY <2>4, <2>6, <3>1 DEF StopGrace
  <2>7. CASE StopWait
    BY <2>7 DEF StopWait, Stopper
  <2>8. ASSUME NEW c \in Children, LoopTop(c) PROVE TypeInv'
    <3>1. PICK kept \in 0 .. recent[c] :
            IF kept >= MaxRestarts
            THEN /\ recent' = [recent EXCEPT ![c] = kept]
                 /\ SetState(c, "failed")
                 /\ Goto(c, "ended")
            ELSE /\ recent' = [recent EXCEPT ![c] = kept + 1]
                 /\ SetState(c, "starting")
                 /\ Goto(c, "start")
      BY <2>8 DEF LoopTop
    <3>2. recent[c] \in 0 .. MaxRestarts
      OBVIOUS
    <3>3. recent' \in [Children -> 0 .. MaxRestarts]
      <4>1. CASE kept >= MaxRestarts
        BY <3>1, <3>2, <4>1
      <4>2. CASE ~(kept >= MaxRestarts)
        <5>1. kept + 1 \in 0 .. MaxRestarts
          BY <3>2, <4>2
        <5> QED
          BY <3>1, <4>2, <5>1
      <4> QED
        BY <4>1, <4>2
    <3>4. loop' \in [Children -> Place] /\ status' \in [Children -> State]
      BY <3>1 DEF Goto, SetState, State, Place
    <3> QED
      BY <2>8, <3>3, <3>4 DEF LoopTop
  <2>9. ASSUME NEW c \in Children, LoopCancelled(c) \/ LoopBackoff(c) PROVE TypeInv'
    BY <2>9 DEF LoopCancelled, LoopBackoff, Goto, Place
  <2>10. ASSUME NEW c \in Children, Launch(c) \/ LaunchFails(c) \/ Publish(c)
         PROVE  TypeInv'
    <3>1. CASE Launch(c)
      <4>1. done' \in [Children -> BOOLEAN]
        BY <3>1, Zenon DEF Launch
      <4>2. cmd' \in [Children -> {"none", "stale", "current"}]
        BY <3>1 DEF Launch
      <4>3. /\ loop' \in [Children -> Place]
            /\ proc' \in [Children -> {"none", "alive", "signalled", "killed"}]
        BY <3>1 DEF Launch, Goto, Place
      <4> QED
        BY <3>1, <4>1, <4>2, <4>3 DEF Launch
    <3>2. CASE LaunchFails(c)
      BY <3>2 DEF LaunchFails, Goto, SetState, State, Place
    <3>3. CASE Publish(c)
      BY <3>3 DEF Publish, Goto, SetState, State, Place
    <3> QED
      BY <2>10, <3>1, <3>2, <3>3
  <2>11. ASSUME NEW c \in Children, ReadyProbe(c) \/ ReadyFails(c) PROVE TypeInv'
    BY <2>11 DEF ReadyProbe, ReadyFails, Goto, SetState, State, Place
  <2>12. ASSUME NEW c \in Children, WatchCancelled(c) \/ WatchExit(c) \/ WatchProbe(c)
         PROVE  TypeInv'
    BY <2>12 DEF WatchCancelled, WatchExit, WatchProbe, Goto, SetState, State, Place
  <2>13. ASSUME NEW c \in Children, SignalChild(c) \/ GraceEnds(c) \/ Drain(c)
         PROVE  TypeInv'
    BY <2>13 DEF SignalChild, GraceEnds, Drain, Signalled, Killed, Goto, SetState,
                 State, Place
  <2>14. ASSUME NEW c \in Children, Exit(c) \/ ContextKill(c) PROVE TypeInv'
    BY <2>14 DEF Exit, ContextKill
  <2>15. CASE UNCHANGED vars
    BY <2>15 DEF vars
  <2> QED
    BY <2>1, <2>2, <2>3, <2>5, <2>6, <2>7, <2>8, <2>9, <2>10, <2>11, <2>12, <2>13,
       <2>14, <2>15
    DEF Next, Stop, Supervise
<1> QED
  BY <1>1, <1>2, PTL DEF Spec

-----------------------------------------------------------------------------
(* No process is left behind *)

\* A result in the channel is that of a process that is gone; a loop that has
\* ended stays so, and Stop returns only after all of them have.
ResultMeansGone == \A c \in Children : done[c] => proc[c] = "none"

ReturnedMeansEnded ==
    stopper.pc = "returned" => \A c \in Children : loop[c] = "ended"

BehindInv == NoneLeftBehind /\ ResultMeansGone /\ ReturnedMeansEnded

\* A restart never doubles a child, and a Stop that returns without an error
\* leaves no process behind, for any number of children and whatever the
\* processes do with their signals.
THEOREM NoProcessLeft == Spec => []NoneLeftBehind
<1> USE NAssumption DEF Children, BehindInv, NoneLeftBehind, ResultMeansGone,
                        ReturnedMeansEnded
<1>1. Init => BehindInv
  BY DEF Init
<1>2. TypeInv /\ BehindInv /\ [Next]_vars => BehindInv'
  <2> SUFFICES ASSUME TypeInv, BehindInv, [Next]_vars PROVE BehindInv'
    OBVIOUS
  <2> USE DEF TypeInv
  <2>1. CASE Start
    BY <2>1 DEF Start
  <2>2. CASE Sigterm
    BY <2>2 DEF Sigterm
  <2>3. CASE StopBegin
    BY <2>3 DEF StopBegin
  <2>4. CASE StopSignal
    BY <2>4 DEF StopSignal, StopNext, Signalled, Stopper
  <2>5. CASE StopGrace
    BY <2>5 DEF StopGrace, StopNext, Killed, Stopper
  <2>6. CASE StopWait
    BY <2>6 DEF StopWait, Stopper
  <2>7. ASSUME NEW c \in Children,
               LoopTop(c) \/ LoopCancelled(c) \/ LoopBackoff(c)
        PROVE  BehindInv'
    BY <2>7 DEF LoopTop, LoopCancelled, LoopBackoff, Goto
  <2>8. ASSUME NEW c \in Children, Launch(c) \/ LaunchFails(c) \/ Publish(c)
        PROVE  BehindInv'
    <3>1. CASE Launch(c)
      <4>1. /\ loop' = [loop EXCEPT ![c] = "launched"]
            /\ proc' = [proc EXCEPT ![c] = "alive"]
            /\ done' = [done EXCEPT ![c] = FALSE]
            /\ loop[c] = "start" /\ stopper' = stopper
        BY <3>1 DEF Launch, Goto
      <4>2. stopper.pc # "returned"
        BY <4>1
      <4>3. \A d \in Children : done'[d] => proc'[d] = "none"
        <5> SUFFICES ASSUME NEW d \in Children, done'[d] PROVE proc'[d] = "none"
          OBVIOUS
        <5>1. d # c
          BY <4>1, Zenon
        <5>2. done[d]
          BY <4>1, <5>1, Zenon
        <5> QED
          BY <4>1, <5>1, <5>2
      <4> QED
        BY <4>1, <4>2, <4>3
    <3>2. CASE LaunchFails(c)
      BY <3>2 DEF LaunchFails, Goto
    <3>3. CASE Publish(c)
      BY <3>3 DEF Publish, Goto
    <3> QED
      BY <2>8, <3>1, <3>2, <3>3
  <2>9. ASSUME NEW c \in Children, ReadyProbe(c) \/ ReadyFails(c) PROVE BehindInv'
    BY <2>9 DEF ReadyProbe, ReadyFails, Goto
  <2>10. ASSUME NEW c \in Children, WatchCancelled(c) \/ WatchExit(c) \/ WatchProbe(c)
         PROVE  BehindInv'
    BY <2>10 DEF WatchCancelled, WatchExit, WatchProbe, Goto
  <2>11. ASSUME NEW c \in Children, SignalChild(c) \/ GraceEnds(c) \/ Drain(c)
         PROVE  BehindInv'
    <3>1. CASE SignalChild(c)
      BY <3>1 DEF SignalChild, Signalled, Goto
    <3>2. CASE GraceEnds(c)
      BY <3>2 DEF GraceEnds, Killed, Goto
    <3>3. CASE Drain(c)
      <4>1. /\ loop' = [loop EXCEPT ![c] = "exited"] /\ loop[c] = "drain"
            /\ done[c] /\ proc' = proc /\ stopper' = stopper
        BY <3>3 DEF Drain, Goto
      <4>2. \A d \in Children : done'[d] => done[d]
        BY <3>3, Zenon DEF Drain
      <4> QED
        BY <4>1, <4>2
    <3> QED
      BY <2>11, <3>1, <3>2, <3>3
  <2>12. ASSUME NEW c \in Children, Exit(c) \/ ContextKill(c) PROVE BehindInv'
    BY <2>12 DEF Exit, ContextKill
  <2>13. CASE UNCHANGED vars
    BY <2>13 DEF vars
  <2> QED
    BY <2>1, <2>2, <2>3, <2>4, <2>5, <2>6, <2>7, <2>8, <2>9, <2>10, <2>11, <2>12,
       <2>13
    DEF Next, Stop, Supervise
<1>3. BehindInv => NoneLeftBehind
  OBVIOUS
<1> QED
  BY <1>1, <1>2, <1>3, ProcmanTypeCorrect, PTL DEF Spec

-----------------------------------------------------------------------------
(* What /readyz may say *)

\* Every child by itself, essential or not: its status is "ready" only from the
\* probe that found it so until its loop leaves the watch or stopChild.
ReadyInv == \A c \in Children : status[c] = "ready" => loop[c] \in {"watch", "stop"}

\* /readyz never reports an essential child as ready that is not started, is
\* being started again or has ended, for any number of children, although its
\* loop, the probe and Manager.Stop all write its status.
THEOREM ReadyzIsTrue == Spec => []ReadyIsServing
<1> USE NAssumption DEF Children, ReadyInv
<1>1. Init => ReadyInv
  BY DEF Init
<1>2. TypeInv /\ ReadyInv /\ [Next]_vars => ReadyInv'
  <2> SUFFICES ASSUME TypeInv, ReadyInv, [Next]_vars PROVE ReadyInv'
    OBVIOUS
  <2> USE DEF TypeInv
  <2>1. CASE Start
    BY <2>1 DEF Start
  <2>2. CASE Sigterm \/ StopBegin \/ StopGrace \/ StopWait
    BY <2>2 DEF Sigterm, StopBegin, StopGrace, StopWait
  <2>3. CASE StopSignal
    BY <2>3 DEF StopSignal, SetState, Stopper
  <2>4. ASSUME NEW c \in Children, LoopTop(c) PROVE ReadyInv'
    <3>1. \E state \in {"failed", "starting"} : SetState(c, state)
      BY <2>4 DEF LoopTop
    <3>2. \A d \in Children \ {c} : loop'[d] = loop[d] /\ status'[d] = status[d]
      BY <2>4 DEF LoopTop, Goto, SetState
    <3>3. status'[c] # "ready"
      BY <3>1 DEF SetState
    <3> QED
      BY <3>2, <3>3
  <2>5. ASSUME NEW c \in Children, LoopCancelled(c) \/ LoopBackoff(c) PROVE ReadyInv'
    BY <2>5 DEF LoopCancelled, LoopBackoff, Goto
  <2>6. ASSUME NEW c \in Children, Launch(c) \/ LaunchFails(c) \/ Publish(c)
        PROVE  ReadyInv'
    BY <2>6 DEF Launch, LaunchFails, Publish, Goto, SetState
  <2>7. ASSUME NEW c \in Children, ReadyProbe(c) \/ ReadyFails(c) PROVE ReadyInv'
    BY <2>7 DEF ReadyProbe, ReadyFails, Goto, SetState
  <2>8. ASSUME NEW c \in Children, WatchCancelled(c) \/ WatchExit(c) \/ WatchProbe(c)
        PROVE  ReadyInv'
    BY <2>8 DEF WatchCancelled, WatchExit, WatchProbe, Goto, SetState
  <2>9. ASSUME NEW c \in Children, SignalChild(c) \/ GraceEnds(c) \/ Drain(c)
        PROVE  ReadyInv'
    BY <2>9 DEF SignalChild, GraceEnds, Drain, Goto, SetState
  <2>10. ASSUME NEW c \in Children, Exit(c) \/ ContextKill(c) PROVE ReadyInv'
    BY <2>10 DEF Exit, ContextKill
  <2>11. CASE UNCHANGED vars
    BY <2>11 DEF vars
  <2> QED
    BY <2>1, <2>2, <2>3, <2>4, <2>5, <2>6, <2>7, <2>8, <2>9, <2>10, <2>11
    DEF Next, Stop, Supervise
<1>3. ReadyInv => ReadyIsServing
  BY ChildrenAssumption DEF ReadyIsServing, Ready
<1> QED
  BY <1>1, <1>2, <1>3, ProcmanTypeCorrect, PTL DEF Spec
-----------------------------------------------------------------------------
(* The index and its watcher *)

\* What is assumed of the constants: a file is in the directory of some repository,
\* one of which is the innermost; any number of them, nested or not.  The analyzers
\* are not the filesystem's own layer.
Places == Repos \cup {WsRoot}
Innermost(f, r) ==
    f \in Under[r] /\ \A q \in Repos : f \in Under[q] => Under[r] \subseteq Under[q]
IxConstants ==
    /\ Under \in [Places -> SUBSET Files]
    /\ \A f \in Files : \E r \in Repos : Innermost(f, r)
    /\ Analyzers \in Seq(STRING) /\ \A a \in DOMAIN Analyzers : Analyzers[a] # "file"

\* Versions of some of the files: what a walk finds and what an analyzer makes of it.
Contents == UNION {[D -> Nat] : D \in SUBSET Files}

PassType ==
    [pc : {"idle", "next", "walk", "clear", "tree", "chunk", "analyze", "nodes", "edges",
           "record"},
     todo : SUBSET Repos, repo : Places, roots : [Repos -> Places],
     tools : {Analyzers, <<>>}, files : Contents, outs : Seq(Contents), overlapped : BOOLEAN]

\* The known ways in which a change escapes the mark.
Gaps == {"unwatched", "ignored", "nested", "dropped", "overlapped", "abandoned", "bare",
         "elsewhere", "cached"}

GraphShape(g) == g = [nodes |-> g.nodes, edges |-> g.edges]

IxTypes ==
    /\ disk \in [Files -> Nat]
    /\ watch \in [on : BOOLEAN, pending : SUBSET Files]
    /\ ~watch.on => watch.pending = {}
    /\ key \in [known : SUBSET Repos, dirty : SUBSET Repos]
    /\ graph = [r \in Repos |-> graph[r]] /\ \A r \in Repos : GraphShape(graph[r])
    /\ cache \subseteq [at : Nat, manifest : Contents, result : Contents]
    /\ pass \in [Passes -> PassType]
    /\ hole \in [Repos -> SUBSET Gaps]

\* A pass is on a repository, with one output for each analyzer it was given.
InOrder(q) ==
    /\ q.pc \notin {"idle", "next"} => q.repo \in Repos
    /\ q.pc \in {"walk", "clear", "tree", "chunk"} => q.outs = <<>>
    /\ q.pc = "analyze" => Len(q.outs) < Len(q.tools)
    /\ q.pc \in {"nodes", "edges", "record"} => Len(q.outs) = Len(q.tools)

\* The outputs are those of the files the walk found, from every analyzer.
Faithful(q) == q.tools = Analyzers /\ \A a \in DOMAIN q.outs : q.outs[a] = q.files

\* The graph that a pass which nothing overlapped has come to.
Written(q, g) ==
    /\ q.pc = "tree" => g = NoGraph
    /\ q.pc \in {"chunk", "analyze", "nodes"} =>
          g = [nodes |-> LayerNodes("file", q.files), edges |-> {}]
    /\ q.pc = "edges" /\ Faithful(q) => g = [nodes |-> GraphOf(q.files).nodes, edges |-> {}]
    /\ q.pc = "record" /\ Faithful(q) => g = GraphOf(q.files)

\* Nothing came between the steps of a pass over the repository's own directory.
Clean(q) == ~q.overlapped /\ q.roots[q.repo] = q.repo

Undisturbed(p) ==
    Reading(p) /\ Clean(pass[p]) =>
        pass[p].files = Walked(pass[p].repo) /\ Written(pass[p], graph[pass[p].repo])

\* No pass has begun to take the graph of a repository apart.
Early == {"idle", "next", "walk", "clear"}
Untouched(x) == \A p \in Passes : pass[p].pc \in Early \/ pass[p].repo # x

\* Nothing tells that the graph of a repository is not that of its files.
Trusted(x) == x \in key.known \ key.dirty /\ x \notin Unmarked /\ hole[x] = {}

GraphFresh ==
    \A x \in Repos : Trusted(x) /\ Untouched(x) => graph[x] = GraphOf(Walked(x))

IxInv ==
    /\ IxTypes /\ GraphFresh
    /\ \A p \in Passes : InOrder(pass[p]) /\ Undisturbed(p)

-----------------------------------------------------------------------------
LEMMA Homes ==
    ASSUME IxConstants, NEW f \in Files
    PROVE  RepositoryFor(f) \in Repos /\ f \in Under[RepositoryFor(f)]
<1>1. PICK r \in Repos : Innermost(f, r)
  BY DEF IxConstants
<1>2. RepositoryFor(f) = CHOOSE x \in Repos : Innermost(f, x)
  BY DEF RepositoryFor, Innermost
<1>3. RepositoryFor(f) \in Repos /\ Innermost(f, RepositoryFor(f))
  BY <1>1, <1>2
<1> QED
  BY <1>3 DEF Innermost

\* What a walk finds, and what a later reader does, are versions of some files.
LEMMA WalkedType ==
    ASSUME IxConstants, IxTypes, NEW x \in Places
    PROVE  Walked(x) \in Contents
<1>1. PICK D : D = {g \in Under[x] : disk[g] # 0 /\ g \notin Skipped}
  OBVIOUS
<1>2. D \in SUBSET Files
  BY <1>1 DEF IxConstants
<1>3. Walked(x) = [f \in D |-> disk[f]]
  BY <1>1 DEF Walked
<1>4. Walked(x) \in [D -> Nat]
  BY <1>2, <1>3 DEF IxTypes
<1> QED
  BY <1>2, <1>4 DEF Contents

LEMMA RereadType ==
    ASSUME IxTypes, NEW h \in Contents
    PROVE  Reread(h) \in Contents
<1>1. PICK D : D = {g \in DOMAIN h : disk[g] # 0}
  OBVIOUS
<1>2. D \in SUBSET Files
  BY <1>1 DEF Contents
<1>3. Reread(h) = [f \in D |-> disk[f]]
  BY <1>1 DEF Reread
<1>4. Reread(h) \in [D -> Nat]
  BY <1>2, <1>3 DEF IxTypes
<1> QED
  BY <1>2, <1>4 DEF Contents

LEMMA IdleType == ASSUME IxConstants PROVE Idle \in PassType /\ Idle.pc = "idle" /\ InOrder(Idle)
<1>1. Nothing \in Contents
  <2>1. Nothing \in [{} -> Nat]
    BY DEF Nothing
  <2> QED
    BY <2>1 DEF Contents
<1>2. /\ WsRoot \in Places
      /\ [r \in Repos |-> r] \in [Repos -> Places]
      /\ <<>> \in Seq(Contents)
  BY DEF Places
<1>3. Idle \in PassType
  BY <1>1, <1>2 DEF Idle, PassType
<1> QED
  BY <1>3 DEF Idle, InOrder

\* A step of a pass that leaves the graph, the files and the marks alone.
LEMMA PassKeeps ==
    ASSUME IxConstants, IxInv, NEW p \in Passes, NEW r \in PassType,
           pass' = [pass EXCEPT ![p] = r],
           UNCHANGED <<disk, watch, key, graph, hole>>,
           cache' \subseteq [at : Nat, manifest : Contents, result : Contents],
           InOrder(r),
           pass[p].pc \in Early \/ (r.pc \notin Early /\ r.repo = pass[p].repo),
           r.pc \notin {"idle", "next", "walk"} /\ Clean(r) =>
              r.files = Walked(r.repo) /\ Written(r, graph[r.repo])
    PROVE  IxInv'
<1>1. IxTypes'
  BY DEF IxInv, IxTypes, GraphShape
<1>2. \A q \in Passes : pass'[q] = IF q = p THEN r ELSE pass[q]
  BY DEF IxInv, IxTypes
<1>3. ASSUME NEW q \in Passes PROVE InOrder(pass[q])'
  BY <1>2 DEF IxInv, InOrder
<1>4. \A x : Walked(x)' = Walked(x) /\ GraphOf(Walked(x))' = GraphOf(Walked(x))
  BY DEF Walked, GraphOf, LayerNodes, PendingEdges
<1>5. ASSUME NEW q \in Passes PROVE Undisturbed(q)'
  <2>1. CASE q = p
    BY <1>2, <1>4, <2>1 DEF Undisturbed, Reading, Clean, Written, Faithful
  <2>2. CASE q # p
    BY <1>2, <1>4, <2>2 DEF IxInv, Undisturbed, Reading, Clean, Written, Faithful
  <2> QED
    BY <2>1, <2>2
<1>6. \A x : Untouched(x)' => Untouched(x)
  BY <1>2 DEF Untouched
<1>7. \A x : Trusted(x)' <=> Trusted(x)
  BY DEF Trusted, Unmarked
<1>8. GraphFresh'
  BY <1>4, <1>6, <1>7 DEF IxInv, GraphFresh
<1> QED
  BY <1>1, <1>3, <1>5, <1>8 DEF IxInv

\* A step of a pass that writes the graph.
LEMMA WriteKeeps ==
    ASSUME IxConstants, IxInv, NEW p \in Passes, NEW r \in PassType, Reading(p),
           r.repo = pass[p].repo,
           Write(p, r), NEW g, graph' = [graph EXCEPT ![r.repo] = g], GraphShape(g),
           UNCHANGED <<disk, watch, key, cache, hole>>,
           r.pc \in {"tree", "chunk", "edges", "record"}, InOrder(r),
           Clean(r) => r.files = Walked(r.repo) /\ Written(r, g)
    PROVE  IxInv'
<1>1. \A q \in Passes : pass[q] \in PassType
  BY DEF IxInv, IxTypes
<1>2. /\ r.repo \in Repos /\ graph' = [x \in Repos |-> graph'[x]] /\ graph'[r.repo] = g
      /\ \A x \in Repos : x # r.repo => graph'[x] = graph[x]
  BY DEF IxInv, IxTypes, InOrder
<1>3. ASSUME NEW q \in Passes, q # p
      PROVE  /\ Reading(q) /\ pass[q].repo = r.repo =>
                   pass'[q] = [pass[q] EXCEPT !.overlapped = TRUE]
             /\ ~(Reading(q) /\ pass[q].repo = r.repo) => pass'[q] = pass[q]
  BY <1>3 DEF Write
<1>4. pass'[p] = r /\ pass' = [q \in Passes |-> pass'[q]]
  BY DEF Write
<1>5. ASSUME NEW q \in Passes, q # p, Reading(q), pass[q].repo = r.repo
      PROVE  /\ pass'[q] \in PassType /\ InOrder(pass'[q]) /\ pass'[q].overlapped
             /\ pass'[q].pc = pass[q].pc /\ pass'[q].repo = pass[q].repo
  <2>1. PICK o \in PassType : o = pass[q] /\ InOrder(o)
    BY <1>1 DEF IxInv
  <2>2. pass'[q] = [pc |-> o.pc, todo |-> o.todo, repo |-> o.repo, roots |-> o.roots,
                    tools |-> o.tools, files |-> o.files, outs |-> o.outs,
                    overlapped |-> TRUE]
    BY <1>3, <1>5, <2>1 DEF PassType
  <2>3. pass'[q] \in PassType
    BY <2>2 DEF PassType
  <2> QED
    BY <2>1, <2>2, <2>3 DEF InOrder
<1>6. ASSUME NEW q \in Passes PROVE pass'[q] \in PassType /\ InOrder(pass'[q])
  BY <1>1, <1>3, <1>4, <1>5 DEF IxInv
<1>7. IxTypes'
  <2>1. \A x \in Repos : GraphShape(graph'[x])
    BY <1>2 DEF IxInv, IxTypes
  <2> QED
    BY <1>2, <1>4, <1>6, <2>1 DEF IxInv, IxTypes, GraphShape
<1>8. \A x : Walked(x)' = Walked(x) /\ GraphOf(Walked(x))' = GraphOf(Walked(x))
  BY DEF Walked, GraphOf, LayerNodes, PendingEdges
<1>9. ASSUME NEW q \in Passes PROVE Undisturbed(q)'
  <2>1. CASE q = p
    BY <1>2, <1>4, <1>8, <2>1 DEF Undisturbed, Reading, Clean, Written, Faithful
  <2>2. CASE q # p /\ ~Reading(q)
    BY <1>3, <2>2 DEF Undisturbed, Reading
  <2>3. CASE q # p /\ Reading(q) /\ pass[q].repo = r.repo
    BY <1>5, <2>3 DEF Undisturbed, Clean
  <2>4. CASE q # p /\ Reading(q) /\ pass[q].repo # r.repo
    <3>1. pass'[q] = pass[q]
      BY <1>3, <2>4
    <3>2. pass[q].repo \in Repos
      BY <2>4 DEF IxInv, InOrder, Reading
    <3>3. graph'[pass[q].repo] = graph[pass[q].repo]
      BY <1>2, <2>4, <3>2
    <3> QED
      BY <1>8, <3>1, <3>3 DEF IxInv, Undisturbed, Reading, Clean, Written, Faithful
  <2> QED
    BY <2>1, <2>2, <2>3, <2>4
<1>10. ASSUME NEW x \in Repos, Trusted(x)', Untouched(x)'
       PROVE  graph'[x] = GraphOf(Walked(x))'
  <2>1. x # r.repo
    BY <1>4, <1>10 DEF Untouched, Early
  <2>2. Trusted(x)
    BY <1>10 DEF Trusted, Unmarked
  <2>3. ASSUME NEW q \in Passes PROVE pass[q].pc \in Early \/ pass[q].repo # x
    <3>1. CASE q = p
      BY <2>1, <3>1
    <3>2. CASE q # p /\ Reading(q) /\ pass[q].repo = r.repo
      BY <2>1, <3>2
    <3>3. CASE q # p /\ ~(Reading(q) /\ pass[q].repo = r.repo)
      BY <1>3, <1>10, <3>3 DEF Untouched
    <3> QED
      BY <3>1, <3>2, <3>3
  <2> QED
    BY <1>2, <1>8, <2>1, <2>2, <2>3 DEF IxInv, GraphFresh, Untouched
<1> QED
  BY <1>6, <1>7, <1>9, <1>10 DEF IxInv, GraphFresh

\* Where a pass stands before a step.
LEMMA Standing ==
    ASSUME IxConstants, IxInv, NEW p \in Passes
    PROVE  /\ pass[p] \in PassType /\ InOrder(pass[p]) /\ Undisturbed(p)
           /\ pass[p].pc \notin {"idle", "next"} => pass[p].repo \in Repos
  BY DEF IxInv, IxTypes, InOrder

\* A pass begins with its repositories, their roots and its analyzers.
BegunWith(todo, roots, tools) ==
    [pc |-> "next", todo |-> todo, repo |-> WsRoot, roots |-> roots, tools |-> tools,
     files |-> Nothing, outs |-> <<>>, overlapped |-> FALSE]

LEMMA StartKeeps ==
    ASSUME IxConstants, IxInv, NEW p \in Passes, pass[p].pc = "idle",
           NEW todo \in SUBSET Repos, NEW roots \in [Repos -> Places],
           NEW tools \in {Analyzers, <<>>}, To(p, BegunWith(todo, roots, tools)),
           UNCHANGED <<disk, watch, key, graph, hole, cache>>
    PROVE  IxInv'
<1>1. PICK r : r = BegunWith(todo, roots, tools)
  OBVIOUS
<1>2. r \in PassType
  BY <1>1, IdleType DEF PassType, Idle, BegunWith
<1>3. InOrder(r) /\ r.pc = "next"
  BY <1>1 DEF InOrder, BegunWith
<1> QED
  BY <1>1, <1>2, <1>3, PassKeeps DEF To, IxInv, IxTypes, Early

LEMMA BeginKeeps ==
    ASSUME IxConstants, IxInv, NEW p \in Passes, BeginIndex(p) \/ BeginReindex(p)
    PROVE  IxInv'
<1>1. CASE BeginIndex(p)
  <2>1. ASSUME NEW z, z = [Idle EXCEPT !.pc = "next", !.todo = Repos, !.tools = Analyzers]
        PROVE  z = BegunWith(Repos, [r \in Repos |-> r], Analyzers)
    BY <2>1 DEF Idle, BegunWith
  <2>2. [r \in Repos |-> r] \in [Repos -> Places]
    BY DEF Places
  <2> QED
    BY <1>1, <2>1, <2>2, StartKeeps DEF BeginIndex
<1>2. CASE BeginReindex(p)
  <2>1. ASSUME NEW z, z = [Idle EXCEPT !.pc = "next", !.todo = Repos,
                                   !.roots = [r \in Repos |-> WsRoot]]
        PROVE  z = BegunWith(Repos, [r \in Repos |-> WsRoot], <<>>)
    BY <2>1 DEF Idle, BegunWith
  <2>2. [r \in Repos |-> WsRoot] \in [Repos -> Places]
    BY DEF Places
  <2> QED
    BY <1>2, <2>1, <2>2, StartKeeps DEF BeginReindex
<1> QED
  BY <1>1, <1>2

LEMMA RefreshKeeps ==
    ASSUME IxConstants, IxInv, NEW p \in Passes, NEW x \in Repos, BeginRefresh(p, x)
    PROVE  IxInv'
<1>1. ASSUME NEW z, z = [Idle EXCEPT !.pc = "next", !.todo = key.dirty,
                                 !.tools = Analyzers, !.roots = [r \in Repos |-> x]]
      PROVE  z = BegunWith(key.dirty, [r \in Repos |-> x], Analyzers)
  BY <1>1 DEF Idle, BegunWith
<1>2. key.dirty \in SUBSET Repos /\ [r \in Repos |-> x] \in [Repos -> Places]
  BY DEF IxInv, IxTypes, Places
<1> QED
  BY <1>1, <1>2, StartKeeps DEF BeginRefresh

LEMMA NextKeeps == ASSUME IxConstants, IxInv, NEW p \in Passes, NextRepository(p) PROVE IxInv'
<1>1. PICK q \in PassType : q = pass[p]
  BY Standing
<1>2. CASE pass[p].todo = {}
  BY <1>2, IdleType, PassKeeps DEF NextRepository, To, IxInv, IxTypes, Early
<1>3. ASSUME NEW x \in pass[p].todo,
             To(p, [pass[p] EXCEPT !.pc = "walk", !.repo = x, !.todo = @ \ {x},
                                   !.outs = <<>>, !.overlapped = FALSE])
      PROVE  IxInv'
  <2>1. PICK rest, none : rest = q.todo \ {x} /\ none = <<>>
    OBVIOUS
  <2>5. PICK r : r = [q EXCEPT !.pc = "walk", !.repo = x, !.todo = rest, !.outs = none,
                              !.overlapped = FALSE]
    OBVIOUS
  <2>6. r = [pc |-> "walk", todo |-> rest, repo |-> x, roots |-> q.roots,
             tools |-> q.tools, files |-> q.files, outs |-> none, overlapped |-> FALSE]
    BY <2>5 DEF PassType
  <2>2. r \in PassType
    BY <1>1, <1>3, <2>1, <2>6 DEF PassType, Places
  <2>3. pass' = [pass EXCEPT ![p] = r]
    BY <1>1, <1>3, <2>1, <2>5 DEF To
  <2>4. InOrder(r)
    BY <1>1, <1>3, <2>1, <2>6 DEF InOrder, PassType
  <2> QED
    BY <2>6, <2>2, <2>3, <2>4, PassKeeps DEF NextRepository, IxInv, IxTypes, Early
<1> QED
  BY <1>2, <1>3 DEF NextRepository

LEMMA WalkKeeps == ASSUME IxConstants, IxInv, NEW p \in Passes, Walk(p) PROVE IxInv'
<1>1. PICK q \in PassType : q = pass[p] /\ InOrder(q) /\ q.pc = "walk" /\ q.repo \in Repos
  BY Standing DEF Walk
<1>2. q.roots[q.repo] \in Places
  BY <1>1 DEF PassType
<1>9. PICK h, r : h = Walked(q.roots[q.repo]) /\ r = [q EXCEPT !.pc = "clear", !.files = h]
  OBVIOUS
<1>3. r = [pc |-> "clear", todo |-> q.todo, repo |-> q.repo, roots |-> q.roots,
           tools |-> q.tools, files |-> h, outs |-> q.outs, overlapped |-> q.overlapped]
  BY <1>9 DEF PassType
<1>4. r \in PassType
  BY <1>2, <1>3, <1>9, WalkedType DEF PassType, IxInv
<1>5. pass' = [pass EXCEPT ![p] = r]
  BY <1>1, <1>9 DEF Walk, To
<1>6. InOrder(r)
  BY <1>1, <1>3 DEF InOrder
<1>7. Written(r, graph[r.repo])
  BY <1>3 DEF Written
<1>8. Clean(r) => r.files = Walked(r.repo)
  BY <1>3, <1>9 DEF Clean
<1> QED
  BY <1>1, <1>3, <1>4, <1>5, <1>6, <1>7, <1>8, PassKeeps DEF Walk, IxInv, IxTypes, Early

LEMMA ChunksKeep == ASSUME IxConstants, IxInv, NEW p \in Passes, WriteChunks(p) PROVE IxInv'
<1>1. PICK q \in PassType : q = pass[p] /\ InOrder(q) /\ Undisturbed(p)
  BY Standing
<1>2. PICK r : r = [pc |-> IF q.tools = <<>> THEN "nodes" ELSE "analyze", todo |-> q.todo,
                    repo |-> q.repo, roots |-> q.roots, tools |-> q.tools, files |-> q.files,
                    outs |-> q.outs, overlapped |-> q.overlapped]
  OBVIOUS
<1>3. r \in PassType
  BY <1>2 DEF PassType
<1>4. pass' = [pass EXCEPT ![p] = r]
  <2>1. [q EXCEPT !.pc = IF q.tools = <<>> THEN "nodes" ELSE "analyze"] = r
    BY <1>2 DEF PassType
  <2> QED
    BY <1>1, <2>1 DEF WriteChunks, To
<1>5. q.pc = "chunk" /\ q.outs = <<>>
  BY <1>1 DEF WriteChunks, InOrder
<1>6. q.tools # <<>> => Len(q.tools) > 0
  BY DEF PassType, IxConstants
<1>7. InOrder(r)
  BY <1>1, <1>2, <1>5, <1>6 DEF InOrder
<1>8. Clean(r) => r.files = Walked(r.repo) /\ Written(r, graph[r.repo])
  BY <1>1, <1>2, <1>5 DEF Undisturbed, Reading, Clean, Written
<1>9. r.pc \notin Early /\ r.repo = pass[p].repo
  BY <1>1, <1>2 DEF Early
<1> QED
  BY <1>2, <1>3, <1>4, <1>7, <1>8, <1>9, PassKeeps DEF WriteChunks, IxInv, IxTypes

\* One more output leaves the graph as it is.
LEMMA OutputKeeps ==
    ASSUME IxConstants, IxInv, NEW p \in Passes, pass[p].pc = "analyze",
           NEW h \in Contents, Output(p, h),
           cache' \subseteq [at : Nat, manifest : Contents, result : Contents],
           UNCHANGED <<disk, watch, key, graph, hole>>
    PROVE  IxInv'
<1>1. PICK q \in PassType : q = pass[p] /\ InOrder(q) /\ Undisturbed(p)
  BY Standing
<1>9. PICK o, x, r :
         /\ o = Append(q.outs, h)
         /\ x = IF Len(q.outs) + 1 = Len(q.tools) THEN "nodes" ELSE "analyze"
         /\ r = [q EXCEPT !.outs = o, !.pc = x]
  OBVIOUS
<1>2. r = [pc |-> x, todo |-> q.todo, repo |-> q.repo, roots |-> q.roots, tools |-> q.tools,
           files |-> q.files, outs |-> o, overlapped |-> q.overlapped]
  BY <1>9 DEF PassType
<1>3. q.outs \in Seq(Contents) /\ Len(q.outs) \in Nat /\ Len(q.tools) \in Nat
  BY DEF PassType, IxConstants
<1>4. Append(q.outs, h) \in Seq(Contents) /\ Len(Append(q.outs, h)) = Len(q.outs) + 1
  BY <1>3
<1>5. r \in PassType
  BY <1>2, <1>4, <1>9 DEF PassType
<1>6. pass' = [pass EXCEPT ![p] = r]
  BY <1>1, <1>9 DEF Output, To
<1>7. InOrder(r)
  BY <1>1, <1>2, <1>3, <1>4, <1>9 DEF InOrder
<1>8. Clean(r) => r.files = Walked(r.repo) /\ Written(r, graph[r.repo])
  BY <1>1, <1>2, <1>9 DEF Undisturbed, Reading, Clean, Written
<1>10. r.pc \notin Early /\ r.repo = pass[p].repo
  BY <1>1, <1>2, <1>9 DEF Early
<1> QED
  BY <1>5, <1>6, <1>7, <1>8, <1>10, PassKeeps

LEMMA AnalyzeKeeps ==
    ASSUME IxConstants, IxInv, NEW p \in Passes, AnalyzeCached(p) \/ Analyze(p) PROVE IxInv'
<1>1. pass[p].files \in Contents /\ Len(pass[p].outs) \in Nat
  BY Standing DEF PassType
<1>2. CASE AnalyzeCached(p)
  BY <1>2, OutputKeeps DEF AnalyzeCached, IxInv, IxTypes
<1>3. CASE Analyze(p)
  <2>1. PICK e : e = [at |-> Len(pass[p].outs) + 1, manifest |-> pass[p].files,
                      result |-> Reread(pass[p].files)]
    OBVIOUS
  <2>2. e \in [at : Nat, manifest : Contents, result : Contents]
    BY <1>1, <2>1, RereadType DEF IxInv
  <2>3. cache' = cache \cup {e} /\ Output(p, e.result) /\ pass[p].pc = "analyze"
    BY <1>3, <2>1 DEF Analyze
  <2> QED
    BY <1>3, <2>2, <2>3, OutputKeeps DEF Analyze, IxInv, IxTypes
<1> QED
  BY <1>2, <1>3

\* A pass moves on to x.
LEMMA MovesTo ==
    ASSUME NEW q \in PassType, NEW x \in {"tree", "chunk", "edges", "record", "next"}, NEW r,
           r = [q EXCEPT !.pc = x]
    PROVE  /\ r = [pc |-> x, todo |-> q.todo, repo |-> q.repo, roots |-> q.roots,
                   tools |-> q.tools, files |-> q.files, outs |-> q.outs,
                   overlapped |-> q.overlapped]
           /\ r \in PassType
<1>1. r = [pc |-> x, todo |-> q.todo, repo |-> q.repo, roots |-> q.roots, tools |-> q.tools,
           files |-> q.files, outs |-> q.outs, overlapped |-> q.overlapped]
  BY DEF PassType
<1> QED
  BY <1>1 DEF PassType

LEMMA ClearKeeps == ASSUME IxConstants, IxInv, NEW p \in Passes, ClearGraph(p) PROVE IxInv'
<1>1. PICK q \in PassType : q = pass[p] /\ InOrder(q) /\ Undisturbed(p)
  BY Standing
<1>2. PICK r : r = [q EXCEPT !.pc = "tree"]
  OBVIOUS
<1>3. r = [pc |-> "tree", todo |-> q.todo, repo |-> q.repo, roots |-> q.roots,
           tools |-> q.tools, files |-> q.files, outs |-> q.outs, overlapped |-> q.overlapped]
      /\ r \in PassType
  BY <1>2, MovesTo
<1>4. Write(p, r) /\ graph' = [graph EXCEPT ![r.repo] = NoGraph] /\ q.pc = "clear"
  BY <1>1, <1>2, <1>3 DEF ClearGraph
<1>5. InOrder(r)
  BY <1>1, <1>3, <1>4 DEF InOrder
<1>6. Clean(r) => r.files = Walked(r.repo) /\ Written(r, NoGraph)
  BY <1>1, <1>3, <1>4 DEF Undisturbed, Reading, Clean, Written
<1>7. GraphShape(NoGraph) /\ Reading(p) /\ r.repo = pass[p].repo
  BY <1>1, <1>3, <1>4 DEF GraphShape, NoGraph, Reading
<1> QED
  BY <1>3, <1>4, <1>5, <1>6, <1>7, WriteKeeps DEF ClearGraph

\* The graph after its nodes, or its edges, are written.
LEMMA GraphWritten ==
    ASSUME IxConstants, IxInv, NEW x \in Repos, NEW n
    PROVE  /\ [graph EXCEPT ![x].nodes = n]
                 = [graph EXCEPT ![x] = [nodes |-> n, edges |-> graph[x].edges]]
           /\ [graph EXCEPT ![x].edges = n]
                 = [graph EXCEPT ![x] = [nodes |-> graph[x].nodes, edges |-> n]]
<1>1. PICK a, b : graph[x] = [nodes |-> a, edges |-> b]
  BY DEF IxInv, IxTypes, GraphShape
<1>2. /\ [graph[x] EXCEPT !.nodes = n] = [nodes |-> n, edges |-> b]
      /\ [graph[x] EXCEPT !.edges = n] = [nodes |-> a, edges |-> n]
  BY <1>1
<1> QED
  BY <1>1, <1>2

LEMMA TreeKeeps == ASSUME IxConstants, IxInv, NEW p \in Passes, WriteTree(p) PROVE IxInv'
<1>1. PICK q \in PassType : q = pass[p] /\ InOrder(q) /\ Undisturbed(p)
  BY Standing
<1>2. PICK r : r = [q EXCEPT !.pc = "chunk"]
  OBVIOUS
<1>3. r = [pc |-> "chunk", todo |-> q.todo, repo |-> q.repo, roots |-> q.roots,
           tools |-> q.tools, files |-> q.files, outs |-> q.outs, overlapped |-> q.overlapped]
      /\ r \in PassType
  BY <1>2, MovesTo
<1>4. PICK n : n = UpsertNodes(graph[q.repo].nodes, LayerNodes("file", q.files))
  OBVIOUS
<1>5. PICK g : g = [nodes |-> n, edges |-> graph[q.repo].edges]
  OBVIOUS
<1>6. Write(p, r) /\ q.pc = "tree" /\ graph' = [graph EXCEPT ![q.repo].nodes = n]
  BY <1>1, <1>2, <1>4 DEF WriteTree
<1>7. graph' = [graph EXCEPT ![r.repo] = g]
  BY <1>1, <1>3, <1>5, <1>6, GraphWritten DEF InOrder
<1>8. InOrder(r)
  BY <1>1, <1>3, <1>6 DEF InOrder
<1>9. Clean(r) => r.files = Walked(r.repo) /\ Written(r, g)
  <2> SUFFICES ASSUME Clean(r) PROVE r.files = Walked(r.repo) /\ Written(r, g)
    OBVIOUS
  <2>1. q.files = Walked(q.repo) /\ graph[q.repo] = NoGraph
    BY <1>1, <1>3, <1>6 DEF Undisturbed, Reading, Clean, Written
  <2>2. n = LayerNodes("file", q.files)
    BY <1>4, <2>1 DEF UpsertNodes, NoGraph
  <2>3. g = [nodes |-> LayerNodes("file", q.files), edges |-> {}]
    BY <1>5, <2>1, <2>2 DEF NoGraph
  <2> QED
    BY <1>3, <2>1, <2>3 DEF Written
<1>10. GraphShape(g) /\ Reading(p) /\ q.repo \in Repos /\ r.repo = pass[p].repo
  BY <1>1, <1>3, <1>5, <1>6 DEF GraphShape, Reading, InOrder
<1> QED
  BY <1>3, <1>6, <1>7, <1>8, <1>9, <1>10, WriteKeeps DEF WriteTree

\* The nodes of an analyzer's layer never stand in the way of the filesystem's.
LEMMA LayersApart ==
    ASSUME IxConstants, NEW h \in Contents
    PROVE  UpsertNodes(LayerNodes("file", h),
                       UNION {LayerNodes(Analyzers[a], h) : a \in DOMAIN Analyzers})
              = GraphOf(h).nodes
<1> DEFINE new == UNION {LayerNodes(Analyzers[a], h) : a \in DOMAIN Analyzers}
<1>1. \A m \in new : m.layer # "file"
  BY DEF LayerNodes, IxConstants
<1>2. \A n \in LayerNodes("file", h) : n.layer = "file"
  BY DEF LayerNodes
<1>3. \A n \in LayerNodes("file", h), m \in new : <<n.layer, n.file>> # <<m.layer, m.file>>
  BY <1>1, <1>2
<1>4. GraphOf(h).nodes = LayerNodes("file", h) \cup new
  BY DEF GraphOf
<1> HIDE DEF new
<1>5. UpsertNodes(LayerNodes("file", h), new) = LayerNodes("file", h) \cup new
  BY <1>3 DEF UpsertNodes
<1> QED
  BY <1>4, <1>5 DEF new

LEMMA NodesKeep == ASSUME IxConstants, IxInv, NEW p \in Passes, WriteNodes(p) PROVE IxInv'
<1>1. PICK q \in PassType : q = pass[p] /\ InOrder(q) /\ Undisturbed(p)
  BY Standing
<1>2. PICK r : r = [q EXCEPT !.pc = "edges"]
  OBVIOUS
<1>3. r = [pc |-> "edges", todo |-> q.todo, repo |-> q.repo, roots |-> q.roots,
           tools |-> q.tools, files |-> q.files, outs |-> q.outs, overlapped |-> q.overlapped]
      /\ r \in PassType
  BY <1>2, MovesTo
<1>4. PICK new : new = UNION {LayerNodes(Analyzers[a], q.outs[a]) : a \in DOMAIN q.outs}
  OBVIOUS
<1>5. PICK n : n = UpsertNodes(graph[q.repo].nodes, new)
  OBVIOUS
<1>6. PICK g : g = [nodes |-> n, edges |-> graph[q.repo].edges]
  OBVIOUS
<1>7. Write(p, r) /\ q.pc = "nodes" /\ graph' = [graph EXCEPT ![q.repo].nodes = n]
  BY <1>1, <1>2, <1>4, <1>5 DEF WriteNodes
<1>8. graph' = [graph EXCEPT ![r.repo] = g]
  BY <1>1, <1>3, <1>6, <1>7, GraphWritten DEF InOrder
<1>9. InOrder(r)
  BY <1>1, <1>3, <1>7 DEF InOrder
<1>10. Clean(r) => r.files = Walked(r.repo) /\ Written(r, g)
  <2> SUFFICES ASSUME Clean(r) PROVE r.files = Walked(r.repo) /\ Written(r, g)
    OBVIOUS
  <2>1. /\ q.files = Walked(q.repo)
        /\ graph[q.repo] = [nodes |-> LayerNodes("file", q.files), edges |-> {}]
    BY <1>1, <1>3, <1>7 DEF Undisturbed, Reading, Clean, Written
  <2>2. ASSUME Faithful(q) PROVE g = [nodes |-> GraphOf(q.files).nodes, edges |-> {}]
    <3>1. DOMAIN q.outs = DOMAIN Analyzers
      BY <1>1, <1>7, <2>2 DEF InOrder, Faithful, PassType, IxConstants
    <3>2. new = UNION {LayerNodes(Analyzers[a], q.files) : a \in DOMAIN Analyzers}
      BY <1>4, <2>2, <3>1 DEF Faithful
    <3>3. q.files \in Contents
      BY DEF PassType
    <3>4. n = GraphOf(q.files).nodes
      BY <1>5, <2>1, <3>2, <3>3, LayersApart
    <3> QED
      BY <1>6, <2>1, <3>4
  <2>3. Faithful(r) => Faithful(q)
    BY <1>3 DEF Faithful
  <2> QED
    BY <1>3, <2>1, <2>2, <2>3 DEF Written
<1>11. GraphShape(g) /\ Reading(p) /\ q.repo \in Repos /\ r.repo = pass[p].repo
  BY <1>1, <1>3, <1>6, <1>7 DEF GraphShape, Reading, InOrder
<1> QED
  BY <1>3, <1>7, <1>8, <1>9, <1>10, <1>11, WriteKeeps DEF WriteNodes

\* Between the nodes of all layers no edge is dropped.
LEMMA EndpointsKnown ==
    ASSUME IxConstants, NEW h \in Contents
    PROVE  Endpoints(GraphOf(h).edges, GraphOf(h).nodes) = GraphOf(h).edges
<1>1. \A a \in DOMAIN Analyzers, f \in DOMAIN h :
         <<Analyzers[a], f>> \in Named(GraphOf(h).nodes)
  <2> SUFFICES ASSUME NEW a \in DOMAIN Analyzers, NEW f \in DOMAIN h
               PROVE  <<Analyzers[a], f>> \in Named(GraphOf(h).nodes)
    OBVIOUS
  <2>1. PICK n : n = [layer |-> Analyzers[a], file |-> f, version |-> h[f]]
    OBVIOUS
  <2>2. n \in LayerNodes(Analyzers[a], h)
    BY <2>1 DEF LayerNodes
  <2>3. n \in GraphOf(h).nodes
    BY <2>2 DEF GraphOf
  <2>4. <<n.layer, n.file>> = <<Analyzers[a], f>>
    BY <2>1
  <2> QED
    BY <2>3, <2>4 DEF Named
<1>2. ASSUME NEW e \in GraphOf(h).edges
      PROVE  \E a, b \in DOMAIN Analyzers, f \in DOMAIN h :
                e = <<<<Analyzers[a], f>>, <<Analyzers[b], f>>>>
  <2>1. PICK a \in DOMAIN Analyzers : e \in PendingEdges(a, h)
    BY <1>2 DEF GraphOf
  <2>2. PICK f \in DOMAIN h : /\ a < Len(Analyzers)
                              /\ e = <<<<Analyzers[a], f>>, <<Analyzers[a + 1], f>>>>
    BY <2>1 DEF PendingEdges
  <2>3. a + 1 \in DOMAIN Analyzers
    BY <2>2 DEF IxConstants
  <2> QED
    BY <2>2, <2>3
<1>3. \A e \in GraphOf(h).edges :
         e[1] \in Named(GraphOf(h).nodes) /\ e[2] \in Named(GraphOf(h).nodes)
  BY <1>1, <1>2
<1> QED
  BY <1>3 DEF Endpoints

LEMMA EdgesKeep == ASSUME IxConstants, IxInv, NEW p \in Passes, WriteEdges(p) PROVE IxInv'
<1>1. PICK q \in PassType : q = pass[p] /\ InOrder(q) /\ Undisturbed(p)
  BY Standing
<1>2. PICK r : r = [q EXCEPT !.pc = "record"]
  OBVIOUS
<1>3. r = [pc |-> "record", todo |-> q.todo, repo |-> q.repo, roots |-> q.roots,
           tools |-> q.tools, files |-> q.files, outs |-> q.outs, overlapped |-> q.overlapped]
      /\ r \in PassType
  BY <1>2, MovesTo
<1>4. PICK new : new = UNION {PendingEdges(a, q.outs[a]) : a \in DOMAIN q.outs}
  OBVIOUS
<1>5. PICK n : n = graph[q.repo].edges \cup Endpoints(new, graph[q.repo].nodes)
  OBVIOUS
<1>6. PICK g : g = [nodes |-> graph[q.repo].nodes, edges |-> n]
  OBVIOUS
<1>7. Write(p, r) /\ q.pc = "edges" /\ graph' = [graph EXCEPT ![q.repo].edges = n]
  BY <1>1, <1>2, <1>4, <1>5 DEF WriteEdges
<1>8. graph' = [graph EXCEPT ![r.repo] = g]
  BY <1>1, <1>3, <1>6, <1>7, GraphWritten DEF InOrder
<1>9. InOrder(r)
  BY <1>1, <1>3, <1>7 DEF InOrder
<1>10. Clean(r) => r.files = Walked(r.repo) /\ Written(r, g)
  <2> SUFFICES ASSUME Clean(r) PROVE r.files = Walked(r.repo) /\ Written(r, g)
    OBVIOUS
  <2>1. /\ q.files = Walked(q.repo)
        /\ Faithful(q) => graph[q.repo] = [nodes |-> GraphOf(q.files).nodes, edges |-> {}]
    BY <1>1, <1>3, <1>7 DEF Undisturbed, Reading, Clean, Written
  <2>2. ASSUME Faithful(q) PROVE g = GraphOf(q.files)
    <3>1. DOMAIN q.outs = DOMAIN Analyzers
      BY <1>1, <1>7, <2>2 DEF InOrder, Faithful, PassType, IxConstants
    <3>2. new = UNION {PendingEdges(a, q.files) : a \in DOMAIN Analyzers}
      BY <1>4, <2>2, <3>1 DEF Faithful
    <3>3. new = GraphOf(q.files).edges
      BY <3>2 DEF GraphOf
    <3>4. q.files \in Contents
      BY DEF PassType
    <3>5. n = GraphOf(q.files).edges
      BY <1>5, <2>1, <2>2, <3>3, <3>4, EndpointsKnown
    <3>6. g = [nodes |-> GraphOf(q.files).nodes, edges |-> GraphOf(q.files).edges]
      BY <1>6, <2>1, <2>2, <3>5
    <3> QED
      BY <3>6 DEF GraphOf
  <2>3. Faithful(r) => Faithful(q)
    BY <1>3 DEF Faithful
  <2> QED
    BY <1>3, <2>1, <2>2, <2>3 DEF Written
<1>11. GraphShape(g) /\ Reading(p) /\ q.repo \in Repos /\ r.repo = pass[p].repo
  BY <1>1, <1>3, <1>6, <1>7 DEF GraphShape, Reading, InOrder
<1> QED
  BY <1>3, <1>7, <1>8, <1>9, <1>10, <1>11, WriteKeeps DEF WriteEdges

\* A pass leaves a repository: the others are where they were.
LEMMA LeaveKeeps ==
    ASSUME IxConstants, IxInv, NEW p \in Passes, NEW r \in PassType,
           pass' = [pass EXCEPT ![p] = r], r.pc \in {"idle", "next"}, InOrder(r),
           UNCHANGED <<disk, graph>>
    PROVE  /\ pass' \in [Passes -> PassType]
           /\ \A q \in Passes : InOrder(pass[q])' /\ Undisturbed(q)'
           /\ \A x : Walked(x)' = Walked(x) /\ GraphOf(Walked(x))' = GraphOf(Walked(x))
<1>1. pass \in [Passes -> PassType]
  BY DEF IxInv, IxTypes
<1>2. \A q \in Passes : pass'[q] = IF q = p THEN r ELSE pass[q]
  BY <1>1
<1>3. \A x : Walked(x)' = Walked(x) /\ GraphOf(Walked(x))' = GraphOf(Walked(x))
  BY DEF Walked, GraphOf, LayerNodes, PendingEdges
<1>4. ASSUME NEW q \in Passes PROVE InOrder(pass[q])' /\ Undisturbed(q)'
  <2>1. CASE q = p
    BY <1>2, <2>1 DEF InOrder, Undisturbed, Reading
  <2>2. CASE q # p
    BY <1>2, <1>3, <2>2 DEF IxInv, InOrder, Undisturbed, Reading, Clean, Written, Faithful
  <2> QED
    BY <2>1, <2>2
<1> QED
  BY <1>1, <1>3, <1>4

\* The key is recorded over the graph of the files, or the reason why not is.
LEMMA RecordKeyKeeps ==
    ASSUME IxConstants, IxInv, NEW p \in Passes, RecordIndexKey(p) PROVE IxInv'
<1>1. PICK q \in PassType : q = pass[p] /\ InOrder(q) /\ Undisturbed(p) /\ q.repo \in Repos
  BY Standing DEF RecordIndexKey
<1>2. PICK r : r = [q EXCEPT !.pc = "next"]
  OBVIOUS
<1>3. r = [pc |-> "next", todo |-> q.todo, repo |-> q.repo, roots |-> q.roots,
           tools |-> q.tools, files |-> q.files, outs |-> q.outs, overlapped |-> q.overlapped]
      /\ r \in PassType
  BY <1>2, MovesTo
<1>4. pass' = [pass EXCEPT ![p] = r] /\ q.pc = "record"
  BY <1>1, <1>2 DEF RecordIndexKey, To
<1>5. InOrder(r)
  BY <1>3 DEF InOrder
<1>6. PICK why \in SUBSET Gaps :
         /\ hole' = [hole EXCEPT ![q.repo] = why]
         /\ why = {} => Clean(q) /\ Faithful(q)
  <2>1. PICK a, b, c, d :
           /\ a = IF q.overlapped THEN {"overlapped"} ELSE {}
           /\ b = IF q.tools # Analyzers THEN {"bare"} ELSE {}
           /\ c = IF q.roots[q.repo] # q.repo THEN {"elsewhere"} ELSE {}
           /\ d = IF \E k \in DOMAIN q.outs : q.outs[k] # q.files THEN {"cached"} ELSE {}
    OBVIOUS
  <2>2. hole' = [hole EXCEPT ![q.repo] = a \cup b \cup c \cup d]
    BY <1>1, <2>1 DEF RecordIndexKey
  <2>3. a \cup b \cup c \cup d \in SUBSET Gaps
    BY <2>1 DEF Gaps
  <2>4. a \cup b \cup c \cup d = {} => Clean(q) /\ Faithful(q)
    BY <2>1 DEF Faithful, Clean
  <2> QED
    BY <2>2, <2>3, <2>4
<1>7. /\ hole' \in [Repos -> SUBSET Gaps] /\ hole'[q.repo] = why
      /\ \A x \in Repos : x # q.repo => hole'[x] = hole[x]
  BY <1>1, <1>6 DEF IxInv, IxTypes
<1>8. /\ key' = [known |-> key.known \cup {q.repo}, dirty |-> key.dirty \ {q.repo}]
      /\ key' \in [known : SUBSET Repos, dirty : SUBSET Repos]
  BY <1>1 DEF RecordIndexKey, IxInv, IxTypes
<1>9. /\ pass' \in [Passes -> PassType]
      /\ \A o \in Passes : InOrder(pass[o])' /\ Undisturbed(o)'
      /\ \A x : Walked(x)' = Walked(x) /\ GraphOf(Walked(x))' = GraphOf(Walked(x))
  BY <1>3, <1>4, <1>5, LeaveKeeps DEF RecordIndexKey
<1>10. IxTypes'
  BY <1>7, <1>8, <1>9 DEF RecordIndexKey, IxInv, IxTypes, GraphShape
<1>11. why = {} => graph[q.repo] = GraphOf(Walked(q.repo))
  BY <1>1, <1>4, <1>6 DEF Undisturbed, Reading, Written
<1>12. graph' = graph /\ watch' = watch
  BY DEF RecordIndexKey
<1>13. ASSUME NEW x \in Repos, Trusted(x)', Untouched(x)'
       PROVE  graph'[x] = GraphOf(Walked(x))'
  <2>1. CASE x = q.repo
    BY <1>7, <1>9, <1>11, <1>12, <1>13, <2>1 DEF Trusted
  <2>2. CASE x # q.repo
    <3>1. Trusted(x)
      BY <1>7, <1>8, <1>12, <1>13, <2>2 DEF Trusted, Unmarked
    <3>2. Untouched(x)
      BY <1>1, <1>4, <1>13, <2>2 DEF Untouched, IxInv, IxTypes
    <3> QED
      BY <1>9, <1>12, <3>1, <3>2 DEF IxInv, GraphFresh
  <2> QED
    BY <2>1, <2>2
<1> QED
  BY <1>9, <1>10, <1>13 DEF IxInv, GraphFresh

\* A pass that had begun to write the graph says so when it is abandoned.
LEMMA AbandonKeeps == ASSUME IxConstants, IxInv, NEW p \in Passes, Abandon(p) PROVE IxInv'
<1>1. PICK q \in PassType :
         q = pass[p] /\ (q.pc \notin {"idle", "next"} => q.repo \in Repos)
  BY Standing
<1>2. pass' = [pass EXCEPT ![p] = Idle] /\ Idle \in PassType /\ Idle.pc = "idle" /\ InOrder(Idle)
  BY IdleType DEF Abandon, To
<1>3. /\ pass' \in [Passes -> PassType]
      /\ \A o \in Passes : InOrder(pass[o])' /\ Undisturbed(o)'
      /\ \A x : Walked(x)' = Walked(x) /\ GraphOf(Walked(x))' = GraphOf(Walked(x))
  BY <1>2, LeaveKeeps DEF Abandon
<1>4. UNCHANGED <<disk, watch, key, graph, cache>>
  BY DEF Abandon
<1>5. CASE q.pc \in Early
  <2>1. hole' = hole
    BY <1>1, <1>5 DEF Abandon, Reading, Early
  <2>2. IxTypes'
    BY <1>3, <1>4, <2>1 DEF IxInv, IxTypes, GraphShape
  <2>3. \A x \in Repos : Untouched(x)' => Untouched(x)
    BY <1>1, <1>2, <1>5 DEF Untouched, IxInv, IxTypes
  <2>4. \A x \in Repos : Trusted(x)' => Trusted(x)
    BY <1>4, <2>1 DEF Trusted, Unmarked
  <2> QED
    BY <1>3, <1>4, <2>2, <2>3, <2>4 DEF IxInv, GraphFresh
<1>6. CASE q.pc \notin Early
  <2>1. q.repo \in Repos /\ hole' = [hole EXCEPT ![q.repo] = @ \cup {"abandoned"}]
    BY <1>1, <1>6 DEF Abandon, Reading, Early
  <2>2. /\ hole' \in [Repos -> SUBSET Gaps] /\ hole'[q.repo] # {}
        /\ \A x \in Repos : x # q.repo => hole'[x] = hole[x]
    BY <2>1 DEF IxInv, IxTypes, Gaps
  <2>3. IxTypes'
    BY <1>3, <1>4, <2>2 DEF IxInv, IxTypes, GraphShape
  <2>4. ASSUME NEW x \in Repos, Trusted(x)', Untouched(x)'
        PROVE  graph'[x] = GraphOf(Walked(x))'
    <3>1. x # q.repo
      BY <2>2, <2>4 DEF Trusted
    <3>2. Trusted(x)
      BY <1>4, <2>2, <2>4, <3>1 DEF Trusted, Unmarked
    <3>3. Untouched(x)
      BY <1>1, <1>2, <2>4, <3>1 DEF Untouched, IxInv, IxTypes
    <3> QED
      BY <1>3, <1>4, <3>2, <3>3 DEF IxInv, GraphFresh
  <2> QED
    BY <1>3, <2>3, <2>4 DEF IxInv, GraphFresh
<1> QED
  BY <1>5, <1>6

-----------------------------------------------------------------------------
\* An edit overlaps every pass that has walked, and is held by the watcher or has
\* escaped it.
LEMMA EditKeeps ==
    ASSUME IxConstants, IxInv, NEW f \in Files, NEW v \in 0 .. MaxVersion, Edit(f, v)
    PROVE  IxInv'
<1>1. disk' \in [Files -> Nat] /\ \A x \in Files : x # f => disk'[x] = disk[x]
  BY DEF Edit, IxInv, IxTypes
<1>2. ASSUME NEW x \in Places, f \notin Under[x]
      PROVE  Walked(x)' = Walked(x) /\ GraphOf(Walked(x))' = GraphOf(Walked(x))
  <2>1. \A g \in Under[x] : disk'[g] = disk[g]
    BY <1>1, <1>2 DEF IxConstants
  <2>2. Walked(x)' = Walked(x)
    BY <2>1 DEF Walked
  <2> QED
    BY <2>2 DEF GraphOf, LayerNodes, PendingEdges
<1>3. ASSUME NEW q \in Passes
      PROVE  /\ pass'[q] \in PassType /\ InOrder(pass'[q])
             /\ pass'[q].pc = pass[q].pc /\ pass'[q].repo = pass[q].repo
             /\ \/ pass'[q].overlapped \/ ~Reading(q)
                \/ pass'[q] = pass[q] /\ f \notin Under[pass[q].roots[pass[q].repo]]
  <2>1. PICK o \in PassType : o = pass[q] /\ InOrder(o)
    BY Standing
  <2>2. CASE Reading(q) /\ f \in Under[o.roots[o.repo]]
    <3>1. pass'[q] = [o EXCEPT !.overlapped = TRUE]
      BY <2>1, <2>2 DEF Edit
    <3>2. pass'[q] = [pc |-> o.pc, todo |-> o.todo, repo |-> o.repo, roots |-> o.roots,
                      tools |-> o.tools, files |-> o.files, outs |-> o.outs,
                      overlapped |-> TRUE]
      BY <3>1 DEF PassType
    <3>3. pass'[q] \in PassType
      BY <3>2 DEF PassType
    <3> QED
      BY <2>1, <3>2, <3>3 DEF InOrder
  <2>3. CASE ~(Reading(q) /\ f \in Under[o.roots[o.repo]])
    BY <2>1, <2>3 DEF Edit
  <2> QED
    BY <2>2, <2>3
<1>4. pass' = [q \in Passes |-> pass'[q]]
  BY DEF Edit
<1>5. ASSUME NEW q \in Passes PROVE Undisturbed(q)'
  <2>1. CASE pass'[q].overlapped \/ ~Reading(q)
    BY <1>3, <2>1 DEF Undisturbed, Reading, Clean
  <2>2. CASE pass'[q] = pass[q] /\ f \notin Under[pass[q].roots[pass[q].repo]]
    <3>1. PICK x : x = pass[q].repo
      OBVIOUS
    <3>2. ASSUME Reading(q), Clean(pass[q]) PROVE Walked(x)' = Walked(x)
      <4>1. x \in Places /\ f \notin Under[x]
        BY <2>2, <3>1, <3>2, Standing DEF Clean, PassType
      <4> QED
        BY <1>2, <4>1
    <3>3. graph' = graph
      BY DEF Edit
    <3> QED
      BY <2>2, <3>1, <3>2, <3>3 DEF IxInv, Undisturbed, Reading, Clean, Written, Faithful
  <2> QED
    BY <1>3, <2>1, <2>2
<1>6. /\ watch' \in [on : BOOLEAN, pending : SUBSET Files]
      /\ ~watch'.on => watch'.pending = {}
      /\ watch'.pending = watch.pending \cup (IF watch.on /\ f \notin Ignored THEN {f} ELSE {})
  <2>1. CASE watch.on /\ f \notin Ignored
    <3>1. watch' = [on |-> watch.on, pending |-> watch.pending \cup {f}]
      BY <2>1 DEF Edit, IxInv, IxTypes
    <3> QED
      BY <2>1, <3>1 DEF IxInv, IxTypes
  <2>2. CASE ~(watch.on /\ f \notin Ignored)
    BY <2>2 DEF Edit, IxInv, IxTypes
  <2> QED
    BY <2>1, <2>2
<1>7. \A x \in Repos :
         hole'[x] = hole[x] \cup (IF f \in Under[x] THEN Escapes(f, x) ELSE {})
  BY DEF Edit
<1>8. hole' \in [Repos -> SUBSET Gaps]
  <2>1. \A x \in Repos : Escapes(f, x) \in SUBSET Gaps
    BY DEF Escapes, Gaps
  <2>2. hole' = [x \in Repos |-> hole[x] \cup (IF f \in Under[x] THEN Escapes(f, x) ELSE {})]
    BY DEF Edit
  <2> QED
    BY <2>1, <2>2 DEF IxInv, IxTypes
<1>9. IxTypes'
  BY <1>1, <1>3, <1>4, <1>6, <1>8 DEF Edit, IxInv, IxTypes, GraphShape
<1>10. ASSUME NEW x \in Repos, Trusted(x)', Untouched(x)'
       PROVE  graph'[x] = GraphOf(Walked(x))'
  <2>1. f \notin Under[x]
    <3> SUFFICES ASSUME f \in Under[x] PROVE FALSE
      OBVIOUS
    <3>1. Escapes(f, x) = {}
      BY <1>7, <1>10 DEF Trusted
    <3>2. watch.on /\ f \notin Ignored /\ x = RepositoryFor(f)
      BY <3>1 DEF Escapes
    <3>3. f \in watch'.pending
      BY <1>6, <3>2
    <3>4. x \in Unmarked'
      BY <3>2, <3>3 DEF Unmarked, RepositoryFor
    <3> QED
      BY <1>10, <3>4 DEF Trusted
  <2>2. Trusted(x)
    <3>1. hole[x] = {}
      BY <1>7, <1>10 DEF Trusted
    <3>2. x \notin Unmarked
      BY <1>6, <1>10 DEF Trusted, Unmarked, RepositoryFor
    <3> QED
      BY <1>10, <3>1, <3>2 DEF Trusted, Edit
  <2>3. Untouched(x)
    BY <1>3, <1>10 DEF Untouched
  <2>4. graph' = graph /\ x \in Places
    BY DEF Edit, Places
  <2> QED
    BY <1>2, <2>1, <2>2, <2>3, <2>4 DEF IxInv, GraphFresh
<1> QED
  BY <1>3, <1>5, <1>9, <1>10 DEF IxInv, GraphFresh

\* The watcher touches marks and nothing else; what it drops has escaped.
LEMMA MarksKeep ==
    ASSUME IxConstants, IxInv,
           UNCHANGED <<disk, graph, cache, pass>>,
           watch' \in [on : BOOLEAN, pending : SUBSET Files],
           ~watch'.on => watch'.pending = {},
           key' \in [known : SUBSET Repos, dirty : SUBSET Repos],
           hole' \in [Repos -> SUBSET Gaps],
           \A x \in Repos : Trusted(x)' => Trusted(x)
    PROVE  IxInv'
<1>1. \A x : Walked(x)' = Walked(x) /\ GraphOf(Walked(x))' = GraphOf(Walked(x))
  BY DEF Walked, GraphOf, LayerNodes, PendingEdges
<1>2. \A q \in Passes : InOrder(pass[q])' /\ Undisturbed(q)'
  BY <1>1 DEF IxInv, InOrder, Undisturbed, Reading, Clean, Written, Faithful
<1>3. IxTypes'
  BY DEF IxInv, IxTypes, GraphShape
<1>4. \A x : Untouched(x)' => Untouched(x)
  BY DEF Untouched
<1>5. GraphFresh'
  BY <1>1, <1>4 DEF IxInv, GraphFresh
<1> QED
  BY <1>2, <1>3, <1>5 DEF IxInv

LEMMA WatchKeeps == ASSUME IxConstants, IxInv, WatchBegin \/ WatchEnd PROVE IxInv'
<1>1. CASE WatchBegin
  <2>1. \A x \in Repos : Trusted(x)' => Trusted(x)
    BY <1>1 DEF WatchBegin, IxInv, IxTypes, Unmarked, Trusted
  <2> QED
    BY <1>1, <2>1, MarksKeep DEF WatchBegin, IxInv, IxTypes
<1>2. CASE WatchEnd
  <2>1. hole' \in [Repos -> SUBSET Gaps]
    <3>1. \A r \in Repos : hole[r] \cup (IF r \in Unmarked THEN {"dropped"} ELSE {}) \in SUBSET Gaps
      BY DEF IxInv, IxTypes, Gaps
    <3> QED
      BY <1>2, <3>1 DEF WatchEnd
  <2>2. \A x \in Repos : hole'[x] = {} => x \notin Unmarked /\ hole[x] = {}
    BY <1>2 DEF WatchEnd
  <2>3. \A x \in Repos : Trusted(x)' => Trusted(x)
    BY <1>2, <2>2 DEF WatchEnd, Trusted
  <2> QED
    BY <1>2, <2>1, <2>3, MarksKeep DEF WatchEnd, IxInv, IxTypes
<1> QED
  BY <1>1, <1>2

LEMMA FlushKeeps ==
    ASSUME IxConstants, IxInv, NEW failed \in SUBSET Repos, Flush(failed) PROVE IxInv'
<1>1. hole' \in [Repos -> SUBSET Gaps]
  <2>1. \A r \in Repos : hole[r] \cup (IF r \in failed THEN {"dropped"} ELSE {}) \in SUBSET Gaps
    BY DEF IxInv, IxTypes, Gaps
  <2> QED
    BY <2>1 DEF Flush
<1>2. \A x \in Repos : hole'[x] = {} => x \notin failed /\ hole[x] = {}
  BY DEF Flush
<1>3. watch' = [on |-> watch.on, pending |-> {}]
  BY DEF Flush, IxInv, IxTypes
<1>4. watch' \in [on : BOOLEAN, pending : SUBSET Files] /\ watch'.pending = {}
  BY <1>3 DEF IxInv, IxTypes
<1>5. Unmarked \subseteq Repos
  BY Homes DEF Unmarked, IxInv, IxTypes
<1>6. key' = [known |-> key.known \cup (Unmarked \ failed), dirty |-> key.dirty \cup (Unmarked \ failed)]
  BY DEF Flush, MarkDirty
<1>7. key' \in [known : SUBSET Repos, dirty : SUBSET Repos]
  BY <1>5, <1>6 DEF IxInv, IxTypes
<1>8. ASSUME NEW x \in Repos, Trusted(x)' PROVE Trusted(x)
  <2>1. x \notin failed /\ hole[x] = {}
    BY <1>2, <1>8 DEF Trusted
  <2>2. x \in key'.known /\ x \notin key'.dirty
    BY <1>8 DEF Trusted
  <2>3. x \notin Unmarked /\ x \in key.known \ key.dirty
    BY <1>6, <2>1, <2>2
  <2> QED
    BY <2>1, <2>3 DEF Trusted
<1> QED
  BY <1>1, <1>3, <1>4, <1>7, <1>8, MarksKeep DEF Flush

LEMMA IxInit_Inv == ASSUME IxConstants, IxInit PROVE IxInv
<1>1. IxTypes
  BY IdleType DEF IxInit, IxTypes, GraphShape, NoGraph
<1>2. \A p \in Passes : pass[p] = Idle
  BY DEF IxInit
<1>3. \A p \in Passes : InOrder(pass[p]) /\ Undisturbed(p)
  BY <1>2, IdleType DEF Undisturbed, Reading
<1>4. GraphFresh
  BY DEF IxInit, GraphFresh, Trusted
<1> QED
  BY <1>1, <1>3, <1>4 DEF IxInv

LEMMA IxStep == ASSUME IxConstants, IxInv, [IxNext]_ixvars PROVE IxInv'
<1>1. CASE UNCHANGED ixvars
  <2>1. UNCHANGED <<disk, graph, cache, pass, watch, key, hole>>
    BY <1>1 DEF ixvars
  <2>2. \A x \in Repos : Trusted(x)' => Trusted(x)
    BY <2>1 DEF Unmarked, Trusted
  <2> QED
    BY <2>1, <2>2, MarksKeep DEF IxInv, IxTypes
<1>2. ASSUME NEW p \in Passes, BeginIndex(p) \/ BeginReindex(p) PROVE IxInv'
  BY <1>2, BeginKeeps
<1>16. ASSUME NEW p \in Passes, NEW root \in Repos, BeginRefresh(p, root) PROVE IxInv'
  BY <1>16, RefreshKeeps
<1>3. ASSUME NEW p \in Passes, NextRepository(p) PROVE IxInv'
  BY <1>3, NextKeeps
<1>4. ASSUME NEW p \in Passes, Walk(p) PROVE IxInv'
  BY <1>4, WalkKeeps
<1>5. ASSUME NEW p \in Passes, ClearGraph(p) PROVE IxInv'
  BY <1>5, ClearKeeps
<1>6. ASSUME NEW p \in Passes, WriteTree(p) PROVE IxInv'
  BY <1>6, TreeKeeps
<1>7. ASSUME NEW p \in Passes, WriteChunks(p) PROVE IxInv'
  BY <1>7, ChunksKeep
<1>8. ASSUME NEW p \in Passes, AnalyzeCached(p) \/ Analyze(p) PROVE IxInv'
  BY <1>8, AnalyzeKeeps
<1>9. ASSUME NEW p \in Passes, WriteNodes(p) PROVE IxInv'
  BY <1>9, NodesKeep
<1>10. ASSUME NEW p \in Passes, WriteEdges(p) PROVE IxInv'
  BY <1>10, EdgesKeep
<1>11. ASSUME NEW p \in Passes, RecordIndexKey(p) PROVE IxInv'
  BY <1>11, RecordKeyKeeps
<1>12. ASSUME NEW p \in Passes, Abandon(p) PROVE IxInv'
  BY <1>12, AbandonKeeps
<1>13. ASSUME NEW f \in Files, NEW v \in 0 .. MaxVersion, Edit(f, v) PROVE IxInv'
  BY <1>13, EditKeeps
<1>14. ASSUME NEW failed \in SUBSET Repos, Flush(failed) PROVE IxInv'
  BY <1>14, FlushKeeps
<1>15. CASE WatchBegin \/ WatchEnd
  BY <1>15, WatchKeeps
<1>17. CASE IxNext
  BY <1>2, <1>3, <1>4, <1>5, <1>6, <1>7, <1>8, <1>9, <1>10, <1>11, <1>12, <1>13, <1>14, <1>15,
     <1>16, <1>17 DEF IxNext
<1> QED
  BY <1>1, <1>17

\* However many passes run at once over however many repositories, nested or not, and
\* whatever is edited, dropped or abandoned between their transactions: a clean key
\* that no mark is on its way to and no pass is at work on means the graph of the
\* files, or one of the nine known gaps has opened.
THEOREM NoSilentStaleness ==
    ASSUME IxConstants
    PROVE  IxSpec => []StaleIsExplained
<1>1. IxInit => IxInv
  BY IxInit_Inv
<1>2. IxInv /\ [IxNext]_ixvars => IxInv'
  BY IxStep
<1>3. IxInv => StaleIsExplained
  <2> SUFFICES ASSUME IxInv, NEW r \in Repos, Settled(r)
               PROVE  graph[r] = GraphOf(Walked(r)) \/ hole[r] # {}
    BY DEF StaleIsExplained
  <2>1. \A p \in Passes : pass[p] \in PassType
    BY Standing
  <2>2. Untouched(r)
    BY <2>1 DEF Untouched, Settled, Reading, PassType, Early
  <2>3. hole[r] = {} => Trusted(r)
    BY DEF Trusted, Settled
  <2> QED
    BY <2>2, <2>3 DEF IxInv, GraphFresh
<1> QED
  BY <1>1, <1>2, <1>3, PTL DEF IxSpec
-----------------------------------------------------------------------------
\* The databases of a workspace.

\* What is assumed of the constants: the databases are numbered in the order they
\* are opened, and each has at least one migration.
StConstants ==
    /\ Last \in Nat \ {0} /\ Indices = 1 .. Last
    /\ Target \in [Indices -> Nat \ {0}]
    /\ NoWs \notin Workspaces

FileType ==
    [there : BOOLEAN, whole : BOOLEAN, steps : Seq(Nat), stamp : Workspaces \cup Older \cup {NoWs},
     origin : Workspaces \cup Older \cup {NoWs}, born : Nat]
Opening == {"open", "backup", "migrate", "stamp"}
Opened == {"switch", "truncate", "write", "rename", "ready"}
SessionType ==
    [pc : Opening \cup Opened \cup {"closed", "restore", "copy"}, ws : Workspaces \cup {NoWs},
     at : Indices, from : Nat, held : SUBSET Indices, active : Workspaces \cup {NoWs},
     snap : [Indices -> FileType] \cup {<<>>}, why : {"use", "verify"}]

\* The migrations of a file are those up to its version, once and in order.
Ordered(f) == f.born <= Version(f) /\ \A k \in 1 .. Version(f) : f.steps[k] = k

StTypes ==
    /\ file \in [Workspaces -> [Indices -> FileType]]
    /\ sess \in [Sessions -> SessionType]
    /\ snaps \subseteq [Indices -> FileType]

\* The copy of a database at a version.
CopyOf(w, i, n) == [ws |-> w, db |-> i, steps |-> [k \in 1 .. n |-> k]]

FilesSound ==
    /\ \A w \in Workspaces, i \in Indices : LET f == file[w][i] IN
          /\ Ordered(f)
          /\ f.whole /\ f.born \in 1 .. Version(f) - 1 => CopyOf(w, i, f.born) \in premig
    /\ \A h \in snaps, i \in Indices : Ordered(h[i])

\* A database that is there, whole, and not beyond its target.
Usable(f, i) == f.there /\ f.whole /\ Version(f) <= Target[i]

\* What a session may rely on in the files of its workspace: one that has read a
\* version finds that one or a later one, and has a copy of what it takes over;
\* what it holds is finished.
Own(p, mine, copies) ==
    /\ p.pc \in {"restore", "copy"} =>
          p.held = {} /\ p.snap \in [Indices -> FileType] /\ \A i \in Indices : Ordered(p.snap[i])
    /\ p.pc \in Opening => 1 .. p.at - 1 \subseteq p.held
    /\ p.pc \in {"backup", "migrate", "stamp"} =>
          Usable(mine[p.at], p.at) /\ p.from <= Version(mine[p.at])
    /\ p.pc \in {"backup", "migrate"} => p.from < Target[p.at]
    /\ p.pc = "migrate" /\ mine[p.at].born > 0 =>
          CopyOf(p.ws, p.at, mine[p.at].born) \in copies
    /\ p.pc = "stamp" => p.from = Target[p.at]
    /\ p.pc \in Opened => Indices \subseteq p.held
    /\ \A i \in p.held :
          Usable(mine[i], i) /\ mine[i].stamp = p.ws /\ Version(mine[i]) = Target[i]

\* One that restores, or opens what it has restored, is alone in its workspace.
Alone(s) ==
    sess[s].pc \in {"restore", "copy"} \/ sess[s].why = "verify" =>
        \A o \in Sessions \ {s} : sess[o].ws # sess[s].ws

Relies(s) ==
    sess[s].pc # "closed" =>
        /\ sess[s].ws \in Workspaces
        /\ Alone(s)
        /\ Own(sess[s], file[sess[s].ws], premig)

StInv == StTypes /\ FilesSound /\ \A s \in Sessions : Relies(s)

-----------------------------------------------------------------------------
\* What a step of another session may make of a database: nothing, a file where
\* none was, or one more migration.
Evolves(f, g, i) ==
    \/ g = f
    \/ ~f.there
    \/ /\ g.there = f.there /\ g.whole = f.whole /\ g.born = f.born
       /\ Version(g) = Version(f) + 1 /\ Version(g) <= Target[i]

LEMMA StepsAre ==
    ASSUME NEW n \in Nat, NEW q \in Seq(Nat), Len(q) = n, \A k \in 1 .. n : q[k] = k
    PROVE  q = [k \in 1 .. n |-> k]
  OBVIOUS

LEMMA VersionType == ASSUME NEW f \in FileType PROVE Version(f) \in Nat
  BY DEF FileType, Version

LEMMA OwnKept ==
    ASSUME StConstants, NEW p \in SessionType, NEW f \in [Indices -> FileType],
           NEW g \in [Indices -> FileType], NEW c, NEW d, c \subseteq d,
           \A i \in Indices : Evolves(f[i], g[i], i), Own(p, f, c)
    PROVE  Own(p, g, d)
<1>1. \A i \in Indices : Version(f[i]) \in Nat /\ Version(g[i]) \in Nat /\ Target[i] \in Nat
  BY VersionType DEF StConstants
<1>2. p.at \in Indices /\ p.from \in Nat /\ p.held \subseteq Indices
  BY DEF SessionType
<1>3. ASSUME NEW i \in Indices, Usable(f[i], i)
      PROVE  /\ Usable(g[i], i) /\ Version(f[i]) <= Version(g[i]) /\ g[i].born = f[i].born
             /\ Version(f[i]) = Target[i] => g[i] = f[i]
  BY <1>1, <1>3 DEF Usable, Evolves
<1>4. p.pc \in {"backup", "migrate", "stamp"} =>
          Usable(g[p.at], p.at) /\ p.from <= Version(g[p.at])
  BY <1>1, <1>2, <1>3 DEF Own
<1>5. p.pc = "migrate" /\ g[p.at].born > 0 => CopyOf(p.ws, p.at, g[p.at].born) \in d
  BY <1>2, <1>3 DEF Own
<1>6. \A i \in p.held :
          Usable(g[i], i) /\ g[i].stamp = p.ws /\ Version(g[i]) = Target[i]
  BY <1>2, <1>3 DEF Own
<1> QED
  BY <1>4, <1>5, <1>6 DEF Own

\* A step of one session: the others still rely on what they did.
LEMMA StepKeeps ==
    ASSUME StConstants, StInv, NEW s \in Sessions, NEW r \in SessionType,
           sess' = [sess EXCEPT ![s] = r],
           r.ws \in {sess[s].ws, NoWs},
           r.pc # "closed" =>
              /\ r.ws \in Workspaces
              /\ (r.pc \in {"restore", "copy"} \/ r.why = "verify") =>
                    \A o \in Sessions \ {s} : sess[o].ws # r.ws
              /\ Own(r, file'[r.ws], premig'),
           file' \in [Workspaces -> [Indices -> FileType]],
           snaps' \subseteq [Indices -> FileType],
           premig \subseteq premig',
           \A w \in Workspaces, i \in Indices :
              \/ Evolves(file[w][i], file'[w][i], i)
              \/ w = sess[s].ws /\ sess[s].pc \in {"restore", "copy"},
           FilesSound'
    PROVE  StInv'
<1>1. StTypes'
  BY DEF StInv, StTypes
<1>2. sess'[s] = r /\ \A o \in Sessions \ {s} : sess'[o] = sess[o]
  BY DEF StInv, StTypes
<1>3. Relies(s)'
  BY <1>2 DEF Relies, Alone
<1>4. ASSUME NEW o \in Sessions \ {s} PROVE Relies(o)'
  <2> SUFFICES ASSUME sess[o].pc # "closed"
               PROVE  /\ sess[o].ws \in Workspaces
                      /\ Alone(o)'
                      /\ Own(sess[o], file'[sess[o].ws], premig')
    BY <1>2 DEF Relies
  <2>1. sess[o].ws \in Workspaces /\ Alone(o) /\ Own(sess[o], file[sess[o].ws], premig)
    BY DEF StInv, Relies
  <2>2. Alone(o)'
    <3> SUFFICES ASSUME sess[o].pc \in {"restore", "copy"} \/ sess[o].why = "verify",
                        NEW q \in Sessions \ {o}
                 PROVE  sess'[q].ws # sess[o].ws
      BY <1>2 DEF Alone
    <3>1. sess[q].ws # sess[o].ws
      BY <2>1 DEF Alone
    <3>2. NoWs # sess[o].ws
      BY <2>1 DEF StConstants
    <3> QED
      BY <1>2, <3>1, <3>2
  <2>3. ASSUME NEW i \in Indices
        PROVE  Evolves(file[sess[o].ws][i], file'[sess[o].ws][i], i)
    <3>1. CASE sess[o].ws = sess[s].ws /\ sess[s].pc \in {"restore", "copy"}
      BY <3>1 DEF StInv, Relies, Alone
    <3> QED
      BY <2>1, <3>1
  <2>4. /\ sess[o] \in SessionType /\ file[sess[o].ws] \in [Indices -> FileType]
        /\ file'[sess[o].ws] \in [Indices -> FileType]
    BY <2>1 DEF StInv, StTypes
  <2>5. Own(sess[o], file'[sess[o].ws], premig')
    BY <2>1, <2>3, <2>4, OwnKept
  <2> QED
    BY <2>1, <2>2, <2>5
<1> QED
  BY <1>1, <1>3, <1>4 DEF StInv

\* A step that leaves the files alone.
LEMMA QuietKeeps ==
    ASSUME StConstants, StInv, NEW s \in Sessions, NEW r \in SessionType,
           sess' = [sess EXCEPT ![s] = r],
           r.ws \in {sess[s].ws, NoWs},
           r.pc # "closed" =>
              /\ r.ws \in Workspaces
              /\ (r.pc \in {"restore", "copy"} \/ r.why = "verify") =>
                    \A o \in Sessions \ {s} : sess[o].ws # r.ws
              /\ Own(r, file[r.ws], premig),
           UNCHANGED <<file, premig, snaps>>
    PROVE  StInv'
<1>1. /\ file' \in [Workspaces -> [Indices -> FileType]]
      /\ snaps' \subseteq [Indices -> FileType]
  BY DEF StInv, StTypes
<1>2. FilesSound'
  BY DEF StInv, FilesSound, Ordered, Version
<1>3. \A w \in Workspaces, i \in Indices : Evolves(file[w][i], file'[w][i], i)
  BY DEF Evolves
<1> QED
  BY <1>1, <1>2, <1>3, StepKeeps

LEMMA ClosedType ==
    ASSUME StConstants PROVE Closed \in SessionType /\ Closed.ws = NoWs /\ Closed.pc = "closed"
<1>1. 1 \in Indices
  BY DEF StConstants
<1> QED
  BY <1>1 DEF Closed, SessionType, Opening, Opened

\* A session that ends, in a step that leaves the files alone.
LEMMA FailKeeps ==
    ASSUME StConstants, StInv, NEW s \in Sessions, Fail(s), UNCHANGED <<file, premig, snaps>>
    PROVE  StInv'
<1>1. Closed \in SessionType /\ Closed.ws = NoWs /\ Closed.pc = "closed"
  BY ClosedType
<1>2. sess' = [sess EXCEPT ![s] = Closed]
  BY DEF Fail, Set
<1> QED
  BY <1>1, <1>2, QuietKeeps

LEMMA OpenKeeps ==
    ASSUME StConstants, StInv, NEW s \in Sessions, NEW w \in Workspaces, Open(s, w)
    PROVE  StInv'
<1>1. 1 \in Indices
  BY DEF StConstants
<1>2. PICK r : r = [Closed EXCEPT !.pc = "open", !.ws = w]
  OBVIOUS
<1>3. r = [pc |-> "open", ws |-> w, at |-> 1, from |-> 0, held |-> {}, active |-> NoWs,
           snap |-> <<>>, why |-> "use"]
  BY <1>2 DEF Closed
<1>4. r \in SessionType
  BY <1>1, <1>3 DEF SessionType, Opening
<1>5. sess' = [sess EXCEPT ![s] = r]
  BY <1>2 DEF Open, Set
<1>6. sess'[s] = r /\ \A o \in Sessions \ {s} : sess'[o] = sess[o]
  BY <1>5 DEF StInv, StTypes
<1>7. Relies(s)'
  <2>1. Own(r, file[w], premig)
    BY <1>3 DEF Own, Opened
  <2> QED
    BY <1>3, <1>6, <2>1 DEF Relies, Alone, Open, Restoring
<1>8. ASSUME NEW o \in Sessions \ {s} PROVE Relies(o)'
  BY <1>3, <1>6 DEF Relies, Alone, Open, Restoring, StInv
<1>9. StTypes' /\ FilesSound'
  BY <1>4, <1>5 DEF Open, StInv, StTypes, FilesSound, Ordered, Version
<1> QED
  BY <1>7, <1>8, <1>9 DEF StInv

\* A session that has opened everything goes on, its files as they are.
LEMMA OpenedKeeps ==
    ASSUME StConstants, StInv, NEW s \in Sessions, sess[s].pc \in Opened,
           NEW x \in Opened, NEW a \in {sess[s].active, sess[s].ws},
           sess' = [sess EXCEPT ![s] = [sess[s] EXCEPT !.pc = x, !.active = a]],
           UNCHANGED <<file, premig, snaps>>
    PROVE  StInv'
<1>1. PICK p \in SessionType : p = sess[s]
  BY DEF StInv, StTypes
<1>2. PICK r : r = [p EXCEPT !.pc = x, !.active = a]
  OBVIOUS
<1>3. r = [pc |-> x, ws |-> p.ws, at |-> p.at, from |-> p.from, held |-> p.held,
           active |-> a, snap |-> p.snap, why |-> p.why]
  BY <1>2 DEF SessionType
<1>4. r \in SessionType
  <2>1. x \in Opening \cup Opened \cup {"closed", "restore", "copy"}
    OBVIOUS
  <2>2. a \in Workspaces \cup {NoWs}
    BY <1>1 DEF SessionType
  <2> QED
    BY <1>3, <2>1, <2>2 DEF SessionType
<1>5. p.pc # "closed"
  BY <1>1 DEF Opened
<1>6. p.ws \in Workspaces /\ Alone(s) /\ Own(p, file[p.ws], premig)
  BY <1>1, <1>5 DEF StInv, Relies
<1>7. Own(r, file[r.ws], premig)
  <2>1. r.pc \in Opened /\ r.held = p.held /\ r.ws = p.ws /\ r.at = p.at /\ p.pc \in Opened
    BY <1>1, <1>3
  <2>2. r.pc \notin Opening \cup {"restore", "copy"}
    BY <2>1 DEF Opening, Opened
  <2> QED
    BY <1>6, <2>1, <2>2 DEF Own, Opening
<1>8. (r.pc \in {"restore", "copy"} \/ r.why = "verify") =>
          \A o \in Sessions \ {s} : sess[o].ws # r.ws
  BY <1>1, <1>3, <1>6 DEF Alone, Opened
<1> QED
  BY <1>1, <1>2, <1>3, <1>4, <1>6, <1>7, <1>8, QuietKeeps

\* SwitchTo, the workspace's record, the slots and the backup of an open store.
LEMMA RecordKeeps ==
    ASSUME StConstants, StInv, NEW s \in Sessions,
           \/ SwitchTo(s) \/ RecordTruncate(s) \/ RecordWrite(s) \/ RecordRename(s)
           \/ SaveSlot(s) \/ Close(s)
    PROVE  StInv'
<1>1. PICK p \in SessionType : p = sess[s]
  BY DEF StInv, StTypes
<1>2. \A x : [p EXCEPT !.pc = x] = [p EXCEPT !.pc = x, !.active = p.active]
  BY DEF SessionType
<1>3. CASE SwitchTo(s)
  BY <1>3, OpenedKeeps DEF SwitchTo, Set, Opened
<1>4. CASE RecordTruncate(s)
  BY <1>1, <1>2, <1>4, OpenedKeeps DEF RecordTruncate, Set, Opened
<1>5. CASE RecordWrite(s)
  BY <1>1, <1>2, <1>5, OpenedKeeps DEF RecordWrite, Set, Opened
<1>6. CASE RecordRename(s)
  BY <1>1, <1>2, <1>6, OpenedKeeps, FailKeeps DEF RecordRename, Set, Opened
<1>7. CASE SaveSlot(s)
  BY <1>7 DEF SaveSlot, StInv, StTypes, FilesSound, Ordered, Version, Relies, Alone
<1>8. CASE Close(s)
  BY <1>8, FailKeeps DEF Close
<1> QED
  BY <1>3, <1>4, <1>5, <1>6, <1>7, <1>8

\* A backup directory holds what an open store holds.
LEMMA BackupKeeps == ASSUME StConstants, StInv, NEW s \in Sessions, Backup(s) PROVE StInv'
<1>1. sess[s].ws \in Workspaces
  BY DEF Backup, StInv, Relies
<1>2. file[sess[s].ws] \in [Indices -> FileType]
  BY <1>1 DEF StInv, StTypes
<1>3. StTypes'
  BY <1>2 DEF Backup, StInv, StTypes
<1>4. \A h \in snaps', i \in Indices : Ordered(h[i])
  BY <1>1 DEF Backup, StInv, FilesSound
<1>5. FilesSound'
  BY <1>4 DEF Backup, StInv, FilesSound, Ordered, Version
<1>6. \A o \in Sessions : Relies(o)'
  BY DEF Backup, StInv, Relies, Alone
<1> QED
  BY <1>3, <1>5, <1>6 DEF StInv

\* What a session that is opening its databases knows of itself.
LEMMA OpeningKnows ==
    ASSUME StInv, NEW s \in Sessions, sess[s].pc \in Opening
    PROVE  /\ sess[s] \in SessionType /\ sess[s].pc # "closed" /\ sess[s].pc \notin {"restore", "copy"}
           /\ sess[s].ws \in Workspaces /\ sess[s].at \in Indices
           /\ file[sess[s].ws] \in [Indices -> FileType]
           /\ file[sess[s].ws][sess[s].at] \in FileType
           /\ Ordered(file[sess[s].ws][sess[s].at])
           /\ Alone(s) /\ Own(sess[s], file[sess[s].ws], premig)
<1>1. sess[s] \in SessionType /\ sess[s].pc # "closed" /\ sess[s].pc \notin {"restore", "copy"}
  BY DEF StInv, StTypes, Opening
<1>2. sess[s].ws \in Workspaces /\ sess[s].at \in Indices
      /\ Alone(s) /\ Own(sess[s], file[sess[s].ws], premig)
  BY <1>1 DEF StInv, Relies, SessionType
<1> QED
  BY <1>1, <1>2 DEF StInv, StTypes, FilesSound

\* The copy before a migration: of the version the file was put there with, or
\* another session has made that one already.
LEMMA CopyKeeps ==
    ASSUME StConstants, StInv, NEW s \in Sessions, BackupBeforeMigrating(s) PROVE StInv'
<1> DEFINE w == sess[s].ws
           i == sess[s].at
           f == file[w][i]
<1>1. sess[s].pc \in Opening /\ sess[s].pc = "backup"
  BY DEF BackupBeforeMigrating, Opening
<1>2. /\ sess[s] \in SessionType /\ w \in Workspaces /\ i \in Indices
      /\ file[w] \in [Indices -> FileType] /\ f \in FileType /\ Ordered(f)
      /\ Alone(s) /\ Own(sess[s], file[w], premig)
  BY <1>1, OpeningKnows
<1>3. PICK p \in SessionType : p = sess[s]
  BY <1>2
<1>4. PICK r : r = [p EXCEPT !.pc = "migrate"]
  OBVIOUS
<1>5. /\ r \in SessionType /\ r.pc = "migrate" /\ r.from = p.from /\ r.ws = p.ws
      /\ r.at = p.at /\ r.held = p.held /\ r.why = p.why
  <2>1. r = [pc |-> "migrate", ws |-> p.ws, at |-> p.at, from |-> p.from, held |-> p.held,
             active |-> p.active, snap |-> p.snap, why |-> p.why]
    BY <1>4 DEF SessionType
  <2> QED
    BY <2>1 DEF SessionType, Opening
<1>6. sess' = [sess EXCEPT ![s] = r]
  BY <1>3, <1>4 DEF BackupBeforeMigrating, Set
<1>7. file' = file /\ snaps' = snaps /\ premig \subseteq premig'
      /\ [ws |-> w, db |-> i, steps |-> f.steps] \in premig'
  BY DEF BackupBeforeMigrating
<1>8. f.born > 0 => CopyOf(w, i, f.born) \in premig'
  <2> SUFFICES ASSUME f.born > 0 PROVE CopyOf(w, i, f.born) \in premig'
    OBVIOUS
  <2>1. f.born \in Nat /\ Version(f) \in Nat /\ f.born <= Version(f) /\ f.whole
    BY <1>1, <1>2, VersionType DEF Ordered, FileType, Own, Usable
  <2>2. CASE f.born = Version(f)
    <3>1. f.steps = [k \in 1 .. f.born |-> k]
      <4>1. f.steps \in Seq(Nat) /\ Len(f.steps) = f.born /\ \A k \in 1 .. f.born : f.steps[k] = k
        BY <1>2, <2>2 DEF FileType, Ordered, Version
      <4> QED
        BY <2>1, <4>1, StepsAre
    <3> QED
      BY <1>7, <3>1 DEF CopyOf
  <2>3. CASE f.born # Version(f)
    <3>1. f.born \in 1 .. Version(f) - 1
      BY <2>1, <2>3
    <3>2. CopyOf(w, i, f.born) \in premig
      BY <1>2, <2>1, <3>1 DEF StInv, FilesSound
    <3> QED
      BY <1>7, <3>2
  <2> QED
    BY <2>2, <2>3
<1>9. Own(r, file'[r.ws], premig')
  BY <1>1, <1>2, <1>3, <1>5, <1>7, <1>8 DEF Own, Opening, Opened
<1>10. FilesSound'
  BY <1>7 DEF StInv, FilesSound, Ordered, Version
<1>11. /\ file' \in [Workspaces -> [Indices -> FileType]]
       /\ snaps' \subseteq [Indices -> FileType]
       /\ \A v \in Workspaces, k \in Indices : Evolves(file[v][k], file'[v][k], k)
  BY <1>7 DEF StInv, StTypes, Evolves
<1>12. (r.pc \in {"restore", "copy"} \/ r.why = "verify") => \A o \in Sessions \ {s} : sess[o].ws # r.ws
  BY <1>2, <1>3, <1>5 DEF Alone
<1> QED
  BY <1>2, <1>3, <1>5, <1>6, <1>7, <1>9, <1>10, <1>11, <1>12, StepKeeps

\* A database that is not there is created, and its version decides what follows.
LEMMA OpenDBKeeps == ASSUME StConstants, StInv, NEW s \in Sessions, OpenDB(s) PROVE StInv'
<1> DEFINE w == sess[s].ws
           i == sess[s].at
           Fresh == [NoFile EXCEPT !.there = TRUE, !.origin = w]
<1>1. sess[s].pc \in Opening /\ sess[s].pc = "open"
  BY DEF OpenDB, Opening
<1>2. /\ sess[s] \in SessionType /\ w \in Workspaces /\ i \in Indices
      /\ file[w] \in [Indices -> FileType] /\ file[w][i] \in FileType /\ Ordered(file[w][i])
      /\ Alone(s) /\ Own(sess[s], file[w], premig)
  BY <1>1, OpeningKnows
<1>3. PICK p \in SessionType : p = sess[s]
  BY <1>2
<1>4. PICK f : f = IF file[w][i].there THEN file[w][i] ELSE Fresh
  OBVIOUS
<1>5. /\ f \in FileType /\ Ordered(f) /\ f.there
      /\ f = file[w][i] \/ (~file[w][i].there /\ f.born = 0)
  <2>1. CASE file[w][i].there
    BY <1>2, <1>4, <2>1
  <2>2. CASE ~file[w][i].there
    <3>1. f = [there |-> TRUE, whole |-> TRUE, steps |-> <<>>, stamp |-> NoWs, origin |-> w,
               born |-> 0]
      BY <1>4, <2>2 DEF NoFile
    <3>2. f \in FileType
      BY <1>2, <3>1 DEF FileType
    <3> QED
      BY <2>2, <3>1, <3>2 DEF Ordered, Version
  <2> QED
    BY <2>1, <2>2
<1>6. file' = [file EXCEPT ![w][i] = f]
  BY <1>4 DEF OpenDB
<1>7. /\ file' \in [Workspaces -> [Indices -> FileType]]
      /\ file'[w][i] = f
      /\ \A v \in Workspaces, k \in Indices :
            v # w \/ k # i => file'[v][k] = file[v][k]
  BY <1>2, <1>5, <1>6 DEF StInv, StTypes
<1>8. \A v \in Workspaces, k \in Indices : Evolves(file[v][k], file'[v][k], k)
  BY <1>5, <1>7 DEF Evolves
<1>9. snaps' = snaps /\ premig' = premig /\ snaps' \subseteq [Indices -> FileType]
  BY DEF OpenDB, StInv, StTypes
<1>10. FilesSound'
  <2>1. ASSUME NEW v \in Workspaces, NEW k \in Indices
        PROVE  /\ Ordered(file'[v][k])
               /\ file'[v][k].whole /\ file'[v][k].born \in 1 .. Version(file'[v][k]) - 1 =>
                     CopyOf(v, k, file'[v][k].born) \in premig
    <3>1. CASE file'[v][k] = file[v][k]
      BY <3>1 DEF StInv, FilesSound
    <3>2. CASE v = w /\ k = i /\ f.born = 0
      BY <1>5, <1>7, <3>2
    <3> QED
      BY <1>5, <1>7, <3>1, <3>2
  <2> QED
    BY <1>9, <2>1 DEF StInv, FilesSound, Ordered, Version
<1>11. CASE Course(f, i) = "fail"
  <2>1. sess' = [sess EXCEPT ![s] = Closed]
    BY <1>4, <1>11 DEF OpenDB, Fail, Set
  <2> QED
    BY <1>7, <1>8, <1>9, <1>10, <2>1, ClosedType, StepKeeps
<1>12. CASE Course(f, i) # "fail"
  <2>0. PICK x, n : x = Course(f, i) /\ n = Version(f)
    OBVIOUS
  <2>1. PICK r : r = [p EXCEPT !.pc = x, !.from = n]
    OBVIOUS
  <2>2. sess' = [sess EXCEPT ![s] = r]
    BY <1>3, <1>4, <1>12, <2>0, <2>1 DEF OpenDB, Set
  <2>3. Version(f) \in Nat /\ Target[i] \in Nat
    BY <1>2, <1>5, VersionType DEF StConstants
  <2>4. /\ Course(f, i) \in {"stamp", "migrate", "backup"} /\ f.whole
        /\ Version(f) <= Target[i]
        /\ Course(f, i) = "stamp" => Version(f) = Target[i]
        /\ Course(f, i) # "stamp" => Version(f) < Target[i]
        /\ Course(f, i) = "migrate" => Version(f) = 0
    BY <1>12, <2>3 DEF Course
  <2>5. /\ r \in SessionType /\ r.pc = Course(f, i) /\ r.from = Version(f) /\ r.ws = p.ws
        /\ r.at = p.at /\ r.held = p.held /\ r.why = p.why
    <3>1. x \in Opening /\ n \in Nat
      BY <2>0, <2>3, <2>4 DEF Opening
    <3>2. r = [pc |-> x, ws |-> p.ws, at |-> p.at, from |-> n, held |-> p.held,
               active |-> p.active, snap |-> p.snap, why |-> p.why]
      BY <2>1 DEF SessionType
    <3> QED
      BY <2>0, <3>1, <3>2 DEF SessionType
  <2>6. Course(f, i) = "migrate" => f.born = 0
    BY <1>5, <2>4 DEF Ordered, FileType
  <2>7. i \notin p.held \/ f = file[w][i]
    BY <1>2, <1>3, <1>5 DEF Own, Usable
  <2>8. Own(r, file'[r.ws], premig')
    <3>1. \A k \in r.held : file'[w][k] = file[w][k]
      BY <1>2, <1>3, <1>7, <2>5, <2>7 DEF SessionType
    <3>2. r.pc \in Opening /\ r.pc \notin {"restore", "copy"} /\ r.pc \notin Opened
      BY <2>4, <2>5 DEF Opening, Opened
    <3>3. 1 .. r.at - 1 \subseteq r.held
      BY <1>1, <1>2, <1>3, <2>5 DEF Own
    <3>4. Usable(file'[w][i], i) /\ r.from <= Version(file'[w][i])
      BY <1>5, <1>7, <2>3, <2>4, <2>5 DEF Usable
    <3>5. \A k \in r.held :
            Usable(file'[w][k], k) /\ file'[w][k].stamp = r.ws /\ Version(file'[w][k]) = Target[k]
      BY <1>2, <1>3, <2>5, <3>1 DEF Own
    <3>6. r.pc = "migrate" => ~(file'[w][i].born > 0)
      BY <1>7, <2>5, <2>6
    <3> QED
      BY <1>3, <2>4, <2>5, <3>2, <3>3, <3>4, <3>5, <3>6 DEF Own
  <2>9. (r.pc \in {"restore", "copy"} \/ r.why = "verify") => \A o \in Sessions \ {s} : sess[o].ws # r.ws
    BY <1>2, <1>3, <2>4, <2>5 DEF Alone
  <2> QED
    BY <1>2, <1>3, <1>7, <1>8, <1>9, <1>10, <2>2, <2>5, <2>8, <2>9, StepKeeps
<1> QED
  BY <1>11, <1>12

\* A file with one more migration.
Migrated(h, w, n) ==
    [there |-> h.there, whole |-> h.whole, steps |-> Append(h.steps, n), stamp |-> w,
     origin |-> h.origin, born |-> h.born]

LEMMA MigratedIs ==
    ASSUME NEW h \in FileType, NEW w \in Workspaces, NEW n \in Nat, n = Version(h) + 1,
           Ordered(h)
    PROVE  LET g == Migrated(h, w, n) IN
           /\ g \in FileType /\ Ordered(g)
           /\ Version(g) = Version(h) + 1 /\ Version(g) = n /\ g.born = h.born
           /\ g.there = h.there /\ g.whole = h.whole /\ g.stamp = w
<1>1. PICK q \in Seq(Nat) : q = h.steps
  BY DEF FileType
<1>2. PICK t : t = Append(q, n)
  OBVIOUS
<1>3. t \in Seq(Nat) /\ Len(t) = Len(q) + 1 /\ t[n] = n
      /\ \A k \in 1 .. Len(q) : t[k] = q[k]
  BY <1>1, <1>2 DEF Version
<1>4. PICK g : g = Migrated(h, w, n)
  OBVIOUS
<1>5. g = [there |-> h.there, whole |-> h.whole, steps |-> t, stamp |-> w,
           origin |-> h.origin, born |-> h.born]
  BY <1>1, <1>2, <1>4 DEF Migrated
<1>6. g \in FileType
  BY <1>3, <1>5 DEF FileType
<1>7. Version(g) = Version(h) + 1 /\ g.born = h.born /\ g.steps = t /\ h.born \in Nat
  BY <1>1, <1>3, <1>5 DEF Version, FileType
<1>8. Ordered(g)
  <2>1. Len(q) \in Nat /\ n = Len(q) + 1 /\ h.born <= Len(q) /\ Len(g.steps) = n
        /\ \A k \in 1 .. Len(q) : q[k] = k
    BY <1>1, <1>3, <1>7 DEF Ordered, Version
  <2>2. \A k \in 1 .. n : t[k] = k
    BY <1>3, <2>1
  <2> QED
    BY <1>7, <2>1, <2>2 DEF Ordered, Version
<1> QED
  BY <1>4, <1>5, <1>6, <1>7, <1>8

\* One migration: it is the one after the version the session has read, which the
\* file still has when the step is not there yet.
LEMMA MigrateKeeps == ASSUME StConstants, StInv, NEW s \in Sessions, Migrate(s) PROVE StInv'
<1> DEFINE w == sess[s].ws
           i == sess[s].at
           f == file[w][i]
           n == sess[s].from + 1
           Applied == \E k \in 1 .. Version(f) : f.steps[k] = n
<1>1. sess[s].pc \in Opening /\ sess[s].pc = "migrate"
  BY DEF Migrate, Opening
<1>2. /\ sess[s] \in SessionType /\ w \in Workspaces /\ i \in Indices
      /\ file[w] \in [Indices -> FileType] /\ f \in FileType /\ Ordered(f)
      /\ Alone(s) /\ Own(sess[s], file[w], premig)
  BY <1>1, OpeningKnows
<1>3. CASE Applied
  BY <1>3, FailKeeps DEF Migrate
<1>4. CASE ~Applied
  <2>1. PICK p \in SessionType : p = sess[s]
    BY <1>2
  <2>2. /\ p.from \in Nat /\ n \in Nat /\ Version(f) \in Nat /\ Target[i] \in Nat
        /\ Usable(f, i) /\ p.from <= Version(f) /\ p.from < Target[i]
    BY <1>1, <1>2, <2>1, VersionType DEF Own, StConstants, SessionType
  <2>3. Version(f) = p.from
    <3>1. n \in 1 .. Version(f) => f.steps[n] = n
      BY <1>2 DEF Ordered
    <3> QED
      BY <1>4, <2>1, <2>2, <3>1
  <2>4. PICK g : g = [f EXCEPT !.steps = Append(f.steps, n), !.stamp = w]
    OBVIOUS
  <2>5. /\ g \in FileType /\ Ordered(g)
        /\ Version(g) = Version(f) + 1 /\ Version(g) = n /\ g.born = f.born
        /\ g.there = f.there /\ g.whole = f.whole /\ g.stamp = w
    <3>1. PICK h \in FileType, m \in Nat : h = f /\ m = n
      BY <1>2, <2>2
    <3>2. g = [h EXCEPT !.steps = Append(h.steps, m), !.stamp = w]
      BY <2>4, <3>1
    <3>3. m = Version(h) + 1 /\ Ordered(h)
      BY <1>2, <2>1, <2>3, <3>1
    <3>4. g = Migrated(h, w, m)
      BY <3>2 DEF FileType, Migrated
    <3> QED
      BY <1>2, <3>1, <3>3, <3>4, MigratedIs
  <2>6. Version(g) <= Target[i]
    BY <2>2, <2>3, <2>5
  <2>9. file' = [file EXCEPT ![w][i].steps = Append(@, n), ![w][i].stamp = w]
    BY <1>4 DEF Migrate
  <2>10. file' = [file EXCEPT ![w][i] = g]
    BY <1>2, <2>4, <2>9 DEF StInv, StTypes
  <2>11. /\ file' \in [Workspaces -> [Indices -> FileType]]
         /\ file'[w][i] = g
         /\ \A v \in Workspaces, k \in Indices : v # w \/ k # i => file'[v][k] = file[v][k]
    BY <1>2, <2>5, <2>10 DEF StInv, StTypes
  <2>12. \A v \in Workspaces, k \in Indices : Evolves(file[v][k], file'[v][k], k)
    BY <2>5, <2>6, <2>11 DEF Evolves
  <2>13. snaps' = snaps /\ premig' = premig /\ snaps' \subseteq [Indices -> FileType]
    BY DEF Migrate, StInv, StTypes
  <2>14. f.born > 0 => CopyOf(w, i, f.born) \in premig
    BY <1>1, <1>2 DEF Own
  <2>15. FilesSound'
    <3>1. ASSUME NEW v \in Workspaces, NEW k \in Indices
          PROVE  /\ Ordered(file'[v][k])
                 /\ file'[v][k].whole /\ file'[v][k].born \in 1 .. Version(file'[v][k]) - 1 =>
                       CopyOf(v, k, file'[v][k].born) \in premig
      <4>1. CASE v # w \/ k # i
        BY <2>11, <4>1 DEF StInv, FilesSound
      <4>2. CASE v = w /\ k = i
        BY <2>5, <2>11, <2>14, <4>2
      <4> QED
        BY <4>1, <4>2
    <3> QED
      BY <2>13, <3>1 DEF StInv, FilesSound, Ordered, Version
  <2>16. PICK x : x = IF n = Target[i] THEN "stamp" ELSE "migrate"
    OBVIOUS
  <2>17. PICK m : m = n
    OBVIOUS
  <2>18. PICK r : r = [p EXCEPT !.from = m, !.pc = x]
    OBVIOUS
  <2>19. sess' = [sess EXCEPT ![s] = r]
    BY <1>4, <2>1, <2>16, <2>17, <2>18 DEF Migrate, Set
  <2>20. /\ r \in SessionType /\ r.pc = x /\ r.from = n /\ r.ws = w /\ r.at = i
         /\ r.held = p.held /\ r.why = p.why
    <3>1. r = [pc |-> x, ws |-> p.ws, at |-> p.at, from |-> m, held |-> p.held,
               active |-> p.active, snap |-> p.snap, why |-> p.why]
      BY <2>18 DEF SessionType
    <3>2. x \in Opening /\ m \in Nat
      BY <2>2, <2>16, <2>17 DEF Opening
    <3>3. r \in SessionType
      BY <3>1, <3>2 DEF SessionType
    <3> QED
      BY <2>1, <2>17, <3>1, <3>3
  <2>21. i \notin p.held
    BY <1>2, <2>1, <2>2, <2>3 DEF Own
  <2>22. Own(r, file'[r.ws], premig')
    <3>1. \A k \in r.held : k \in Indices /\ file'[w][k] = file[w][k]
      BY <1>2, <2>11, <2>20, <2>21 DEF SessionType
    <3>2. r.pc \in Opening /\ r.pc \notin {"restore", "copy"} /\ r.pc \notin Opened /\ r.pc # "backup"
      BY <2>16, <2>20 DEF Opening, Opened
    <3>3. 1 .. r.at - 1 \subseteq r.held
      BY <1>1, <1>2, <2>1, <2>20 DEF Own
    <3>4. Usable(file'[w][i], i) /\ r.from <= Version(file'[w][i])
      <4>1. Usable(g, i)
        BY <2>2, <2>5, <2>6 DEF Usable
      <4>2. r.from <= Version(g)
        BY <2>2, <2>5, <2>20
      <4> QED
        BY <2>11, <4>1, <4>2
    <3>5. \A k \in r.held :
            Usable(file'[w][k], k) /\ file'[w][k].stamp = r.ws /\ Version(file'[w][k]) = Target[k]
      BY <1>2, <2>1, <2>20, <3>1 DEF Own
    <3>6. (r.pc = "migrate" => r.from < Target[i]) /\ (r.pc = "stamp" => r.from = Target[i])
      BY <2>1, <2>2, <2>16, <2>20
    <3>7. file'[w][i].born > 0 => CopyOf(w, i, file'[w][i].born) \in premig'
      BY <2>5, <2>11, <2>13, <2>14
    <3> QED
      BY <2>20, <3>2, <3>3, <3>4, <3>5, <3>6, <3>7 DEF Own
  <2>23. (r.pc \in {"restore", "copy"} \/ r.why = "verify") => \A o \in Sessions \ {s} : sess[o].ws # r.ws
    BY <1>2, <2>1, <2>16, <2>20 DEF Alone
  <2> QED
    BY <1>2, <2>11, <2>12, <2>13, <2>15, <2>19, <2>20, <2>22, <2>23, StepKeeps
<1> QED
  BY <1>3, <1>4

\* A database whose stamp is the workspace's is finished, and held.
LEMMA VerifyStampKeeps ==
    ASSUME StConstants, StInv, NEW s \in Sessions, VerifyStamp(s) PROVE StInv'
<1> DEFINE w == sess[s].ws
           i == sess[s].at
           f == file[w][i]
<1>1. sess[s].pc \in Opening /\ sess[s].pc = "stamp"
  BY DEF VerifyStamp, Opening
<1>2. /\ sess[s] \in SessionType /\ w \in Workspaces /\ i \in Indices
      /\ file[w] \in [Indices -> FileType] /\ f \in FileType /\ Ordered(f)
      /\ Alone(s) /\ Own(sess[s], file[w], premig)
  BY <1>1, OpeningKnows
<1>3. CASE f.stamp # w
  BY <1>3, FailKeeps DEF VerifyStamp
<1>4. CASE f.stamp = w
  <2>1. PICK p \in SessionType : p = sess[s]
    BY <1>2
  <2>2. PICK held : held = p.held \cup {i}
    OBVIOUS
  <2>3. /\ Usable(f, i) /\ Version(f) = Target[i]
    <3>1. Usable(f, i) /\ p.from <= Version(f) /\ p.from = Target[i]
      BY <1>1, <1>2, <2>1 DEF Own
    <3> QED
      BY <1>2, <3>1, VersionType DEF Usable, StConstants
  <2>4. /\ held \subseteq Indices
        /\ \A k \in held :
              Usable(file[w][k], k) /\ file[w][k].stamp = w /\ Version(file[w][k]) = Target[k]
    BY <1>2, <1>4, <2>1, <2>2, <2>3 DEF Own, SessionType
  <2>5. i \in 1 .. Last /\ Indices = 1 .. Last /\ Last \in Nat
    BY <1>2 DEF StConstants
  <2>6. 1 .. i \subseteq held
    BY <1>1, <1>2, <2>1, <2>2, <2>5 DEF Own
  <2>7. CASE i < Last
    <3>1. PICK m \in Indices : m = i + 1
      BY <2>5, <2>7
    <3>2. PICK r : r = [p EXCEPT !.pc = "open", !.at = m, !.held = held]
      OBVIOUS
    <3>3. r = [pc |-> "open", ws |-> p.ws, at |-> m, from |-> p.from, held |-> held,
               active |-> p.active, snap |-> p.snap, why |-> p.why]
      BY <3>2 DEF SessionType
    <3>4. r \in SessionType
      BY <2>4, <3>3 DEF SessionType, Opening
    <3>5. sess' = [sess EXCEPT ![s] = r]
      BY <1>4, <2>1, <2>2, <2>7, <3>1, <3>2 DEF VerifyStamp, Set
    <3>6. Own(r, file[r.ws], premig)
      <4>1. /\ r.pc = "open" /\ r.held = held /\ r.ws = w /\ 1 .. r.at - 1 \subseteq r.held
        BY <2>1, <2>5, <2>6, <3>1, <3>3
      <4> QED
        BY <2>4, <4>1 DEF Own, Opened
    <3>7. (r.pc \in {"restore", "copy"} \/ r.why = "verify") => \A o \in Sessions \ {s} : sess[o].ws # r.ws
      BY <1>2, <2>1, <3>3 DEF Alone
    <3> QED
      BY <1>2, <2>1, <3>3, <3>4, <3>5, <3>6, <3>7, QuietKeeps DEF VerifyStamp
  <2>8. CASE ~(i < Last)
    <3>1. PICK x : x = IF p.why = "verify" THEN "ready" ELSE "switch"
      OBVIOUS
    <3>2. PICK r : r = [p EXCEPT !.held = held, !.pc = x]
      OBVIOUS
    <3>3. r = [pc |-> x, ws |-> p.ws, at |-> p.at, from |-> p.from, held |-> held,
               active |-> p.active, snap |-> p.snap, why |-> p.why]
      BY <3>2 DEF SessionType
    <3>4. x \in Opened /\ x \notin Opening /\ x \notin {"restore", "copy"}
      BY <3>1 DEF Opened, Opening
    <3>5. r \in SessionType
      BY <2>4, <3>3, <3>4 DEF SessionType
    <3>6. sess' = [sess EXCEPT ![s] = r]
      BY <1>4, <2>1, <2>2, <2>8, <3>1, <3>2 DEF VerifyStamp, Set
    <3>7. Indices \subseteq held
      BY <2>5, <2>6, <2>8
    <3>8. Own(r, file[r.ws], premig)
      <4>1. /\ r.pc = x /\ r.held = held /\ r.ws = w
        BY <2>1, <3>3
      <4> QED
        BY <2>4, <3>4, <3>7, <4>1 DEF Own, Opening
    <3>9. (r.pc \in {"restore", "copy"} \/ r.why = "verify") => \A o \in Sessions \ {s} : sess[o].ws # r.ws
      BY <1>2, <2>1, <3>3, <3>4 DEF Alone
    <3> QED
      BY <1>2, <2>1, <3>3, <3>5, <3>6, <3>8, <3>9, QuietKeeps DEF VerifyStamp
  <2> QED
    BY <2>7, <2>8
<1> QED
  BY <1>3, <1>4

LEMMA RestoreBeginKeeps ==
    ASSUME StConstants, StInv, NEW s \in Sessions, NEW h \in snaps, RestoreBegin(s, h)
    PROVE  StInv'
<1>1. PICK p \in SessionType : p = sess[s]
  BY DEF StInv, StTypes
<1>2. /\ p.ws \in Workspaces /\ 1 \in Indices /\ h \in [Indices -> FileType]
      /\ \A i \in Indices : Ordered(h[i])
  BY <1>1 DEF RestoreBegin, StInv, Relies, StConstants, StTypes, FilesSound
<1>3. PICK r : r = [p EXCEPT !.pc = "restore", !.at = 1, !.held = {}, !.snap = h]
  OBVIOUS
<1>4. r = [pc |-> "restore", ws |-> p.ws, at |-> 1, from |-> p.from, held |-> {},
           active |-> p.active, snap |-> h, why |-> p.why]
  BY <1>3 DEF SessionType
<1>5. r \in SessionType
  BY <1>2, <1>4 DEF SessionType
<1>6. sess' = [sess EXCEPT ![s] = r]
  BY <1>1, <1>3 DEF RestoreBegin, Set
<1>7. Own(r, file[r.ws], premig)
  BY <1>2, <1>4 DEF Own, Opening, Opened
<1>8. \A o \in Sessions \ {s} : sess[o].ws # r.ws
  BY <1>1, <1>4 DEF RestoreBegin
<1> QED
  BY <1>1, <1>2, <1>4, <1>5, <1>6, <1>7, <1>8, QuietKeeps DEF RestoreBegin

\* What a restoring session writes: a file of the backup, or a part of one.
LEMMA RestoredFile ==
    ASSUME StConstants, StInv, NEW s \in Sessions, sess[s].pc \in {"restore", "copy"},
           NEW g \in FileType, Ordered(g), g.whole => g.born = Version(g),
           file' = [file EXCEPT ![sess[s].ws][sess[s].at] = g],
           UNCHANGED <<premig, snaps>>
    PROVE  /\ file' \in [Workspaces -> [Indices -> FileType]]
           /\ \A w \in Workspaces, i \in Indices :
                 Evolves(file[w][i], file'[w][i], i) \/ w = sess[s].ws
           /\ FilesSound'
<1>1. sess[s].ws \in Workspaces /\ sess[s].at \in Indices
  BY DEF StInv, Relies, StTypes, SessionType
<1>2. /\ file' \in [Workspaces -> [Indices -> FileType]]
      /\ file'[sess[s].ws][sess[s].at] = g
      /\ \A w \in Workspaces, i \in Indices :
            w # sess[s].ws \/ i # sess[s].at => file'[w][i] = file[w][i]
  BY <1>1 DEF StInv, StTypes
<1>3. ASSUME NEW w \in Workspaces, NEW i \in Indices
      PROVE  /\ Ordered(file'[w][i])
             /\ file'[w][i].whole /\ file'[w][i].born \in 1 .. Version(file'[w][i]) - 1 =>
                   CopyOf(w, i, file'[w][i].born) \in premig
  <2>1. CASE w # sess[s].ws \/ i # sess[s].at
    BY <1>2, <2>1 DEF StInv, FilesSound
  <2>2. CASE w = sess[s].ws /\ i = sess[s].at
    BY <1>2, <2>2, VersionType
  <2> QED
    BY <2>1, <2>2
<1>4. FilesSound'
  BY <1>3 DEF StInv, FilesSound, Ordered, Version
<1> QED
  BY <1>2, <1>4 DEF Evolves

\* A session that restores knows its backup.
LEMMA RestoringKnows ==
    ASSUME StInv, NEW s \in Sessions, sess[s].pc \in {"restore", "copy"}
    PROVE  /\ sess[s] \in SessionType /\ sess[s].ws \in Workspaces /\ sess[s].at \in Indices
           /\ sess[s].held = {} /\ sess[s].snap \in [Indices -> FileType]
           /\ sess[s].snap[sess[s].at] \in FileType /\ Ordered(sess[s].snap[sess[s].at])
           /\ \A i \in Indices : Ordered(sess[s].snap[i])
           /\ \A o \in Sessions \ {s} : sess[o].ws # sess[s].ws
<1>1. sess[s] \in SessionType /\ sess[s].at \in Indices
  BY DEF StInv, StTypes, SessionType
<1>2. sess[s].ws \in Workspaces /\ Alone(s) /\ Own(sess[s], file[sess[s].ws], premig)
  BY DEF StInv, Relies
<1> QED
  BY <1>1, <1>2 DEF Alone, Own

\* Whatever it has put into its place, it goes on with the next one, or opens the
\* workspace.
LEMMA RestoreNextKeeps ==
    ASSUME StConstants, StInv, NEW s \in Sessions, sess[s].pc \in {"restore", "copy"},
           NEW g \in FileType, Ordered(g), g.whole => g.born = Version(g),
           \/ file' = file
           \/ file' = [file EXCEPT ![sess[s].ws][sess[s].at] = g],
           UNCHANGED <<premig, snaps>>, RestoreNext(s)
    PROVE  StInv'
<1> DEFINE i == sess[s].at
<1>1. PICK p \in SessionType : p = sess[s]
  BY RestoringKnows
<1>2. /\ p.ws \in Workspaces /\ p.at \in Indices /\ p.held = {}
      /\ p.snap \in [Indices -> FileType] /\ \A k \in Indices : Ordered(p.snap[k])
      /\ \A o \in Sessions \ {s} : sess[o].ws # p.ws
  BY <1>1, RestoringKnows
<1>3. snaps' \subseteq [Indices -> FileType] /\ premig \subseteq premig'
  BY DEF StInv, StTypes
<1>4. /\ file' \in [Workspaces -> [Indices -> FileType]]
      /\ \A v \in Workspaces, k \in Indices :
            Evolves(file[v][k], file'[v][k], k) \/ v = sess[s].ws
      /\ FilesSound'
  <2>1. CASE file' = file
    BY <2>1 DEF StInv, StTypes, FilesSound, Ordered, Version, Evolves
  <2>2. CASE file' = [file EXCEPT ![sess[s].ws][sess[s].at] = g]
    BY <2>2, RestoredFile
  <2> QED
    BY <2>1, <2>2
<1>5. i \in 1 .. Last /\ Indices = 1 .. Last /\ Last \in Nat
  BY <1>1, <1>2 DEF StConstants
<1>6. CASE i < Last
  <2>1. PICK m \in Indices : m = i + 1
    BY <1>5, <1>6
  <2>2. PICK r : r = [p EXCEPT !.pc = "restore", !.at = m]
    OBVIOUS
  <2>3. r = [pc |-> "restore", ws |-> p.ws, at |-> m, from |-> p.from, held |-> p.held,
             active |-> p.active, snap |-> p.snap, why |-> p.why]
    BY <2>2 DEF SessionType
  <2>4. r \in SessionType
    BY <2>3 DEF SessionType
  <2>5. sess' = [sess EXCEPT ![s] = r]
    BY <1>1, <1>6, <2>1, <2>2 DEF RestoreNext, Set
  <2>6. /\ r.pc = "restore" /\ r.ws = p.ws /\ r.held = {} /\ r.snap = p.snap
    BY <1>2, <2>3
  <2>7. Own(r, file'[r.ws], premig')
    BY <1>2, <2>6 DEF Own, Opening, Opened
  <2> QED
    BY <1>1, <1>2, <1>3, <1>4, <2>4, <2>5, <2>6, <2>7, StepKeeps
<1>7. CASE ~(i < Last) /\ \A k \in Indices : ~sess[s].snap[k].there
  <2>1. sess' = [sess EXCEPT ![s] = Closed]
    BY <1>7 DEF RestoreNext, Set
  <2> QED
    BY <1>3, <1>4, <2>1, ClosedType, StepKeeps
<1>8. CASE ~(i < Last) /\ ~(\A k \in Indices : ~sess[s].snap[k].there)
  <2>1. PICK r : r = [p EXCEPT !.pc = "open", !.at = 1, !.why = "verify", !.snap = <<>>]
    OBVIOUS
  <2>2. r = [pc |-> "open", ws |-> p.ws, at |-> 1, from |-> p.from, held |-> p.held,
             active |-> p.active, snap |-> <<>>, why |-> "verify"]
    BY <2>1 DEF SessionType
  <2>3. r \in SessionType
    <3>1. 1 \in Indices
      BY <1>5
    <3> QED
      BY <2>2, <3>1 DEF SessionType, Opening
  <2>4. sess' = [sess EXCEPT ![s] = r]
    BY <1>1, <1>8, <2>1 DEF RestoreNext, Set
  <2>5. /\ r.pc = "open" /\ r.ws = p.ws /\ r.held = {} /\ r.at = 1
    BY <1>2, <2>2
  <2>6. Own(r, file'[r.ws], premig')
    BY <2>5 DEF Own, Opened
  <2>7. r.ws \in Workspaces /\ r.ws = sess[s].ws /\ \A o \in Sessions \ {s} : sess[o].ws # r.ws
    BY <1>1, <1>2, <2>5
  <2> QED
    BY <1>3, <1>4, <2>3, <2>4, <2>6, <2>7, StepKeeps
<1> QED
  BY <1>6, <1>7, <1>8

LEMMA EmptiedType == Emptied \in FileType /\ Ordered(Emptied) /\ Emptied.born = Version(Emptied)
<1>1. Emptied = [there |-> TRUE, whole |-> TRUE, steps |-> <<>>, stamp |-> NoWs,
                 origin |-> NoWs, born |-> 0]
  <2>1. PICK f : f = NoFile
    OBVIOUS
  <2>2. f = [there |-> FALSE, whole |-> TRUE, steps |-> <<>>, stamp |-> NoWs,
             origin |-> NoWs, born |-> 0]
    BY <2>1 DEF NoFile
  <2>3. Emptied = [f EXCEPT !.there = TRUE]
    BY <2>1 DEF Emptied
  <2> QED
    BY <2>2, <2>3
<1> QED
  BY <1>1 DEF FileType, Ordered, Version

\* A file is skipped, refused, or truncated before it is written.
LEMMA RestoreFileKeeps ==
    ASSUME StConstants, StInv, NEW s \in Sessions, NEW force \in BOOLEAN,
           RestoreFile(s, force)
    PROVE  StInv'
<1> DEFINE w == sess[s].ws
           i == sess[s].at
<1>1. sess[s].pc \in {"restore", "copy"} /\ UNCHANGED <<premig, snaps>>
  BY DEF RestoreFile
<1>2. CASE RestoreNext(s) /\ file' = file
  BY <1>1, <1>2, EmptiedType, RestoreNextKeeps
<1>3. CASE Fail(s) /\ file' = file
  BY <1>1, <1>3, FailKeeps
<1>4. CASE /\ file' = [file EXCEPT ![w][i] = Emptied]
           /\ Set(s, [sess[s] EXCEPT !.pc = "copy"])
  <2>1. PICK p \in SessionType : p = sess[s]
    BY <1>1, RestoringKnows
  <2>2. /\ p.ws \in Workspaces /\ p.at \in Indices /\ p.held = {}
        /\ p.snap \in [Indices -> FileType] /\ \A k \in Indices : Ordered(p.snap[k])
        /\ \A o \in Sessions \ {s} : sess[o].ws # p.ws
    BY <1>1, <2>1, RestoringKnows
  <2>3. snaps' \subseteq [Indices -> FileType] /\ premig \subseteq premig'
    BY <1>1 DEF StInv, StTypes
  <2>4. /\ file' \in [Workspaces -> [Indices -> FileType]]
        /\ \A v \in Workspaces, k \in Indices :
              Evolves(file[v][k], file'[v][k], k) \/ v = sess[s].ws
        /\ FilesSound'
    BY <1>1, <1>4, EmptiedType, RestoredFile
  <2>5. PICK r : r = [p EXCEPT !.pc = "copy"]
    OBVIOUS
  <2>6. r = [pc |-> "copy", ws |-> p.ws, at |-> p.at, from |-> p.from, held |-> p.held,
             active |-> p.active, snap |-> p.snap, why |-> p.why]
    BY <2>5 DEF SessionType
  <2>7. r \in SessionType
    BY <2>6 DEF SessionType
  <2>8. sess' = [sess EXCEPT ![s] = r]
    BY <1>4, <2>1, <2>5 DEF Set
  <2>9. /\ r.pc = "copy" /\ r.ws = p.ws /\ r.held = {} /\ r.snap = p.snap
    BY <2>2, <2>6
  <2>10. Own(r, file'[r.ws], premig')
    BY <2>2, <2>9 DEF Own, Opening, Opened
  <2> QED
    BY <1>1, <2>1, <2>2, <2>3, <2>4, <2>7, <2>8, <2>9, <2>10, StepKeeps
<1> QED
  BY <1>2, <1>3, <1>4 DEF RestoreFile

LEMMA RestoreCopyKeeps ==
    ASSUME StConstants, StInv, NEW s \in Sessions, RestoreCopy(s) PROVE StInv'
<1>1. sess[s].pc \in {"restore", "copy"}
  BY DEF RestoreCopy
<1>2. PICK f \in FileType : f = sess[s].snap[sess[s].at] /\ Ordered(f)
  BY <1>1, RestoringKnows
<1>3. PICK n \in Nat : n = Version(f)
  BY VersionType
<1>4. PICK g : g = [f EXCEPT !.born = n]
  OBVIOUS
<1>5. g = [there |-> f.there, whole |-> f.whole, steps |-> f.steps, stamp |-> f.stamp,
           origin |-> f.origin, born |-> n]
  BY <1>4 DEF FileType
<1>6. g \in FileType /\ Version(g) = n /\ g.born = n /\ g.steps = f.steps
  BY <1>3, <1>5 DEF FileType, Version
<1>7. Ordered(g)
  BY <1>2, <1>3, <1>6 DEF Ordered, Version
<1>8. file' = [file EXCEPT ![sess[s].ws][sess[s].at] = g]
  BY <1>2, <1>3, <1>4 DEF RestoreCopy
<1> QED
  BY <1>1, <1>6, <1>7, <1>8, RestoreNextKeeps DEF RestoreCopy

\* A process that dies while it restores leaves a part of a file, or an empty one.
LEMMA CrashKeeps == ASSUME StConstants, StInv, NEW s \in Sessions, Crash(s) PROVE StInv'
<1>1. CASE file' = file
  BY <1>1, FailKeeps DEF Crash
<1>2. CASE /\ sess[s].pc = "copy"
           /\ file' = [file EXCEPT ![sess[s].ws][sess[s].at] =
                          [sess[s].snap[sess[s].at] EXCEPT !.whole = FALSE]]
  <2>1. PICK f \in FileType : f = sess[s].snap[sess[s].at] /\ Ordered(f)
    BY <1>2, RestoringKnows
  <2>2. PICK g : g = [f EXCEPT !.whole = FALSE]
    OBVIOUS
  <2>3. g = [there |-> f.there, whole |-> FALSE, steps |-> f.steps, stamp |-> f.stamp,
             origin |-> f.origin, born |-> f.born]
    BY <2>2 DEF FileType
  <2>4. g \in FileType /\ ~g.whole /\ Ordered(g)
    <3>1. g.steps = f.steps /\ g.born = f.born /\ ~g.whole
      BY <2>3
    <3>2. g \in FileType
      BY <2>3 DEF FileType
    <3> QED
      BY <2>1, <3>1, <3>2 DEF Ordered, Version
  <2>5. file' = [file EXCEPT ![sess[s].ws][sess[s].at] = g]
    BY <1>2, <2>1, <2>2
  <2>6. UNCHANGED <<premig, snaps>> /\ snaps' \subseteq [Indices -> FileType]
    BY DEF Crash, StInv, StTypes
  <2>7. /\ file' \in [Workspaces -> [Indices -> FileType]]
        /\ \A v \in Workspaces, k \in Indices :
              Evolves(file[v][k], file'[v][k], k) \/ v = sess[s].ws
        /\ FilesSound'
    BY <1>2, <2>4, <2>5, <2>6, RestoredFile
  <2>8. sess' = [sess EXCEPT ![s] = Closed]
    BY DEF Crash, Fail, Set
  <2> QED
    BY <1>2, <2>6, <2>7, <2>8, ClosedType, StepKeeps
<1> QED
  BY <1>1, <1>2 DEF Crash

LEMMA StInit_Inv == ASSUME StConstants, StInit PROVE StInv
<1>1. 1 \in Indices
  BY DEF StConstants
<1>2. \A w \in Workspaces \cup Older : OldFile(w) \in FileType /\ Ordered(OldFile(w))
  <2> SUFFICES ASSUME NEW w \in Workspaces \cup Older
               PROVE  OldFile(w) \in FileType /\ Ordered(OldFile(w))
    OBVIOUS
  <2>1. PICK f : f = OldFile(w)
    OBVIOUS
  <2>2. f = [there |-> TRUE, whole |-> TRUE, steps |-> <<1>>, stamp |-> w, origin |-> w,
             born |-> 1]
    BY <2>1 DEF OldFile
  <2>3. f \in FileType
    BY <2>2 DEF FileType
  <2>4. Ordered(f)
    BY <2>2 DEF Ordered, Version
  <2> QED
    BY <2>1, <2>3, <2>4
<1>3. NoFile \in FileType /\ Ordered(NoFile)
  BY DEF NoFile, FileType, Ordered, Version
<1>4. /\ file \in [Workspaces -> [Indices -> FileType]]
      /\ \A w \in Workspaces, i \in Indices :
            file[w][i] = NoFile \/ \E v \in Workspaces : file[w][i] = OldFile(v)
  BY <1>2, <1>3 DEF StInit
<1>5. snaps \subseteq [Indices -> FileType] /\ \A h \in snaps, i \in Indices : Ordered(h[i])
  <2>1. \A w \in Older, kept \in SUBSET Indices :
          /\ OldBackup(w, kept) \in [Indices -> FileType]
          /\ \A i \in Indices : Ordered(OldBackup(w, kept)[i])
    BY <1>2, <1>3 DEF OldBackup
  <2> QED
    BY <2>1 DEF StInit
<1>6. StTypes
  BY <1>4, <1>5, ClosedType DEF StInit, StTypes
<1>7. ASSUME NEW w \in Workspaces, NEW i \in Indices
      PROVE  Ordered(file[w][i]) /\ ~(file[w][i].born \in 1 .. Version(file[w][i]) - 1)
  <2>1. CASE file[w][i] = NoFile
    BY <1>3, <2>1 DEF NoFile, Version
  <2>2. ASSUME NEW v \in Workspaces, file[w][i] = OldFile(v)
        PROVE  Ordered(file[w][i]) /\ ~(file[w][i].born \in 1 .. Version(file[w][i]) - 1)
    BY <1>2, <2>2 DEF OldFile, Version
  <2> QED
    BY <1>4, <2>1, <2>2
<1>8. FilesSound
  BY <1>5, <1>7 DEF FilesSound
<1>9. \A s \in Sessions : Relies(s)
  BY ClosedType DEF StInit, Relies
<1> QED
  BY <1>6, <1>8, <1>9 DEF StInv

LEMMA StStep == ASSUME StConstants, StInv, [StNext]_stvars PROVE StInv'
<1>1. CASE UNCHANGED stvars
  BY <1>1 DEF stvars, StInv, StTypes, FilesSound, Ordered, Version, Relies, Alone
<1>2. ASSUME NEW s \in Sessions, NEW w \in Workspaces, Open(s, w) PROVE StInv'
  BY <1>2, OpenKeeps
<1>3. ASSUME NEW s \in Sessions, OpenDB(s) PROVE StInv'
  BY <1>3, OpenDBKeeps
<1>4. ASSUME NEW s \in Sessions, BackupBeforeMigrating(s) PROVE StInv'
  BY <1>4, CopyKeeps
<1>5. ASSUME NEW s \in Sessions, BackupFails(s) PROVE StInv'
  BY <1>5, FailKeeps DEF BackupFails
<1>6. ASSUME NEW s \in Sessions, Migrate(s) PROVE StInv'
  BY <1>6, MigrateKeeps
<1>7. ASSUME NEW s \in Sessions, VerifyStamp(s) PROVE StInv'
  BY <1>7, VerifyStampKeeps
<1>8. ASSUME NEW s \in Sessions,
             \/ SwitchTo(s) \/ RecordTruncate(s) \/ RecordWrite(s) \/ RecordRename(s)
             \/ SaveSlot(s) \/ Close(s)
      PROVE  StInv'
  BY <1>8, RecordKeeps
<1>9. ASSUME NEW s \in Sessions, Backup(s) PROVE StInv'
  BY <1>9, BackupKeeps
<1>10. ASSUME NEW s \in Sessions, NEW h \in snaps, RestoreBegin(s, h) PROVE StInv'
  BY <1>10, RestoreBeginKeeps
<1>11. ASSUME NEW s \in Sessions, NEW force \in BOOLEAN, RestoreFile(s, force)
       PROVE  StInv'
  BY <1>11, RestoreFileKeeps
<1>14. ASSUME NEW s \in Sessions, RestoreCopy(s) PROVE StInv'
  BY <1>14, RestoreCopyKeeps
<1>12. ASSUME NEW s \in Sessions, Crash(s) PROVE StInv'
  BY <1>12, CrashKeeps
<1>13. CASE StNext
  BY <1>2, <1>3, <1>4, <1>5, <1>6, <1>7, <1>8, <1>9, <1>10, <1>11, <1>12, <1>13,
     <1>14 DEF StNext
<1> QED
  BY <1>1, <1>13

\* Whatever sessions, workspaces and databases there are, and whatever crashes: a
\* database has had each migration up to its version once and in order, one that a
\* migration took over has a copy of that version beside it, and no store is handed
\* out with a database at another version, of another stamp, or with damage that
\* quick_check sees; an empty file a restore left behind is a new database to it.
THEOREM SchemasMoveForward ==
    ASSUME StConstants
    PROVE  StSpec => []SchemasSound
<1>1. StInit => StInv
  BY StInit_Inv
<1>2. StInv /\ [StNext]_stvars => StInv'
  BY StStep
<1>3. StInv => SchemasSound
  <2> SUFFICES ASSUME StInv PROVE SchemasSound
    OBVIOUS
  <2>1. ASSUME NEW w \in Workspaces, NEW i \in Indices
        PROVE  LET f == file[w][i] IN
               /\ f.steps = [k \in 1 .. Version(f) |-> k]
               /\ f.whole /\ f.born \in 1 .. Version(f) - 1 =>
                     [ws |-> w, db |-> i, steps |-> [k \in 1 .. f.born |-> k]] \in premig
    <3>1. PICK f \in FileType : f = file[w][i] /\ Ordered(f)
      BY DEF StInv, StTypes, FilesSound
    <3>2. f.steps = [k \in 1 .. Version(f) |-> k]
      BY <3>1, StepsAre, VersionType DEF Ordered, Version, FileType
    <3>3. f.whole /\ f.born \in 1 .. Version(f) - 1 => CopyOf(w, i, f.born) \in premig
      BY <3>1 DEF StInv, FilesSound
    <3> QED
      BY <3>1, <3>2, <3>3 DEF CopyOf
  <2>2. ASSUME NEW s \in Sessions, sess[s].pc = "ready", NEW i \in Indices
        PROVE  LET f == file[sess[s].ws][i] IN
               i \in sess[s].held /\ f.whole /\ f.stamp = sess[s].ws /\ Version(f) = Target[i]
    <3>1. Own(sess[s], file[sess[s].ws], premig)
      BY <2>2 DEF StInv, Relies
    <3>2. i \in sess[s].held
      BY <2>2, <3>1 DEF Own, Opened
    <3> QED
      BY <3>1, <3>2 DEF Own, Usable
  <2> QED
    BY <2>1, <2>2 DEF SchemasSound
<1> QED
  BY <1>1, <1>2, <1>3, PTL DEF StSpec
=============================================================================
