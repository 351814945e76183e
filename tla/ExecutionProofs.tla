--------------------------- MODULE ExecutionProofs ---------------------------
(***************************************************************************)
(* Theorems about what a task runs on the machine: the local model server, *)
(* of which one managed process at a time is alive and serves the model    *)
(* its provider configured (OneModelAtATime), and the verification of a    *)
(* candidate, which reports whatever it leaves behind (CleanedUpOrReported)*)
(* and accepts only what was checked (AcceptanceIsEarned).                 *)
(***************************************************************************)
EXTENDS Models, Recipes, WellFoundedInduction, FiniteSetTheorems, SequenceTheorems, TLAPS

-----------------------------------------------------------------------------
(* The model server *)

Managed == {"prepare", "start", "launch", "wait", "send", "sent", "leave", "close"}
Ports == 0 .. MaxLoads + 1

Keys == {Key[p] : p \in Providers} \cup {NoOne}

\* The types of the variables.
SlotType == [gate : Calls \cup {NoOne}, owner : Providers \cup {NoOne}, cmd : 0 .. MaxLoads]
ProcType == [state : {"none", "loading", "up", "dead", "killed"}, key : Keys]
CallType == [pc : Managed \cup {"idle", "extchat"}, p : Providers \cup {NoOne}, served : Ports]

MoTypes ==
    /\ slot \in SlotType
    /\ procs \in [Loads -> ProcType]
    /\ port \in Ports
    /\ call \in [Calls -> CallType]
    /\ ext \in [gate : Calls \cup {NoOne}, inflight : SUBSET Calls]

\* The gates: a call is past acquire exactly while it holds the slot's gate, and a
\* chat of the external endpoint is in flight exactly while it holds that one's.
Turns ==
    /\ \A c \in Calls : call[c].pc \in Managed <=> slot.gate = c
    /\ \A c \in Calls : call[c].pc \in Managed => call[c].p \in Providers
    /\ \A c \in Calls : call[c].pc = "extchat" <=> ext.gate = c
    /\ \A c \in ext.inflight : ext.gate = c

\* The slot: it has an owner exactly when it has a process, which the owner's
\* configuration started and nobody killed; only that process may be alive, and
\* only a process that is up listens on the port.
SlotHolds ==
    /\ slot.cmd = 0 <=> slot.owner = NoOne
    /\ slot.cmd # 0 => /\ procs[slot.cmd].key = Key[slot.owner]
                       /\ procs[slot.cmd].state \notin {"none", "killed"}
    /\ \A n \in Loads : Alive(n) => slot.cmd = n
    /\ port \in Loads => procs[port].state = "up"

\* What the holder of the gate knows at each point of prepare and of its request.
Progress ==
    \A c \in Calls :
        /\ call[c].pc \in {"start", "launch"} => slot.cmd = 0
        /\ call[c].pc \in {"wait", "send"} =>
              slot.owner # NoOne /\ Key[slot.owner] = Key[call[c].p]
        /\ call[c].pc = "sent" /\ call[c].served \in Loads =>
              /\ slot.cmd = call[c].served
              /\ Key[slot.owner] = Key[call[c].p]

MoInv == MoTypes /\ Turns /\ SlotHolds /\ Progress

\* What is assumed of the constants.
MoConstants == MaxLoads \in Nat /\ NoOne \notin Calls /\ NoOne \notin Providers

-----------------------------------------------------------------------------
\* What the primitive updates of a call and of the slot make of them.
LEMMA ToMakes ==
    ASSUME MoTypes, NEW c \in Calls, NEW x \in Managed \cup {"idle", "extchat"}, To(c, x)
    PROVE  /\ call' \in [Calls -> CallType]
           /\ call'[c] = [pc |-> x, p |-> call[c].p, served |-> call[c].served]
           /\ \A d \in Calls : d # c => call'[d] = call[d]
<1>1. call \in [Calls -> CallType] /\ call' = [call EXCEPT ![c].pc = x]
  BY DEF MoTypes, To
<1>2. call'[c] = [pc |-> x, p |-> call[c].p, served |-> call[c].served]
  BY <1>1 DEF CallType
<1>3. call'[c] \in CallType
  BY <1>1, <1>2 DEF CallType
<1> QED
  BY <1>1, <1>2, <1>3

LEMMA SlotBuilt ==
    ASSUME NEW g \in Calls \cup {NoOne}, NEW o \in Providers \cup {NoOne}, NEW k \in 0 .. MaxLoads
    PROVE  [gate |-> g, owner |-> o, cmd |-> k] \in SlotType
  BY DEF SlotType

LEMMA SlotOwned ==
    ASSUME slot \in SlotType, NEW o, NEW k, slot' = [slot EXCEPT !.owner = o, !.cmd = k]
    PROVE  slot' = [gate |-> slot.gate, owner |-> o, cmd |-> k]
  BY DEF SlotType

LEMMA SlotPassed ==
    ASSUME slot \in SlotType, NEW g, slot' = [slot EXCEPT !.gate = g]
    PROVE  slot' = [gate |-> g, owner |-> slot.owner, cmd |-> slot.cmd]
  BY DEF SlotType

LEMMA SlotEmptied ==
    ASSUME slot \in SlotType, NEW g, NEW o, NEW k,
           slot' = [slot EXCEPT !.gate = g, !.owner = o, !.cmd = k]
    PROVE  slot' = [gate |-> g, owner |-> o, cmd |-> k]
  BY DEF SlotType

LEMMA ReleaseMakes ==
    ASSUME MoConstants, MoTypes, NEW c \in Calls, Release(c)
    PROVE  /\ call' \in [Calls -> CallType] /\ call'[c] = NoCall
           /\ \A d \in Calls : d # c => call'[d] = call[d]
           /\ slot' = [gate |-> NoOne, owner |-> slot.owner, cmd |-> slot.cmd]
           /\ slot' \in SlotType
<1>1. slot.owner \in Providers \cup {NoOne} /\ slot.cmd \in 0 .. MaxLoads
  BY DEF MoTypes, SlotType
<1>2. slot' = [gate |-> NoOne, owner |-> slot.owner, cmd |-> slot.cmd] /\ slot' \in SlotType
  BY <1>1, SlotPassed, SlotBuilt DEF Release, MoTypes
<1>3. NoCall \in CallType
  BY DEF NoCall, CallType, Ports, Free, MoConstants
<1> QED
  BY <1>2, <1>3 DEF Release, MoTypes

\* The holder of a gate is alone behind it, and a live process is the slot's.
LEMMA HolderAlone ==
    ASSUME MoConstants, MoInv, NEW c \in Calls, call[c].pc \in Managed
    PROVE  /\ slot.gate = c
           /\ call[c].p \in Providers
           /\ \A d \in Calls : d # c => call[d].pc \in {"idle", "extchat"}
<1>1. \A d \in Calls : call[d].pc \in Managed \cup {"idle", "extchat"}
  BY DEF MoInv, MoTypes, CallType
<1> QED
  BY <1>1 DEF MoInv, Turns

\* processSlot.stop leaves the slot as it should be, whether the process goes or
\* not; what it frees, it frees whole.
LEMMA StopKeeps ==
    ASSUME MoConstants, MoTypes, SlotHolds, NEW c \in Calls, NEW ok \in BOOLEAN, Stop(c, ok)
    PROVE  /\ slot' \in SlotType
           /\ procs' \in [Loads -> ProcType]
           /\ port' \in Ports
           /\ SlotHolds'
           /\ slot'.gate = slot.gate
           /\ ok => slot'.cmd = 0
<1> USE DEF MoConstants, MoTypes, Free
<1>1. CASE slot.cmd = 0
  BY <1>1 DEF Stop, SlotHolds, Alive
<1>2. CASE slot.cmd # 0 /\ (ok \/ ~Alive(slot.cmd))
  <2>1. slot.cmd \in Loads
    BY <1>2 DEF SlotType, Loads
  <2>2. /\ ok
        /\ slot' = [slot EXCEPT !.owner = NoOne, !.cmd = 0]
        /\ procs' = [procs EXCEPT ![slot.cmd].state =
                       IF Alive(slot.cmd) THEN "killed" ELSE procs[slot.cmd].state]
        /\ port' = IF port = slot.cmd THEN Free ELSE port
    BY <1>2 DEF Stop, Freed
  <2>3. /\ slot'.owner = NoOne /\ slot'.cmd = 0 /\ slot'.gate = slot.gate
        /\ slot' \in SlotType
    <3>1. slot' = [gate |-> slot.gate, owner |-> NoOne, cmd |-> 0]
      BY <2>2, SlotOwned
    <3> QED
      BY <3>1, SlotBuilt DEF SlotType
  <2>4. /\ procs' \in [Loads -> ProcType]
        /\ procs'[slot.cmd].state = IF Alive(slot.cmd) THEN "killed" ELSE procs[slot.cmd].state
        /\ \A n \in Loads : n # slot.cmd => procs'[n] = procs[n]
    BY <2>1, <2>2 DEF ProcType
  <2>5. ASSUME NEW n \in Loads PROVE ~Alive(n)'
    BY <2>1, <2>4 DEF SlotHolds, Alive
  <2>6. port' \in Loads => procs'[port'].state = "up"
    BY <2>1, <2>2, <2>4 DEF SlotHolds, Loads
  <2>7. port' \in Ports
    BY <2>2 DEF Ports
  <2> QED
    BY <2>2, <2>3, <2>4, <2>5, <2>6, <2>7 DEF SlotHolds
<1>3. CASE slot.cmd # 0 /\ ~ok /\ Alive(slot.cmd)
  BY <1>3 DEF Stop, SlotHolds, Alive
<1> QED
  BY <1>1, <1>2, <1>3

\* The holder of the gate goes on with its call,
LEMMA HolderMoves ==
    ASSUME MoConstants, MoInv, NEW c \in Calls, call[c].pc \in Managed,
           NEW x \in Managed \ {"sent"}, To(c, x),
           slot' \in SlotType, slot'.gate = slot.gate, ext' = ext,
           procs' \in [Loads -> ProcType], port' \in Ports, SlotHolds',
           x \in {"start", "launch"} => slot'.cmd = 0,
           x \in {"wait", "send"} => slot'.owner # NoOne /\ Key[slot'.owner] = Key[call[c].p]
    PROVE  MoInv'
<1>1. /\ call' \in [Calls -> CallType]
      /\ call'[c] = [pc |-> x, p |-> call[c].p, served |-> call[c].served]
      /\ \A d \in Calls : d # c => call'[d] = call[d]
  BY ToMakes DEF MoInv
<1>2. /\ slot.gate = c /\ call[c].p \in Providers
      /\ \A d \in Calls : d # c => call[d].pc \in {"idle", "extchat"}
  BY HolderAlone
<1>3. MoTypes'
  BY <1>1 DEF MoInv, MoTypes
<1>4. call'[c].pc = x /\ call'[c].p = call[c].p
  BY <1>1
<1>5. Turns'
  <2>1. ASSUME NEW d \in Calls
        PROVE  /\ call'[d].pc \in Managed <=> slot'.gate = d
               /\ call'[d].pc \in Managed => call'[d].p \in Providers
               /\ call'[d].pc = "extchat" <=> ext'.gate = d
    <3>1. CASE d = c
      BY <1>2, <1>4, <3>1 DEF MoInv, Turns, Managed
    <3>2. CASE d # c
      BY <1>1, <1>2, <3>2 DEF MoInv, Turns
    <3> QED
      BY <3>1, <3>2
  <2> QED
    BY <2>1 DEF MoInv, Turns
<1>6. Progress'
  <2>1. ASSUME NEW d \in Calls, d # c PROVE call'[d].pc \in {"idle", "extchat"}
    BY <1>1, <1>2, <2>1
  <2> QED
    BY <1>4, <2>1 DEF Progress
<1> QED
  BY <1>3, <1>5, <1>6 DEF MoInv

\* and gives it back.
LEMMA HolderLeaves ==
    ASSUME MoConstants, MoInv, NEW c \in Calls, call[c].pc \in Managed,
           call' = [call EXCEPT ![c] = NoCall], slot' \in SlotType, slot'.gate = NoOne,
           procs' = procs, port' = port, ext' = ext, SlotHolds'
    PROVE  MoInv'
<1>1. NoCall \in CallType /\ NoCall.pc = "idle"
  BY DEF NoCall, CallType, Ports, Free, MoConstants
<1>2. /\ call' \in [Calls -> CallType] /\ call'[c].pc = "idle"
      /\ \A d \in Calls : d # c => call'[d] = call[d]
  BY <1>1 DEF MoInv, MoTypes
<1>3. /\ slot.gate = c
      /\ \A d \in Calls : d # c => call[d].pc \in {"idle", "extchat"}
  BY HolderAlone
<1>4. MoTypes'
  BY <1>2 DEF MoInv, MoTypes
<1>5. Turns'
  <2>1. ASSUME NEW d \in Calls
        PROVE  /\ call'[d].pc \notin Managed /\ slot'.gate # d
               /\ call'[d].pc = "extchat" <=> ext'.gate = d
    <3>1. CASE d = c
      BY <1>2, <3>1 DEF MoInv, Turns, Managed, MoConstants
    <3>2. CASE d # c
      BY <1>2, <1>3, <3>2 DEF MoInv, Turns, Managed, MoConstants
    <3> QED
      BY <3>1, <3>2
  <2> QED
    BY <2>1 DEF MoInv, Turns
<1>6. Progress'
  <2>1. ASSUME NEW d \in Calls PROVE call'[d].pc \in {"idle", "extchat"}
    BY <1>2, <1>3
  <2> QED
    BY <2>1 DEF Progress
<1> QED
  BY <1>4, <1>5, <1>6 DEF MoInv

\* A call of a managed provider goes on or ends.
LEMMA ManagedKeeps ==
    ASSUME MoConstants, MoInv, NEW c \in Calls,
           \/ Reuse(c) \/ Unload(c) \/ UnloadFails(c) \/ Probe(c) \/ ProbeFails(c) \/ Launch(c)
           \/ ExitsInStartup(c) \/ Healthy(c) \/ Leave(c)
           \/ \E ok \in BOOLEAN : StartupTimeout(c, ok) \/ CloseProvider(c, ok)
    PROVE  MoInv'
<1> USE DEF MoInv, Managed
<1>t. /\ slot \in SlotType /\ slot.cmd \in 0 .. MaxLoads
      /\ slot.gate \in Calls \cup {NoOne} /\ slot.owner \in Providers \cup {NoOne}
  BY DEF MoTypes, SlotType
<1>1. CASE Reuse(c)
  <2>1. CASE Alive(slot.cmd)
    <3>1. /\ To(c, "send") /\ UNCHANGED <<slot, procs, port, ext>>
          /\ slot.owner # NoOne /\ Key[slot.owner] = Key[call[c].p]
          /\ call[c].pc = "prepare"
      BY <1>1, <2>1 DEF Reuse
    <3>2. SlotHolds'
      BY <3>1 DEF SlotHolds, Alive
    <3> QED
      BY <3>1, <3>2, HolderMoves DEF MoTypes
  <2>2. CASE ~Alive(slot.cmd)
    <3>1. /\ To(c, "start") /\ slot' = [slot EXCEPT !.owner = NoOne, !.cmd = 0]
          /\ UNCHANGED <<procs, port, ext>> /\ call[c].pc = "prepare"
      BY <1>1, <2>2 DEF Reuse
    <3>2. slot' = [gate |-> slot.gate, owner |-> NoOne, cmd |-> 0]
      BY <1>t, <3>1, SlotOwned
    <3>3. slot' \in SlotType
      BY <1>t, <3>2, SlotBuilt DEF MoConstants
    <3>4. SlotHolds'
      BY <2>2, <3>1, <3>2 DEF SlotHolds, Alive, MoConstants
    <3> QED
      BY <3>1, <3>2, <3>3, <3>4, HolderMoves DEF MoTypes
  <2> QED
    BY <2>1, <2>2
<1>2. CASE Unload(c)
  <2>1. call[c].pc = "prepare" /\ Stop(c, TRUE) /\ To(c, "start") /\ ext' = ext
    BY <1>2 DEF Unload
  <2> QED
    BY <2>1, StopKeeps, HolderMoves
<1>3. CASE UnloadFails(c) \/ ProbeFails(c) \/ Leave(c)
  <2>1. /\ call[c].pc \in Managed /\ Release(c) /\ UNCHANGED <<procs, port, ext>>
    BY <1>3 DEF UnloadFails, ProbeFails, Leave
  <2>2. slot' = [gate |-> NoOne, owner |-> slot.owner, cmd |-> slot.cmd] /\ slot' \in SlotType
    BY <2>1, ReleaseMakes
  <2>3. SlotHolds'
    BY <2>1, <2>2 DEF SlotHolds, Alive
  <2> QED
    BY <2>1, <2>2, <2>3, HolderLeaves DEF Release
<1>4. CASE Probe(c)
  <2>1. call[c].pc = "start" /\ To(c, "launch") /\ UNCHANGED <<slot, procs, port, ext>>
    BY <1>4 DEF Probe
  <2>2. SlotHolds' /\ slot'.cmd = 0
    BY <2>1 DEF SlotHolds, Alive, Progress
  <2> QED
    BY <2>1, <2>2, HolderMoves DEF MoTypes
<1>5. CASE Launch(c)
  <2> DEFINE n == Cardinality({k \in Loads : procs[k].state # "none"}) + 1
             made == [state |-> "loading", key |-> Key[call[c].p]]
  <2>1. /\ call[c].pc = "launch" /\ n <= MaxLoads /\ To(c, "wait") /\ port' = port /\ ext' = ext
        /\ procs' = [procs EXCEPT ![n] = made]
        /\ slot' = [slot EXCEPT !.owner = call[c].p, !.cmd = n]
    BY <1>5 DEF Launch
  <2>2. n \in Loads
    <3>1. IsFiniteSet(Loads)
      BY FS_Interval DEF Loads, MoConstants
    <3>2. IsFiniteSet({k \in Loads : procs[k].state # "none"})
      BY <3>1, FS_Subset
    <3>3. n \in Nat \ {0}
      BY <3>2, FS_CardinalityType
    <3> QED
      BY <2>1, <3>3 DEF Loads, MoConstants
  <2> HIDE DEF n
  <2>3. call[c].p \in Providers
    BY <2>1, HolderAlone
  <2>4. slot' = [gate |-> slot.gate, owner |-> call[c].p, cmd |-> n]
    BY <1>t, <2>1, SlotOwned
  <2>5. slot' \in SlotType
    BY <1>t, <2>2, <2>3, <2>4, SlotBuilt DEF Loads, MoConstants
  <2>6. made \in ProcType
    BY <2>3 DEF ProcType, Keys
  <2>7. /\ procs' \in [Loads -> ProcType] /\ procs'[n] = made
        /\ \A k \in Loads : k # n => procs'[k] = procs[k]
    BY <2>1, <2>2, <2>6 DEF MoTypes
  <2>8. \A k \in Loads : ~Alive(k)
    BY <2>1 DEF Progress, SlotHolds, Loads
  <2>9. port \notin Loads
    BY <2>8 DEF SlotHolds, Alive
  <2>10. SlotHolds'
    <3>1. slot'.cmd = n /\ slot'.owner = call[c].p /\ n # 0
      BY <2>2, <2>4 DEF Loads
    <3>2. procs'[n].state = "loading" /\ procs'[n].key = Key[call[c].p]
      BY <2>7
    <3>3. ASSUME NEW k \in Loads, Alive(k)' PROVE slot'.cmd = k
      BY <2>7, <2>8, <3>1, <3>3 DEF Alive
    <3> QED
      BY <2>1, <2>3, <2>9, <3>1, <3>2, <3>3 DEF SlotHolds, MoConstants
  <2>11. slot'.gate = slot.gate /\ slot'.owner = call[c].p
    BY <2>4
  <2> QED
    BY <2>1, <2>3, <2>5, <2>7, <2>10, <2>11, HolderMoves DEF MoTypes, MoConstants
<1>6. CASE ExitsInStartup(c)
  <2>1. /\ call[c].pc = "wait" /\ ~Alive(slot.cmd) /\ UNCHANGED <<procs, port, ext>>
        /\ call' = [call EXCEPT ![c] = NoCall]
        /\ slot' = [slot EXCEPT !.gate = NoOne, !.owner = NoOne, !.cmd = 0]
    BY <1>6 DEF ExitsInStartup
  <2>2. slot' = [gate |-> NoOne, owner |-> NoOne, cmd |-> 0]
    BY <1>t, <2>1, SlotEmptied
  <2>3. slot' \in SlotType
    BY <2>2, SlotBuilt DEF MoConstants
  <2>4. SlotHolds'
    BY <2>1, <2>2 DEF SlotHolds, Alive
  <2> QED
    BY <2>1, <2>2, <2>3, <2>4, HolderLeaves
<1>7. CASE Healthy(c)
  <2>1. call[c].pc = "wait" /\ To(c, "send") /\ UNCHANGED <<slot, procs, port, ext>>
    BY <1>7 DEF Healthy
  <2>2. SlotHolds' /\ slot'.owner # NoOne /\ Key[slot'.owner] = Key[call[c].p]
    BY <2>1 DEF SlotHolds, Alive, Progress
  <2> QED
    BY <2>1, <2>2, HolderMoves DEF MoTypes
<1>8. ASSUME NEW ok \in BOOLEAN, StartupTimeout(c, ok) PROVE MoInv'
  <2>1. call[c].pc = "wait" /\ Stop(c, ok) /\ To(c, "leave") /\ ext' = ext
    BY <1>8 DEF StartupTimeout
  <2> QED
    BY <2>1, StopKeeps, HolderMoves
<1>9. ASSUME NEW ok \in BOOLEAN, CloseProvider(c, ok) PROVE MoInv'
  <2>1. call[c].pc = "close" /\ To(c, "leave") /\ ext' = ext
    BY <1>9 DEF CloseProvider
  <2>2. CASE slot.owner = call[c].p
    <3>1. Stop(c, ok)
      BY <1>9, <2>2 DEF CloseProvider
    <3> QED
      BY <2>1, <3>1, StopKeeps, HolderMoves
  <2>3. CASE slot.owner # call[c].p
    <3>1. UNCHANGED <<slot, procs, port>>
      BY <1>9, <2>3 DEF CloseProvider
    <3>2. SlotHolds'
      BY <3>1 DEF SlotHolds, Alive
    <3> QED
      BY <2>1, <3>1, <3>2, HolderMoves DEF MoTypes
  <2> QED
    BY <2>2, <2>3
<1> QED
  BY <1>1, <1>2, <1>3, <1>4, <1>5, <1>6, <1>7, <1>8, <1>9

\* A call takes the gate; its request is sent to whoever listens.
LEMMA AcquireKeeps ==
    ASSUME MoConstants, MoInv, NEW c \in Calls, NEW p \in Providers,
           NEW place \in {"prepare", "close"}, Acquire(c, p, place)
    PROVE  MoInv'
<1> DEFINE taken == [pc |-> place, p |-> p, served |-> Free]
<1>1. /\ call[c].pc = "idle" /\ slot.gate = NoOne /\ UNCHANGED <<procs, port, ext>>
      /\ slot' = [slot EXCEPT !.gate = c]
      /\ call' = [call EXCEPT ![c] = [NoCall EXCEPT !.pc = place, !.p = p]]
  BY DEF Acquire
<1>2. ASSUME NEW r, r = [NoCall EXCEPT !.pc = place, !.p = p] PROVE r = taken
  <2>1. NoCall \in CallType /\ NoCall.served = Free
    BY DEF NoCall, CallType, Ports, Free, MoConstants
  <2> QED
    BY <1>2, <2>1 DEF CallType
<1>3. call' = [call EXCEPT ![c] = taken]
  BY <1>1, <1>2
<1>4. taken \in CallType
  BY DEF CallType, Managed, Ports, Free, MoConstants
<1>5. /\ call' \in [Calls -> CallType] /\ call'[c] = taken
      /\ \A d \in Calls : d # c => call'[d] = call[d]
  BY <1>3, <1>4 DEF MoInv, MoTypes
<1>6. slot' = [gate |-> c, owner |-> slot.owner, cmd |-> slot.cmd] /\ slot \in SlotType
  BY <1>1, SlotPassed DEF MoInv, MoTypes
<1>7. slot' \in SlotType
  BY <1>6, SlotBuilt DEF SlotType
<1>8. call'[c].pc = place /\ call'[c].p = p
  BY <1>5
<1>9. \A d \in Calls : call[d].pc \in {"idle", "extchat"}
  <2>1. \A d \in Calls : call[d].pc \in Managed \cup {"idle", "extchat"}
    BY DEF MoInv, MoTypes, CallType
  <2> QED
    BY <1>1, <2>1 DEF MoInv, Turns, MoConstants
<1>10. MoTypes'
  BY <1>1, <1>5, <1>7 DEF MoInv, MoTypes
<1>11. Turns'
  <2>1. slot'.gate = c
    BY <1>6
  <2>2. ASSUME NEW d \in Calls
        PROVE  /\ call'[d].pc \in Managed <=> slot'.gate = d
               /\ call'[d].pc \in Managed => call'[d].p \in Providers
               /\ call'[d].pc = "extchat" <=> ext'.gate = d
    BY <1>1, <1>5, <1>8, <1>9, <2>1 DEF MoInv, Turns, Managed
  <2> QED
    BY <1>1, <2>2 DEF MoInv, Turns
<1>12. SlotHolds'
  BY <1>1, <1>6 DEF MoInv, SlotHolds, Alive
<1>13. Progress'
  <2>1. \A d \in Calls : call'[d].pc \in {"idle", "extchat", "prepare", "close"}
    BY <1>5, <1>8, <1>9
  <2> QED
    BY <2>1 DEF Progress
<1> QED
  BY <1>10, <1>11, <1>12, <1>13 DEF MoInv

LEMMA SendKeeps == ASSUME MoConstants, MoInv, NEW c \in Calls, Send(c) PROVE MoInv'
<1> DEFINE x == IF port = Free THEN "leave" ELSE "sent"
           made == [pc |-> x, p |-> call[c].p, served |-> port]
<1>1. /\ call[c].pc = "send" /\ UNCHANGED <<slot, procs, port, ext>>
      /\ call' = [call EXCEPT ![c].pc = x, ![c].served = port]
      /\ call \in [Calls -> CallType] /\ port \in Ports
  BY DEF Send, MoInv, MoTypes
<1>2. /\ slot.gate = c /\ call[c].p \in Providers
      /\ \A d \in Calls : d # c => call[d].pc \in {"idle", "extchat"}
  BY <1>1, HolderAlone DEF Managed
<1> HIDE DEF x
<1>3. /\ call'[c] = made
      /\ \A d \in Calls : d # c => call'[d] = call[d]
      /\ DOMAIN call' = Calls
  BY <1>1 DEF CallType
<1>4. x \in {"leave", "sent"}
  BY DEF x
<1>5. made \in CallType
  BY <1>1, <1>2, <1>4 DEF CallType, Managed
<1>6. call' \in [Calls -> CallType]
  BY <1>1, <1>3, <1>5
<1>7. call'[c].pc = x /\ call'[c].p = call[c].p /\ call'[c].served = port
  BY <1>3
<1>8. MoTypes'
  BY <1>1, <1>6 DEF MoInv, MoTypes
<1>9. Turns'
  <2>1. ASSUME NEW d \in Calls
        PROVE  /\ call'[d].pc \in Managed <=> slot'.gate = d
               /\ call'[d].pc \in Managed => call'[d].p \in Providers
               /\ call'[d].pc = "extchat" <=> ext'.gate = d
    BY <1>1, <1>2, <1>3, <1>4, <1>7 DEF MoInv, Turns, Managed
  <2> QED
    BY <1>1, <2>1 DEF MoInv, Turns
<1>10. SlotHolds'
  BY <1>1 DEF MoInv, SlotHolds, Alive
<1>11. port \in Loads => slot.cmd = port /\ Key[slot.owner] = Key[call[c].p]
  BY <1>1 DEF MoInv, SlotHolds, Progress, Alive
<1>12. Progress'
  <2>1. ASSUME NEW d \in Calls, d # c PROVE call'[d].pc \in {"idle", "extchat"}
    BY <1>2, <1>3, <2>1
  <2> QED
    BY <1>1, <1>4, <1>7, <1>11, <2>1 DEF Progress
<1> QED
  BY <1>8, <1>9, <1>10, <1>12 DEF MoInv

\* The chats of an external endpoint.
LEMMA ExternalKeeps ==
    ASSUME MoConstants, MoInv, NEW c \in Calls, ExtChat(c) \/ ExtReturn(c)
    PROVE  MoInv'
<1> DEFINE x == IF ExtChat(c) THEN "extchat" ELSE "idle"
<1>1. /\ call[c].pc \in {"idle", "extchat"} /\ To(c, x) /\ UNCHANGED <<slot, procs, port>>
      /\ x \in {"idle", "extchat"}
  BY DEF ExtChat, ExtReturn
<1>2. /\ call' \in [Calls -> CallType]
      /\ call'[c] = [pc |-> x, p |-> call[c].p, served |-> call[c].served]
      /\ \A d \in Calls : d # c => call'[d] = call[d]
  BY <1>1, ToMakes DEF MoInv
<1>3. call'[c].pc = x
  BY <1>2
<1>4. /\ ext \in [gate : Calls \cup {NoOne}, inflight : SUBSET Calls]
      /\ \A d \in Calls : call[d].pc = "extchat" <=> ext.gate = d
      /\ \A d \in ext.inflight : ext.gate = d
  BY DEF MoInv, MoTypes, Turns
<1>5. /\ ext' \in [gate : Calls \cup {NoOne}, inflight : SUBSET Calls]
      /\ \A d \in Calls : call'[d].pc = "extchat" <=> ext'.gate = d
      /\ \A d \in ext'.inflight : ext'.gate = d
  <2>1. CASE ExtChat(c)
    <3>1. ext' = [gate |-> c, inflight |-> ext.inflight \cup {c}] /\ ext.gate = NoOne
      BY <2>1 DEF ExtChat
    <3> QED
      BY <1>2, <1>3, <1>4, <2>1, <3>1 DEF MoConstants
  <2>2. CASE ExtReturn(c)
    <3>1. /\ ext' = [gate |-> NoOne, inflight |-> ext.inflight \ {c}]
          /\ call[c].pc = "extchat" /\ ~ExtChat(c)
      BY <2>2 DEF ExtReturn, ExtChat
    <3>2. ext.gate = c /\ ext'.inflight = {}
      BY <1>4, <3>1
    <3>3. \A d \in Calls : call'[d].pc # "extchat"
      BY <1>2, <1>3, <1>4, <3>1, <3>2
    <3> QED
      BY <3>1, <3>2, <3>3 DEF MoConstants
  <2> QED
    BY <2>1, <2>2
<1>6. MoTypes'
  BY <1>1, <1>2, <1>5 DEF MoInv, MoTypes
<1>7. Turns'
  <2>1. ASSUME NEW d \in Calls
        PROVE  /\ call'[d].pc \in Managed <=> slot'.gate = d
               /\ call'[d].pc \in Managed => call'[d].p \in Providers
    BY <1>1, <1>2, <1>3 DEF MoInv, Turns, Managed
  <2> QED
    BY <1>5, <2>1 DEF Turns
<1>8. SlotHolds'
  BY <1>1 DEF MoInv, SlotHolds, Alive
<1>9. Progress'
  BY <1>1, <1>2, <1>3 DEF MoInv, Progress
<1> QED
  BY <1>6, <1>7, <1>8, <1>9 DEF MoInv

\* A server that comes up or dies, and another program on its port.
LEMMA ServerKeeps ==
    ASSUME MoConstants, MoInv, Foreign \/ \E n \in Loads : Serves(n) \/ Dies(n)
    PROVE  MoInv'
<1>1. UNCHANGED <<slot, call, ext>>
  BY DEF Foreign, Serves, Dies
<1>2. procs \in [Loads -> ProcType] /\ port \in Ports
  BY DEF MoInv, MoTypes
<1>3. procs' \in [Loads -> ProcType] /\ port' \in Ports /\ SlotHolds'
  <2>1. CASE Foreign
    <3>1. procs' = procs /\ port' \in {Free, Other}
      BY <2>1 DEF Foreign
    <3>2. port' \in Ports /\ port' \notin Loads
      BY <3>1 DEF Free, Other, Ports, Loads, MoConstants
    <3> QED
      BY <1>1, <1>2, <3>1, <3>2 DEF MoInv, SlotHolds, Alive
  <2>2. ASSUME NEW n \in Loads, Serves(n) \/ Dies(n)
        PROVE  procs' \in [Loads -> ProcType] /\ port' \in Ports /\ SlotHolds'
    <3> DEFINE x == IF Serves(n) /\ port = Free THEN "up" ELSE "dead"
    <3>1. procs' = [procs EXCEPT ![n].state = x] /\ x \in {"up", "dead"} /\ Alive(n)
      BY <2>2 DEF Serves, Dies, Alive
    <3>2. /\ port' = (IF x = "up" THEN n ELSE IF port = n THEN Free ELSE port)
          /\ Serves(n) => port # n
      BY <2>2 DEF Serves, Dies, Freed, Alive, MoInv, SlotHolds
    <3> HIDE DEF x
    <3>3. /\ procs' \in [Loads -> ProcType]
          /\ procs'[n].state = x /\ procs'[n].key = procs[n].key
          /\ \A k \in Loads : k # n => procs'[k] = procs[k]
      BY <1>2, <3>1 DEF ProcType
    <3>4. port' \in Ports
      BY <1>2, <3>2 DEF Ports, Loads, Free, MoConstants
    <3>5. slot.cmd = n
      BY <3>1 DEF MoInv, SlotHolds
    <3>6. \A k \in Loads : Alive(k)' => slot'.cmd = k
      BY <1>1, <3>3, <3>5 DEF MoInv, SlotHolds, Alive
    <3>7. port' \in Loads => procs'[port'].state = "up"
      BY <3>1, <3>2, <3>3 DEF MoInv, SlotHolds, Loads, Free
    <3> QED
      BY <1>1, <3>1, <3>3, <3>4, <3>5, <3>6, <3>7 DEF MoInv, SlotHolds
  <2> QED
    BY <2>1, <2>2
<1>4. MoTypes' /\ Turns' /\ Progress'
  BY <1>1, <1>3 DEF MoInv, MoTypes, Turns, Progress
<1> QED
  BY <1>3, <1>4 DEF MoInv

LEMMA MoStarts == ASSUME MoConstants, MoInit PROVE MoInv
<1>1. /\ slot.gate = NoOne /\ slot.owner = NoOne /\ slot.cmd = 0
      /\ \A n \in Loads : procs[n].state = "none"
      /\ \A c \in Calls : call[c].pc = "idle"
      /\ ext.gate = NoOne /\ ext.inflight = {} /\ port \notin Loads
  BY DEF MoInit, NoCall, Free, Other, Loads, MoConstants
<1>2. MoTypes
  <2>1. slot \in SlotType
    BY SlotBuilt DEF MoInit, MoConstants
  <2>2. [state |-> "none", key |-> NoOne] \in ProcType
    BY DEF ProcType, Keys
  <2>3. NoCall \in CallType
    BY DEF NoCall, CallType, Ports, Free, MoConstants
  <2>4. port \in Ports
    BY DEF MoInit, Ports, Free, Other, MoConstants
  <2> QED
    BY <2>1, <2>2, <2>3, <2>4 DEF MoTypes, MoInit
<1>3. Turns /\ SlotHolds /\ Progress
  BY <1>1 DEF Turns, SlotHolds, Progress, Alive, Managed, MoConstants
<1> QED
  BY <1>2, <1>3 DEF MoInv

\* Every step keeps the invariant.
LEMMA MoStep == ASSUME MoConstants, MoInv, [MoNext]_movars PROVE MoInv'
<1>1. CASE UNCHANGED movars
  BY <1>1 DEF movars, MoInv, MoTypes, Turns, SlotHolds, Progress, Alive
<1>2. CASE MoNext
  BY <1>2, ManagedKeeps, AcquireKeeps, SendKeeps, ExternalKeeps, ServerKeeps DEF MoNext
<1> QED
  BY <1>1, <1>2

\* The invariant says what the property promises: a live process is the one of
\* the slot, and the request under way is at the slot's.
LEMMA MoImplies == ASSUME MoConstants, MoInv PROVE OneModel
<1>1. \A n \in Loads : Alive(n) => slot.cmd = n
  BY DEF MoInv, SlotHolds
<1>2. Cardinality({n \in Loads : Alive(n)}) <= 1
  <2>1. {n \in Loads : Alive(n)} \subseteq {slot.cmd}
    BY <1>1
  <2>2. IsFiniteSet({slot.cmd}) /\ Cardinality({slot.cmd}) = 1
    BY FS_Singleton
  <2> QED
    BY <2>1, <2>2, FS_Subset
<1>3. Cardinality(ext.inflight) <= 1
  <2>1. ext.inflight \subseteq {ext.gate}
    BY DEF MoInv, Turns
  <2>2. IsFiniteSet({ext.gate}) /\ Cardinality({ext.gate}) = 1
    BY FS_Singleton
  <2> QED
    BY <2>1, <2>2, FS_Subset
<1>4. ASSUME NEW c \in Calls, call[c].pc = "sent", call[c].served \in Loads
      PROVE  /\ procs[call[c].served].key = Key[call[c].p]
             /\ procs[call[c].served].state # "killed"
  BY <1>4 DEF MoInv, Progress, SlotHolds, Loads
<1> QED
  BY <1>1, <1>2, <1>3, <1>4 DEF OneModel

\* For any number of providers, calls and loads: at most one process that prepare
\* started is alive, the slot knows it, a request under way is at the process its
\* provider configured and nobody stopped that one, and the chats of an external
\* endpoint take turns (localSlot, managedProvider, serializedProvider).
THEOREM OneModelAtATime == ASSUME MoConstants PROVE MoSpec => []OneModel
<1>1. MoInit => MoInv
  BY MoStarts
<1>2. MoInv /\ [MoNext]_movars => MoInv'
  BY MoStep
<1>3. MoInv => OneModel
  BY MoImplies
<1> QED
  BY <1>1, <1>2, <1>3, PTL DEF MoSpec

-----------------------------------------------------------------------------
(* The recipes of a verification *)

\* What is assumed of the constants: what a task's repository declares, configures and holds
\* are sequences, and so are the scripts of a manifest.
Listed(s) == s \in Seq({s[i] : i \in DOMAIN s})

RcConstants ==
    \A t \in Tasks :
        /\ t.frozen \in BOOLEAN /\ Listed(t.declared) /\ Listed(t.config) /\ Listed(t.walk)
        /\ \A i \in DOMAIN t.walk : Listed(t.walk[i].scripts)

Forms == {"generate", "check", "integration"}
Tools == {"build", "vet", "test", "test_json", "race", "gofmt", "golangci", "semgrep", "generic",
          "declared"}
Helper == {"up", "test", "down", "snapshot", "generate"}
Statuses == {"pass", "fail", "error", "skipped"}

\* A recipe of a plan: a declared step's kind is its form's.
Item(r, frozen) ==
    /\ r.tool \in Tools
    /\ r.tool = "declared" =>
          r.form \in Forms /\ r.kind = IF r.form = "check" THEN "analyzer" ELSE r.form
    /\ frozen \/ r.kind \in Kinds

\* Something that was left is on record.
Told(kind, how) ==
    \E k \in 1 .. Len(results) : results[k].kind = kind /\ results[k].left \in how

LeftFiles == {"killed", "unseen", "not_restored"}
LeftServices == {"killed", "down_failed", "no_down"}

\* A file is as it was found, or written where nothing cleans up, or told.
Covered(t, loose, told) == \A p \in Paths : t[p] = Found[p] \/ p \in loose \/ told

FilesTold(t) == Covered(t, strays, Told("generate", LeftFiles))

\* What a check found tells in the status.
Tells(status, truth) ==
    /\ truth = "problem" => status \in {"fail", "error"}
    /\ status = "pass" => truth = "clean"

PlanHolds ==
    /\ plan \in Seq({plan[k] : k \in DOMAIN plan})
    /\ results \in Seq({results[k] : k \in DOMAIN results})
    /\ Len(results) <= Len(plan)
    /\ \A k \in 1 .. Len(plan) : Item(plan[k], task.frozen)
    /\ pc \in Helper =>
          /\ Len(results) < Len(plan) /\ Current.tool = "declared"
          /\ pc \in {"snapshot", "generate"} => Current.form = "generate"
          /\ pc \in {"up", "down"} => Current.form = "integration"
          /\ pc = "test" => Current.form # "generate"
    /\ pc = "tool" => Len(results) < Len(plan) /\ Current.tool # "declared"
    /\ pc = "down" => step.status \in Statuses \ {"skipped"} /\ Tells(step.status, step.truth)
    /\ pc \in Helper \cup {"begin", "next", "tool", "done"}
    /\ pc = "begin" => results = <<>>
    /\ live \in BOOLEAN /\ task \in Tasks /\ task.frozen \in BOOLEAN
    /\ step = [status |-> step.status, truth |-> step.truth]

TreeHolds ==
    /\ tree = [p \in Paths |-> tree[p]] /\ snap = [p \in Paths |-> snap[p]]
    /\ pc # "generate" => FilesTold(tree)
    /\ pc = "generate" =>
          /\ FilesTold(snap)
          /\ \A p \in Paths \ Current.outputs : tree[p] = snap[p] \/ p \in strays

LiveHolds ==
    live => \/ Told("integration", LeftServices)
            \/ pc \in {"test", "down"} /\ Current.form = "integration"

\* A result of a recipe: what was found and what was left tell in the status.
Sound(r) ==
    /\ r.status \in Statuses
    /\ Tells(r.status, r.truth)
    /\ r.left = "not_restored" => r.status = "fail"
    /\ r.left \in {"killed", "unseen"} => r.status = "error"
    /\ task.frozen \/ r.kind \in Kinds
    /\ r.kind = "generate" \/ FilesTold(r.saw)

ResultsHold == \A k \in 1 .. Len(results) : Sound(results[k])

RcInv ==
    /\ PlanHolds /\ TreeHolds /\ LiveHolds /\ ResultsHold
    /\ verdict = "accepted" => pc = "done" /\ AcceptedIsChecked

-----------------------------------------------------------------------------
(* What Chosen and FlattenSeq return: induction by a least counterexample. *)

\* A set of numbers that is not empty has a least one.
LEMMA LeastNumber ==
    ASSUME NEW S \in SUBSET Nat, S # {}
    PROVE  \E m \in S : \A k \in S : m <= k
<1>1. PICK R : R = OpToRel(<, Nat)
  OBVIOUS
<1>2. IsWellFoundedOn(R, Nat)
  BY <1>1, NatLessThanWellFounded
<1>3. PICK m \in S : \A y \in S : ~(<<y, m>> \in R)
  BY <1>2, WFMin
<1>4. \A y \in Nat : y < m => <<y, m>> \in R
  BY <1>1 DEF OpToRel
<1>5. \A k \in S : m <= k
  <2> SUFFICES ASSUME NEW k \in S, ~(m <= k) PROVE FALSE
    OBVIOUS
  <2>1. k \in Nat /\ m \in Nat /\ k < m
    OBVIOUS
  <2> QED
    BY <1>3, <1>4, <2>1
<1> QED
  BY <1>5

\* What holds at 0 and passes from each number to the next holds up to n.
LEMMA UpTo ==
    ASSUME NEW n \in Nat, NEW good \in SUBSET Nat, 0 \in good,
           \A m \in 1 .. n : m - 1 \in good => m \in good
    PROVE  \A m \in 0 .. n : m \in good
<1> SUFFICES ASSUME NEW j \in 0 .. n, j \notin good PROVE FALSE
  OBVIOUS
<1>1. PICK m \in {k \in 0 .. n : k \notin good} :
         \A k \in {l \in 0 .. n : l \notin good} : m <= k
  <2>1. {k \in 0 .. n : k \notin good} \in SUBSET Nat /\ {k \in 0 .. n : k \notin good} # {}
    OBVIOUS
  <2> QED
    BY <2>1, LeastNumber
<1>2. m # 0 /\ m \in 1 .. n
  BY <1>1
<1>3. m - 1 \in good
  BY <1>1, <1>2
<1> QED
  BY <1>1, <1>2, <1>3

\* The steps of Chosen.
ChosenStep(s, positions, f, n) ==
    IF n = 0 THEN <<>>
    ELSE IF n \in positions THEN Append(f[n - 1], s[n]) ELSE f[n - 1]

ChosenUpTo(S, s, positions, m) ==
    \E f \in [0 .. m -> Seq(S)] :
        \A n \in 0 .. m : f[n] = ChosenStep(s, positions, f, n)

\* The elements Chosen returns are elements of what it is given.
LEMMA ChosenType ==
    ASSUME NEW S, NEW s \in Seq(S), NEW positions
    PROVE  Chosen(s, positions) \in Seq(S)
<1>1. PICK N \in Nat : N = Len(s)
  OBVIOUS
<1>2. PICK good : good = {m \in Nat : m <= N => ChosenUpTo(S, s, positions, m)}
  OBVIOUS
<1>3. 0 \in good
  <2>1. PICK f : f = [n \in 0 .. 0 |-> <<>>]
    OBVIOUS
  <2>2. f \in [0 .. 0 -> Seq(S)] /\ \A n \in 0 .. 0 : f[n] = ChosenStep(s, positions, f, n)
    BY <2>1 DEF ChosenStep
  <2>3. ChosenUpTo(S, s, positions, 0)
    BY <2>2 DEF ChosenUpTo
  <2> QED
    BY <1>2, <2>3
<1>4. ASSUME NEW m \in 1 .. N, m - 1 \in good PROVE m \in good
  <2>0. m \in Nat /\ m - 1 \in Nat /\ m - 1 <= N /\ ChosenUpTo(S, s, positions, m - 1)
    BY <1>2, <1>4
  <2>1. PICK f \in [0 .. m - 1 -> Seq(S)] :
           \A n \in 0 .. m - 1 : f[n] = ChosenStep(s, positions, f, n)
    BY <2>0 DEF ChosenUpTo
  <2>2. PICK x : x = ChosenStep(s, positions, f, m)
    OBVIOUS
  <2>3. x \in Seq(S)
    <3>1. f[m - 1] \in Seq(S) /\ s[m] \in S
      BY <1>1
    <3> QED
      BY <2>2, <3>1 DEF ChosenStep
  <2>4. PICK g : g = [n \in 0 .. m |-> IF n = m THEN x ELSE f[n]]
    OBVIOUS
  <2>5. g \in [0 .. m -> Seq(S)]
    BY <2>3, <2>4
  <2>6. ASSUME NEW n \in 0 .. m PROVE g[n] = ChosenStep(s, positions, g, n)
    <3>1. n # 0 => g[n - 1] = f[n - 1]
      BY <2>4
    <3>2. n # m => g[n] = f[n] /\ f[n] = ChosenStep(s, positions, f, n)
      BY <2>1, <2>4
    <3> QED
      BY <2>2, <2>4, <3>1, <3>2 DEF ChosenStep
  <2>7. ChosenUpTo(S, s, positions, m)
    BY <2>5, <2>6 DEF ChosenUpTo
  <2> QED
    BY <1>2, <2>0, <2>7
<1>5. N \in good
  <2>1. good \in SUBSET Nat
    BY <1>2
  <2>2. \A m \in 0 .. N : m \in good
    BY <1>3, <1>4, <2>1, UpTo
  <2> QED
    BY <2>2
<1>6. PICK f \in [0 .. N -> Seq(S)] : \A n \in 0 .. N : f[n] = ChosenStep(s, positions, f, n)
  <2>1. ChosenUpTo(S, s, positions, N)
    BY <1>2, <1>5
  <2> QED
    BY <2>1 DEF ChosenUpTo
<1>7. f = [n \in 0 .. Len(s) |-> IF n = 0 THEN <<>>
                                 ELSE IF n \in positions THEN Append(f[n - 1], s[n])
                                 ELSE f[n - 1]]
  BY <1>1, <1>6 DEF ChosenStep
<1>8. PICK g : /\ g = [n \in 0 .. Len(s) |-> IF n = 0 THEN <<>>
                                    ELSE IF n \in positions THEN Append(g[n - 1], s[n])
                                    ELSE g[n - 1]]
               /\ Chosen(s, positions) = g[Len(s)]
  BY <1>7 DEF Chosen
<1>9. \A m \in 0 .. N : g[m] \in Seq(S)
  <2>1. g[0] \in Seq(S)
    BY <1>1, <1>8
  <2>2. ASSUME NEW m \in 1 .. N, g[m - 1] \in Seq(S) PROVE g[m] \in Seq(S)
    <3>0. \A n \in 0 .. N : g[n] = ChosenStep(s, positions, g, n)
      BY <1>1, <1>8 DEF ChosenStep
    <3>1. g[m] = IF m \in positions THEN Append(g[m - 1], s[m]) ELSE g[m - 1]
      BY <3>0 DEF ChosenStep
    <3>2. s[m] \in S
      BY <1>1
    <3> QED
      BY <2>2, <3>1, <3>2
  <2>3. PICK fine : fine = {n \in 0 .. N : g[n] \in Seq(S)}
    OBVIOUS
  <2>4. fine \in SUBSET Nat /\ 0 \in fine /\ \A m \in 1 .. N : m - 1 \in fine => m \in fine
    BY <2>1, <2>2, <2>3
  <2>5. \A m \in 0 .. N : m \in fine
    BY <2>4, UpTo
  <2> QED
    BY <2>3, <2>5
<1> QED
  BY <1>1, <1>8, <1>9

\* A sequence without elements.
LEMMA NothingIn == ASSUME NEW S, NEW s \in Seq(S), Len(s) = 0 PROVE s = <<>>
  OBVIOUS

FlattenStep(s, f, n) == IF n = 1 THEN s[n] ELSE f[n - 1] \o s[n]

FlattenUpTo(S, s, m) ==
    \E f \in [1 .. m -> Seq(S)] : \A n \in 1 .. m : f[n] = FlattenStep(s, f, n)

\* Flattening keeps the elements.
LEMMA FlattenType ==
    ASSUME NEW S, NEW s \in Seq(Seq(S))
    PROVE  FlattenSeq(s) \in Seq(S)
<1>1. PICK N \in Nat : N = Len(s)
  OBVIOUS
<1>2. PICK good : good = {m \in Nat : m <= N => FlattenUpTo(S, s, m)}
  OBVIOUS
<1>3. 0 \in good
  <2>1. PICK f : f = [n \in 1 .. 0 |-> <<>>]
    OBVIOUS
  <2>2. f \in [1 .. 0 -> Seq(S)] /\ \A n \in 1 .. 0 : f[n] = FlattenStep(s, f, n)
    BY <2>1
  <2>3. FlattenUpTo(S, s, 0)
    BY <2>2 DEF FlattenUpTo
  <2> QED
    BY <1>2, <2>3
<1>4. ASSUME NEW m \in 1 .. N, m - 1 \in good PROVE m \in good
  <2>0. m \in Nat /\ m - 1 \in Nat /\ m - 1 <= N /\ FlattenUpTo(S, s, m - 1)
    BY <1>2, <1>4
  <2>1. PICK f \in [1 .. m - 1 -> Seq(S)] : \A n \in 1 .. m - 1 : f[n] = FlattenStep(s, f, n)
    BY <2>0 DEF FlattenUpTo
  <2>2. PICK x : x = FlattenStep(s, f, m)
    OBVIOUS
  <2>3. x \in Seq(S)
    <3>1. s[m] \in Seq(S) /\ (m # 1 => f[m - 1] \in Seq(S))
      BY <1>1
    <3> QED
      BY <2>2, <3>1 DEF FlattenStep
  <2>4. PICK g : g = [n \in 1 .. m |-> IF n = m THEN x ELSE f[n]]
    OBVIOUS
  <2>5. g \in [1 .. m -> Seq(S)]
    BY <2>3, <2>4
  <2>6. ASSUME NEW n \in 1 .. m PROVE g[n] = FlattenStep(s, g, n)
    <3>1. n # 1 => g[n - 1] = f[n - 1]
      BY <2>4
    <3>2. n # m => g[n] = f[n] /\ f[n] = FlattenStep(s, f, n)
      BY <2>1, <2>4
    <3>3. FlattenStep(s, g, n) = FlattenStep(s, f, n)
      BY <3>1 DEF FlattenStep
    <3> QED
      BY <2>2, <2>4, <3>2, <3>3
  <2>7. FlattenUpTo(S, s, m)
    BY <2>5, <2>6 DEF FlattenUpTo
  <2> QED
    BY <1>2, <2>0, <2>7
<1>5. N \in good
  <2>1. good \in SUBSET Nat
    BY <1>2
  <2>2. \A m \in 0 .. N : m \in good
    BY <1>3, <1>4, <2>1, UpTo
  <2> QED
    BY <2>2
<1>6. PICK f \in [1 .. N -> Seq(S)] : \A n \in 1 .. N : f[n] = FlattenStep(s, f, n)
  <2>1. FlattenUpTo(S, s, N)
    BY <1>2, <1>5
  <2> QED
    BY <2>1 DEF FlattenUpTo
<1>7. f = [i \in 1 .. Len(s) |-> IF i = 1 THEN s[i] ELSE f[i - 1] \o s[i]]
  BY <1>1, <1>6 DEF FlattenStep
<1>8. CASE N = 0
  <2>1. s = <<>>
    BY <1>1, <1>8, NothingIn
  <2>2. <<>> \in Seq(S)
    OBVIOUS
  <2> QED
    BY <1>1, <1>8, <2>1, <2>2 DEF FlattenSeq
<1>9. CASE N # 0
  <2>1. PICK g : /\ g = [i \in 1 .. Len(s) |-> IF i = 1 THEN s[i] ELSE g[i - 1] \o s[i]]
                 /\ FlattenSeq(s) = g[Len(s)]
    BY <1>1, <1>7, <1>9 DEF FlattenSeq
  <2>2. \A m \in 1 .. N : g[m] \in Seq(S)
    <3>1. ASSUME NEW m \in 1 .. N, m - 1 \in 1 .. N => g[m - 1] \in Seq(S) PROVE g[m] \in Seq(S)
      <4>1. g[m] = IF m = 1 THEN s[m] ELSE g[m - 1] \o s[m]
        BY <1>1, <2>1
      <4>2. s[m] \in Seq(S) /\ (m # 1 => g[m - 1] \in Seq(S))
        BY <1>1, <3>1
      <4> QED
        BY <4>1, <4>2
    <3>2. PICK fine : fine = {n \in 0 .. N : n # 0 => g[n] \in Seq(S)}
      OBVIOUS
    <3>3. fine \in SUBSET Nat /\ 0 \in fine /\ \A m \in 1 .. N : m - 1 \in fine => m \in fine
      BY <3>1, <3>2
    <3>4. \A m \in 0 .. N : m \in fine
      BY <3>3, UpTo
    <3> QED
      BY <3>2, <3>4
  <2> QED
    BY <1>1, <1>9, <2>1, <2>2
<1> QED
  BY <1>8, <1>9

-----------------------------------------------------------------------------
(* The plan *)

\* A sequence is one of its own elements.
LEMMA OwnElements ==
    ASSUME NEW S, NEW s \in Seq(S)
    PROVE  s \in Seq({s[k] : k \in DOMAIN s}) /\ \A k \in 1 .. Len(s) : s[k] \in S
<1>1. DOMAIN s = 1 .. Len(s) /\ Len(s) \in Nat /\ s = [k \in 1 .. Len(s) |-> s[k]]
  OBVIOUS
<1>2. PICK T : T = {s[k] : k \in DOMAIN s}
  OBVIOUS
<1>3. \A k \in 1 .. Len(s) : s[k] \in T
  BY <1>1, <1>2
<1>4. s \in Seq(T)
  BY <1>1, <1>3
<1> QED
  BY <1>2, <1>4

\* The built-in recipes run known tools, and their kinds are known.
LEMMA GoItems ==
    ASSUME NEW level
    PROVE  \E S : /\ GoRecipes(level) \in Seq(S)
                  /\ \A r \in S : r.tool \in Tools \ {"declared"} /\ r.kind \in Kinds
<1>1. PICK all : all = << Recipe(<<"go_build">>, "build", "build", "gomod"),
                  Recipe(<<"go_vet">>, "vet", "vet", "gomod"),
                  Recipe(<<"go_test">>, "test", "test", "gomod"),
                  Recipe(<<"gofmt">>, "format", "gofmt", "gomod"),
                  Recipe(<<"go_race">>, "race", "race", "gomod"),
                  Recipe(<<"golangci">>, "lint", "golangci", "tool"),
                  Recipe(<<"semgrep">>, "analyzer", "semgrep", "tool") >>
  OBVIOUS
<1>2. PICK positions : GoRecipes(level) = Chosen(all, positions)
  BY <1>1 DEF GoRecipes
<1>3. PICK S : S = {all[k] : k \in 1 .. 7}
  OBVIOUS
<1>4. all = [k \in 1 .. 7 |-> all[k]]
  BY <1>1
<1>5. all \in Seq(S)
  BY <1>3, <1>4
<1>6. \A k \in 1 .. 7 : all[k].tool \in Tools \ {"declared"} /\ all[k].kind \in Kinds
  BY <1>1 DEF Recipe, Tools, Kinds
<1>7. \A r \in S : r.tool \in Tools \ {"declared"} /\ r.kind \in Kinds
  BY <1>3, <1>6
<1> QED
  BY <1>2, <1>5, <1>7, ChosenType

\* What the manifests of a repository declare has a parser.
LEMMA DiscoveredItems ==
    ASSUME RcConstants, NEW t \in Tasks
    PROVE  \E S : /\ Discover(t.walk) \in Seq(S)
                  /\ \A r \in S : r.tool \in Parsers
<1>0. PICK walk : walk = t.walk
  OBVIOUS
<1>2. PICK found, outer, kept :
         /\ found = Chosen(walk, kept)
         /\ outer = [i \in 1 .. Len(found) |->
                        LET w == found[i] IN
                        [j \in 1 .. Len(w.scripts) |->
                            Recipe(<<w.dir, w.type, w.scripts[j]>>, w.scripts[j],
                                   ParserOf(w.type, w.scripts[j]), "none")]]
         /\ Discover(walk) = FlattenSeq(outer)
  BY DEF Discover
<1>3. PICK M : M = {walk[i] : i \in DOMAIN walk}
  OBVIOUS
<1>4. found \in Seq(M)
  BY <1>0, <1>2, <1>3, ChosenType DEF RcConstants, Listed
<1>5. PICK N \in Nat : N = Len(found)
  BY <1>4
<1>6. PICK size : size = [i \in 1 .. N |-> Len(found[i].scripts)]
  OBVIOUS
<1>7. /\ outer = [i \in 1 .. N |-> outer[i]]
      /\ \A i \in 1 .. N :
            /\ outer[i] = [j \in 1 .. size[i] |-> outer[i][j]] /\ size[i] \in Nat
            /\ \A j \in 1 .. size[i] : outer[i][j].tool \in Parsers
  <2>1. outer = [i \in 1 .. N |-> outer[i]]
    BY <1>2, <1>5
  <2>2. ASSUME NEW i \in 1 .. N
        PROVE  /\ outer[i] = [j \in 1 .. size[i] |-> outer[i][j]] /\ size[i] \in Nat
               /\ \A j \in 1 .. size[i] : outer[i][j].tool \in Parsers
    <3>1. outer[i] = [j \in 1 .. size[i] |->
                         Recipe(<<found[i].dir, found[i].type, found[i].scripts[j]>>,
                                found[i].scripts[j],
                                ParserOf(found[i].type, found[i].scripts[j]), "none")]
      BY <1>2, <1>5, <1>6
    <3>2. size[i] \in Nat
      <4>1. found[i] \in M
        BY <1>4, <1>5
      <4>2. PICK k \in DOMAIN walk : found[i] = walk[k]
        BY <4>1, <1>3
      <4>3. PICK scripts, T : scripts = found[i].scripts /\ scripts \in Seq(T)
        BY <1>0, <4>2 DEF RcConstants, Listed
      <4>4. Len(scripts) \in Nat
        BY <4>3
      <4> QED
        BY <1>6, <4>3, <4>4
    <3>3. \A type, kind : ParserOf(type, kind) \in Parsers
      BY DEF ParserOf, Parsers
    <3>4. \A name, kind, tool : Recipe(name, kind, tool, "none").tool = tool
      BY DEF Recipe
    <3>5. \A j \in 1 .. size[i] : outer[i][j].tool \in Parsers
      BY <3>1, <3>3, <3>4
    <3> QED
      BY <3>1, <3>2, <3>5
  <2> QED
    BY <2>1, <2>2
<1>8. PICK S : S = UNION {{outer[i][j] : j \in 1 .. size[i]} : i \in 1 .. N}
  OBVIOUS
<1>9. \A i \in 1 .. N : outer[i] \in Seq(S)
  BY <1>7, <1>8
<1>10. outer \in Seq(Seq(S))
  BY <1>7, <1>9
<1>11. \A r \in S : r.tool \in Parsers
  BY <1>7, <1>8
<1>12. Discover(walk) \in Seq(S)
  BY <1>2, <1>10, FlattenType
<1> QED
  BY <1>0, <1>11, <1>12

\* The frozen presets, declared or of the manifests, have parsers.
LEMMA PresetItems ==
    ASSUME RcConstants, task \in Tasks, ValidConfig(task.config)
    PROVE  \E S : /\ Frozen \in Seq(S)
                  /\ \A r \in S : r.tool \in Tools \ {"declared"}
<1>1. PICK t \in Tasks : t = task
  OBVIOUS
<1>2. PICK all : all = IF t.config # <<>> THEN t.config ELSE Discover(t.walk)
  OBVIOUS
<1>3. PICK S : all \in Seq(S) /\ \A r \in S : r.tool \in Parsers
  <2>1. CASE t.config # <<>>
    <3>1. Listed(t.config) /\ all = t.config
      BY <1>2, <2>1 DEF RcConstants
    <3>2. \A i \in DOMAIN t.config : t.config[i].tool \in Parsers
      BY <1>1 DEF ValidConfig
    <3>3. all \in Seq({all[i] : i \in DOMAIN all}) /\ \A r \in {all[i] : i \in DOMAIN all} : r.tool \in Parsers
      BY <3>1, <3>2 DEF Listed
    <3> QED
      BY <3>3
  <2>2. CASE t.config = <<>>
    BY <1>2, <2>2, DiscoveredItems
  <2> QED
    BY <2>1, <2>2
<1>4. PICK presets, positions : presets = Presets(t.level, t.config, t.walk) /\ presets = Chosen(all, positions)
  BY <1>2 DEF Presets
<1>5. presets \in Seq(S)
  BY <1>3, <1>4, ChosenType
<1>6. PICK a, b : Frozen = Chosen(presets, a) \o Chosen(presets, b)
  BY <1>1, <1>4 DEF Frozen
<1>7. PICK x, y : x = Chosen(presets, a) /\ y = Chosen(presets, b) /\ x \in Seq(S) /\ y \in Seq(S)
  BY <1>5, ChosenType
<1>8. x \o y \in Seq(S)
  BY <1>7
<1>9. Parsers \subseteq Tools \ {"declared"}
  BY DEF Parsers, Tools
<1> QED
  BY <1>3, <1>6, <1>7, <1>8, <1>9

\* The recipes of declared steps are of the form asked for.
LEMMA DeclaredItems ==
    ASSUME NEW level, NEW d, Listed(d), NEW form \in Forms
    PROVE  \E S : /\ DeclaredRecipes(level, d, form) \in Seq(S)
                  /\ \A r \in S :
                        /\ r.tool = "declared" /\ r.form = form
                        /\ r.kind = IF form = "check" THEN "analyzer" ELSE form
<1> DEFINE kind == IF form = "check" THEN "analyzer" ELSE form
           Declared(s) == [name |-> <<form, s.name>>, kind |-> kind, tool |-> "declared",
                           needs |-> IF form = "check" THEN "tool" ELSE "none",
                           form |-> form, outputs |-> s.outputs, up |-> s.up, down |-> s.down]
<1>1. PICK steps, chosen :
         /\ steps = Chosen(d, chosen)
         /\ DeclaredRecipes(level, d, form) =
             IF ~Valid(d) \/ kind \notin Includes(level) THEN <<>>
             ELSE [i \in 1 .. Len(steps) |-> Declared(steps[i])]
  BY DEF DeclaredRecipes
<1>2. PICK M : steps \in Seq(M)
  BY <1>1, ChosenType DEF Listed
<1>3. PICK N \in Nat : N = Len(steps)
  BY <1>2
<1>4. PICK all : all = [i \in 1 .. N |-> Declared(steps[i])]
  OBVIOUS
<1>5. PICK S : S = {all[k] : k \in 1 .. N}
  OBVIOUS
<1>6. all \in Seq(S) /\ <<>> \in Seq(S)
  <2>1. \A k \in 1 .. N : all[k] \in S
    BY <1>5
  <2> HIDE DEF Declared
  <2>2. all = [k \in 1 .. N |-> all[k]]
    BY <1>4
  <2> QED
    BY <2>1, <2>2
<1>7. \A r \in S : r.tool = "declared" /\ r.form = form /\ r.kind = kind
  BY <1>4, <1>5
<1>8. DeclaredRecipes(level, d, form) \in {<<>>, all}
  <2> HIDE DEF Declared
  <2> QED
    BY <1>1, <1>3, <1>4
<1> QED
  BY <1>6, <1>7, <1>8

\* A sequence over a set is one over any larger set.
LEMMA Wider == ASSUME NEW S, NEW T, S \subseteq T, NEW s \in Seq(S) PROVE s \in Seq(T)
<1>1. s = [k \in 1 .. Len(s) |-> s[k]] /\ Len(s) \in Nat /\ \A k \in 1 .. Len(s) : s[k] \in T
  OBVIOUS
<1> QED
  BY <1>1

\* What verify plans is a sequence of recipes it can run.
LEMMA PlanMade ==
    ASSUME RcConstants, RcInv, VerifyBegin
    PROVE  /\ plan' \in Seq({plan'[k] : k \in DOMAIN plan'})
           /\ \A k \in 1 .. Len(plan') : Item(plan'[k], task.frozen)
<1> USE DEF RcInv, PlanHolds
<1> DEFINE level == task.level
           declared(kind) == IF level = "high" THEN DeclaredRecipes(level, task.declared, kind)
                             ELSE <<>>
           builtin == IF task.frozen THEN Frozen ELSE GoRecipes(level)
<1>1. \A form \in Forms : \E S : declared(form) \in Seq(S) /\ \A r \in S : Item(r, task.frozen)
  <2> SUFFICES ASSUME NEW form \in Forms
               PROVE  \E S : declared(form) \in Seq(S) /\ \A r \in S : Item(r, task.frozen)
    OBVIOUS
  <2>1. PICK S : /\ DeclaredRecipes(level, task.declared, form) \in Seq(S)
                 /\ \A r \in S :
                        /\ r.tool = "declared" /\ r.form = form
                        /\ r.kind = IF form = "check" THEN "analyzer" ELSE form
    <3>1. PICK d : d = task.declared /\ Listed(d)
      BY DEF RcConstants
    <3> HIDE DEF RcInv, PlanHolds
    <3>2. PICK v : v = task.level
      OBVIOUS
    <3>3. \E S : /\ DeclaredRecipes(v, d, form) \in Seq(S)
                 /\ \A r \in S :
                        /\ r.tool = "declared" /\ r.form = form
                        /\ r.kind = IF form = "check" THEN "analyzer" ELSE form
      BY <3>1, DeclaredItems
    <3> QED
      BY <3>1, <3>2, <3>3
  <2>2. \A r \in S : Item(r, task.frozen)
    BY <2>1 DEF Item, Tools, Forms, Kinds
  <2>3. declared(form) \in Seq(S)
    <3>1. <<>> \in Seq(S)
      OBVIOUS
    <3> QED
      BY <2>1, <3>1
  <2> QED
    BY <2>2, <2>3
<1>2. \E S : builtin \in Seq(S) /\ \A r \in S : Item(r, task.frozen)
  <2>1. CASE task.frozen
    <3>1. PICK S : Frozen \in Seq(S) /\ \A r \in S : r.tool \in Tools \ {"declared"}
      <4>1. ValidConfig(task.config)
        BY <2>1 DEF VerifyBegin
      <4> QED
        BY <4>1, PresetItems
    <3>2. \A r \in S : Item(r, task.frozen)
      BY <2>1, <3>1 DEF Item
    <3> QED
      BY <2>1, <3>1, <3>2
  <2>2. CASE ~task.frozen
    <3>1. PICK S : /\ GoRecipes(level) \in Seq(S)
                   /\ \A r \in S : r.tool \in Tools \ {"declared"} /\ r.kind \in Kinds
      BY GoItems
    <3>2. \A r \in S : Item(r, task.frozen)
      BY <2>2, <3>1 DEF Item
    <3> QED
      BY <2>2, <3>1, <3>2
  <2> QED
    BY <2>1, <2>2
<1>3. plan' = declared("generate") \o builtin \o declared("check") \o declared("integration")
  BY DEF VerifyBegin
<1>4. PICK a, b, c, d : /\ a = declared("generate") /\ b = builtin
                        /\ c = declared("check") /\ d = declared("integration")
  OBVIOUS
<1>5. PICK A : a \in Seq(A) /\ \A r \in A : Item(r, task.frozen)
  BY <1>1, <1>4 DEF Forms
<1>6. PICK B : b \in Seq(B) /\ \A r \in B : Item(r, task.frozen)
  BY <1>2, <1>4
<1>7. PICK C : c \in Seq(C) /\ \A r \in C : Item(r, task.frozen)
  BY <1>1, <1>4 DEF Forms
<1>8. PICK D : d \in Seq(D) /\ \A r \in D : Item(r, task.frozen)
  BY <1>1, <1>4 DEF Forms
<1>9. PICK T : T = A \cup B \cup C \cup D
  OBVIOUS
<1> HIDE DEF RcInv, PlanHolds
<1>10. a \in Seq(T) /\ b \in Seq(T) /\ c \in Seq(T) /\ d \in Seq(T)
  <2>1. A \subseteq T /\ B \subseteq T /\ C \subseteq T /\ D \subseteq T
    BY <1>9
  <2>2. a \in Seq(T)
    BY <1>5, <2>1, Wider
  <2>3. b \in Seq(T)
    BY <1>6, <2>1, Wider
  <2>4. c \in Seq(T)
    BY <1>7, <2>1, Wider
  <2>5. d \in Seq(T)
    BY <1>8, <2>1, Wider
  <2> QED
    BY <2>2, <2>3, <2>4, <2>5
<1>11. PICK p : p = plan'
  OBVIOUS
<1>12. p \in Seq(T)
  <2>1. p = a \o b \o c \o d
    BY <1>3, <1>4, <1>11
  <2>2. \A x \in Seq(T), y \in Seq(T) : x \o y \in Seq(T)
    OBVIOUS
  <2>3. a \o b \in Seq(T)
    BY <1>10, <2>2
  <2>4. a \o b \o c \in Seq(T)
    BY <1>10, <2>2, <2>3
  <2> QED
    BY <1>10, <2>1, <2>2, <2>4
<1>13. \A r \in T : Item(r, task.frozen)
  BY <1>5, <1>6, <1>7, <1>8, <1>9
<1> QED
  BY <1>11, <1>12, <1>13, OwnElements

\* The verification begins with a plan and no result.
LEMMA RcBegin == ASSUME RcConstants, RcInv, VerifyBegin PROVE RcInv'
<1>1. /\ pc = "begin" /\ pc' = "next" /\ results = <<>> /\ results' = results
      /\ task' = task /\ tree' = tree /\ snap' = snap /\ step' = step /\ live' = live
      /\ verdict' = verdict /\ Len(results') = 0 /\ strays' = strays
  BY DEF VerifyBegin, RcInv, PlanHolds
<1>2. /\ plan' \in Seq({plan'[k] : k \in DOMAIN plan'})
      /\ \A k \in 1 .. Len(plan') : Item(plan'[k], task.frozen)
  BY PlanMade
<1>3. \A k \in 1 .. Len(plan') : Item(plan'[k], task'.frozen)
  BY <1>1, <1>2
<1>4. Len(plan') \in Nat
  BY <1>2
<1>5. PlanHolds'
  BY <1>1, <1>2, <1>3, <1>4 DEF PlanHolds, RcInv, Helper
<1>6. TreeHolds' /\ LiveHolds'
  BY <1>1 DEF TreeHolds, LiveHolds, RcInv, FilesTold, Covered, Told, Found
<1>7. ResultsHold'
  BY <1>1 DEF ResultsHold
<1> QED
  BY <1>1, <1>5, <1>6, <1>7 DEF RcInv

-----------------------------------------------------------------------------
(* A result *)

\* What Record appends: the result of the current recipe and, behind a build that
\* failed, that of each skipped one.
Extended(status, truth, left) ==
    /\ results' \in Seq({results'[k] : k \in DOMAIN results'})
    /\ Len(results') \in Len(results) + 1 .. Len(plan)
    /\ \A k \in 1 .. Len(results) : results'[k] = results[k]
    /\ results'[Len(results) + 1] = Result(Current, status, truth, left)
    /\ \A k \in Len(results) + 2 .. Len(results') :
          Current.kind = "build" /\ results'[k] = Result(plan[k], "skipped", "none", "none")

LEMMA Recorded ==
    ASSUME RcInv, Len(results) < Len(plan), NEW status, NEW truth, NEW left,
           Record(status, truth, left)
    PROVE  Extended(status, truth, left)
<1>1. PICK R, P : results \in Seq(R) /\ plan \in Seq(P)
  BY DEF RcInv, PlanHolds
<1>2. PICK n \in Nat, m \in Nat : n = Len(results) /\ m = Len(plan) /\ n < m
  BY <1>1
<1>3. PICK new : new = Result(Current, status, truth, left)
  OBVIOUS
<1>4. PICK done : done = Append(results, new)
  OBVIOUS
<1>5. PICK W : W = R \cup {new} \cup {Result(plan[k], "skipped", "none", "none") : k \in 1 .. m}
  OBVIOUS
<1>6. done \in Seq(W) /\ Len(done) = n + 1 /\ done[n + 1] = new /\ \A k \in 1 .. n : done[k] = results[k]
  <2>1. R \subseteq W /\ new \in W
    BY <1>5
  <2>2. results \in Seq(W)
    BY <1>1, <2>1, Wider
  <2> QED
    BY <1>2, <1>4, <2>1, <2>2
<1>7. PICK rest : rest = SubSeq(plan, Len(done) + 1, Len(plan))
  OBVIOUS
<1>8. PICK q \in Nat : q = m - n - 1
  <2>1. m - n - 1 \in Nat
    BY <1>2
  <2> QED
    BY <2>1
<1>9. rest \in Seq(P) /\ Len(rest) = q /\ \A i \in 1 .. q : rest[i] = plan[n + 1 + i]
  <2>1. Len(done) + 1 = n + 2 /\ Len(plan) = m /\ m - (n + 2) + 1 = q
    BY <1>2, <1>6, <1>8
  <2>2. rest = SubSeq(plan, n + 2, m)
    BY <1>7, <2>1
  <2> QED
    BY <1>1, <1>2, <1>8, <2>1, <2>2
<1>10. PICK tail : tail = [i \in DOMAIN rest |-> Result(rest[i], "skipped", "none", "none")]
  OBVIOUS
<1>11. /\ tail \in Seq(W) /\ Len(tail) = q
      /\ \A i \in 1 .. q : tail[i] = Result(plan[n + 1 + i], "skipped", "none", "none")
  <2>1. DOMAIN rest = 1 .. q
    BY <1>9
  <2>2. \A i \in 1 .. q : tail[i] = Result(plan[n + 1 + i], "skipped", "none", "none")
    BY <1>9, <1>10, <2>1
  <2>3. \A i \in 1 .. q : tail[i] \in W
    <3>1. \A i \in 1 .. q : n + 1 + i \in 1 .. m
      BY <1>2, <1>8
    <3> QED
      BY <1>5, <2>2, <3>1
  <2>4. tail = [i \in 1 .. q |-> tail[i]]
    BY <1>10, <2>1
  <2>5. tail \in Seq(W) /\ Len(tail) = q
    BY <2>3, <2>4
  <2> QED
    BY <2>2, <2>5
<1>12. results' = IF Current.kind = "build" /\ status = "fail" THEN done \o tail ELSE done
  BY <1>3, <1>4, <1>7, <1>10, Zenon DEF Record
<1>13. PICK r : r = results'
  OBVIOUS
<1>14. CASE Current.kind = "build" /\ status = "fail"
  <2>1. r = done \o tail
    BY <1>12, <1>13, <1>14
  <2>2. /\ r \in Seq(W) /\ Len(r) = n + 1 + q
        /\ \A k \in 1 .. n + 1 + q : r[k] = IF k <= n + 1 THEN done[k] ELSE tail[k - (n + 1)]
    <3>1. PICK l \in Nat : l = n + 1 /\ l = Len(done)
      BY <1>6
    <3>2. /\ done \o tail \in Seq(W) /\ Len(done \o tail) = l + q
          /\ \A k \in 1 .. l + q : (done \o tail)[k] = IF k <= l THEN done[k] ELSE tail[k - l]
      <4>1. done \in Seq(W) /\ tail \in Seq(W)
        BY <1>6, <1>11
      <4>2. /\ done \o tail \in Seq(W) /\ Len(done \o tail) = Len(done) + Len(tail)
            /\ \A k \in 1 .. Len(done) + Len(tail) :
                  (done \o tail)[k] = IF k <= Len(done) THEN done[k] ELSE tail[k - Len(done)]
        BY <4>1, ConcatProperties, Zenon
      <4>3. Len(done) = l /\ Len(tail) = q
        BY <1>11, <3>1
      <4> QED
        BY <4>2, <4>3
    <3> QED
      BY <2>1, <3>1, <3>2
  <2>3. Len(r) = m /\ \A k \in 1 .. n + 1 : r[k] = done[k]
    BY <1>2, <1>8, <2>2
  <2>4. \A k \in n + 2 .. m : r[k] = Result(plan[k], "skipped", "none", "none")
    <3> SUFFICES ASSUME NEW k \in n + 2 .. m PROVE r[k] = Result(plan[k], "skipped", "none", "none")
      OBVIOUS
    <3>1. k \in 1 .. n + 1 + q /\ ~(k <= n + 1)
      BY <1>2, <1>8
    <3>2. r[k] = tail[k - (n + 1)]
      BY <2>2, <3>1
    <3>3. k - (n + 1) \in 1 .. q /\ n + 1 + (k - (n + 1)) = k
      BY <1>2, <1>8
    <3> QED
      BY <1>11, <3>2, <3>3
  <2>5. r \in Seq({r[k] : k \in DOMAIN r})
    <3>1. r \in Seq(W)
      BY <2>2
    <3> QED
      BY <3>1, OwnElements
  <2>6. Len(r) \in n + 1 .. m /\ r[n + 1] = new /\ \A k \in 1 .. n : r[k] = results[k]
    BY <1>2, <1>6, <2>3
  <2> QED
    BY <1>2, <1>3, <1>13, <1>14, <2>3, <2>4, <2>5, <2>6 DEF Extended
<1>15. CASE ~(Current.kind = "build" /\ status = "fail")
  <2>1. r = done
    BY <1>12, <1>13, <1>15
  <2>2. r \in Seq({r[k] : k \in DOMAIN r})
    BY <1>6, <2>1, OwnElements
  <2> QED
    BY <1>2, <1>3, <1>6, <1>13, <2>1, <2>2 DEF Extended
<1> QED
  BY <1>14, <1>15

\* What was told stays told, and what the new result tells is told.
LEMMA ToldKeeps ==
    ASSUME RcInv, Len(results) < Len(plan), NEW status, NEW truth, NEW left,
           Record(status, truth, left), NEW kind, NEW how
    PROVE  /\ Told(kind, how) => Told(kind, how)'
           /\ (Current.kind = kind /\ left \in how) => Told(kind, how)'
<1>1. PICK n, m : n = Len(results) /\ m = Len(results')
  OBVIOUS
<1>2. PICK r : r = results'
  OBVIOUS
<1>3. /\ n \in Nat /\ m \in Nat /\ n + 1 <= m
      /\ \A k \in 1 .. n : r[k] = results[k]
      /\ r[n + 1] = Result(Current, status, truth, left)
  <2>1. Len(results) \in Nat /\ Len(plan) \in Nat
    BY DEF RcInv, PlanHolds
  <2>2. Extended(status, truth, left)
    BY Recorded
  <2> QED
    BY <1>1, <1>2, <2>1, <2>2 DEF Extended
<1>4. Told(kind, how)' = \E k \in 1 .. m : r[k].kind = kind /\ r[k].left \in how
  BY <1>1, <1>2 DEF Told
<1>5. Told(kind, how) = \E k \in 1 .. n : results[k].kind = kind /\ results[k].left \in how
  BY <1>1 DEF Told
<1>6. r[n + 1].kind = Current.kind /\ r[n + 1].left = left
  BY <1>3 DEF Result
<1>7. n + 1 \in 1 .. m /\ \A k \in 1 .. n : k \in 1 .. m
  BY <1>3
<1> QED
  BY <1>3, <1>4, <1>5, <1>6, <1>7

\* A result that says how the check went and what it left keeps the invariant.
LEMMA RecordKeeps ==
    ASSUME RcInv, Len(results) < Len(plan), pc # "done", pc # "begin",
           NEW status \in Statuses, NEW truth, NEW left, Record(status, truth, left),
           UNCHANGED <<task, plan, verdict, strays>>,
           Tells(status, truth),
           left = "not_restored" => status = "fail",
           left \in {"killed", "unseen"} => status = "error",
           Current.kind = "generate" \/ FilesTold(tree),
           live' \in BOOLEAN,
           tree' = [p \in Paths |-> tree'[p]], snap' = [p \in Paths |-> snap'[p]],
           FilesTold(tree') \/ (Current.kind = "generate" /\ left \in LeftFiles),
           live' => \/ Told("integration", LeftServices)
                    \/ Current.kind = "integration" /\ left \in LeftServices
    PROVE  RcInv'
<1>1. PICK n, m, l, r : n = Len(results) /\ m = Len(results') /\ l = Len(plan) /\ r = results'
  OBVIOUS
<1>2. /\ n \in Nat /\ m \in Nat /\ l \in Nat /\ n + 1 <= m /\ m <= l
      /\ r \in Seq({r[k] : k \in DOMAIN r})
      /\ \A k \in 1 .. n : r[k] = results[k]
      /\ r[n + 1] = Result(Current, status, truth, left)
      /\ \A k \in n + 2 .. m :
             Current.kind = "build" /\ r[k] = Result(plan[k], "skipped", "none", "none")
  <2>1. Len(results) \in Nat /\ Len(plan) \in Nat
    BY DEF RcInv, PlanHolds
  <2>2. Extended(status, truth, left)
    BY Recorded
  <2> QED
    BY <1>1, <2>1, <2>2 DEF Extended
<1>3. /\ pc' = "next" /\ step' = NoStep /\ task' = task /\ plan' = plan /\ verdict' = verdict
      /\ strays' = strays
  BY DEF Record
<1>4. PlanHolds'
  <2>1. /\ plan' \in Seq({plan'[k] : k \in DOMAIN plan'}) /\ Len(results') <= Len(plan')
        /\ \A k \in 1 .. Len(plan') : Item(plan'[k], task'.frozen)
        /\ task' \in Tasks /\ task'.frozen \in BOOLEAN
    BY <1>1, <1>2, <1>3 DEF RcInv, PlanHolds
  <2>2. results' \in Seq({results'[k] : k \in DOMAIN results'})
    BY <1>1, <1>2
  <2>3. step' = [status |-> step'.status, truth |-> step'.truth]
    BY <1>3 DEF NoStep
  <2> QED
    BY <1>3, <2>1, <2>2, <2>3 DEF PlanHolds, Helper
<1>5. Told("generate", LeftFiles) => Told("generate", LeftFiles)'
  BY ToldKeeps
<1>6. TreeHolds'
  <2>1. FilesTold(tree)'
    <3>1. Current.kind = "generate" /\ left \in LeftFiles => Told("generate", LeftFiles)'
      BY ToldKeeps
    <3> QED
      BY <1>3, <1>5, <3>1 DEF FilesTold, Covered, Found
  <2> QED
    BY <1>3, <2>1 DEF TreeHolds
<1>7. LiveHolds'
  <2>1. Told("integration", LeftServices) => Told("integration", LeftServices)'
    BY ToldKeeps
  <2>2. Current.kind = "integration" /\ left \in LeftServices => Told("integration", LeftServices)'
    BY ToldKeeps
  <2> QED
    BY <2>1, <2>2 DEF LiveHolds
<1>8. ResultsHold'
  <2>1. \A t : FilesTold(t) => Covered(t, strays, Told("generate", LeftFiles)')
    BY <1>5 DEF FilesTold, Covered
  <2>2. ASSUME NEW k \in 1 .. m
        PROVE  /\ r[k].status \in Statuses
               /\ Tells(r[k].status, r[k].truth)
               /\ r[k].left = "not_restored" => r[k].status = "fail"
               /\ r[k].left \in {"killed", "unseen"} => r[k].status = "error"
               /\ task.frozen \/ r[k].kind \in Kinds
               /\ r[k].kind = "generate" \/ FilesTold(r[k].saw)
    <3>1. CASE k \in 1 .. n
      <4>1. Sound(results[k]) /\ r[k] = results[k]
        BY <1>1, <1>2, <3>1 DEF RcInv, ResultsHold
      <4> QED
        BY <4>1 DEF Sound
    <3>2. CASE k = n + 1
      <4>1. task.frozen \/ Current.kind \in Kinds
        <5>1. n + 1 \in 1 .. l
          BY <1>2
        <5> QED
          BY <1>1, <5>1 DEF RcInv, PlanHolds, Item, Current
      <4>2. r[k] = [name |-> Current.name, kind |-> Current.kind, status |-> status,
                    truth |-> truth, saw |-> tree, left |-> left]
        BY <1>2, <3>2 DEF Result
      <4> QED
        BY <4>1, <4>2
    <3>3. CASE k \in n + 2 .. m
      <4>1. task.frozen \/ plan[k].kind \in Kinds
        <5>1. k \in 1 .. l
          BY <1>2, <3>3
        <5> QED
          BY <1>1, <5>1 DEF RcInv, PlanHolds, Item
      <4>2. r[k] = [name |-> plan[k].name, kind |-> plan[k].kind, status |-> "skipped",
                    truth |-> "none", saw |-> tree, left |-> "none"]
        BY <1>2, <3>3 DEF Result
      <4>3. FilesTold(tree)
        BY <1>2, <3>3
      <4> QED
        BY <4>1, <4>2, <4>3 DEF Statuses, Tells
    <3> QED
      BY <1>2, <3>1, <3>2, <3>3
  <2>3. ASSUME NEW k \in 1 .. m PROVE Sound(results[k])'
    <3>1. r[k].kind = "generate" \/ Covered(r[k].saw, strays, Told("generate", LeftFiles)')
      BY <2>1, <2>2
    <3> QED
      BY <1>1, <1>3, <2>2, <3>1 DEF Sound, FilesTold, Covered, Found, Tells
  <2> QED
    BY <1>1, <2>3 DEF ResultsHold
<1>9. verdict # "accepted"
  BY DEF RcInv
<1> QED
  BY <1>3, <1>4, <1>6, <1>7, <1>8, <1>9 DEF RcInv

-----------------------------------------------------------------------------
(* The recipes *)

\* Between two recipes what is left is told, and the next one is of a known tool.
LEMMA AtNext ==
    ASSUME RcInv, pc = "next"
    PROVE  /\ FilesTold(tree) /\ (live => Told("integration", LeftServices))
           /\ live \in BOOLEAN
           /\ tree = [p \in Paths |-> tree[p]] /\ snap = [p \in Paths |-> snap[p]]
  BY DEF RcInv, PlanHolds, TreeHolds, LiveHolds

\* The current recipe is one of the plan.
LEMMA CurrentItem == ASSUME RcInv, Len(results) < Len(plan) PROVE Item(Current, task.frozen)
<1>1. Len(results) \in Nat /\ Len(plan) \in Nat
  BY DEF RcInv, PlanHolds
<1>2. Len(results) + 1 \in 1 .. Len(plan)
  BY <1>1
<1> QED
  BY <1>2 DEF Current, RcInv, PlanHolds

\* A recipe that does not apply.
LEMMA RcSkip == ASSUME RcInv, Skip PROVE RcInv'
<1>1. /\ pc = "next" /\ Len(results) < Len(plan) /\ Record("skipped", "none", "none")
      /\ task' = task /\ plan' = plan /\ tree' = tree /\ snap' = snap /\ live' = live
      /\ verdict' = verdict /\ strays' = strays
  BY DEF Skip
<1>2. FilesTold(tree')
  BY <1>1, AtNext
<1> QED
  BY <1>1, <1>2, AtNext, RecordKeeps DEF Statuses, Tells

\* A summarizer never passes a problem, and passes only what is clean.
LEMMA StatusTells ==
    ASSUME NEW tool \in Tools \ {"declared"}, NEW truth \in {"clean", "problem", "none"},
           NEW exit, NEW output, <<exit, output>> \in Emits(tool, truth)
    PROVE  StatusOf(tool, exit, output) \in Statuses /\ Tells(StatusOf(tool, exit, output), truth)
<1> DEFINE status == StatusOf(tool, exit, output)
<1>1. CASE truth = "clean"
  <2>1. /\ exit = 0 /\ output \in {"nothing", "findings", "cut"}
        /\ output = "findings" => tool = "semgrep"
        /\ output = "cut" => tool \in {"semgrep", "golangci", "test_json"}
    BY <1>1 DEF Emits
  <2>2. status \in Statuses
    BY <1>1, <2>1 DEF StatusOf, Summarize, GoBuild, GoVet, GoTest, GoTestJSON, GoRace, Gofmt,
                      Semgrep, GolangciLint, Generic, Tools, Statuses
  <2> QED
    BY <1>1, <2>2 DEF Tells
<1>2. CASE truth = "problem"
  <2>1. /\ tool = "gofmt" => <<exit, output>> \in {<<0, "findings">>, <<2, "nothing">>}
        /\ tool = "race" => <<exit, output>> \in {<<1, "findings">>, <<0, "races">>}
        /\ tool \in {"golangci", "semgrep"} =>
              <<exit, output>> \in {<<1, "findings">>, <<1, "both">>, <<2, "both">>, <<1, "cut">>}
        /\ tool \notin {"gofmt", "race", "golangci", "semgrep"} =>
              <<exit, output>> \in {<<1, "findings">>, <<1, "nothing">>, <<1, "cut">>}
    BY <1>2 DEF Emits
  <2>2. status \in {"fail", "error"}
    BY <2>1 DEF StatusOf, Summarize, GoBuild, GoVet, GoTest, GoTestJSON, GoRace, Gofmt, Semgrep,
                GolangciLint, Generic, Tools
  <2> QED
    BY <1>2, <2>2 DEF Statuses, Tells
<1>3. CASE truth = "none"
  <2>1. \/ exit \in {126, 127}
        \/ tool = "semgrep" /\ output = "errors"
        \/ tool = "semgrep" /\ exit = 2 /\ output = "cut"
        \/ tool = "golangci" /\ exit = 3 /\ output \in {"errors", "nothing", "cut"}
    BY <1>3 DEF Emits
  <2>2. status \in {"error", "fail"}
    BY <2>1 DEF StatusOf, Summarize, Semgrep, GolangciLint, Generic
  <2> QED
    BY <1>3, <2>2 DEF Statuses, Tells
<1> QED
  BY <1>1, <1>2, <1>3

\* While a tool runs, what is left is told.
LEMMA InTool ==
    ASSUME RcInv, pc = "tool"
    PROVE  /\ Len(results) < Len(plan) /\ Current.tool \in Tools \ {"declared"}
           /\ FilesTold(tree) /\ (live => Told("integration", LeftServices)) /\ live \in BOOLEAN
           /\ tree = [p \in Paths |-> tree[p]] /\ snap = [p \in Paths |-> snap[p]]
<1>1. Len(results) < Len(plan) /\ Current.tool # "declared" /\ live \in BOOLEAN
  BY DEF RcInv, PlanHolds
<1>2. Current.tool \in Tools
  BY <1>1, CurrentItem DEF Item
<1> QED
  BY <1>1, <1>2 DEF RcInv, TreeHolds, LiveHolds

\* A tool ends.
LEMMA RcTool ==
    ASSUME RcInv, NEW truth \in {"clean", "problem", "none"}, NEW exit, NEW output,
           ToolEnds(truth, <<exit, output>>)
    PROVE  RcInv'
<1>1. PICK status, tool : status = StatusOf(tool, exit, output) /\ tool = Current.tool
  OBVIOUS
<1>2. /\ pc = "tool" /\ Record(status, truth, "none")
      /\ task' = task /\ plan' = plan /\ tree' = tree /\ snap' = snap /\ live' = live
      /\ verdict' = verdict /\ strays' = strays /\ <<exit, output>> \in Emits(tool, truth)
  BY <1>1 DEF ToolEnds
<1>3. tool \in Tools \ {"declared"}
  BY <1>1, <1>2, InTool
<1>4. status \in Statuses /\ Tells(status, truth)
  BY <1>1, <1>2, <1>3, StatusTells
<1>5. FilesTold(tree')
  BY <1>2, InTool
<1> QED
  BY <1>2, <1>4, <1>5, InTool, RecordKeeps

\* In a helper the current recipe is a declared step, of the form of its phase.
LEMMA InHelper ==
    ASSUME RcInv, pc \in Helper
    PROVE  /\ Len(results) < Len(plan) /\ Current.tool = "declared" /\ Current.form \in Forms
           /\ Current.kind = IF Current.form = "check" THEN "analyzer" ELSE Current.form
           /\ pc \in {"snapshot", "generate"} => Current.form = "generate"
           /\ pc \in {"up", "down"} => Current.form = "integration"
           /\ pc = "test" => Current.form # "generate"
           /\ pc # "generate" => FilesTold(tree)
           /\ tree = [p \in Paths |-> tree[p]] /\ snap = [p \in Paths |-> snap[p]]
           /\ live \in BOOLEAN
<1>1. /\ Len(results) < Len(plan) /\ Current.tool = "declared"
      /\ pc \in {"snapshot", "generate"} => Current.form = "generate"
      /\ pc \in {"up", "down"} => Current.form = "integration"
      /\ pc = "test" => Current.form # "generate"
      /\ live \in BOOLEAN
  BY DEF RcInv, PlanHolds
<1>2. /\ Current.form \in Forms
      /\ Current.kind = IF Current.form = "check" THEN "analyzer" ELSE Current.form
  BY <1>1, CurrentItem DEF Item
<1>3. /\ pc # "generate" => FilesTold(tree)
      /\ tree = [p \in Paths |-> tree[p]] /\ snap = [p \in Paths |-> snap[p]]
  BY DEF RcInv, TreeHolds
<1> QED
  BY <1>1, <1>2, <1>3

\* The time limit, of a recipe or of a helper in any phase.
LEMMA RcTimesOut == ASSUME RcInv, TimesOut PROVE RcInv'
<1>1. /\ Record("error", "none", "killed")
      /\ task' = task /\ plan' = plan /\ tree' = tree /\ snap' = snap /\ live' = live
      /\ verdict' = verdict /\ strays' = strays
      /\ pc = "tool" \/ pc \in Helper
  BY DEF TimesOut, Helper
<1>2. CASE pc = "tool"
  <2>1. FilesTold(tree')
    BY <1>1, <1>2, InTool
  <2> QED
    BY <1>1, <1>2, <2>1, InTool, RecordKeeps DEF Statuses, Tells
<1>3. CASE pc \in Helper
  <2>1. Current.kind = "generate" \/ FilesTold(tree)
    BY <1>3, InHelper
  <2>2. FilesTold(tree') \/ (Current.kind = "generate" /\ "killed" \in LeftFiles)
    BY <1>1, <2>1 DEF LeftFiles
  <2>3. live' => \/ Told("integration", LeftServices)
                 \/ Current.kind = "integration" /\ "killed" \in LeftServices
    BY <1>1, <1>3, InHelper DEF RcInv, LiveHolds, LeftServices
  <2>4. pc # "done" /\ pc # "begin" /\ live' \in BOOLEAN
    BY <1>1, <1>3, InHelper DEF Helper
  <2>5. tree' = [p \in Paths |-> tree'[p]] /\ snap' = [p \in Paths |-> snap'[p]]
    BY <1>1, <1>3, InHelper
  <2> QED
    BY <1>1, <1>3, <2>1, <2>2, <2>3, <2>4, <2>5, InHelper, RecordKeeps DEF Statuses, Tells
<1> QED
  BY <1>1, <1>2, <1>3

-----------------------------------------------------------------------------
(* The helper *)

\* A step of the helper that records nothing and touches neither the plan nor the
\* results leaves what was told, and the current recipe.
LEMMA StandsStill ==
    ASSUME results' = results, plan' = plan
    PROVE  /\ Current' = Current
           /\ \A kind, how : Told(kind, how)' <=> Told(kind, how)
  BY DEF Current, Told

\* What is told stays so when more is written where nothing cleans up.
LEMMA FilesStand ==
    ASSUME results' = results, strays \subseteq strays', NEW t, FilesTold(t)
    PROVE  Covered(t, strays', Told("generate", LeftFiles)')
  BY DEF FilesTold, Covered, Told

\* Results that stand stay sound.
LEMMA ResultsStand ==
    ASSUME RcInv, results' = results, task' = task, strays \subseteq strays'
    PROVE  ResultsHold'
<1>1. ASSUME NEW k \in 1 .. Len(results) PROVE Sound(results[k])'
  <2>1. Sound(results[k])
    BY DEF RcInv, ResultsHold
  <2>2. results[k].kind = "generate" \/ Covered(results[k].saw, strays', Told("generate", LeftFiles)')
    BY <2>1, FilesStand DEF Sound
  <2> QED
    BY <2>1, <2>2 DEF Sound, FilesTold, Covered, Found, Tells
<1> QED
  BY <1>1 DEF ResultsHold

\* From phase to phase.
LEMMA PhaseKeeps ==
    ASSUME RcInv, UNCHANGED <<task, plan, results, verdict>>, strays \subseteq strays',
           pc # "done", pc' \in Helper \cup {"tool"}, Len(results) < Len(plan),
           pc' \in Helper => Current.tool = "declared",
           pc' = "tool" => Current.tool # "declared",
           pc' \in {"snapshot", "generate"} => Current.form = "generate",
           pc' \in {"up", "down"} => Current.form = "integration",
           pc' = "test" => Current.form # "generate",
           pc' = "down" => step'.status \in Statuses \ {"skipped"} /\ Tells(step'.status, step'.truth),
           live' \in BOOLEAN,
           step' = [status |-> step'.status, truth |-> step'.truth]
    PROVE  PlanHolds' /\ ResultsHold' /\ verdict' # "accepted"
<1>1. Current' = Current
  BY StandsStill
<1>2. ResultsHold'
  BY ResultsStand
<1>3. PlanHolds'
  BY <1>1 DEF RcInv, PlanHolds, Helper, Tells
<1> QED
  BY <1>2, <1>3 DEF RcInv

\* A command starts: a tool, or a helper with the first phase of its form.
LEMMA RcStarts == ASSUME RcInv, Starts PROVE RcInv'
<1>1. /\ pc = "next" /\ Len(results) < Len(plan)
      /\ results' = results /\ plan' = plan /\ tree' = tree /\ snap' = snap /\ step' = step
      /\ live' = live /\ task' = task /\ verdict' = verdict /\ strays' = strays
  BY DEF Starts
<1>2. Current.tool = "declared" => Current.form \in Forms
  BY <1>1, CurrentItem DEF Item
<1>3. /\ pc' \in {"tool", "snapshot", "up", "test"} /\ (pc' = "snapshot" => Current.form = "generate")
      /\ (pc' = "up" => Current.form = "integration") /\ (pc' = "test" => Current.form # "generate")
      /\ (pc' = "tool" <=> Current.tool # "declared")
  BY <1>2 DEF Starts, Forms
<1>4. PlanHolds' /\ ResultsHold' /\ verdict' # "accepted"
  <2>1. step' = [status |-> step'.status, truth |-> step'.truth] /\ live' \in BOOLEAN
    BY <1>1 DEF RcInv, PlanHolds
  <2> QED
    BY <1>1, <1>3, <2>1, PhaseKeeps DEF Helper
<1>5. TreeHolds'
  <2>1. FilesTold(tree)'
    BY <1>1, AtNext DEF FilesTold, Covered, Told, Found
  <2>2. tree' = [p \in Paths |-> tree'[p]] /\ snap' = [p \in Paths |-> snap'[p]]
    BY <1>1, AtNext
  <2> QED
    BY <1>3, <2>1, <2>2 DEF TreeHolds
<1>6. LiveHolds'
  BY <1>1, AtNext DEF LiveHolds, Told
<1> QED
  BY <1>4, <1>5, <1>6 DEF RcInv

\* The run is cancelled between two recipes.
LEMMA RcCancelled == ASSUME RcInv, Cancelled PROVE RcInv'
<1>1. /\ pc = "next" /\ pc' = "done"
      /\ results' = results /\ plan' = plan /\ tree' = tree /\ snap' = snap /\ step' = step
      /\ live' = live /\ task' = task /\ verdict' = verdict /\ strays' = strays
  BY DEF Cancelled
<1>2. PlanHolds'
  BY <1>1 DEF RcInv, PlanHolds, Helper
<1>3. TreeHolds' /\ LiveHolds'
  BY <1>1, AtNext DEF TreeHolds, LiveHolds, FilesTold, Covered, Told, Found
<1>4. ResultsHold'
  BY <1>1, ResultsStand
<1>5. verdict' # "accepted"
  BY <1>1 DEF RcInv
<1> QED
  BY <1>2, <1>3, <1>4, <1>5 DEF RcInv

\* `up` brings a service up, or fails and may leave one.
LEMMA RcUp == ASSUME RcInv, NEW ok \in BOOLEAN, NEW left \in BOOLEAN, UpRuns(ok, left) PROVE RcInv'
<1>1. /\ pc = "up" /\ live' = (live \/ left) /\ pc' = IF ok THEN "test" ELSE "down"
      /\ step' = IF ok THEN step ELSE [status |-> "error", truth |-> "none"]
      /\ results' = results /\ plan' = plan /\ tree' = tree /\ snap' = snap
      /\ task' = task /\ verdict' = verdict /\ strays' = strays
  BY DEF UpRuns
<1>2. /\ Len(results) < Len(plan) /\ Current.tool = "declared" /\ Current.form = "integration"
      /\ FilesTold(tree)
      /\ tree = [p \in Paths |-> tree[p]] /\ snap = [p \in Paths |-> snap[p]]
  BY <1>1, InHelper DEF Helper
<1>3. /\ step' = [status |-> step'.status, truth |-> step'.truth]
      /\ pc' = "down" => step'.status = "error" /\ step'.truth = "none"
  <2>1. step = [status |-> step.status, truth |-> step.truth]
    BY DEF RcInv, PlanHolds
  <2> QED
    BY <1>1, <2>1
<1>4. PlanHolds' /\ ResultsHold' /\ verdict' # "accepted"
  <2>1. live' \in BOOLEAN
    BY <1>1
  <2> QED
    BY <1>1, <1>2, <1>3, <2>1, PhaseKeeps DEF Helper, Statuses, Tells
<1>5. TreeHolds'
  <2>1. FilesTold(tree)'
    BY <1>1, <1>2 DEF FilesTold, Covered, Told, Found
  <2> QED
    BY <1>1, <1>2, <2>1 DEF TreeHolds
<1>6. LiveHolds'
  BY <1>1, <1>2, StandsStill DEF LiveHolds
<1> QED
  BY <1>4, <1>5, <1>6 DEF RcInv

\* The command of a check ends it; the test of an integration step is followed by the teardown.
LEMMA RcTests == ASSUME RcInv, NEW truth \in {"clean", "problem", "none"}, StepTests(truth) PROVE RcInv'
<1>1. PICK status : status = CASE truth = "clean" -> "pass" [] truth = "problem" -> "fail" [] OTHER -> "error"
  OBVIOUS
<1>2. /\ pc = "test"
      /\ plan' = plan /\ tree' = tree /\ snap' = snap /\ live' = live
      /\ task' = task /\ verdict' = verdict /\ strays' = strays
  BY DEF StepTests
<1>3. status \in Statuses \ {"skipped"} /\ Tells(status, truth)
  BY <1>1 DEF Statuses, Tells
<1>4. /\ Len(results) < Len(plan) /\ Current.tool = "declared" /\ Current.form # "generate"
      /\ Current.form \in Forms
      /\ FilesTold(tree) /\ FilesTold(tree') /\ live' \in BOOLEAN
      /\ tree' = [p \in Paths |-> tree'[p]] /\ snap' = [p \in Paths |-> snap'[p]]
  BY <1>2, InHelper DEF Helper
<1>5. CASE Current.form = "check"
  <2>1. Record(status, truth, "none")
    BY <1>1, <1>5 DEF StepTests
  <2>2. live' => Told("integration", LeftServices)
    BY <1>2, <1>5 DEF RcInv, LiveHolds
  <2> QED
    BY <1>2, <1>3, <1>4, <2>1, <2>2, RecordKeeps
<1>6. CASE Current.form # "check"
  <2>1. /\ step' = [status |-> status, truth |-> truth] /\ pc' = "down" /\ results' = results
        /\ Current.form = "integration"
    BY <1>1, <1>4, <1>6 DEF StepTests, Forms
  <2>2. /\ step' = [status |-> step'.status, truth |-> step'.truth]
        /\ step'.status = status /\ step'.truth = truth
    BY <2>1
  <2>3. PlanHolds' /\ ResultsHold' /\ verdict' # "accepted"
    BY <1>2, <1>3, <1>4, <2>1, <2>2, PhaseKeeps DEF Helper
  <2>4. TreeHolds'
    <3>1. FilesTold(tree)'
      BY <1>2, <1>4, <2>1 DEF FilesTold, Covered, Told, Found
    <3> QED
      BY <1>4, <2>1, <3>1 DEF TreeHolds
  <2>5. LiveHolds'
    BY <1>2, <2>1, StandsStill DEF LiveHolds
  <2> QED
    BY <2>3, <2>4, <2>5 DEF RcInv
<1> QED
  BY <1>5, <1>6

\* The teardown ends an integration step.
LEMMA RcTeardown == ASSUME RcInv, NEW ok \in BOOLEAN, Teardown(ok) PROVE RcInv'
<1>1. PICK status, truth, left :
         /\ status = step.status /\ truth = step.truth
         /\ left = IF ~Current.down THEN "no_down" ELSE IF ok THEN "none" ELSE "down_failed"
  OBVIOUS
<1>2. /\ pc = "down" /\ Record(status, truth, left)
      /\ plan' = plan /\ tree' = tree /\ snap' = snap /\ task' = task /\ verdict' = verdict
      /\ strays' = strays
  BY <1>1 DEF Teardown
<1>3. live' \in BOOLEAN /\ (live' => left \in {"no_down", "down_failed"})
  BY <1>1, Zenon DEF Teardown
<1>4. status \in Statuses /\ Tells(status, truth)
  BY <1>1, <1>2 DEF RcInv, PlanHolds
<1>5. /\ Len(results) < Len(plan) /\ Current.kind = "integration"
      /\ FilesTold(tree) /\ FilesTold(tree')
      /\ tree' = [p \in Paths |-> tree'[p]] /\ snap' = [p \in Paths |-> snap'[p]]
  BY <1>2, InHelper DEF Helper
<1>6. live' => Current.kind = "integration" /\ left \in LeftServices
  BY <1>3, <1>5 DEF LeftServices
<1>7. left \notin {"not_restored", "killed", "unseen"}
  BY <1>1
<1> QED
  BY <1>2, <1>3, <1>4, <1>5, <1>6, <1>7, RecordKeeps

\* A generator begins with the snapshot of what is told.
LEMMA RcSnapshot == ASSUME RcInv, NEW ok \in BOOLEAN, Snapshot(ok) PROVE RcInv'
<1>1. /\ pc = "snapshot"
      /\ plan' = plan /\ tree' = tree /\ live' = live /\ task' = task /\ verdict' = verdict
      /\ strays' = strays
  BY DEF Snapshot
<1>2. /\ Len(results) < Len(plan) /\ Current.tool = "declared" /\ Current.form = "generate"
      /\ Current.kind = "generate"
      /\ FilesTold(tree) /\ FilesTold(tree') /\ live' \in BOOLEAN
      /\ tree' = [p \in Paths |-> tree'[p]] /\ snap = [p \in Paths |-> snap[p]]
  BY <1>1, InHelper DEF Helper
<1>3. live => Told("integration", LeftServices)
  BY <1>1 DEF RcInv, LiveHolds
<1>4. CASE ok
  <2>1. snap' = tree /\ pc' = "generate" /\ results' = results /\ step' = step
    BY <1>4 DEF Snapshot
  <2>2. step' = [status |-> step'.status, truth |-> step'.truth]
    BY <2>1 DEF RcInv, PlanHolds
  <2>3. PlanHolds' /\ ResultsHold' /\ verdict' # "accepted"
    BY <1>1, <1>2, <2>1, <2>2, PhaseKeeps DEF Helper
  <2>4. TreeHolds'
    <3>1. FilesTold(snap)'
      BY <1>1, <1>2, <2>1 DEF FilesTold, Covered, Told, Found
    <3> QED
      BY <1>1, <1>2, <2>1, <3>1 DEF TreeHolds
  <2>5. LiveHolds'
    BY <1>1, <1>3, <2>1, StandsStill DEF LiveHolds
  <2> QED
    BY <2>3, <2>4, <2>5 DEF RcInv
<1>5. CASE ~ok
  <2>1. snap' = snap /\ Record("error", "none", "none")
    BY <1>5 DEF Snapshot
  <2> QED
    BY <1>1, <1>2, <1>3, <2>1, RecordKeeps DEF Statuses, Tells
<1> QED
  BY <1>4, <1>5

\* While a generator runs its outputs differ from the snapshot, and what nothing cleans up.
LEMMA Generating ==
    ASSUME RcInv, pc = "generate"
    PROVE  /\ Len(results) < Len(plan) /\ Current.tool = "declared" /\ Current.form = "generate"
           /\ Current.kind = "generate" /\ live \in BOOLEAN
           /\ tree = [p \in Paths |-> tree[p]] /\ snap = [p \in Paths |-> snap[p]]
           /\ FilesTold(snap)
           /\ \A p \in Paths \ Current.outputs : tree[p] = snap[p] \/ p \in strays
           /\ FilesTold(Restored(Current.outputs))
           /\ live => Told("integration", LeftServices)
<1>1. /\ Len(results) < Len(plan) /\ Current.tool = "declared" /\ Current.form = "generate"
      /\ Current.kind = "generate" /\ live \in BOOLEAN
      /\ tree = [p \in Paths |-> tree[p]] /\ snap = [p \in Paths |-> snap[p]]
  BY InHelper DEF Helper
<1>2. FilesTold(snap) /\ \A p \in Paths \ Current.outputs : tree[p] = snap[p] \/ p \in strays
  BY DEF RcInv, TreeHolds
<1>3. FilesTold(Restored(Current.outputs))
  BY <1>1, <1>2 DEF Restored, FilesTold, Covered
<1>4. live => Told("integration", LeftServices)
  BY DEF RcInv, LiveHolds
<1> QED
  BY <1>1, <1>2, <1>3, <1>4

\* A running command writes an output that will be put back, or where nothing cleans up.
LEMMA RcWrites ==
    ASSUME RcInv, NEW path \in Paths, NEW content, CommandWrites(path, content)
    PROVE  RcInv'
<1>1. /\ pc \in {"tool", "up", "test", "down", "generate"} /\ pc' = pc
      /\ tree' = [tree EXCEPT ![path] = content]
      /\ plan' = plan /\ results' = results /\ snap' = snap /\ step' = step
      /\ live' = live /\ task' = task /\ verdict' = verdict /\ strays \subseteq strays'
      /\ path \in strays' \/ (pc = "generate" /\ path \in Current.outputs)
  BY DEF CommandWrites
<1>2. Current' = Current
  BY <1>1, StandsStill
<1>3. PlanHolds'
  BY <1>1, <1>2 DEF RcInv, PlanHolds, Tells
<1>4. ResultsHold'
  BY <1>1, ResultsStand
<1>5. tree = [p \in Paths |-> tree[p]] /\ snap = [p \in Paths |-> snap[p]]
  BY DEF RcInv, TreeHolds
<1>6. tree' = [p \in Paths |-> tree'[p]] /\ \A p \in Paths : p # path => tree'[p] = tree[p]
  BY <1>1, <1>5
<1>7. TreeHolds'
  <2>1. CASE pc = "generate"
    <3>1. Covered(snap, strays', Told("generate", LeftFiles)')
      BY <1>1, <2>1, Generating, FilesStand
    <3>2. FilesTold(snap)'
      BY <1>1, <3>1 DEF FilesTold, Covered, Found
    <3>3. \A p \in Paths \ Current.outputs : tree'[p] = snap'[p] \/ p \in strays'
      BY <1>1, <1>6, <2>1, Generating
    <3> QED
      BY <1>1, <1>2, <1>5, <1>6, <2>1, <3>2, <3>3 DEF TreeHolds
  <2>2. CASE pc # "generate"
    <3>1. Covered(tree, strays', Told("generate", LeftFiles)') /\ path \in strays'
      <4>1. FilesTold(tree)
        BY <2>2 DEF RcInv, TreeHolds
      <4> QED
        BY <1>1, <2>2, <4>1, FilesStand
    <3>2. FilesTold(tree)'
      BY <1>6, <3>1 DEF FilesTold, Covered, Found
    <3> QED
      BY <1>1, <1>5, <1>6, <2>2, <3>2 DEF TreeHolds
  <2> QED
    BY <2>1, <2>2
<1>8. LiveHolds'
  BY <1>1, <1>2 DEF RcInv, LiveHolds, Told
<1>9. verdict' # "accepted"
  BY <1>1 DEF RcInv
<1> QED
  BY <1>3, <1>4, <1>7, <1>8, <1>9 DEF RcInv

\* A generator that ran: its outputs are back, or the result fails for that.
LEMMA RcEnds == ASSUME RcInv, NEW ok \in BOOLEAN, GeneratorEnds(ok) PROVE RcInv'
<1>1. /\ pc = "generate"
      /\ plan' = plan /\ snap' = snap /\ live' = live /\ task' = task /\ verdict' = verdict
      /\ strays' = strays
  BY DEF GeneratorEnds
<1>2. CASE ok
  <2>1. PICK status, truth : /\ status = IF Differs THEN "fail" ELSE "pass"
                             /\ truth = IF Differs THEN "problem" ELSE "clean"
    OBVIOUS
  <2>2. tree' = Restored(Current.outputs) /\ Record(status, truth, "none")
    BY <1>2, <2>1 DEF GeneratorEnds
  <2>3. status \in Statuses /\ Tells(status, truth)
    BY <2>1 DEF Statuses, Tells
  <2>4. FilesTold(tree')
    BY <1>1, <2>2, Generating
  <2>5. tree' = [p \in Paths |-> tree'[p]] /\ snap' = [p \in Paths |-> snap'[p]]
    BY <1>1, <2>2, Generating DEF Restored
  <2> QED
    BY <1>1, <2>2, <2>3, <2>4, <2>5, Generating, RecordKeeps
<1>3. CASE ~ok
  <2>1. PICK back : tree' = Restored(back) /\ Record("fail", "none", "not_restored")
    BY <1>3 DEF GeneratorEnds
  <2>2. tree' = [p \in Paths |-> tree'[p]] /\ snap' = [p \in Paths |-> snap'[p]]
    BY <1>1, <2>1, Generating DEF Restored
  <2> QED
    BY <1>1, <2>1, <2>2, Generating, RecordKeeps DEF Statuses, LeftFiles, Tells
<1> QED
  BY <1>2, <1>3

\* A generator that failed: its outputs are back, or nobody looked.
LEMMA RcFails == ASSUME RcInv, NEW ok \in BOOLEAN, GeneratorFails(ok) PROVE RcInv'
<1>1. /\ pc = "generate"
      /\ plan' = plan /\ snap' = snap /\ live' = live /\ task' = task /\ verdict' = verdict
      /\ strays' = strays
  BY DEF GeneratorFails
<1>2. PICK left : left = IF ok THEN "none" ELSE "unseen"
  OBVIOUS
<1>3. PICK back : (ok <=> back = Current.outputs) /\ tree' = Restored(back) /\ Record("error", "none", left)
  BY <1>2 DEF GeneratorFails
<1>4. tree' = [p \in Paths |-> tree'[p]] /\ snap' = [p \in Paths |-> snap'[p]]
  BY <1>1, <1>3, Generating DEF Restored
<1>5. FilesTold(tree') \/ (Current.kind = "generate" /\ left \in LeftFiles)
  BY <1>1, <1>2, <1>3, Generating DEF LeftFiles
<1>6. left # "not_restored"
  BY <1>2
<1> QED
  BY <1>1, <1>3, <1>4, <1>5, <1>6, Generating, RecordKeeps DEF Statuses, Tells

-----------------------------------------------------------------------------
(* The contracts *)

\* The worst of a kind is a status of that kind, and none of that kind is worse.
LEMMA WorstStands ==
    ASSUME RcInv, NEW kind, NEW k \in DOMAIN results, results[k].kind = kind
    PROVE  /\ WorstOfKind(kind) \in Statuses
           /\ Rank[results[k].status] <= Rank[WorstOfKind(kind)]
<1>1. PICK of : of = {results[j].status : j \in {j \in DOMAIN results : results[j].kind = kind}}
  OBVIOUS
<1>2. results[k].status \in of
  BY <1>1
<1>3. of \subseteq Statuses
  <2>1. DOMAIN results = 1 .. Len(results)
    BY DEF RcInv, PlanHolds
  <2>2. \A j \in DOMAIN results : results[j].status \in Statuses
    BY <2>1 DEF RcInv, ResultsHold, Sound
  <2> QED
    BY <1>1, <2>2
<1>4. Rank = [pass |-> 0, skipped |-> 1, error |-> 2, fail |-> 3]
  BY DEF Rank
<1>5. /\ Rank["pass"] = 0 /\ Rank["skipped"] = 1 /\ Rank["error"] = 2 /\ Rank["fail"] = 3
  BY <1>4
<1>6. \E s \in of : \A t \in of : Rank[t] <= Rank[s]
  <2>1. CASE "fail" \in of
    BY <1>3, <1>5, <2>1 DEF Statuses
  <2>2. CASE "fail" \notin of /\ "error" \in of
    BY <1>3, <1>5, <2>2 DEF Statuses
  <2>3. CASE "fail" \notin of /\ "error" \notin of /\ "skipped" \in of
    BY <1>3, <1>5, <2>3 DEF Statuses
  <2>4. CASE "fail" \notin of /\ "error" \notin of /\ "skipped" \notin of
    <3>1. \A t \in of : t = "pass"
      BY <1>3, <2>4 DEF Statuses
    <3> QED
      BY <1>2, <1>5, <3>1
  <2> QED
    BY <2>1, <2>2, <2>3, <2>4
<1>7. WorstOfKind(kind) = CHOOSE s \in of : \A t \in of : Rank[t] <= Rank[s]
  BY <1>1, <1>2 DEF WorstOfKind
<1>8. WorstOfKind(kind) \in of /\ \A t \in of : Rank[t] <= Rank[WorstOfKind(kind)]
  BY <1>6, <1>7
<1> QED
  BY <1>2, <1>3, <1>8

\* The contracts accept nothing that was not checked.
LEMMA RcDecide == ASSUME RcInv, NEW inScope \in BOOLEAN, NEW made \in BOOLEAN, Decide(inScope, made) PROVE RcInv'
<1>1. /\ pc = "next" /\ pc' = "done"
      /\ plan' = plan /\ results' = results /\ tree' = tree /\ snap' = snap /\ step' = step
      /\ live' = live /\ task' = task /\ strays' = strays
  BY DEF Decide
<1>2. Current' = Current
  BY <1>1, StandsStill
<1>3. PlanHolds'
  BY <1>1 DEF RcInv, PlanHolds, Helper
<1>4. TreeHolds' /\ LiveHolds'
  BY <1>1, AtNext DEF TreeHolds, LiveHolds, FilesTold, Covered, Told, Found
<1>5. ResultsHold'
  BY <1>1, ResultsStand
<1>6. ASSUME verdict' = "accepted" PROVE AcceptedIsChecked'
  <2>1. DOMAIN results = 1 .. Len(results)
    BY DEF RcInv, PlanHolds
  <2>2. \A k \in DOMAIN results : Sound(results[k])
    BY <2>1 DEF RcInv, ResultsHold
  <2>3. \A k \in DOMAIN results : results[k].status # "fail"
    <3>1. CASE task.frozen
      BY <1>6, <3>1 DEF Decide
    <3>2. CASE ~task.frozen
      <4> SUFFICES ASSUME NEW k \in DOMAIN results, results[k].status = "fail" PROVE FALSE
        OBVIOUS
      <4>1. PICK kind : kind = results[k].kind
        OBVIOUS
      <4>2. kind \in Kinds
        BY <2>2, <3>2, <4>1 DEF Sound
      <4>3. WorstOfKind(kind) # "fail"
        BY <1>6, <3>2, <4>2 DEF Decide, Accept
      <4>4. WorstOfKind(kind) \in Statuses /\ Rank[results[k].status] <= Rank[WorstOfKind(kind)]
        BY <4>1, WorstStands
      <4> QED
        BY <4>3, <4>4 DEF Statuses, Rank
    <3> QED
      BY <3>1, <3>2
  <2>4. ASSUME NEW kind \in Required(task.level), ~task.frozen
        PROVE  /\ \E k \in DOMAIN results : results[k].kind = kind
               /\ \A k \in DOMAIN results : results[k].kind = kind => results[k].truth = "clean"
    <3>1. WorstOfKind(kind) = "pass"
      BY <1>6, <2>4 DEF Decide, Accept
    <3>2. \E k \in DOMAIN results : results[k].kind = kind
      BY <3>1 DEF WorstOfKind
    <3>3. ASSUME NEW k \in DOMAIN results, results[k].kind = kind PROVE results[k].truth = "clean"
      <4>1. Rank[results[k].status] <= Rank["pass"]
        BY <3>1, <3>3, WorstStands
      <4>2. results[k].status = "pass"
        BY <2>2, <4>1 DEF Sound, Statuses, Rank
      <4> QED
        BY <2>2, <4>2 DEF Sound, Tells
    <3> QED
      BY <3>2, <3>3
  <2>5. ASSUME NEW k \in DOMAIN results
        PROVE  /\ results[k].truth = "problem" => ~task.frozen /\ results[k].status = "error"
               /\ (task.frozen /\ results[k].status # "skipped") => results[k].truth = "clean"
               /\ results[k].kind = "generate" \/ \A p \in Paths :
                    \/ results[k].saw[p] = Found[p] \/ p \in strays
                    \/ ~task.frozen /\ \E j \in DOMAIN results :
                          results[j].kind = "generate" /\ results[j].left \in {"killed", "unseen"}
    <3>1. task.frozen => \A j \in DOMAIN results : results[j].status \notin {"fail", "error"}
      BY <1>6 DEF Decide
    <3>2. results[k].truth = "problem" => ~task.frozen /\ results[k].status = "error"
      BY <2>2, <2>3, <3>1 DEF Sound, Tells
    <3>3. ASSUME task.frozen, results[k].status # "skipped" PROVE results[k].truth = "clean"
      <4>1. results[k].status = "pass"
        BY <2>2, <3>1, <3>3 DEF Sound, Statuses
      <4> QED
        BY <2>2, <4>1 DEF Sound, Tells
    <3>4. results[k].kind = "generate" \/ FilesTold(results[k].saw)
      BY <2>2 DEF Sound
    <3>5. ASSUME Told("generate", LeftFiles)
          PROVE  ~task.frozen /\ \E j \in DOMAIN results :
                    results[j].kind = "generate" /\ results[j].left \in {"killed", "unseen"}
      <4>1. PICK j \in DOMAIN results : results[j].kind = "generate" /\ results[j].left \in LeftFiles
        BY <2>1, <3>5 DEF Told
      <4>2. results[j].left # "not_restored"
        BY <2>2, <2>3 DEF Sound
      <4>3. results[j].left \in {"killed", "unseen"}
        BY <4>1, <4>2 DEF LeftFiles
      <4>4. ~task.frozen
        BY <2>2, <3>1, <4>3 DEF Sound
      <4> QED
        BY <4>1, <4>3, <4>4
    <3> QED
      BY <3>2, <3>3, <3>4, <3>5 DEF FilesTold, Covered
  <2> QED
    BY <1>1, <2>4, <2>5 DEF AcceptedIsChecked, Found
<1> QED
  BY <1>1, <1>3, <1>4, <1>5, <1>6 DEF RcInv

\* The initial states.
LEMMA RcInit_Inv == ASSUME RcConstants, RcInit PROVE RcInv
<1>1. /\ pc = "begin" /\ plan = <<>> /\ results = <<>> /\ tree = Found /\ snap = Found
      /\ step = NoStep /\ live = FALSE /\ verdict = "none"
      /\ task \in Tasks /\ task.frozen \in BOOLEAN
  BY DEF RcInit, RcConstants
<1>2. PlanHolds
  <2>1. /\ plan \in Seq({plan[k] : k \in DOMAIN plan})
        /\ results \in Seq({results[k] : k \in DOMAIN results})
        /\ Len(plan) = 0 /\ Len(results) = 0
    BY <1>1
  <2>2. step = [status |-> step.status, truth |-> step.truth]
    BY <1>1 DEF NoStep
  <2>3. \A k \in 1 .. Len(plan) : Item(plan[k], task.frozen)
    BY <2>1
  <2>4. Len(results) <= Len(plan)
    BY <2>1
  <2>5. pc \notin Helper /\ pc = "begin" /\ live \in BOOLEAN
    BY <1>1 DEF Helper
  <2> QED
    BY <1>1, <2>1, <2>2, <2>3, <2>4, <2>5, Zenon DEF PlanHolds
<1>3. TreeHolds /\ LiveHolds /\ ResultsHold
  BY <1>1 DEF TreeHolds, LiveHolds, ResultsHold, FilesTold, Covered, Found
<1> QED
  BY <1>1, <1>2, <1>3 DEF RcInv

\* Every step keeps the invariant.
LEMMA RcStep == ASSUME RcConstants, RcInv, [RcNext]_rcvars PROVE RcInv'
<1>1. CASE VerifyBegin
  BY <1>1, RcBegin
<1>2. CASE Skip
  BY <1>2, RcSkip
<1>3. CASE TimesOut
  BY <1>3, RcTimesOut
<1>4. CASE Starts
  BY <1>4, RcStarts
<1>5. ASSUME NEW truth \in {"clean", "problem", "none"}, StepTests(truth) PROVE RcInv'
  BY <1>5, RcTests
<1>6. ASSUME NEW truth \in {"clean", "problem", "none"},
             NEW exit \in {0, 1, 2, 3, 126, 127},
             NEW output \in {"nothing", "findings", "races", "errors", "both", "cut"},
             ToolEnds(truth, <<exit, output>>)
      PROVE  RcInv'
  BY <1>6, RcTool
<1>7. ASSUME NEW ok \in BOOLEAN, Teardown(ok) PROVE RcInv'
  BY <1>7, RcTeardown
<1>8. ASSUME NEW ok \in BOOLEAN, Snapshot(ok) PROVE RcInv'
  BY <1>8, RcSnapshot
<1>9. ASSUME NEW ok \in BOOLEAN, GeneratorEnds(ok) PROVE RcInv'
  BY <1>9, RcEnds
<1>10. ASSUME NEW ok \in BOOLEAN, GeneratorFails(ok) PROVE RcInv'
  BY <1>10, RcFails
<1>11. ASSUME NEW ok \in BOOLEAN, NEW left \in BOOLEAN, UpRuns(ok, left) PROVE RcInv'
  BY <1>11, RcUp
<1>12. ASSUME NEW path \in Paths, NEW content \in 0 .. 2, CommandWrites(path, content) PROVE RcInv'
  BY <1>12, RcWrites
<1>13. ASSUME NEW inScope \in BOOLEAN, NEW made \in BOOLEAN, Decide(inScope, made) PROVE RcInv'
  BY <1>13, RcDecide
<1>15. CASE Cancelled
  BY <1>15, RcCancelled
<1>14. CASE UNCHANGED rcvars
  <2>1. /\ task' = task /\ pc' = pc /\ plan' = plan /\ results' = results /\ tree' = tree
        /\ snap' = snap /\ step' = step /\ live' = live /\ verdict' = verdict /\ strays' = strays
    BY <1>14 DEF rcvars
  <2>2. Current' = Current
    BY <2>1, StandsStill
  <2>3. PlanHolds'
    BY <2>1, <2>2 DEF RcInv, PlanHolds, Tells
  <2>4. TreeHolds'
    BY <2>1, <2>2 DEF RcInv, TreeHolds, FilesTold, Covered, Told, Found
  <2>5. LiveHolds'
    BY <2>1, <2>2 DEF RcInv, LiveHolds, Told
  <2>6. ResultsHold'
    BY <2>1, ResultsStand
  <2>7. AcceptedIsChecked => AcceptedIsChecked'
    BY <2>1 DEF AcceptedIsChecked, Found
  <2> QED
    BY <2>1, <2>3, <2>4, <2>5, <2>6, <2>7 DEF RcInv
<1> QED
  BY <1>1, <1>2, <1>3, <1>4, <1>5, <1>6, <1>7, <1>8, <1>9, <1>10, <1>11, <1>12, <1>13, <1>14,
     <1>15 DEF RcNext

\* Whatever verification leaves in the worktree or running when a recipe has ended has
\* a cause: a file was written where nothing cleans up (by a tool, a preset, or a
\* generator outside its outputs), or a result tells of a generator that was killed,
\* could not put its outputs back or failed without looking; what is running is of an
\* integration step that was killed or has no working `down` (RunAll, runGenerate,
\* runIntegration, teardown).  For every repository, also with frozen generate
\* presets and with commands that write where they like.
THEOREM CleanedUpOrReported == ASSUME RcConstants PROVE RcSpec => []LeftIsReported
<1>1. RcInit => RcInv
  BY RcInit_Inv
<1>2. RcInv /\ [RcNext]_rcvars => RcInv'
  BY RcStep
<1>3. RcInv => LeftIsReported
  <2>1. SUFFICES ASSUME RcInv, pc \in {"next", "done"} PROVE
        /\ \A p \in Paths : tree[p] = Found[p] \/ p \in strays \/ Told("generate", LeftFiles)
        /\ live => Told("integration", LeftServices)
    <3>1. RcInv => DOMAIN results = 1 .. Len(results)
      BY DEF RcInv, PlanHolds
    <3> QED
      BY <2>1, <3>1 DEF LeftIsReported, Told, LeftFiles, LeftServices
  <2> QED
    BY <2>1 DEF RcInv, TreeHolds, LiveHolds, FilesTold, Covered
<1> QED
  BY <1>1, <1>2, <1>3, PTL DEF RcSpec

\* An accepted candidate was checked in full by every kind its level requires; a
\* problem that another check found went with an error of that check, which the
\* completion contract does not count, and with frozen presets there is none; and the
\* checks saw the worktree as it was found but for what commands wrote where nothing
\* cleans up and, without presets, for a generator that was killed or failed
\* (Accept, CheckPresets).
THEOREM AcceptanceIsEarned == ASSUME RcConstants PROVE RcSpec => []AcceptedIsChecked
<1>1. RcInit => RcInv
  BY RcInit_Inv
<1>2. RcInv /\ [RcNext]_rcvars => RcInv'
  BY RcStep
<1>3. RcInv => AcceptedIsChecked
  <2>1. SUFFICES ASSUME RcInv, verdict = "accepted" PROVE AcceptedIsChecked
    BY DEF AcceptedIsChecked
  <2> QED
    BY <2>1 DEF RcInv
<1> QED
  BY <1>1, <1>2, <1>3, PTL DEF RcSpec
=============================================================================
