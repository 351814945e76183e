------------------------------ MODULE Context ------------------------------
(***************************************************************************)
(* What a model is told.  Retriever.Build puts a packet of code together   *)
(* under a token budget; ensurePrefix builds the frozen region of a task   *)
(* once and stores it with the workflow; every phase call packs that       *)
(* prefix, its fenced evidence and its instruction, and is refused when    *)
(* they do not fit.  The index and the project notes change under a task,  *)
(* and the supervisor may be killed and started again at any point.        *)
(*                                                                         *)
(* A text is its cost in tokens and, where it matters, a version of it.    *)
(***************************************************************************)
EXTENDS Naturals, Sequences, FiniteSets, SequencesExt

CONSTANTS
    Anchors,        \* lexical hits, best first
    Named,          \* slices of the nodes a request can name
    Reached,        \* slices the graph can reach from them
    Consumers,      \* slices of the nodes an impact analysis can find
    ProjectNotes,   \* notes of the repository
    MemoryNotes,    \* notes of the workspace, newest first
    PacketBudget,   \* tokens of a packet
    Declarations,   \* version of the index -> its declarations, by rank
    MapBudget,      \* tokens of the repository map
    EvidenceCosts,  \* what the evidence of a call may cost
    PrefixCeiling, LogFloor, ContextTokens, OutputTokens,   \* a phase's budget
    MaxTokens,      \* the task's token budget; 0 for none
    MaxChanges,     \* bound on changes of the index and the notes
    MaxFences       \* bound on the fences minted

VARIABLES
    world,   \* the index and the notes now
    row,     \* the stored workflow
    mem,     \* the workflow in memory
    step,    \* the call LOCALIZE is at, in memory only
    up,      \* a supervisor is running the task
    packet,  \* the packet of the last Build, and what it was built from
    sent,    \* the frozen region of every call made
    fences   \* fences minted

cxvars == <<world, row, mem, step, up, packet, sent, fences>>

-----------------------------------------------------------------------------
(* A packet.                                                               *)

Share(percent) == (PacketBudget * percent) \div 100

Cost(s) == s.cost
Total(seq) == FoldSeq(LAMBDA s, n : n + s.cost, 0, seq)

\* Slice.Validate and Guard: a slice of another workspace, or one without its
\* provenance, is refused.
Guard(seq) == SelectSeq(seq, LAMBDA s : ~ s.foreign /\ s.valid)

EmptyPacket ==
    [slices |-> <<>>, notes |-> <<>>, tokens |-> 0, dropped |-> 0, graph |-> 0,
     seen |-> {}]

\* The notes of the repository that still hold, then those of the workspace,
\* each within its share of the budget; one that does not fit is passed over.
AddNote(note, pkt) ==
    IF note.stale \/ Total(pkt) + note.cost > Share(15) THEN pkt
    ELSE Append(pkt, note)
Notes(seq) == FoldLeft(LAMBDA pkt, note : AddNote(note, pkt), <<>>, seq)

\* One slice of Build's loop.  What an impact analysis found is kept whatever
\* it costs; a node is marked seen before it is known to fit.
AddSlice(pkt, s) ==
    LET marked == [pkt EXCEPT !.seen = @ \cup ({s.node} \ {0})]
        refused == [marked EXCEPT !.dropped = @ + 1]
    IN  IF s.sensitive THEN [pkt EXCEPT !.dropped = @ + 1]
        ELSE IF s.node # 0 /\ s.node \in pkt.seen THEN pkt
        ELSE IF s.origin = "graph" /\ pkt.graph + s.cost > Share(33) THEN refused
        ELSE IF s.origin # "impact" /\ pkt.tokens + s.cost > PacketBudget THEN refused
        ELSE [marked EXCEPT !.slices = Append(@, s), !.tokens = @ + s.cost,
                            !.graph = IF s.origin = "graph" THEN @ + s.cost ELSE @]

Fill(pkt, seq) == FoldLeft(AddSlice, pkt, seq)

\* The slices in the order they are offered.
CandidatesFirst(mandatory, candidates) == candidates \o mandatory
Offered(mandatory, candidates) == mandatory \o candidates

\* Retriever.Build.
Build(anchors, named, reached, consumers, project, notes) ==
    LET offered == Offered(consumers, anchors \o named \o reached)
        own == Notes(project)
        kept == Notes(notes)
        start == [EmptyPacket EXCEPT !.notes = own \o kept,
                                     !.tokens = Total(own) + Total(kept)]
    IN  Fill(start, Guard(offered))

\* The subsequences of a sequence, for what a query happens to find.
Subseqs(seq) == {SelectSeq(seq, LAMBDA s : s \in S) : S \in SUBSET Range(seq)}

\* RepoMap: the declarations by rank, each kept if it still fits.
RepoMap(version) ==
    FoldLeft(LAMBDA m, d : IF d.sensitive \/ Total(m) + d.cost > MapBudget THEN m
                           ELSE Append(m, d),
             <<>>, Declarations[version])

-----------------------------------------------------------------------------
(* The frozen region and the pack of a call.                               *)

NoPrefix == [policy |-> FALSE, card |-> 0, map |-> <<>>, task |-> 0]
NoWorkflow == [phase |-> "intake", prefix |-> NoPrefix, fence |-> 0, tokens |-> 0, plans |-> 0]

\* Pack.PrefixTokens: the policy, the repository card, the map, the task card.
PrefixTokens(p) == 1 + 1 + Total(p.map) + 1 + p.task

\* packBudget.
LogRoom ==
    IF ContextTokens < PrefixCeiling + OutputTokens + LogFloor THEN LogFloor
    ELSE ContextTokens - PrefixCeiling - OutputTokens

\* contextpack.New, Pack.Append, the admission check of decide, and what is
\* left of the task's tokens.
Admitted(s, cost) ==
    /\ PrefixTokens(s.prefix) <= PrefixCeiling
    /\ cost <= LogRoom
    /\ PrefixTokens(s.prefix) + cost + OutputTokens <= ContextTokens
    /\ MaxTokens > 0 => MaxTokens - s.tokens > PrefixTokens(s.prefix) + cost

NoPacket == EmptyPacket @@ [mandatory |-> <<>>, offered |-> <<>>]

CxInit ==
    /\ world = [index |-> 1, notes |-> 1]
    /\ row = NoWorkflow /\ mem = NoWorkflow /\ step = 1 /\ up = FALSE
    /\ packet = NoPacket
    /\ sent = {} /\ fences = 0

\* A packet lives for the call it was built for.
PacketGone == packet' = NoPacket

\* The task is run, or run again: the stored workflow is read back.
Start ==
    /\ ~ up
    /\ up' = TRUE /\ mem' = row
    /\ PacketGone /\ UNCHANGED <<world, row, step, sent, fences>>

\* The supervisor dies with what it had in memory.
Killed ==
    /\ up
    /\ up' = FALSE /\ mem' = NoWorkflow /\ step' = 1
    /\ PacketGone /\ UNCHANGED <<world, row, sent, fences>>

\* The watcher reindexes, or somebody edits the notes of the repository.
Change ==
    /\ world.index + world.notes - 2 < MaxChanges
    /\ \/ world' = [world EXCEPT !.index = @ + 1] /\ world'.index \in DOMAIN Declarations
       \/ world' = [world EXCEPT !.notes = @ + 1]
    /\ PacketGone /\ UNCHANGED <<row, mem, step, up, sent, fences>>

\* stop: the workflow as it stands is stored, or that fails too, and the run
\* ends.
Stop(s) ==
    /\ row' \in {row, s}
    /\ up' = FALSE /\ mem' = NoWorkflow /\ step' = 1
    /\ PacketGone /\ UNCHANGED <<world, sent>>

\* A step that stores the workflow goes on when it is stored.
Store(s) ==
    \/ /\ row' = s /\ mem' = s
       /\ PacketGone /\ UNCHANGED <<world, step, up, sent>>
    \/ Stop(s)

\* ensurePrefix: built once; the policy is set before the map is asked for,
\* and the map of an index that cannot be read stays empty.
WithPrefix(s) ==
    IF s.prefix.policy THEN s.prefix
    ELSE [policy |-> TRUE, card |-> world.notes, map |-> RepoMap(world.index), task |-> 0]

Intake ==
    /\ up /\ mem.phase = "intake"
    /\ \/ Store([mem EXCEPT !.prefix = WithPrefix(mem), !.phase = "localize"])
       \/ ~ mem.prefix.policy /\ Stop([mem EXCEPT !.prefix = [WithPrefix(mem) EXCEPT !.map = <<>>]])
    /\ UNCHANGED fences

\* The phases that ask a model through decide.
Asking == {"localize", "planning", "review"}

\* taskFence: minted once per task and stored before it is used.
MintOnly ==
    /\ up /\ mem.phase \in Asking /\ mem.fence = 0 /\ fences < MaxFences
    /\ fences' = fences + 1
    /\ mem' = [mem EXCEPT !.fence = fences']
    /\ PacketGone /\ UNCHANGED <<world, row, step, up, sent>>

TaskFence ==
    /\ up /\ mem.phase \in Asking /\ mem.fence = 0 /\ fences < MaxFences
    /\ fences' = fences + 1
    /\ Store([mem EXCEPT !.fence = fences'])

\* decide: one call of a phase.  The answer's cost is added to the task's and
\* stored; an answer may be unusable.
Call(next) ==
    /\ mem.fence # 0
    /\ \E cost \in EvidenceCosts :
          /\ Admitted(mem, cost)
          /\ sent' = sent \cup {[prefix |-> [mem.prefix EXCEPT !.task = 0],
                                 fence |-> mem.fence]}
          /\ LET paid == [mem EXCEPT !.tokens =
                            IF MaxTokens = 0 THEN 0 ELSE @ + PrefixTokens(mem.prefix) + cost]
             IN  \/ /\ row' = [paid EXCEPT !.phase = next.phase, !.plans = next.plans,
                                           !.prefix.task = next.task]
                    /\ mem' = row' /\ step' = next.step
                    /\ PacketGone /\ UNCHANGED <<world, up, fences>>
                 \/ /\ row' \in {row, paid}
                    /\ up' = FALSE /\ mem' = NoWorkflow /\ step' = 1
                    /\ PacketGone /\ UNCHANGED <<world, fences>>

\* decide refused: the call is never made with less than its evidence.
TooLarge ==
    /\ up /\ mem.phase \in Asking /\ mem.fence # 0
    /\ \E cost \in EvidenceCosts : ~ Admitted(mem, cost)
    /\ Stop(mem)
    /\ UNCHANGED fences

Onward(phase, call) ==
    [phase |-> phase, step |-> call, plans |-> mem.plans, task |-> mem.prefix.task]

\* localize: three calls over structure, signatures and bodies.  Only the phase and
\* the tokens are stored, so a run that was killed begins with the first again.
Localize ==
    /\ up /\ mem.phase = "localize"
    /\ Call(IF step < 3 THEN Onward("localize", step + 1) ELSE Onward("impact", 1))

\* A packet is built for the impact of the chosen symbols, and again, with
\* the notes, for the edit.
Packed(project) ==
    \E a \in Subseqs(Anchors), n \in Subseqs(Named), g \in Subseqs(Reached),
       c \in Subseqs(Consumers) :
          packet' = Build(a, n, g, c, project, MemoryNotes)
                    @@ [mandatory |-> c, offered |-> Guard(a \o n \o g)]

Impact ==
    /\ up /\ mem.phase = "impact"
    /\ Packed(<<>>)
    /\ row' = [mem EXCEPT !.phase = "planning"] /\ mem' = row'
    /\ UNCHANGED <<world, step, up, sent, fences>>

\* The plan is made; the task card gains it, and the rest of the prefix is
\* left as it was.
Planning ==
    /\ up /\ mem.phase = "planning"
    /\ Call([phase |-> "edit", step |-> 1, plans |-> mem.plans + 1, task |-> 1])

\* A plan that does not hold up is made again within the phase.
PlanRejected ==
    /\ up /\ mem.phase = "planning"
    /\ Call(Onward("planning", 1))

\* The edit and its verification, which calls no decide: on to the review, or back
\* to a new plan.
EditPhase ==
    /\ up /\ mem.phase = "edit"
    /\ Packed(ProjectNotes)
    /\ \/ row' = [mem EXCEPT !.phase = "review"]
       \/ mem.plans < 2 /\ row' = [mem EXCEPT !.phase = "planning"]
    /\ mem' = row'
    /\ UNCHANGED <<world, step, up, sent, fences>>

\* The review accepts the change, or sends it back to the edit.
Review(phase) ==
    /\ up /\ mem.phase = "review"
    /\ Call(Onward(phase, 1))

CxNext ==
    \/ Start \/ Killed \/ Change \/ Intake \/ TaskFence \/ TooLarge \/ Localize
    \/ Impact \/ Planning \/ PlanRejected \/ EditPhase
    \/ \E phase \in {"done", "edit"} : Review(phase)

CxSpec == CxInit /\ [][CxNext]_cxvars

-----------------------------------------------------------------------------
(* Properties.                                                             *)

\* Every call of a task sends the same frozen region: whatever happened to
\* the index and the notes since, and however often the supervisor was killed
\* and started again, the policy with its fence, the repository card and the
\* repository map are those of the first call.
PrefixFrozen ==
    /\ \A a, b \in sent : a = b
    /\ \A a \in sent : up => a.fence = mem.fence /\ a.prefix = [mem.prefix EXCEPT !.task = 0]

\* A packet never loses a consumer to its budget: whatever an impact analysis
\* found of this workspace and may be shown is in it, however much else was
\* offered.  What is optional stays inside the budget, what the graph reached
\* inside its third of it, and a hit or a named symbol is left out only when
\* what was offered before it had used up the room.
ConsumersArrive ==
    LET In(s) == \E i \in DOMAIN packet.slices :
                    \/ packet.slices[i] = s
                    \/ s.node # 0 /\ packet.slices[i].node = s.node
        Spent(P(_)) == Total(SelectSeq(packet.slices, P))
        Optional(s) == s.origin # "impact"
        OfGraph(s) == s.origin = "graph"
        Mandatory(s) == s.origin = "impact"
        Earlier(i) == Total(SelectSeq(SubSeq(packet.offered, 1, i - 1), In))
    IN  /\ \A i \in DOMAIN packet.mandatory : LET s == packet.mandatory[i] IN
              ~ s.foreign /\ s.valid /\ ~ s.sensitive => In(s)
        /\ \A i \in DOMAIN packet.slices :
              ~ packet.slices[i].foreign /\ ~ packet.slices[i].sensitive
        /\ Spent(Optional) > 0 => packet.tokens <= PacketBudget
        /\ Spent(OfGraph) <= Share(33)
        /\ \A i \in DOMAIN packet.offered : LET s == packet.offered[i] IN
              ~ s.sensitive /\ ~ OfGraph(s) /\ ~ In(s)
                => Total(packet.notes) + Spent(Mandatory) + Earlier(i) + s.cost > PacketBudget
=============================================================================
