---------------------------- MODULE MCComponents ----------------------------
(***************************************************************************)
(* Small instances of the components that are models of their own, for one *)
(* TLC run.  A behaviour is one component's: `part` says whose, and the    *)
(* variables v1, v2, ... are that component's, as its INSTANCE says; those *)
(* it does not need stay Off.  Where one instance that reaches everything  *)
(* would be too large, there are two.                                      *)
(***************************************************************************)
EXTENDS Naturals, Sequences, FiniteSets

VARIABLES part, v1, v2, v3, v4, v5, v6, v7, v8, v9, v10, v11, v12

vars == <<part, v1, v2, v3, v4, v5, v6, v7, v8, v9, v10, v11, v12>>

Off == "off"

\* A gate on leaving the declared scope, an asker and two processes that answer.
Br == INSTANCE Broker WITH
    Askers <- {1}, Deciders <- {1, 2}, Candidates <- {"A", "B"}, Kinds <- {"out_of_scope"},
    Policy <- [breaking |-> TRUE, outOfScope |-> TRUE, apply |-> TRUE, plan |-> FALSE,
               maxBreakingAuto |-> 0, timeout |-> TRUE],
    MaxOps <- 2,
    gates <- v1, late <- v2, ops <- v3, ask <- v4, dec <- v5, given <- v6

\* Two processes on a phased task, and one on such a task and a dependent of it.
Rn == INSTANCE Runs WITH
    Procs <- {1, 2}, Tasks <- {"t1"}, Phased <- {"t1"}, Deps <- {}, TTL <- 2, None <- 0,
    task <- v1, checkout <- v2, branch <- v3, dirty <- v4, decided <- v5, lease <- v6,
    run <- v7, overlap <- v8
Rd == INSTANCE Runs WITH
    Procs <- {1}, Tasks <- {"t1", "t2"}, Phased <- {"t1"}, Deps <- {<<"t2", "t1">>}, TTL <- 1,
    None <- 0,
    task <- v1, checkout <- v2, branch <- v3, dirty <- v4, decided <- v5, lease <- v6,
    run <- v7, overlap <- v8

St == INSTANCE Storage WITH
    Workspaces <- {1}, Sessions <- {1, 2}, Indices <- {1, 2}, Target <- <<2, 1>>,
    Older <- {1, 2}, NoWs <- 0, MaxSnaps <- 1,
    file <- v1, premig <- v2, sess <- v3, snaps <- v4, record <- v5, slots <- v6

\* A workspace that is one repository, and one with a repository inside another.
Ix == INSTANCE Index WITH
    Repos <- {"r"}, Files <- {"a", "b"}, Under <- [r \in {"r"} |-> {"a", "b"}], WsRoot <- "r",
    Skipped <- {}, Ignored <- {"b"}, Analyzers <- <<"go", "sql">>, Passes <- {1},
    MaxVersion <- 2, MaxEdits <- 1,
    disk <- v1, edits <- v2, watch <- v3, key <- v4, graph <- v5, chunks <- v6,
    cache <- v7, pass <- v8, hole <- v9
Iz == INSTANCE Index WITH
    Repos <- {"r", "s"}, Files <- {"a", "b"},
    Under <- [r \in {"r", "s"} |-> IF r = "r" THEN {"a", "b"} ELSE {"b"}], WsRoot <- "r",
    Skipped <- {"a"}, Ignored <- {}, Analyzers <- <<"go">>, Passes <- {1},
    MaxVersion <- 1, MaxEdits <- 1,
    disk <- v1, edits <- v2, watch <- v3, key <- v4, graph <- v5, chunks <- v6,
    cache <- v7, pass <- v8, hole <- v9

\* Two requests to a server, which is then launched a second time.
Ls == INSTANCE Lsp WITH
    Callers <- {1, 2}, Quota <- <<2, 1>>, MaxForeign <- 1, NoCaller <- 0,
    pool <- v1, clients <- v2, caller <- v3, foreign <- v4

Mo == INSTANCE Models WITH
    Calls <- {1, 2}, Providers <- {1, 2, 3}, Key <- <<"k1", "k1", "k2">>, MaxLoads <- 3,
    NoOne <- 0,
    slot <- v1, procs <- v2, port <- v3, call <- v4, ext <- v5

EgressRules ==
    {[labels |-> <<"golang", "org">>, wild |-> TRUE, lanes |-> {"deps"}, why |-> TRUE],
     [labels |-> <<"dev">>, wild |-> FALSE, lanes |-> {}, why |-> TRUE]}
EgressHosts == {<<>>, <<"golang", "org">>, <<"proxy", "golang", "org">>, <<"dev">>}
EgressSettings ==
    [offline : BOOLEAN, enabled : BOOLEAN, sandbox : {TRUE}, agent : BOOLEAN, stopped : {FALSE}]

\* Two clients of the proxy, and two editors of the bridge.
La == INSTANCE Lanes WITH
    Clients <- {1, 2}, Editors <- {1}, Rules <- EgressRules, Hosts <- EgressHosts,
    Ports <- {"443", "22"}, AllowPorts <- {"80", "443"},
    Settings <- EgressSettings, MaxConcurrent <- 1, MaxConnections <- 1,
    conf <- v1, up <- v2, conns <- v3, client <- v4, journal <- v5, active <- v6,
    editor <- v7
Lb == INSTANCE Lanes WITH
    Clients <- {1}, Editors <- {1, 2}, Rules <- EgressRules, Hosts <- EgressHosts,
    Ports <- {"443"}, AllowPorts <- {"80", "443"},
    Settings <- EgressSettings, MaxConcurrent <- 1, MaxConnections <- 1,
    conf <- v1, up <- v2, conns <- v3, client <- v4, journal <- v5, active <- v6,
    editor <- v7

\* Links that stay and two verifications, and a link that is moved and one.
LinkTo(to) == [f \in {"a", "link"} |-> IF f = "link" THEN to ELSE f]
Su == INSTANCE Supervise WITH
    Tasks <- {1}, Calls <- {1, 2}, Paths <- {"a", "link"}, Links <- {LinkTo("env")},
    Guarded <- {"env"}, Scopes <- {{"a", "link", "env"}},
    MaxContent <- 1, MaxChecks <- 2, MaxAnswers <- 1,
    tree <- v1, tasks <- v2, checks <- v3, answers <- v4, reviews <- v5, call <- v6,
    edited <- v7, links <- v8
Sr == INSTANCE Supervise WITH
    Tasks <- {1}, Calls <- {1, 2}, Paths <- {"a", "link"}, Links <- {LinkTo("env"), LinkTo("a")},
    Guarded <- {"env"}, Scopes <- {{"a", "link", "env"}},
    MaxContent <- 1, MaxChecks <- 1, MaxAnswers <- 1,
    tree <- v1, tasks <- v2, checks <- v3, answers <- v4, reviews <- v5, call <- v6,
    edited <- v7, links <- v8

Me == INSTANCE Memory WITH
    Stores <- {"r1", "r2"}, Writers <- {1, 2}, PerKind <- 2, MaxCommands <- 3, MaxTime <- 1,
    now <- v1, used <- v2, notes <- v3, tmp <- v4, writer <- v5, bundle <- v6,
    acked <- v7, removed <- v8, overlap <- v9, torn <- v10

\* One attempt with an edit from outside, and two attempts without.
At == INSTANCE Attempts WITH
    MaxContent <- 1, Outside <- {1}, Generated <- 1, MaxAttempts <- 1, MaxOps <- 3,
    MaxEdits <- 1,
    repo <- v1, wt <- v2, state <- v3, ops <- v4, evidence <- v5, check <- v6,
    gates <- v7, run <- v8, late <- v9, unseen <- v10, edits <- v11
Ar == INSTANCE Attempts WITH
    MaxContent <- 2, Outside <- {2}, Generated <- 2, MaxAttempts <- 2, MaxOps <- 3,
    MaxEdits <- 0,
    repo <- v1, wt <- v2, state <- v3, ops <- v4, evidence <- v5, check <- v6,
    gates <- v7, run <- v8, late <- v9, unseen <- v10, edits <- v11

\* Dependencies among five symbols: two ways to one node of different strength, a
\* cycle through the changed one, and a node that more edges reach than a query
\* may return.
Edge(from, to, rank, kind) == [from |-> from, to |-> to, rank |-> rank, kind |-> kind]
ImpactEdges ==
    {Edge(2, 1, 0, "calls"), Edge(2, 1, 2, "tests"), Edge(3, 1, 0, "uses_type"),
     Edge(3, 2, 0, "calls"), Edge(2, 3, 1, "implements"), Edge(4, 2, 0, "references"),
     Edge(4, 3, 1, "calls"), Edge(1, 4, 0, "calls"), Edge(5, 4, 0, "tests")}
ImpactGraphs ==
    {g \in SUBSET ImpactEdges : Cardinality(g) \in 1 .. 5} \cup
    {[from : {2}, to : {1}, rank : {1},
      kind : {"calls", "tests", "references", "accepts", "returns", "imports", "embeds", "handles"}]
        \cup {Edge(3, 1, 0, "calls")}}

Im == INSTANCE Impact WITH
    Graphs <- ImpactGraphs, Changed <- {1}, Limits <- {3, 6}, BatchSize <- 1, Depth <- 3,
    edges <- v1, limit <- v2, change <- v3, pc <- v4, best <- v5, frontier <- v6,
    depth <- v7, rows <- v8, room <- v9, found <- v10, cut <- v11, report <- v12

Step(kind, name, minutes, outputs, up, down) ==
    [kind |-> kind, name |-> name, minutes |-> minutes, outputs |-> outputs, up |-> up,
     down |-> down]
Check == Step("check", "c", 60, {}, FALSE, FALSE)
Integration(down) == Step("integration", "i", 20, {}, TRUE, down)
Generate == Step("generate", "g", 10, {"x", "y"}, FALSE, FALSE)
Manifest(dir, type, workspace, scripts) ==
    [dir |-> dir, type |-> type, workspace |-> workspace, scripts |-> scripts]
CargoWalk ==
    <<Manifest(<<"a">>, "cargo", TRUE, <<"build", "test">>),
      Manifest(<<>>, "cargo", TRUE, <<"build">>),
      Manifest(<<"b">>, "node", FALSE, <<"test", "lint">>)>>
NodeWalk ==
    <<Manifest(<<"a", "b">>, "node", FALSE, <<"build">>),
      Manifest(<<"a">>, "node", TRUE, <<"build", "lint">>),
      Manifest(<<"a", "c">>, "go", FALSE, <<"test", "format">>)>>
Preset(name, kind, tool) ==
    [name |-> <<name>>, kind |-> kind, tool |-> tool, needs |-> "none"]
OwnPresets ==
    <<Preset("p1", "test", "test_json"), Preset("p2", "generate", "generic"),
      Preset("p3", "custom", "generic")>>
NamedTwice == <<Preset("p1", "test", "test_json"), Preset("p1", "build", "build")>>
BuiltIn(level, gomod, declared) ==
    [level |-> level, frozen |-> FALSE, gomod |-> gomod, declared |-> declared,
     config |-> <<>>, walk |-> <<>>]
FromPresets(level, declared, config, walk) ==
    [level |-> level, frozen |-> TRUE, gomod |-> FALSE, declared |-> declared,
     config |-> config, walk |-> walk]
VerifiedTasks ==
    {BuiltIn("low", TRUE, <<>>), BuiltIn("standard", FALSE, <<>>), BuiltIn("standard", TRUE, <<>>),
     BuiltIn("high", TRUE, <<Integration(TRUE), Generate, Check>>),
     BuiltIn("high", TRUE, <<Integration(FALSE)>>), BuiltIn("high", TRUE, <<Check, Check>>),
     FromPresets("standard", <<>>, <<>>, CargoWalk), FromPresets("standard", <<>>, <<>>, NodeWalk),
     FromPresets("high", <<Generate>>, <<>>, NodeWalk),
     FromPresets("high", <<Integration(TRUE), Generate>>, OwnPresets, <<>>),
     FromPresets("high", <<>>, NamedTwice, <<>>)}
TroubledTasks ==
    {FromPresets("high", <<Integration(TRUE), Generate>>, <<Preset("p1", "test", "test_json")>>,
                 <<>>)}

\* One thing wrong with any of the tasks, and two with one whose checks clean up.
Rc == INSTANCE Recipes WITH
    Tasks <- VerifiedTasks, Paths <- {"x", "y"}, Present <- {"x"}, MaxTrouble <- 1,
    MaxStrays <- 1,
    task <- v1, pc <- v2, plan <- v3, results <- v4, tree <- v5, snap <- v6, step <- v7,
    live <- v8, verdict <- v9, strays <- v10
Rx == INSTANCE Recipes WITH
    Tasks <- TroubledTasks, Paths <- {"x", "y"}, Present <- {"x"}, MaxTrouble <- 2,
    MaxStrays <- 1,
    task <- v1, pc <- v2, plan <- v3, results <- v4, tree <- v5, snap <- v6, step <- v7,
    live <- v8, verdict <- v9, strays <- v10

EvalTask ==
    [id |-> "t1", argv |-> TRUE, hidden |-> {"h"}, fixture |-> {"f", "g"}, protected |-> {"g"},
     fresh |-> {"n"}, target |-> "f", tests |-> {"T1"}, attempts |-> 2, wall |-> 1,
     leak |-> "none", set |-> "heldout"]
BareTask ==
    [EvalTask EXCEPT !.fixture = {"f"}, !.protected = {}, !.fresh = {}, !.tests = {},
                     !.attempts = 1]
EvalSets ==
    {<<EvalTask>>, <<[EvalTask EXCEPT !.hidden = {"g"}]>>, <<EvalTask, EvalTask>>}
EvalArms ==
    {<<>>, <<"unsupervised", "supervised-no-graph-no-verify">>, <<"supervised", "supervised">>}

\* One pass over a task with tests and protected files, and two over a bare one.
Ev == INSTANCE Eval WITH
    TaskSets <- EvalSets, ArmLists <- EvalArms, Repeat <- 1, Repeats <- 2,
    HeldoutTasks <- 1, Finalists <- 2,
    disk <- v1, arms <- v2, ev <- v3, copy <- v4, before <- v5, attempt <- v6,
    claim <- v7, stopped <- v8, late <- v9, outcomes <- v10, report <- v11, tampered <- v12
Er == INSTANCE Eval WITH
    TaskSets <- {<<BareTask>>}, ArmLists <- {<<"supervised", "frontier">>}, Repeat <- 2,
    Repeats <- 2, HeldoutTasks <- 1, Finalists <- 2,
    disk <- v1, arms <- v2, ev <- v3, copy <- v4, before <- v5, attempt <- v6,
    claim <- v7, stopped <- v8, late <- v9, outcomes <- v10, report <- v11, tampered <- v12

Sl(node, origin, cost) ==
    [node |-> node, origin |-> origin, cost |-> cost, foreign |-> FALSE, valid |-> TRUE,
     sensitive |-> FALSE]
Note(cost, stale) == [cost |-> cost, stale |-> stale]
Decl(cost) == [cost |-> cost, sensitive |-> FALSE]

Cx == INSTANCE Context WITH
    Anchors <- <<Sl(0, "anchor", 8), Sl(0, "anchor", 6)>>, Named <- <<Sl(1, "explicit", 7)>>,
    Reached <- <<Sl(1, "graph", 7), Sl(2, "graph", 4), [Sl(5, "graph", 2) EXCEPT !.foreign = TRUE]>>,
    Consumers <- <<Sl(2, "impact", 4), Sl(3, "impact", 15),
                   [Sl(4, "impact", 1) EXCEPT !.sensitive = TRUE]>>,
    ProjectNotes <- <<Note(2, TRUE), Note(2, FALSE), Note(3, FALSE)>>,
    MemoryNotes <- <<Note(3, FALSE), Note(1, FALSE)>>, PacketBudget <- 24,
    Declarations <- <<<<Decl(3), Decl(2)>>,
                      <<Decl(2), Decl(3), [Decl(1) EXCEPT !.sensitive = TRUE]>>>>,
    MapBudget <- 5, EvidenceCosts <- {2, 6}, PrefixCeiling <- 9, LogFloor <- 2,
    ContextTokens <- 17, OutputTokens <- 3, MaxTokens <- 60, MaxChanges <- 1, MaxFences <- 2,
    world <- v1, row <- v2, mem <- v3, up <- v4, packet <- v5, sent <- v6, fences <- v7,
    step <- v8

Init ==
    \/ part = "broker" /\ Br!Init /\ v7 = Off /\ v8 = Off /\ v9 = Off /\ v10 = Off
         /\ v11 = Off /\ v12 = Off
    \/ part = "runs" /\ Rn!Init /\ v9 = Off /\ v10 = Off /\ v11 = Off /\ v12 = Off
    \/ part = "dependents" /\ Rd!Init /\ v9 = Off /\ v10 = Off /\ v11 = Off /\ v12 = Off
    \/ part = "storage" /\ St!StInit /\ v7 = Off /\ v8 = Off /\ v9 = Off /\ v10 = Off
         /\ v11 = Off /\ v12 = Off
    \/ part = "index" /\ Ix!IxInit /\ v10 = Off /\ v11 = Off /\ v12 = Off
    \/ part = "nested" /\ Iz!IxInit /\ v10 = Off /\ v11 = Off /\ v12 = Off
    \/ part = "lsp" /\ Ls!LspInit /\ v5 = Off /\ v6 = Off /\ v7 = Off /\ v8 = Off
         /\ v9 = Off /\ v10 = Off /\ v11 = Off /\ v12 = Off
    \/ part = "models" /\ Mo!MoInit /\ v6 = Off /\ v7 = Off /\ v8 = Off /\ v9 = Off
         /\ v10 = Off /\ v11 = Off /\ v12 = Off
    \/ part = "lanes" /\ La!LaInit /\ v8 = Off /\ v9 = Off /\ v10 = Off /\ v11 = Off
         /\ v12 = Off
    \/ part = "bridge" /\ Lb!LaInit /\ v8 = Off /\ v9 = Off /\ v10 = Off /\ v11 = Off
         /\ v12 = Off
    \/ part = "supervise" /\ Su!SuInit /\ v9 = Off /\ v10 = Off /\ v11 = Off /\ v12 = Off
    \/ part = "relink" /\ Sr!SuInit /\ v9 = Off /\ v10 = Off /\ v11 = Off /\ v12 = Off
    \/ part = "memory" /\ Me!MeInit /\ v11 = Off /\ v12 = Off
    \/ part = "attempts" /\ At!AtInit /\ v12 = Off
    \/ part = "retry" /\ Ar!AtInit /\ v12 = Off
    \/ part = "impact" /\ Im!ImInit
    \/ part = "recipes" /\ Rc!RcInit /\ v11 = Off /\ v12 = Off
    \/ part = "troubled" /\ Rx!RcInit /\ v11 = Off /\ v12 = Off
    \/ part = "eval" /\ Ev!EvInit
    \/ part = "repeat" /\ Er!EvInit
    \/ part = "context" /\ Cx!CxInit /\ v9 = Off /\ v10 = Off /\ v11 = Off /\ v12 = Off

Next ==
    /\ UNCHANGED part
    /\ \/ part = "broker" /\ Br!Next /\ UNCHANGED <<v7, v8, v9, v10, v11, v12>>
       \/ part = "runs" /\ Rn!Next /\ UNCHANGED <<v9, v10, v11, v12>>
       \/ part = "dependents" /\ Rd!Next /\ UNCHANGED <<v9, v10, v11, v12>>
       \/ part = "storage" /\ St!StNext /\ UNCHANGED <<v7, v8, v9, v10, v11, v12>>
       \/ part = "index" /\ Ix!IxNext /\ UNCHANGED <<v10, v11, v12>>
       \/ part = "nested" /\ Iz!IxNext /\ UNCHANGED <<v10, v11, v12>>
       \/ part = "lsp" /\ Ls!LspNext /\ UNCHANGED <<v5, v6, v7, v8, v9, v10, v11, v12>>
       \/ part = "models" /\ Mo!MoNext /\ UNCHANGED <<v6, v7, v8, v9, v10, v11, v12>>
       \/ part = "lanes" /\ La!LaNext /\ UNCHANGED <<v8, v9, v10, v11, v12>>
       \/ part = "bridge" /\ Lb!LaNext /\ UNCHANGED <<v8, v9, v10, v11, v12>>
       \/ part = "supervise" /\ Su!SuNext /\ UNCHANGED <<v9, v10, v11, v12>>
       \/ part = "relink" /\ Sr!SuNext /\ UNCHANGED <<v9, v10, v11, v12>>
       \/ part = "memory" /\ Me!MeNext /\ UNCHANGED <<v11, v12>>
       \/ part = "attempts" /\ At!AtNext /\ UNCHANGED <<v12>>
       \/ part = "retry" /\ Ar!AtNext /\ UNCHANGED <<v12>>
       \/ part = "impact" /\ Im!ImNext
       \/ part = "recipes" /\ Rc!RcNext /\ UNCHANGED <<v11, v12>>
       \/ part = "troubled" /\ Rx!RcNext /\ UNCHANGED <<v11, v12>>
       \/ part = "eval" /\ Ev!EvNext
       \/ part = "repeat" /\ Er!EvNext
       \/ part = "context" /\ Cx!CxNext /\ UNCHANGED <<v9, v10, v11, v12>>

Spec == Init /\ [][Next]_vars

-----------------------------------------------------------------------------
\* Every gate is in the state its row says, and whoever is about to open or answer
\* one has journalled it (broker).
GatesTyped == part = "broker" => Br!TypeInv

\* Work goes ahead on a person's approval of exactly this content (broker).
ApprovalIsAPersons == part = "broker" => Br!ApprovalIsAPersons

\* No gate waits that the journal does not tell of (broker, ledger).
JournalledFirst == part = "broker" => Br!JournalledFirst

\* The journal closes a gate only with an answer that was saved (broker, ledger).
ClosedAsGiven == part = "broker" => Br!ClosedAsGiven

\* A process whose lease has not run out is its holder in the table (ledger lease).
LeaseIsHeld == (part = "runs" => Rn!TypeInv) /\ (part = "dependents" => Rd!TypeInv)

\* Of two processes on one worktree the lease of one has run out (ledger lease).
OneWriterInTime ==
    /\ part = "runs" => Rn!OneWriterInTime
    /\ part = "dependents" => Rd!OneWriterInTime

\* No work of a phased task is lost to crashes, retries and cleanups (task runner).
WorkIsKept ==
    [][(part = "runs" => Rn!Kept) /\ (part = "dependents" => Rd!Kept)]_vars

\* Every database of a workspace has had its migrations once and in order and an
\* older one is copied first; no store is handed out at another version, for another
\* workspace or visibly damaged, whatever an interrupted restore left (store, backup).
SchemasSound == part = "storage" => St!SchemasSound

\* A clean index key means the graph of the files, or a known gap (index.Indexer).
StaleIsExplained ==
    /\ part = "index" => Ix!StaleIsExplained
    /\ part = "nested" => Iz!StaleIsExplained

\* A late answer never wedges a language server's receive loop, an empty success
\* means that this loop has ended, and no server outlives the pool (lsp).
LiveLayerServes == part = "lsp" => Ls!LiveLayerServes

\* At most one managed model process, and each request at its own (models).
OneModel == part = "models" => Mo!OneModel

\* Connection places are neither lost nor given twice, and bytes flow only where a
\* rule allows it and the journal says so (proxy, acp bridge).
PlacesKept ==
    /\ part = "lanes" => La!PlacesKept
    /\ part = "bridge" => Lb!PlacesKept

\* A supervised task is accepted on the newest verification on record, and le_edit
\* writes inside its task's scope unless a link moves under it (mcp supervise).
AcceptedOnEvidence ==
    /\ part = "supervise" => Su!AcceptedOnEvidence
    /\ part = "relink" => Sr!AcceptedOnEvidence

\* Notes have unique ids, keep their cap and their chain of sources, and are lost or
\* made unreadable only for a known reason (memory).
NotesKept == part = "memory" => Me!NotesKept

\* What an interrupted unphased run leaves is uncertain or on record, and an
\* accepted task passed on the candidate of its checkpoint (task runner, ledger).
DecidedOnEvidence ==
    /\ part = "attempts" => At!DecidedOnEvidence
    /\ part = "retry" => Ar!DecidedOnEvidence

\* The consumers an impact report lists are all there are, or it says that it was
\* cut (graph impact).
ImpactIsWhole == part = "impact" => Im!ImpactIsWhole

\* A generated file or a service that is left behind is in a result, or a command
\* wrote where nothing cleans up (recipes).
LeftIsReported ==
    /\ part = "recipes" => Rc!LeftIsReported
    /\ part = "troubled" => Rx!LeftIsReported

\* What the contracts accept was looked at, and a problem that was found in it went
\* with an error the contract does not count (recipes, task).
AcceptedIsChecked ==
    /\ part = "recipes" => Rc!AcceptedIsChecked
    /\ part = "troubled" => Rx!AcceptedIsChecked

\* A solve rate counts judged runs only, each for what it did or for the command that
\* never gave its verdict (eval).
RatesAreMeasured ==
    /\ part = "eval" => Ev!RatesAreMeasured
    /\ part = "repeat" => Er!RatesAreMeasured

\* Every call of a task sends the prefix of its first one (task prompt, contextpack).
PrefixFrozen == part = "context" => Cx!PrefixFrozen

\* No consumer an impact analysis found is lost to the packet's budget (retrieval).
ConsumersArrive == part = "context" => Cx!ConsumersArrive
=============================================================================
