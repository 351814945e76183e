-------------------------------- MODULE Index --------------------------------
(***************************************************************************)
(* The source index of a workspace: passes of `le index`, of le_reindex    *)
(* and of the task runner's refresh, each a sequence of transactions that  *)
(* read the files several times; the analyzer cache; the file watcher that *)
(* marks repositories dirty; and the edits, crashes and failures that come *)
(* between their steps.                                                    *)
(*                                                                         *)
(* A file is its current version, 0 when it does not exist.  A graph node  *)
(* is a layer (the filesystem's or an analyzer's) and a file.  Every       *)
(* analyzer links its node of a file to the next analyzer's.               *)
(***************************************************************************)
EXTENDS Naturals, Sequences, FiniteSets

CONSTANTS
    Repos,        \* Manifest.Repositories
    Files,        \* paths under the workspace root
    WsRoot,       \* the workspace root, which may be a repository's directory too
    Under,        \* directory -> the files under it, nested repositories' included
    Skipped,      \* files the walk leaves out: large, sensitive, binary, excluded
    Ignored,      \* files whose events the watcher drops: editor files, excluded
    Analyzers,    \* the analyzers, in order
    Passes,       \* processes that may index
    MaxVersion,   \* bound on the versions of a file
    MaxEdits      \* bound on the edits

VARIABLES
    disk,      \* the files
    edits,     \* how many edits there were
    watch,     \* the watcher: running, and the paths it holds
    key,       \* index_keys: the repositories that have one, and the dirty ones
    graph,     \* repository -> nodes with the version they describe, and edges
    chunks,    \* the chunk tables
    cache,     \* analyzer results by analyzer and content manifest
    pass,      \* the passes under way
    hole       \* how a change escaped the mark, for StaleIsExplained

ixvars == <<disk, edits, watch, key, graph, chunks, cache, pass, hole>>

Nothing == [f \in {} |-> 0]

Idle == [pc |-> "idle", todo |-> {}, repo |-> WsRoot, roots |-> [r \in Repos |-> r],
         tools |-> <<>>, files |-> Nothing, outs |-> <<>>, overlapped |-> FALSE]

NoGraph == [nodes |-> {}, edges |-> {}]

IxInit ==
    /\ disk = [f \in Files |-> 1]
    /\ edits = 0
    /\ watch = [on |-> FALSE, pending |-> {}]
    /\ key = [known |-> {}, dirty |-> {}]
    /\ graph = [r \in Repos |-> NoGraph]
    /\ chunks = {}
    /\ cache = {}
    /\ pass = [p \in Passes |-> Idle]
    /\ hole = [r \in Repos |-> {}]

-----------------------------------------------------------------------------
(* What a pass reads and writes *)

\* Indexer.walk: the files it does not skip, with their content hashes.
Walked(root) ==
    [f \in {g \in Under[root] : disk[g] # 0 /\ g \notin Skipped} |-> disk[f]]

\* What a reader that comes after the walk finds in the walk's files.
Reread(files) == [f \in {g \in DOMAIN files : disk[g] # 0} |-> disk[f]]

LayerNodes(layer, files) ==
    {[layer |-> layer, file |-> f, version |-> files[f]] : f \in DOMAIN files}

\* UpsertNodes: a node is unique by its layer and file.
UpsertNodes(nodes, new) ==
    {n \in nodes : \A m \in new : <<n.layer, n.file>> # <<m.layer, m.file>>} \cup new

Named(nodes) == {<<n.layer, n.file>> : n \in nodes}

\* The edges the analyzer at position a proposes: its node of a file to the next
\* analyzer's.
PendingEdges(a, files) ==
    {<<<<Analyzers[a], f>>, <<Analyzers[a + 1], f>>>> :
        f \in IF a < Len(Analyzers) THEN DOMAIN files ELSE {}}

\* writeEdges: an edge is dropped when an endpoint has no node.
Endpoints(pending, nodes) ==
    {e \in pending : e[1] \in Named(nodes) /\ e[2] \in Named(nodes)}

\* The graph a pass over these files is to leave.
GraphOf(files) ==
    [nodes |-> LayerNodes("file", files) \cup
                  UNION {LayerNodes(Analyzers[a], files) : a \in DOMAIN Analyzers},
     edges |-> UNION {PendingEdges(a, files) : a \in DOMAIN Analyzers}]

-----------------------------------------------------------------------------
(* Indexer.Repository, and the callers that walk through the repositories *)

To(p, rec) == pass' = [pass EXCEPT ![p] = rec]

\* Between the walk and the index key of a repository.
Reading(p) == pass[p].pc \notin {"idle", "next", "walk"}

\* A write to the graph of a repository overlaps the other passes over it.
Write(p, rec) ==
    pass' = [q \in Passes |->
               IF q = p THEN rec
               ELSE IF Reading(q) /\ pass[q].repo = pass[p].repo
                    THEN [pass[q] EXCEPT !.overlapped = TRUE] ELSE pass[q]]

\* `le index`: every repository, at its own path.
BeginIndex(p) ==
    /\ pass[p].pc = "idle"
    /\ To(p, [Idle EXCEPT !.pc = "next", !.todo = Repos, !.tools = Analyzers])
    /\ UNCHANGED <<disk, edits, watch, key, graph, chunks, cache, hole>>

\* le_reindex: every repository at the workspace root, by an indexer that was
\* given no analyzers.
BeginReindex(p) ==
    /\ pass[p].pc = "idle"
    /\ To(p, [Idle EXCEPT !.pc = "next", !.todo = Repos, !.roots = [r \in Repos |-> WsRoot]])
    /\ UNCHANGED <<disk, edits, watch, key, graph, chunks, cache, hole>>

\* Refresh: the dirty ones, at the task's root.
BeginRefresh(p, root) ==
    /\ pass[p].pc = "idle" /\ key.dirty # {}
    /\ To(p, [Idle EXCEPT !.pc = "next", !.todo = key.dirty, !.tools = Analyzers,
                          !.roots = [r \in Repos |-> root]])
    /\ UNCHANGED <<disk, edits, watch, key, graph, chunks, cache, hole>>

NextRepository(p) ==
    /\ pass[p].pc = "next"
    /\ IF pass[p].todo = {} THEN To(p, Idle)
       ELSE \E r \in pass[p].todo :
               To(p, [pass[p] EXCEPT !.pc = "walk", !.repo = r, !.todo = @ \ {r},
                                     !.outs = <<>>, !.overlapped = FALSE])
    /\ UNCHANGED <<disk, edits, watch, key, graph, chunks, cache, hole>>

\* walk and writeFiles.
Walk(p) ==
    /\ pass[p].pc = "walk"
    /\ To(p, [pass[p] EXCEPT !.pc = "clear",
                               !.files = Walked(pass[p].roots[pass[p].repo])])
    /\ UNCHANGED <<disk, edits, watch, key, graph, chunks, cache, hole>>

\* A faulty variant: the upserts alone are to replace the old graph.
ClearNothing(p) ==
    /\ pass[p].pc = "clear"
    /\ Write(p, [pass[p] EXCEPT !.pc = "tree"])
    /\ UNCHANGED <<disk, edits, watch, key, graph, chunks, cache, hole>>

\* clearGraph: a repository's edges go with its nodes.
ClearGraph(p) ==
    /\ pass[p].pc = "clear"
    /\ graph' = [graph EXCEPT ![pass[p].repo] = NoGraph]
    /\ Write(p, [pass[p] EXCEPT !.pc = "tree"])
    /\ UNCHANGED <<disk, edits, watch, key, chunks, cache, hole>>

\* writeFilesystemGraph.
WriteTree(p) ==
    /\ pass[p].pc = "tree"
    /\ graph' = [graph EXCEPT ![pass[p].repo].nodes =
                    UpsertNodes(@, LayerNodes("file", pass[p].files))]
    /\ Write(p, [pass[p] EXCEPT !.pc = "chunk"])
    /\ UNCHANGED <<disk, edits, watch, key, chunks, cache, hole>>

\* writeChunks: both tables are emptied and the files read again.
WriteChunks(p) ==
    /\ pass[p].pc = "chunk"
    /\ DOMAIN Reread(pass[p].files) = DOMAIN pass[p].files
    /\ chunks' = {[repo |-> pass[p].repo, file |-> f, version |-> disk[f]] :
                     f \in DOMAIN pass[p].files}
    /\ To(p, [pass[p] EXCEPT !.pc = IF pass[p].tools = <<>> THEN "nodes" ELSE "analyze"])
    /\ UNCHANGED <<disk, edits, watch, key, graph, cache, hole>>

\* One analyzer's output; the first node is written after the last analyzer.
Output(p, result) ==
    To(p, [pass[p] EXCEPT !.outs = Append(@, result),
                          !.pc = IF Len(pass[p].outs) + 1 = Len(pass[p].tools)
                                 THEN "nodes" ELSE "analyze"])

\* analyze: the cached result for the hashes of the walk,
AnalyzeCached(p) ==
    /\ pass[p].pc = "analyze"
    /\ \E c \in cache : /\ c.at = Len(pass[p].outs) + 1 /\ c.manifest = pass[p].files
                         /\ Output(p, c.result)
    /\ UNCHANGED <<disk, edits, watch, key, graph, chunks, cache, hole>>

\* or a run over the files as they are now, cached under the hashes of the walk.
Analyze(p) ==
    LET entry == [at |-> Len(pass[p].outs) + 1, manifest |-> pass[p].files,
                  result |-> Reread(pass[p].files)]
    IN  /\ pass[p].pc = "analyze"
        /\ \A c \in cache : <<c.at, c.manifest>> # <<entry.at, entry.manifest>>
        /\ cache' = cache \cup {entry}
        /\ Output(p, entry.result)
        /\ UNCHANGED <<disk, edits, watch, key, graph, chunks, hole>>

\* writeNodes for every analyzer, before writeEdges for any.
WriteNodes(p) ==
    /\ pass[p].pc = "nodes"
    /\ graph' = [graph EXCEPT ![pass[p].repo].nodes =
                    UpsertNodes(@, UNION {LayerNodes(Analyzers[a], pass[p].outs[a]) :
                                            a \in DOMAIN pass[p].outs})]
    /\ Write(p, [pass[p] EXCEPT !.pc = "edges"])
    /\ UNCHANGED <<disk, edits, watch, key, chunks, cache, hole>>

WriteEdges(p) ==
    LET r == pass[p].repo
        pending == UNION {PendingEdges(a, pass[p].outs[a]) : a \in DOMAIN pass[p].outs}
    IN  /\ pass[p].pc = "edges"
        /\ graph' = [graph EXCEPT ![r].edges = @ \cup Endpoints(pending, graph[r].nodes)]
        /\ Write(p, [pass[p] EXCEPT !.pc = "record"])
        /\ UNCHANGED <<disk, edits, watch, key, chunks, cache, hole>>

\* recordIndexKey: the repository is clean, whatever was marked meanwhile.
RecordIndexKey(p) ==
    LET r == pass[p].repo IN
    /\ pass[p].pc = "record"
    /\ key' = [known |-> key.known \cup {r}, dirty |-> key.dirty \ {r}]
    /\ hole' = [hole EXCEPT ![r] =
                   (IF pass[p].overlapped THEN {"overlapped"} ELSE {}) \cup
                   (IF pass[p].tools # Analyzers THEN {"bare"} ELSE {}) \cup
                   (IF pass[p].roots[r] # r THEN {"elsewhere"} ELSE {}) \cup
                   (IF \E a \in DOMAIN pass[p].outs : pass[p].outs[a] # pass[p].files
                    THEN {"cached"} ELSE {})]
    /\ To(p, [pass[p] EXCEPT !.pc = "next"])
    /\ UNCHANGED <<disk, edits, watch, graph, chunks, cache>>

\* An error of any step, an analyzer's included, or the end of the process.  What
\* was written stays.
Abandon(p) ==
    LET r == pass[p].repo IN
    /\ pass[p].pc # "idle"
    /\ hole' = IF Reading(p) /\ pass[p].pc # "clear"
               THEN [hole EXCEPT ![r] = @ \cup {"abandoned"}] ELSE hole
    /\ To(p, Idle)
    /\ UNCHANGED <<disk, edits, watch, key, graph, chunks, cache>>

-----------------------------------------------------------------------------
(* Edits and the watcher *)

\* repositoryFor: of the repositories whose directory holds a file, the innermost.
RepositoryFor(f) ==
    CHOOSE r \in Repos :
        f \in Under[r] /\ \A q \in Repos : f \in Under[q] => Under[r] \subseteq Under[q]

\* How a change of f escapes the mark of a repository whose directory holds it.
Escapes(f, r) ==
    IF ~watch.on THEN {"unwatched"}
    ELSE IF f \in Ignored THEN {"ignored"}
    ELSE IF r # RepositoryFor(f) THEN {"nested"} ELSE {}

\* A file is created, changed or deleted.  The running watcher holds its path
\* until the debounce timer fires, unless it ignores the file.
Edit(f, v) ==
    /\ edits < MaxEdits /\ disk[f] # v
    /\ edits' = edits + 1
    /\ disk' = [disk EXCEPT ![f] = v]
    /\ watch' = IF watch.on /\ f \notin Ignored
                THEN [watch EXCEPT !.pending = @ \cup {f}] ELSE watch
    /\ hole' = [r \in Repos |-> hole[r] \cup (IF f \in Under[r] THEN Escapes(f, r) ELSE {})]
    /\ pass' = [p \in Passes |->
                  IF Reading(p) /\ f \in Under[pass[p].roots[pass[p].repo]]
                  THEN [pass[p] EXCEPT !.overlapped = TRUE] ELSE pass[p]]
    /\ UNCHANGED <<key, graph, chunks, cache>>

\* Watcher.Run begins, and ends: paths it still holds are not marked.
WatchBegin ==
    /\ ~watch.on
    /\ watch' = [on |-> TRUE, pending |-> {}]
    /\ UNCHANGED <<disk, edits, key, graph, chunks, cache, pass, hole>>

Unmarked == {RepositoryFor(f) : f \in watch.pending}

WatchEnd ==
    /\ watch.on
    /\ watch' = [on |-> FALSE, pending |-> {}]
    /\ hole' = [r \in Repos |-> hole[r] \cup (IF r \in Unmarked THEN {"dropped"} ELSE {})]
    /\ UNCHANGED <<disk, edits, key, graph, chunks, cache, pass>>

\* MarkDirty inserts a key where there is none.
MarkDirty(marked) == key' = [known |-> key.known \cup marked, dirty |-> key.dirty \cup marked]

\* flush, when the timer fires: the paths are taken, and each repository is
\* marked.  A mark that fails is logged, and its paths are gone.
Flush(failed) ==
    /\ watch.on /\ watch.pending # {} /\ failed \subseteq Unmarked
    /\ watch' = [watch EXCEPT !.pending = {}]
    /\ MarkDirty(Unmarked \ failed)
    /\ hole' = [r \in Repos |-> hole[r] \cup (IF r \in failed THEN {"dropped"} ELSE {})]
    /\ UNCHANGED <<disk, edits, graph, chunks, cache, pass>>

IxNext ==
    \/ \E p \in Passes :
          \/ BeginIndex(p) \/ BeginReindex(p)
          \/ \E root \in Repos : BeginRefresh(p, root)
          \/ NextRepository(p) \/ Walk(p) \/ ClearGraph(p) \/ WriteTree(p) \/ WriteChunks(p)
          \/ AnalyzeCached(p) \/ Analyze(p) \/ WriteNodes(p) \/ WriteEdges(p)
          \/ RecordIndexKey(p) \/ Abandon(p)
    \/ \E f \in Files, v \in 0 .. MaxVersion : Edit(f, v)
    \/ WatchBegin \/ WatchEnd
    \/ \E failed \in SUBSET Repos : Flush(failed)

IxSpec == IxInit /\ [][IxNext]_ixvars

-----------------------------------------------------------------------------
\* No pass is at work on a repository whose key is clean, and no change is on its
\* way to the mark.
Settled(r) ==
    /\ r \in key.known \ key.dirty /\ r \notin Unmarked
    /\ \A p \in Passes : ~(Reading(p) /\ pass[p].repo = r)

\* No silent staleness: the graph of a settled repository is that of its files,
\* every cross-analyzer edge included, or it is one of nine known ways a change
\* escapes the mark or a pass misses the files: an edit nobody watched, whose file
\* the watcher ignores or that it marks for a nested repository alone, a mark that
\* was dropped, a pass that another pass or an edit overlapped, one that was
\* abandoned, one without analyzers, one over the workspace's or the task's
\* directory in place of the repository's own, or an analyzer result cached for
\* other content.
StaleIsExplained ==
    \A r \in Repos : Settled(r) => graph[r] = GraphOf(Walked(r)) \/ hole[r] # {}

\* "Re-analyse the repository so the index matches the working tree": a pass that
\* nothing disturbed leaves the graph of the files, le_reindex's too.
ReindexRestores ==
    \A r \in Repos : Settled(r) /\ hole[r] \subseteq {"bare"} => graph[r] = GraphOf(Walked(r))
=============================================================================
