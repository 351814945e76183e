------------------------------- MODULE Impact -------------------------------
(***************************************************************************)
(* The impact report: a reverse walk from the changed nodes, one hop and   *)
(* one batch of the frontier at a time, each batch one query whose rows    *)
(* come in any order and are cut at a cap, then a verdict per consumer.    *)
(* An edge is the node that depends on another, its kind and the rank of   *)
(* its evidence, 0 the strongest.                                          *)
(***************************************************************************)
EXTENDS Naturals, Sequences, FiniteSets, Functions

CONSTANTS
    Graphs,     \* the edge sets to look at
    Changed,    \* the changed nodes
    Limits,     \* DefaultMaxNodes
    BatchSize,  \* expandBatch
    Depth       \* impactDepth

ChangeKinds == {"signature", "behaviour", "remove", "rename", "add_field", "schema",
                "config", "route"}

VARIABLES
    edges,     \* the graph
    limit,     \* the cap on nodes
    change,    \* what is done to the changed nodes
    pc,
    best,      \* node -> the shortest depth, the rank and the last edge found so far
    frontier,  \* the nodes reached by the last hop, as the query batches them
    depth,     \* the hop under way
    rows,      \* the rows of the batch's query that are still to be read
    room,      \* how many of them the query returns at most
    found,     \* the next frontier
    cut,       \* what cut the walk short: the cap on nodes, or that on rows
    report     \* the consumers, in the order of the report

imvars == <<edges, limit, change, pc, best, frontier, depth, rows, room, found, cut, report>>

Visited == DOMAIN best

\* The orders in which a set can be listed.
Listings(S) == Bijection(1 .. Cardinality(S), S)

ImInit ==
    /\ edges \in Graphs /\ limit \in Limits /\ change = "none"
    /\ pc = "hop" /\ depth = 1
    /\ best = [n \in Changed |-> [depth |-> 0, rank |-> 0, via |-> "none"]]
    /\ frontier \in Listings(Changed)
    /\ rows = {} /\ room = 0 /\ found = <<>> /\ cut = "none" /\ report = <<>>

Walk(next, why) ==
    /\ pc' = next
    /\ cut' = IF why = "none" THEN cut ELSE why

-----------------------------------------------------------------------------
(* Traverse *)

\* The top of the loop over the depths.
HopBegin ==
    /\ pc = "hop"
    /\ LET going == depth <= Depth /\ frontier # <<>>
           full == Cardinality(Visited) >= limit
       IN Walk(IF going /\ ~full THEN "batch" ELSE "load",
               IF full /\ frontier # <<>> THEN "nodes" ELSE "none")
    /\ found' = <<>>
    /\ UNCHANGED <<edges, limit, change, best, frontier, depth, rows, room, report>>

\* expand: the next batch, and the query with as many rows as could be useful.
BatchBegin ==
    LET size == IF Len(frontier) < BatchSize THEN Len(frontier) ELSE BatchSize
        chunk == {frontier[k] : k \in 1 .. size}
        remaining == limit - Cardinality(Visited)
    IN
    /\ pc = "batch" /\ frontier # <<>> /\ remaining > 0
    /\ rows' = {e \in edges : e.to \in chunk}
    /\ room' = remaining * 4
    /\ frontier' = SubSeq(frontier, size + 1, Len(frontier))
    /\ pc' = "rows"
    /\ UNCHANGED <<edges, limit, change, best, depth, found, cut, report>>

\* The hop ends when no batch is left, or no room.
HopEnd ==
    /\ pc = "batch"
    /\ frontier = <<>> \/ Cardinality(Visited) >= limit
    /\ Walk("hop", IF frontier = <<>> THEN "none" ELSE "nodes")
    /\ frontier' = found
    /\ depth' = depth + 1
    /\ UNCHANGED <<edges, limit, change, best, rows, room, found, report>>

LastHop(parent, rank) == rank

\* A path is as strong as its weakest hop.
WeakestHop(parent, rank) == IF parent > rank THEN parent ELSE rank

\* fetchHop, one row: a node keeps the shortest way to it, and then the strongest.
FetchRow(e) ==
    LET weakest == WeakestHop(best[e.to].rank, e.rank)
        new == e.from \notin Visited
        better == new \/ (best[e.from].depth = depth /\ best[e.from].rank > weakest)
        entry == [depth |-> depth, rank |-> weakest, via |-> e.kind]
    IN
    /\ pc = "rows" /\ room > 0
    /\ IF new /\ Cardinality(Visited) >= limit
       THEN /\ Walk("cut", "nodes")
            /\ UNCHANGED <<best, found>>
       ELSE /\ best' = IF better
                       THEN [n \in Visited \cup {e.from} |-> IF n = e.from THEN entry ELSE best[n]]
                       ELSE best
            /\ found' = IF new THEN Append(found, e.from) ELSE found
            /\ UNCHANGED <<pc, cut>>
    /\ rows' = rows \ {e}
    /\ room' = room - 1
    /\ UNCHANGED <<edges, limit, change, frontier, depth, report>>

\* As many rows as the query may return end the hop.
RowsEnd ==
    /\ pc = "rows" /\ (rows = {} \/ room = 0)
    /\ Walk(IF room = 0 THEN "cut" ELSE "batch", IF room = 0 THEN "rows" ELSE "none")
    /\ UNCHANGED <<edges, limit, change, best, frontier, depth, rows, room, found, report>>

\* A cut ends the hop; the walk goes on from what it found.
HopCut ==
    /\ pc = "cut"
    /\ pc' = "hop"
    /\ frontier' = found /\ depth' = depth + 1
    /\ UNCHANGED <<edges, limit, change, best, rows, room, found, cut, report>>

-----------------------------------------------------------------------------
(* ImpactOf *)

BreaksOn ==
    [remove |-> {}, add_field |-> {"implements"}, behaviour |-> {"tests"},
     signature |-> {"calls", "returns", "accepts", "implements", "tests"},
     rename |-> {"calls", "uses_type", "references", "implements", "imports", "extends",
                 "embeds", "reads_config"},
     schema |-> {"reads_schema", "writes_schema", "tests"},
     config |-> {"reads_config", "deploys", "provisions"},
     route |-> {"routes_to", "handles", "references", "tests"}]

\* rankToEvidence and Certain: resolved and declared.
CertainRank(rank) == rank <= 1

VerdictFor(kind, via, rank) ==
    CASE ~CertainRank(rank) -> "undetermined"
      [] CertainRank(rank) /\ (kind = "remove" \/ via \in BreaksOn[kind]) -> "breaking"
      [] CertainRank(rank) /\ kind = "add_field" /\ via \notin {"implements", "uses_type"} ->
            "compatible"
      [] OTHER -> "compiles"

Severity == [breaking |-> 0, undetermined |-> 1, compiles |-> 2, compatible |-> 3]

ConsumerOf(n, kind) ==
    [node |-> n, depth |-> best[n].depth, rank |-> best[n].rank,
     verdict |-> VerdictFor(kind, best[n].via, best[n].rank)]

Precedes(a, b) ==
    \/ Severity[a.verdict] < Severity[b.verdict]
    \/ Severity[a.verdict] = Severity[b.verdict]
       /\ (a.depth < b.depth \/ (a.depth = b.depth /\ a.node <= b.node))

\* buildImpact: everything reached but the changed nodes, the worst first.  A node
\* stands for its path.
BuildImpact(kind) ==
    /\ pc = "load"
    /\ report' \in {s \in Listings({ConsumerOf(n, kind) : n \in Visited \ Changed}) :
                       \A i, j \in DOMAIN s : i < j => Precedes(s[i], s[j])}
    /\ change' = kind /\ pc' = "done"
    /\ UNCHANGED <<edges, limit, best, frontier, depth, rows, room, found, cut>>

Truncated == Cardinality(Visited) >= limit

ImNext ==
    \/ HopBegin \/ BatchBegin \/ HopEnd \/ RowsEnd \/ HopCut
    \/ \E e \in rows : FetchRow(e)
    \/ \E kind \in ChangeKinds : BuildImpact(kind)

ImSpec == ImInit /\ [][ImNext]_imvars

-----------------------------------------------------------------------------
\* The ways back in a graph from a node to the changed ones, over so many edges.
Paths(g, n, d) ==
    {p \in [1 .. d -> g] :
        p[1].from = n /\ p[d].to \in Changed /\ \A k \in 1 .. d - 1 : p[k].to = p[k + 1].from}

Distance(n) ==
    {d \in 1 .. Depth : Paths(edges, n, d) # {} /\ \A c \in 1 .. d - 1 : Paths(edges, n, c) = {}}

\* What the gate shows of a change is a lower bound or says so: unless the report
\* is marked as truncated, or the cap on rows cut a query, every node that depends
\* on a changed one over at most Depth edges is in it, once, at its distance, and it
\* is undetermined exactly when each way there rests on weak evidence.  Whatever was
\* cut, no consumer is invented and the worst come first.
ImpactIsWhole ==
    pc = "done" =>
        LET listed == {report[k].node : k \in DOMAIN report}
            consumers == {n \in {e.from : e \in edges} \ Changed : Distance(n) # {}}
        IN
        /\ Cardinality(listed) = Len(report) /\ listed \subseteq consumers
        /\ \A i, j \in DOMAIN report : i < j =>
              Severity[report[i].verdict] <= Severity[report[j].verdict]
        /\ (~Truncated /\ cut # "rows") =>
              /\ listed = consumers
              /\ \A k \in DOMAIN report : LET r == report[k] IN
                    /\ r.depth \in Distance(r.node)
                    /\ (r.verdict = "undetermined") <=>
                          \A p \in Paths(edges, r.node, r.depth) :
                              \E h \in DOMAIN p : ~CertainRank(p[h].rank)
=============================================================================
