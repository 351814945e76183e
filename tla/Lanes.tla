-------------------------------- MODULE Lanes --------------------------------
(***************************************************************************)
(* The sockets `le api` serves beside its API: one allowlisting proxy per  *)
(* provisioning lane, with a bound on its tunnels, and the editor bridge,  *)
(* which gives every connection an agent process of its own.  Clients come *)
(* and go, upstreams and agents fail, and the supervisor stops while       *)
(* connections are open.                                                   *)
(*                                                                         *)
(* A host is the sequence of its labels, the most specific first; a rule   *)
(* is the labels it ends in and whether it is a wildcard.                  *)
(***************************************************************************)
EXTENDS Naturals, Sequences, FiniteSets

CONSTANTS
    Clients,         \* connections to a proxy
    Editors,         \* connections to the bridge
    Rules,           \* egress.allowlist
    Hosts, Ports,    \* the hosts and ports a client may ask for
    AllowPorts,      \* the ports a proxy serves
    MaxConcurrent,   \* bound on the tunnels of one proxy
    MaxConnections,  \* bound on the sessions of the bridge
    Settings         \* the configurations considered: offline, enabled, sandbox, agent

LaneNames == {"deps", "docs"}

VARIABLES
    conf,      \* the configuration
    up,        \* the listeners that accept
    conns,     \* lane -> Server.conns
    client,    \* the proxy connections
    journal,   \* the decisions recorded, with their connection
    active,    \* Bridge.active
    editor     \* the bridge's sessions

lavars == <<conf, up, conns, client, journal, active, editor>>

NoClient == [pc |-> "idle", lane |-> "deps", host |-> <<>>, port |-> "443", how |-> "connect"]

LaInit ==
    /\ conf \in Settings
    /\ up = {}
    /\ conns = [l \in LaneNames |-> 0]
    /\ client = [c \in Clients |-> NoClient]
    /\ journal = {}
    /\ active = 0
    /\ editor = [e \in Editors |-> [pc |-> "idle", agent |-> "none"]]

-----------------------------------------------------------------------------
(* The allowlist *)

\* Allowlist.Validate: a host or a wildcard over at least one label, a reason, no
\* host twice.
Valid(rules) ==
    /\ \A r \in rules : r.labels # <<>> /\ r.why
    /\ \A r, q \in rules : r.labels = q.labels /\ r.wild = q.wild => r = q
    /\ \A r \in rules : r.lanes \subseteq LaneNames

EndsIn(host, labels) ==
    Len(host) >= Len(labels) /\ SubSeq(host, Len(host) - Len(labels) + 1, Len(host)) = labels

\* ruleCoversLane, and Allows: a wildcard does not cover the apex.
CoversLane(r, lane) == r.lanes = {} \/ lane \in r.lanes

Allows(lane, host) ==
    \E r \in Rules :
        /\ CoversLane(r, lane)
        /\ IF r.wild THEN EndsIn(host, r.labels) /\ Len(host) > Len(r.labels) ELSE host = r.labels

\* Server.check and portAllowed, of what a client asked for.
Checked(k) == k.host # <<>> /\ k.port \in AllowPorts /\ Allows(k.lane, k.host)

-----------------------------------------------------------------------------
(* startEgressProxies, startACPBridge and the end of `le api` *)

\* The configuration is validated first; a lane that cannot listen, or a bridge
\* with no agent, starts nothing.
Start ==
    /\ up = {} /\ Valid(Rules) /\ ~conf.stopped
    /\ up' = (IF conf.enabled THEN LaneNames ELSE {}) \cup (IF conf.agent THEN {"bridge"} ELSE {})
    /\ up' # {}
    /\ UNCHANGED <<conf, conns, client, journal, active, editor>>

\* Shutdown closes the listeners.  It waits neither for a tunnel, which was taken
\* from the server, nor for a session.
StopServing ==
    /\ up # {}
    /\ up' = {}
    /\ conf' = [conf EXCEPT !.stopped = TRUE]
    /\ UNCHANGED <<conns, client, journal, active, editor>>

-----------------------------------------------------------------------------
(* One proxy connection *)

Go(c, pc) == client' = [client EXCEPT ![c].pc = pc]
Record(c, allowed) == journal' = journal \cup {[conn |-> c, allowed |-> allowed]}

\* A lane command (openLane, LaneRunner.Run) runs confined to its proxy's port, or
\* not at all.
Connect(c, lane, host, port, how) ==
    /\ client[c].pc = "idle" /\ lane \in up
    /\ ~conf.offline /\ conf.enabled /\ conf.sandbox
    /\ client' = [client EXCEPT ![c] = [pc |-> "check", lane |-> lane, host |-> host,
                                        port |-> port, how |-> how]]
    /\ UNCHANGED <<conf, up, conns, journal, active, editor>>

\* handleHTTP: a request that is no proxy request is turned away unrecorded; the
\* others are recorded and, when allowed, forwarded without a tunnel.
Forward(c) ==
    /\ client[c].pc = "check" /\ client[c].how \in {"get", "direct"}
    /\ IF client[c].how = "direct" THEN UNCHANGED journal /\ Go(c, "done")
       ELSE /\ Record(c, Checked(client[c]))
            /\ Go(c, IF Checked(client[c]) THEN "forward" ELSE "done")
    /\ UNCHANGED <<conf, up, conns, active, editor>>

\* handleConnect: the check, then a place among the tunnels.
Admit(c) ==
    LET l == client[c].lane
        room == conns[l] < MaxConcurrent
    IN  /\ client[c].pc = "check" /\ client[c].how = "connect"
        /\ IF Checked(client[c]) /\ room
           THEN /\ conns' = [conns EXCEPT ![l] = @ + 1]
                /\ Go(c, "dial")
                /\ UNCHANGED journal
           ELSE /\ Record(c, FALSE)
                /\ Go(c, "done")
                /\ UNCHANGED conns
        /\ UNCHANGED <<conf, up, active, editor>>

\* A faulty variant: a failed dial returns before the release is deferred.
DialUnreleased(c, ok) ==
    /\ client[c].pc = "dial"
    /\ Record(c, TRUE)
    /\ Go(c, IF ok THEN "both" ELSE "done")
    /\ UNCHANGED <<conf, up, conns, active, editor>>

\* The upstream answers, or does not; both are recorded as allowed.
Dial(c, ok) ==
    /\ client[c].pc = "dial"
    /\ Record(c, TRUE)
    /\ Go(c, IF ok THEN "both" ELSE "release")
    /\ UNCHANGED <<conf, up, conns, active, editor>>

\* pipe: a direction ends at its end of file, an error or silence, and half-closes
\* the other side; the tunnel is over when both have.
HalfClose(c, side) ==
    /\ client[c].pc \in {"both", IF side = "in" THEN "out" ELSE "in"}
    /\ Go(c, IF client[c].pc = "both" THEN side ELSE "release")
    /\ UNCHANGED <<conf, up, conns, journal, active, editor>>

\* The deferred release.
Finish(c) ==
    /\ client[c].pc \in {"release", "forward"}
    /\ conns' = IF client[c].pc = "forward" THEN conns
                ELSE [conns EXCEPT ![client[c].lane] = @ - 1]
    /\ Go(c, "done")
    /\ UNCHANGED <<conf, up, journal, active, editor>>

-----------------------------------------------------------------------------
(* Bridge.Serve and handle *)

\* One connection is accepted at a time: it is refused at the limit.
Accept(e) ==
    /\ editor[e].pc = "idle" /\ "bridge" \in up
    /\ IF active >= MaxConnections
       THEN editor' = [editor EXCEPT ![e].pc = "refused"] /\ UNCHANGED active
       ELSE editor' = [editor EXCEPT ![e].pc = "handle"] /\ active' = active + 1
    /\ UNCHANGED <<conf, up, conns, client, journal>>

StartAgent(e, ok) ==
    /\ editor[e].pc = "handle" /\ editor[e].agent = "none"
    /\ editor' = [editor EXCEPT ![e] = [pc |-> IF ok THEN "pipe" ELSE "end",
                                        agent |-> IF ok THEN "up" ELSE "none"]]
    /\ UNCHANGED <<conf, up, conns, client, journal, active>>

\* Whichever direction ends first, or the end of the supervisor, ends the session;
\* the cancelled context kills the agent, and handle waits until it is gone.
EndSession(e) ==
    /\ editor[e].pc = "pipe"
    /\ editor' = [editor EXCEPT ![e].pc = "wait"]
    /\ UNCHANGED <<conf, up, conns, client, journal, active>>

AgentExits(e) ==
    /\ editor[e].agent = "up"
    /\ editor' = [editor EXCEPT ![e].agent = "gone"]
    /\ UNCHANGED <<conf, up, conns, client, journal, active>>

Reaped(e) ==
    /\ editor[e].pc = "wait" /\ editor[e].agent = "gone"
    /\ editor' = [editor EXCEPT ![e].pc = "end"]
    /\ UNCHANGED <<conf, up, conns, client, journal, active>>

\* The deferred decrement.
Leave(e) ==
    /\ editor[e].pc = "end"
    /\ active' = active - 1
    /\ editor' = [editor EXCEPT ![e] = [pc |-> "idle", agent |-> "none"]]
    /\ UNCHANGED <<conf, up, conns, client, journal>>

LaNext ==
    \/ Start \/ StopServing
    \/ \E c \in Clients :
          \/ \E l \in LaneNames, h \in Hosts, p \in Ports, how \in {"connect", "get", "direct"} :
                Connect(c, l, h, p, how)
          \/ Forward(c) \/ Admit(c) \/ Finish(c)
          \/ \E ok \in BOOLEAN : Dial(c, ok)
          \/ \E side \in {"in", "out"} : HalfClose(c, side)
    \/ \E e \in Editors :
          \/ Accept(e) \/ EndSession(e) \/ AgentExits(e) \/ Reaped(e) \/ Leave(e)
          \/ \E ok \in BOOLEAN : StartAgent(e, ok)

LaSpec == LaInit /\ [][LaNext]_lavars

-----------------------------------------------------------------------------
Tunnels(l) == {c \in Clients : client[c].lane = l /\ client[c].pc \in {"dial", "both", "in", "out", "release"}}

\* Places are neither lost nor given twice, whichever way a connection ends: the
\* counter of a proxy is the number of its tunnels and never passes the bound, and
\* the same holds of the bridge's sessions, each with at most one agent and none
\* without a session; bytes flow only for a host some rule of that lane names, to a
\* port the proxy serves, with a decision in the journal, and what was decided is
\* recorded once.
PlacesKept ==
    /\ \A l \in LaneNames : conns[l] = Cardinality(Tunnels(l)) /\ conns[l] <= MaxConcurrent
    /\ active = Cardinality({e \in Editors : editor[e].pc \notin {"idle", "refused"}})
    /\ active <= MaxConnections
    /\ \A e \in Editors : editor[e].agent = "up" => editor[e].pc \in {"pipe", "wait"}
    /\ \A c \in Clients : client[c].pc \in {"both", "in", "out", "forward"} =>
          /\ [conn |-> c, allowed |-> TRUE] \in journal
          /\ client[c].port \in AllowPorts
          /\ \E r \in Rules : /\ r.lanes = {} \/ client[c].lane \in r.lanes
                              /\ \E k \in 0 .. Len(client[c].host) - 1 :
                                    /\ SubSeq(client[c].host, k + 1, Len(client[c].host)) = r.labels
                                    /\ r.wild <=> k > 0
    /\ \A c \in Clients : Cardinality({d \in journal : d.conn = c}) <= 1
=============================================================================
