---------------------------- MODULE ServingProofs ----------------------------
(***************************************************************************)
(* Proofs about what `le api` and the tool server serve: the places of the *)
(* proxy lanes and of the editor bridge, for any number of connections and *)
(* any allowlist; the evidence behind a supervised task, for any number of *)
(* tasks, calls and checks; and what the language servers' clients give    *)
(* their callers, for any callers and launches.                            *)
(***************************************************************************)
EXTENDS Lanes, Supervise, Lsp, FiniteSetTheorems, TLAPS

CONSTANT Labels   \* the labels of host names

-----------------------------------------------------------------------------
(* Proxy lanes and the editor bridge *)

\* What is assumed of the constants.
LaConstants ==
    /\ IsFiniteSet(Clients) /\ IsFiniteSet(Editors)
    /\ MaxConcurrent \in Nat /\ MaxConnections \in Nat
    /\ Hosts \subseteq Seq(Labels)
    /\ \A r \in Rules : r.labels \in Seq(Labels) /\ r.wild \in BOOLEAN

InTunnel == {"dial", "both", "in", "out", "release"}
Flowing == {"both", "in", "out", "forward"}
ClientType ==
    [pc : InTunnel \cup {"idle", "check", "forward", "done"}, lane : LaneNames,
     host : Hosts \cup {<<>>}, port : Ports \cup {"443"}, how : {"connect", "get", "direct"}]
EditorType ==
    [pc : {"idle", "refused", "handle", "pipe", "wait", "end"}, agent : {"none", "up", "gone"}]

LaTypes ==
    /\ conns \in [LaneNames -> Nat]
    /\ client \in [Clients -> ClientType]
    /\ journal \subseteq [conn : Clients, allowed : BOOLEAN]
    /\ active \in Nat
    /\ editor \in [Editors -> EditorType]

\* The counter of a lane is the number of its tunnels, that of the bridge the
\* number of its sessions.
Sessions == {e \in Editors : editor[e].pc \notin {"idle", "refused"}}

Counted ==
    /\ \A l \in LaneNames : conns[l] = Cardinality(Tunnels(l)) /\ conns[l] <= MaxConcurrent
    /\ active = Cardinality(Sessions) /\ active <= MaxConnections

\* Nothing is served before the rules were validated; a connection past its check
\* asked for a host its lane allows, and its decision is recorded at the dial or
\* the forward, once.
Decided ==
    /\ up # {} => Valid(Rules)
    /\ \A c \in Clients :
          /\ client[c].pc # "idle" => Valid(Rules)
          /\ client[c].pc \in Flowing \cup {"dial"} =>
                Checked(client[c])
          /\ client[c].pc \in Flowing => [conn |-> c, allowed |-> TRUE] \in journal
          /\ client[c].pc \in {"idle", "check", "dial"} => \A d \in journal : d.conn # c
    /\ \A d, g \in journal : d.conn = g.conn => d = g

\* An agent runs for a session that has started it and not yet waited for it.
Agents == \A e \in Editors : editor[e].agent = "up" => editor[e].pc \in {"pipe", "wait"}

LaInv == LaTypes /\ Counted /\ Decided /\ Agents

\* What a move of one connection makes of the connections and of the tunnels.
LEMMA GoMakes ==
    ASSUME LaTypes, NEW c \in Clients,
           NEW x \in InTunnel \cup {"idle", "check", "forward", "done"}, Go(c, x)
    PROVE  /\ client' \in [Clients -> ClientType]
           /\ client'[c].pc = x /\ client'[c].lane = client[c].lane
           /\ client'[c].host = client[c].host
           /\ client'[c].port = client[c].port
           /\ \A d \in Clients : d # c => client'[d] = client[d]
<1>1. client \in [Clients -> ClientType] /\ client' = [client EXCEPT ![c].pc = x]
  BY DEF LaTypes, Go
<1>2. client'[c] = [pc |-> x, lane |-> client[c].lane, host |-> client[c].host,
                    port |-> client[c].port, how |-> client[c].how]
  BY <1>1 DEF ClientType
<1>3. client'[c] \in ClientType
  BY <1>1, <1>2 DEF ClientType
<1> QED
  BY <1>1, <1>2, <1>3

LEMMA TunnelsAfter ==
    ASSUME NEW c \in Clients, \A d \in Clients : d # c => client'[d] = client[d],
           NEW l \in LaneNames
    PROVE  /\ client'[c].lane = l /\ client'[c].pc \in InTunnel => Tunnels(l)' = Tunnels(l) \cup {c}
           /\ ~(client'[c].lane = l /\ client'[c].pc \in InTunnel) => Tunnels(l)' = Tunnels(l) \ {c}
  BY DEF Tunnels, InTunnel

LEMMA TunnelsFinite ==
    ASSUME LaConstants, NEW l \in LaneNames
    PROVE  IsFiniteSet(Tunnels(l)) /\ Cardinality(Tunnels(l)) \in Nat
<1>1. Tunnels(l) \subseteq Clients
  BY DEF Tunnels
<1> QED
  BY <1>1, FS_Subset, FS_CardinalityType DEF LaConstants

\* A connection that neither takes nor gives back a place leaves the counts alone.
LEMMA PlacesStay ==
    ASSUME LaConstants, Counted, NEW c \in Clients,
           \A d \in Clients : d # c => client'[d] = client[d],
           conns' = conns, active' = active, editor' = editor,
           client[c].pc \in InTunnel <=> client'[c].pc \in InTunnel,
           client[c].pc \in InTunnel => client'[c].lane = client[c].lane
    PROVE  Counted'
<1>1. ASSUME NEW l \in LaneNames PROVE Tunnels(l)' = Tunnels(l)
  BY DEF Tunnels, InTunnel
<1>2. Sessions' = Sessions
  BY DEF Sessions
<1> QED
  BY <1>1, <1>2 DEF Counted

\* The rule that admits a host, as the property reads it: the host from some label
\* on is the rule, from its first one exactly when the rule is no wildcard.
LEMMA AllowedByRule ==
    ASSUME LaConstants, Valid(Rules), NEW l \in LaneNames, NEW h \in Hosts, h # <<>>, Allows(l, h)
    PROVE  \E r \in Rules :
              /\ r.lanes = {} \/ l \in r.lanes
              /\ \E k \in 0 .. Len(h) - 1 :
                    /\ SubSeq(h, k + 1, Len(h)) = r.labels
                    /\ r.wild <=> k > 0
<1>1. h \in Seq(Labels) /\ Len(h) \in Nat /\ Len(h) > 0
  BY DEF LaConstants
<1>2. PICK r \in Rules :
         /\ CoversLane(r, l)
         /\ IF r.wild THEN EndsIn(h, r.labels) /\ Len(h) > Len(r.labels) ELSE h = r.labels
  BY DEF Allows
<1>3. r.labels \in Seq(Labels) /\ Len(r.labels) \in Nat /\ Len(r.labels) > 0
  BY DEF LaConstants, Valid
<1>4. r.wild \in BOOLEAN
  BY DEF LaConstants
<1>5. CASE r.wild
  <2>1. Len(h) - Len(r.labels) \in 0 .. Len(h) - 1 /\ Len(h) - Len(r.labels) > 0
    BY <1>1, <1>2, <1>3, <1>5
  <2>2. SubSeq(h, (Len(h) - Len(r.labels)) + 1, Len(h)) = r.labels
    BY <1>2, <1>5 DEF EndsIn
  <2> QED
    BY <1>2, <1>5, <2>1, <2>2 DEF CoversLane
<1>6. CASE ~r.wild
  <2>1. h = r.labels
    BY <1>2, <1>6
  <2>2. SubSeq(h, 0 + 1, Len(h)) = h
    BY <1>1
  <2>3. 0 \in 0 .. Len(h) - 1
    BY <1>1
  <2> QED
    BY <1>2, <1>6, <2>1, <2>2, <2>3 DEF CoversLane
<1> QED
  BY <1>4, <1>5, <1>6

\* One connection moves, and its decision may be recorded, once.
LEMMA DecidedMoves ==
    ASSUME Decided, NEW c \in Clients, \A d \in Clients : d # c => client'[d] = client[d],
           up' = up, NEW a \in BOOLEAN,
           \/ journal' = journal
           \/ /\ Record(c, a) /\ client[c].pc \in {"idle", "check", "dial"}
              /\ client'[c].pc \notin {"idle", "check", "dial"},
           Valid(Rules),
           client'[c].pc \in Flowing \cup {"dial"} =>
              Checked(client'[c]),
           client'[c].pc \in Flowing => [conn |-> c, allowed |-> TRUE] \in journal',
           client'[c].pc \in {"idle", "check", "dial"} => \A d \in journal : d.conn # c
    PROVE  Decided'
<1>1. ASSUME NEW d \in Clients, d # c, NEW g \in journal', g.conn = d PROVE g \in journal
  BY <1>1 DEF Record
<1>2. \A d \in journal : d \in journal'
  BY DEF Record
<1>3. ASSUME NEW d \in Clients
      PROVE  /\ client'[d].pc \in Flowing \cup {"dial"} =>
                   Checked(client'[d])
             /\ client'[d].pc \in Flowing => [conn |-> d, allowed |-> TRUE] \in journal'
             /\ client'[d].pc \in {"idle", "check", "dial"} => \A g \in journal' : g.conn # d
  <2>1. CASE d = c
    BY <2>1
  <2>2. CASE d # c
    BY <1>1, <1>2, <2>2 DEF Decided
  <2> QED
    BY <2>1, <2>2
<1>4. ASSUME NEW d \in journal', NEW g \in journal', d.conn = g.conn PROVE d = g
  <2>1. CASE journal' = journal
    BY <1>4, <2>1 DEF Decided
  <2>2. CASE Record(c, a) /\ client[c].pc \in {"idle", "check", "dial"}
    <3>1. journal' = journal \cup {[conn |-> c, allowed |-> a]}
      BY <2>2 DEF Record
    <3>2. \A q \in journal : q.conn # c
      BY <2>2 DEF Decided
    <3> QED
      BY <1>4, <3>1, <3>2 DEF Decided
  <2> QED
    BY <2>1, <2>2
<1>5. \A l, h : Allows(l, h)' <=> Allows(l, h)
  BY DEF Allows, CoversLane, EndsIn
<1>6. Valid(Rules)' <=> Valid(Rules)
  BY DEF Valid, LaneNames
<1> QED
  BY <1>3, <1>4, <1>5, <1>6 DEF Decided

LEMMA RecordTypes ==
    ASSUME LaTypes, NEW c \in Clients, NEW a \in BOOLEAN, Record(c, a)
    PROVE  journal' \subseteq [conn : Clients, allowed : BOOLEAN]
  BY DEF LaTypes, Record

\* A proxy connection arrives, is judged, dialled, piped and released.
LEMMA ConnectKeeps ==
    ASSUME LaConstants, LaInv, NEW c \in Clients, NEW l \in LaneNames, NEW h \in Hosts,
           NEW p \in Ports, NEW how \in {"connect", "get", "direct"}, Connect(c, l, h, p, how)
    PROVE  LaInv'
<1>1. /\ client[c].pc = "idle" /\ l \in up
      /\ client' = [client EXCEPT ![c] = [pc |-> "check", lane |-> l, host |-> h, port |-> p, how |-> how]]
      /\ UNCHANGED <<conf, up, conns, journal, active, editor>>
  BY DEF Connect
<1>2. [pc |-> "check", lane |-> l, host |-> h, port |-> p, how |-> how] \in ClientType
  BY DEF ClientType
<1>3. /\ client' \in [Clients -> ClientType] /\ client'[c].pc = "check"
      /\ \A d \in Clients : d # c => client'[d] = client[d]
  BY <1>1, <1>2 DEF LaInv, LaTypes
<1>4. LaTypes' /\ Agents'
  BY <1>1, <1>3 DEF LaInv, LaTypes, Agents
<1>5. Counted'
  BY <1>1, <1>3, PlacesStay DEF LaInv, InTunnel
<1>6. Valid(Rules) /\ \A d \in journal : d.conn # c
  BY <1>1 DEF LaInv, Decided
<1>7. Decided'
  BY <1>1, <1>3, <1>6, DecidedMoves DEF LaInv, Flowing
<1> QED
  BY <1>4, <1>5, <1>7 DEF LaInv

LEMMA ForwardKeeps ==
    ASSUME LaConstants, LaInv, NEW c \in Clients, Forward(c)
    PROVE  LaInv'
<1> DEFINE ok == Checked(client[c])
           asks == client[c].how # "direct"
           x == IF asks /\ ok THEN "forward" ELSE "done"
<1>1. /\ client[c].pc = "check" /\ Go(c, x)
      /\ IF asks THEN Record(c, ok) ELSE journal' = journal
      /\ UNCHANGED <<conf, up, conns, active, editor>>
  BY DEF Forward
<1>2. ok \in BOOLEAN
  BY DEF Checked
<1>3. /\ client' \in [Clients -> ClientType]
      /\ client'[c].pc = x /\ client'[c].lane = client[c].lane
      /\ client'[c].host = client[c].host
      /\ client'[c].port = client[c].port
      /\ \A d \in Clients : d # c => client'[d] = client[d]
  BY <1>1, GoMakes DEF LaInv
<1>4. LaTypes' /\ Agents'
  BY <1>1, <1>2, <1>3, RecordTypes DEF LaInv, LaTypes, Agents
<1>5. Counted'
  BY <1>1, <1>3, PlacesStay DEF LaInv, InTunnel
<1>6. Valid(Rules)
  BY <1>1 DEF LaInv, Decided
<1>7. client'[c].pc \in Flowing => [conn |-> c, allowed |-> TRUE] \in journal'
  <2>1. CASE asks /\ ok
    BY <1>1, <1>2, <2>1 DEF Record
  <2>2. CASE ~(asks /\ ok)
    BY <1>3, <2>2 DEF Flowing
  <2> QED
    BY <2>1, <2>2
<1>8. /\ x \in Flowing \cup {"dial"} => asks /\ ok
      /\ x \notin {"idle", "check", "dial"}
  BY DEF Flowing
<1> HIDE DEF ok, x
<1>9. Decided'
  <2>1. CASE asks
    <3>1. Record(c, ok)
      BY <1>1, <2>1
    <3>2. client'[c].pc \in Flowing \cup {"dial"} =>
             Checked(client'[c])
      BY <1>3, <1>8 DEF ok, Checked
    <3> QED
      BY <1>1, <1>2, <1>3, <1>6, <1>7, <1>8, <3>1, <3>2, DecidedMoves DEF LaInv
  <2>2. CASE ~asks
    <3>1. client'[c].pc \in Flowing \cup {"dial"} =>
             Checked(client'[c])
      BY <1>3, <1>8 DEF ok, Checked
    <3> QED
      BY <1>1, <1>2, <1>3, <1>6, <1>7, <1>8, <2>2, <3>1, DecidedMoves DEF LaInv
  <2> QED
    BY <2>1, <2>2
<1> QED
  BY <1>4, <1>5, <1>9 DEF LaInv

LEMMA AdmitKeeps ==
    ASSUME LaConstants, LaInv, NEW c \in Clients, Admit(c)
    PROVE  LaInv'
<1>l. PICK l \in LaneNames : l = client[c].lane
  BY DEF LaInv, LaTypes, ClientType
<1> DEFINE ok == Checked(client[c])
           room == conns[l] < MaxConcurrent
<1>1. client[c].pc = "check" /\ UNCHANGED <<conf, up, active, editor>>
  BY DEF Admit
<1>2. Valid(Rules) /\ \A d \in journal : d.conn # c
  BY <1>1 DEF LaInv, Decided
<1>3. CASE ok /\ room
  <2>1. conns' = [conns EXCEPT ![l] = conns[l] + 1] /\ Go(c, "dial") /\ journal' = journal
    BY <1>l, <1>3 DEF Admit
  <2>2. /\ client' \in [Clients -> ClientType]
        /\ client'[c].pc = "dial" /\ client'[c].lane = l /\ client'[c].host = client[c].host
        /\ client'[c].port = client[c].port
        /\ \A d \in Clients : d # c => client'[d] = client[d]
    BY <1>l, <2>1, GoMakes DEF LaInv, InTunnel
  <2>3. LaTypes' /\ Agents'
    BY <1>1, <2>1, <2>2 DEF LaInv, LaTypes, Agents
  <2>4. Counted'
    <3>1. c \notin Tunnels(l) /\ \A m \in LaneNames : c \notin Tunnels(m)
      BY <1>1 DEF Tunnels
    <3>2. Tunnels(l)' = Tunnels(l) \cup {c}
      BY <1>1, <2>2, TunnelsAfter DEF InTunnel
    <3>3. Cardinality(Tunnels(l)') = Cardinality(Tunnels(l)) + 1
      BY <1>1, <3>1, <3>2, TunnelsFinite, FS_AddElement
    <3>4. conns'[l] = conns[l] + 1 /\ conns[l] \in Nat /\ conns'[l] <= MaxConcurrent
      BY <1>1, <1>3, <2>1 DEF LaInv, LaTypes, LaConstants
    <3>5. ASSUME NEW m \in LaneNames, m # l
          PROVE  conns'[m] = conns[m] /\ Tunnels(m)' = Tunnels(m)
      <4>1. Tunnels(m)' = Tunnels(m) \ {c}
        BY <2>2, <3>5, TunnelsAfter
      <4> QED
        BY <1>1, <2>1, <3>1, <3>5, <4>1 DEF LaInv, LaTypes
    <3>6. Sessions' = Sessions
      BY <1>1 DEF Sessions
    <3> QED
      BY <1>1, <3>3, <3>4, <3>5, <3>6 DEF LaInv, Counted
  <2>5. Checked(client'[c])
    BY <1>l, <1>3, <2>2 DEF Checked
  <2>6. Decided'
    BY <1>1, <1>2, <2>1, <2>2, <2>5, DecidedMoves DEF LaInv, Flowing
  <2> QED
    BY <2>3, <2>4, <2>6 DEF LaInv
<1>4. CASE ~(ok /\ room)
  <2>1. Record(c, FALSE) /\ Go(c, "done") /\ conns' = conns
    BY <1>l, <1>4 DEF Admit
  <2>2. /\ client' \in [Clients -> ClientType] /\ client'[c].pc = "done"
        /\ \A d \in Clients : d # c => client'[d] = client[d]
    BY <2>1, GoMakes DEF LaInv
  <2>3. LaTypes' /\ Agents'
    BY <1>1, <2>1, <2>2, RecordTypes DEF LaInv, LaTypes, Agents
  <2>4. Counted'
    BY <1>1, <2>1, <2>2, PlacesStay DEF LaInv, InTunnel
  <2>5. Decided'
    BY <1>1, <1>2, <2>1, <2>2, DecidedMoves DEF LaInv, Flowing
  <2> QED
    BY <2>3, <2>4, <2>5 DEF LaInv
<1> QED
  BY <1>3, <1>4

LEMMA DialKeeps ==
    ASSUME LaConstants, LaInv, NEW c \in Clients, NEW ok \in BOOLEAN, Dial(c, ok)
    PROVE  LaInv'
<1> DEFINE x == IF ok THEN "both" ELSE "release"
<1>1. /\ client[c].pc = "dial" /\ Record(c, TRUE) /\ Go(c, x)
      /\ UNCHANGED <<conf, up, conns, active, editor>>
      /\ x \in {"both", "release"}
  BY DEF Dial
<1> HIDE DEF x
<1>2. /\ client' \in [Clients -> ClientType]
      /\ client'[c].pc = x /\ client'[c].lane = client[c].lane
      /\ client'[c].host = client[c].host
      /\ client'[c].port = client[c].port
      /\ \A d \in Clients : d # c => client'[d] = client[d]
  BY <1>1, GoMakes DEF LaInv, InTunnel
<1>3. LaTypes' /\ Agents'
  BY <1>1, <1>2, RecordTypes DEF LaInv, LaTypes, Agents
<1>4. Counted'
  BY <1>1, <1>2, PlacesStay DEF LaInv, InTunnel
<1>5. Valid(Rules) /\ Checked(client[c])
  BY <1>1 DEF LaInv, Decided
<1>6. [conn |-> c, allowed |-> TRUE] \in journal'
  BY <1>1 DEF Record
<1>7. Checked(client'[c])
  BY <1>2, <1>5 DEF Checked
<1>8. Decided'
  BY <1>1, <1>2, <1>5, <1>6, <1>7, DecidedMoves DEF LaInv, Flowing
<1> QED
  BY <1>3, <1>4, <1>8 DEF LaInv

LEMMA HalfCloseKeeps ==
    ASSUME LaConstants, LaInv, NEW c \in Clients, NEW side \in {"in", "out"}, HalfClose(c, side)
    PROVE  LaInv'
<1> DEFINE x == IF client[c].pc = "both" THEN side ELSE "release"
<1>1. /\ client[c].pc \in {"both", "in", "out"} /\ Go(c, x)
      /\ UNCHANGED <<conf, up, conns, journal, active, editor>>
      /\ x \in {"in", "out", "release"}
  BY DEF HalfClose
<1> HIDE DEF x
<1>2. /\ client' \in [Clients -> ClientType]
      /\ client'[c].pc = x /\ client'[c].lane = client[c].lane
      /\ client'[c].host = client[c].host
      /\ client'[c].port = client[c].port
      /\ \A d \in Clients : d # c => client'[d] = client[d]
  BY <1>1, GoMakes DEF LaInv, InTunnel
<1>3. LaTypes' /\ Agents'
  BY <1>1, <1>2 DEF LaInv, LaTypes, Agents
<1>4. Counted'
  BY <1>1, <1>2, PlacesStay DEF LaInv, InTunnel
<1>5. /\ Valid(Rules) /\ Checked(client[c])
      /\ [conn |-> c, allowed |-> TRUE] \in journal
  BY <1>1 DEF LaInv, Decided, Flowing
<1>6. Checked(client'[c])
  BY <1>2, <1>5 DEF Checked
<1>7. Decided'
  BY <1>1, <1>2, <1>5, <1>6, DecidedMoves DEF LaInv
<1> QED
  BY <1>3, <1>4, <1>7 DEF LaInv

LEMMA FinishKeeps ==
    ASSUME LaConstants, LaInv, NEW c \in Clients, Finish(c)
    PROVE  LaInv'
<1>l. PICK l \in LaneNames : l = client[c].lane
  BY DEF LaInv, LaTypes, ClientType
<1>1. /\ client[c].pc \in {"release", "forward"} /\ Go(c, "done")
      /\ UNCHANGED <<conf, up, journal, active, editor>>
  BY DEF Finish
<1>2. /\ client' \in [Clients -> ClientType] /\ client'[c].pc = "done"
      /\ \A d \in Clients : d # c => client'[d] = client[d]
  BY <1>1, GoMakes DEF LaInv
<1>3. Decided'
  <2>1. Valid(Rules)
    BY <1>1 DEF LaInv, Decided
  <2> QED
    BY <1>1, <1>2, <2>1, DecidedMoves DEF LaInv, Flowing
<1>4. CASE client[c].pc = "forward"
  <2>1. conns' = conns
    BY <1>4 DEF Finish
  <2>2. LaTypes' /\ Agents'
    BY <1>1, <1>2, <2>1 DEF LaInv, LaTypes, Agents
  <2>3. Counted'
    BY <1>1, <1>2, <1>4, <2>1, PlacesStay DEF LaInv, InTunnel
  <2> QED
    BY <1>3, <2>2, <2>3 DEF LaInv
<1>5. CASE client[c].pc = "release"
  <2>1. conns' = [conns EXCEPT ![l] = conns[l] - 1] /\ conns \in [LaneNames -> Nat]
    BY <1>l, <1>5 DEF Finish, LaInv, LaTypes
  <2>2. c \in Tunnels(l)
    BY <1>l, <1>5 DEF Tunnels
  <2>3. Tunnels(l)' = Tunnels(l) \ {c}
    BY <1>1, <1>2, TunnelsAfter DEF InTunnel
  <2>4. Cardinality(Tunnels(l)') = Cardinality(Tunnels(l)) - 1 /\ Cardinality(Tunnels(l)') \in Nat
    BY <1>1, <2>2, <2>3, TunnelsFinite, FS_RemoveElement, FS_CardinalityType
  <2>5. conns'[l] = Cardinality(Tunnels(l)') /\ conns'[l] \in Nat /\ conns'[l] <= MaxConcurrent
    BY <1>1, <2>1, <2>4 DEF LaInv, Counted, LaConstants
  <2>6. ASSUME NEW m \in LaneNames, m # l
        PROVE  conns'[m] = conns[m] /\ Tunnels(m)' = Tunnels(m)
    <3>1. c \notin Tunnels(m)
      BY <1>l, <2>6 DEF Tunnels
    <3>2. Tunnels(m)' = Tunnels(m) \ {c}
      BY <1>2, TunnelsAfter DEF InTunnel
    <3> QED
      BY <1>1, <2>1, <2>6, <3>1, <3>2
  <2>7. conns' \in [LaneNames -> Nat]
    BY <1>1, <2>1, <2>5, <2>6
  <2>8. LaTypes' /\ Agents'
    BY <1>1, <1>2, <2>7 DEF LaInv, LaTypes, Agents
  <2>9. Sessions' = Sessions
    BY <1>1 DEF Sessions
  <2>10. Counted'
    BY <1>1, <2>5, <2>6, <2>9 DEF LaInv, Counted
  <2> QED
    BY <1>3, <2>8, <2>10 DEF LaInv
<1> QED
  BY <1>1, <1>4, <1>5

\* What the updates of a session make of it.
LEMMA SessionMakes ==
    ASSUME LaTypes, NEW e \in Editors,
           NEW x \in {"idle", "refused", "handle", "pipe", "wait", "end"},
           NEW a \in {"none", "up", "gone"},
           \/ editor' = [editor EXCEPT ![e] = [pc |-> x, agent |-> a]]
           \/ editor' = [editor EXCEPT ![e].pc = x] /\ editor[e].agent = a
           \/ editor' = [editor EXCEPT ![e].agent = a] /\ editor[e].pc = x
    PROVE  /\ editor' \in [Editors -> EditorType]
           /\ editor'[e].pc = x /\ editor'[e].agent = a
           /\ \A f \in Editors : f # e => editor'[f] = editor[f]
<1>1. editor \in [Editors -> EditorType]
  BY DEF LaTypes
<1>2. editor'[e] = [pc |-> x, agent |-> a]
  <2>1. CASE editor' = [editor EXCEPT ![e] = [pc |-> x, agent |-> a]]
    BY <1>1, <2>1
  <2>2. CASE editor' = [editor EXCEPT ![e].pc = x] /\ editor[e].agent = a
    BY <1>1, <2>2 DEF EditorType
  <2>3. CASE editor' = [editor EXCEPT ![e].agent = a] /\ editor[e].pc = x
    BY <1>1, <2>3 DEF EditorType
  <2> QED
    BY <2>1, <2>2, <2>3
<1>3. [pc |-> x, agent |-> a] \in EditorType
  BY DEF EditorType
<1>4. DOMAIN editor' = Editors /\ \A f \in Editors : f # e => editor'[f] = editor[f]
  BY <1>1
<1>5. editor' = [f \in Editors |-> editor'[f]]
  BY <1>1
<1> QED
  BY <1>1, <1>2, <1>3, <1>4, <1>5

\* A session of the bridge moves from one point to another.
LEMMA SessionMoves ==
    ASSUME LaConstants, LaInv, NEW e \in Editors, editor' \in [Editors -> EditorType],
           \A f \in Editors : f # e => editor'[f] = editor[f],
           UNCHANGED <<up, conns, client, journal>>,
           editor'[e].agent = "up" => editor'[e].pc \in {"pipe", "wait"},
           active' \in Nat, active' <= MaxConnections,
           active' = Cardinality(Sessions')
    PROVE  LaInv'
<1>1. LaTypes'
  BY DEF LaInv, LaTypes
<1>2. Agents'
  BY DEF LaInv, Agents
<1>3. Counted'
  <2>1. \A l \in LaneNames : Tunnels(l)' = Tunnels(l)
    BY DEF Tunnels
  <2> QED
    BY <2>1 DEF LaInv, Counted
<1>4. Decided'
  BY DEF LaInv, Decided, Allows, CoversLane, EndsIn, Valid
<1> QED
  BY <1>1, <1>2, <1>3, <1>4 DEF LaInv

\* A move that opens or closes no session.
LEMMA SessionStays ==
    ASSUME LaConstants, LaInv, NEW e \in Editors, editor' \in [Editors -> EditorType],
           \A f \in Editors : f # e => editor'[f] = editor[f],
           UNCHANGED <<up, conns, client, journal, active>>,
           editor'[e].agent = "up" => editor'[e].pc \in {"pipe", "wait"},
           editor'[e].pc \in {"idle", "refused"} <=> editor[e].pc \in {"idle", "refused"}
    PROVE  LaInv'
<1>1. Sessions' = Sessions
  BY DEF Sessions
<1>2. active' \in Nat /\ active' <= MaxConnections /\ active' = Cardinality(Sessions')
  BY <1>1 DEF LaInv, LaTypes, Counted
<1> QED
  BY <1>2, SessionMoves

LEMMA AcceptKeeps == ASSUME LaConstants, LaInv, NEW e \in Editors, Accept(e) PROVE LaInv'
<1>1. editor[e].pc = "idle" /\ UNCHANGED <<up, conns, client, journal>>
  BY DEF Accept
<1>2. /\ editor[e].agent \in {"none", "gone"} /\ active \in Nat /\ active = Cardinality(Sessions)
      /\ active <= MaxConnections
  BY <1>1 DEF LaInv, LaTypes, EditorType, Counted, Agents
<1>3. CASE active >= MaxConnections
  <2>1. editor' = [editor EXCEPT ![e].pc = "refused"] /\ active' = active
    BY <1>3 DEF Accept
  <2>2. /\ editor' \in [Editors -> EditorType]
        /\ editor'[e].pc = "refused" /\ editor'[e].agent = editor[e].agent
        /\ \A f \in Editors : f # e => editor'[f] = editor[f]
    BY <1>2, <2>1, SessionMakes DEF LaInv
  <2> QED
    BY <1>1, <1>2, <2>1, <2>2, SessionStays
<1>4. CASE ~(active >= MaxConnections)
  <2>1. editor' = [editor EXCEPT ![e].pc = "handle"] /\ active' = active + 1
    BY <1>4 DEF Accept
  <2>2. /\ editor' \in [Editors -> EditorType]
        /\ editor'[e].pc = "handle" /\ editor'[e].agent = editor[e].agent
        /\ \A f \in Editors : f # e => editor'[f] = editor[f]
    BY <1>2, <2>1, SessionMakes DEF LaInv
  <2>3. Sessions' = Sessions \cup {e} /\ e \notin Sessions /\ Sessions \subseteq Editors
    BY <1>1, <2>2 DEF Sessions
  <2>4. Cardinality(Sessions') = Cardinality(Sessions) + 1
    BY <2>3, FS_Subset, FS_AddElement DEF LaConstants
  <2>5. active' \in Nat /\ active' <= MaxConnections
    BY <1>2, <1>4, <2>1 DEF LaConstants
  <2> QED
    BY <1>1, <1>2, <2>1, <2>2, <2>4, <2>5, SessionMoves
<1> QED
  BY <1>3, <1>4

LEMMA LeaveKeeps == ASSUME LaConstants, LaInv, NEW e \in Editors, Leave(e) PROVE LaInv'
<1>1. /\ editor[e].pc = "end" /\ editor' = [editor EXCEPT ![e] = [pc |-> "idle", agent |-> "none"]]
      /\ active' = active - 1 /\ UNCHANGED <<up, conns, client, journal>>
  BY DEF Leave
<1>2. /\ editor' \in [Editors -> EditorType]
      /\ editor'[e].pc = "idle" /\ editor'[e].agent = "none"
      /\ \A f \in Editors : f # e => editor'[f] = editor[f]
  BY <1>1, SessionMakes DEF LaInv
<1>3. Sessions' = Sessions \ {e} /\ e \in Sessions /\ Sessions \subseteq Editors
  BY <1>1, <1>2 DEF Sessions
<1>4. Cardinality(Sessions') = Cardinality(Sessions) - 1 /\ Cardinality(Sessions') \in Nat
  BY <1>3, FS_Subset, FS_RemoveElement, FS_CardinalityType DEF LaConstants
<1>5. active = Cardinality(Sessions) /\ active \in Nat /\ active <= MaxConnections
  BY DEF LaInv, LaTypes, Counted
<1>6. active' \in Nat /\ active' <= MaxConnections /\ active' = Cardinality(Sessions')
  BY <1>1, <1>4, <1>5 DEF LaConstants
<1> QED
  BY <1>1, <1>2, <1>6, SessionMoves

LEMMA BridgeKeeps ==
    ASSUME LaConstants, LaInv, NEW e \in Editors,
           \/ EndSession(e) \/ AgentExits(e) \/ Reaped(e)
           \/ \E ok \in BOOLEAN : StartAgent(e, ok)
    PROVE  LaInv'
<1>t. /\ editor[e].pc \in {"idle", "refused", "handle", "pipe", "wait", "end"}
      /\ editor[e].agent \in {"none", "up", "gone"}
      /\ editor[e].agent = "up" => editor[e].pc \in {"pipe", "wait"}
  BY DEF LaInv, LaTypes, EditorType, Agents
<1>1. UNCHANGED <<up, conns, client, journal, active>>
  BY DEF EndSession, AgentExits, Reaped, StartAgent
<1>2. CASE EndSession(e)
  <2>1. editor[e].pc = "pipe" /\ editor' = [editor EXCEPT ![e].pc = "wait"]
    BY <1>2 DEF EndSession
  <2>2. /\ editor' \in [Editors -> EditorType] /\ editor'[e].pc = "wait"
        /\ \A f \in Editors : f # e => editor'[f] = editor[f]
    BY <1>t, <2>1, SessionMakes DEF LaInv
  <2> QED
    BY <1>1, <2>1, <2>2, SessionStays
<1>3. CASE AgentExits(e)
  <2>1. editor' = [editor EXCEPT ![e].agent = "gone"]
    BY <1>3 DEF AgentExits
  <2>2. /\ editor' \in [Editors -> EditorType]
        /\ editor'[e].pc = editor[e].pc /\ editor'[e].agent = "gone"
        /\ \A f \in Editors : f # e => editor'[f] = editor[f]
    BY <1>t, <2>1, SessionMakes DEF LaInv
  <2> QED
    BY <1>1, <2>2, SessionStays
<1>4. CASE Reaped(e)
  <2>1. /\ editor[e].pc = "wait" /\ editor[e].agent = "gone"
        /\ editor' = [editor EXCEPT ![e].pc = "end"]
    BY <1>4 DEF Reaped
  <2>2. /\ editor' \in [Editors -> EditorType]
        /\ editor'[e].pc = "end" /\ editor'[e].agent = "gone"
        /\ \A f \in Editors : f # e => editor'[f] = editor[f]
    BY <2>1, SessionMakes DEF LaInv
  <2> QED
    BY <1>1, <2>1, <2>2, SessionStays
<1>5. ASSUME NEW ok \in BOOLEAN, StartAgent(e, ok) PROVE LaInv'
  <2>1. PICK x \in {"pipe", "end"}, a \in {"up", "none"} :
           /\ editor[e].pc = "handle" /\ editor' = [editor EXCEPT ![e] = [pc |-> x, agent |-> a]]
           /\ a = "up" => x = "pipe"
    BY <1>5 DEF StartAgent
  <2>2. /\ editor' \in [Editors -> EditorType]
        /\ editor'[e].pc = x /\ editor'[e].agent = a
        /\ \A f \in Editors : f # e => editor'[f] = editor[f]
    BY <2>1, SessionMakes DEF LaInv
  <2> QED
    BY <1>1, <2>1, <2>2, SessionStays
<1> QED
  BY <1>2, <1>3, <1>4, <1>5

\* The listeners come and go; connections stay as they are.
LEMMA ListenersKeep ==
    ASSUME LaConstants, LaInv, Start \/ StopServing
    PROVE  LaInv'
<1>1. UNCHANGED <<conns, client, journal, active, editor>> /\ (up' # {} => Valid(Rules))
  BY DEF Start, StopServing
<1>2. Valid(Rules)' <=> Valid(Rules)
  BY DEF Valid
<1>3. LaTypes' /\ Agents'
  BY <1>1 DEF LaInv, LaTypes, Agents
<1>4. Counted'
  <2>1. Sessions' = Sessions /\ \A l \in LaneNames : Tunnels(l)' = Tunnels(l)
    BY <1>1 DEF Sessions, Tunnels
  <2> QED
    BY <1>1, <2>1 DEF LaInv, Counted
<1>5. Decided'
  BY <1>1, <1>2 DEF LaInv, Decided, Allows, CoversLane, EndsIn
<1> QED
  BY <1>3, <1>4, <1>5 DEF LaInv

LEMMA LaStarts == ASSUME LaConstants, LaInit PROVE LaInv
<1>1. LaTypes
  <2>1. NoClient \in ClientType
    BY DEF NoClient, ClientType, LaneNames
  <2>2. [pc |-> "idle", agent |-> "none"] \in EditorType
    BY DEF EditorType
  <2> QED
    BY <2>1, <2>2 DEF LaTypes, LaInit
<1>2. \A c \in Clients : client[c].pc = "idle"
  BY DEF LaInit, NoClient
<1>3. \A e \in Editors : editor[e].pc = "idle" /\ editor[e].agent = "none"
  BY DEF LaInit
<1>4. Counted
  <2>1. \A l \in LaneNames : Tunnels(l) = {}
    BY <1>2 DEF Tunnels
  <2>2. Sessions = {}
    BY <1>3 DEF Sessions
  <2> QED
    <3>1. Cardinality({}) = 0
      BY FS_EmptySet
    <3>2. active = 0 /\ \A l \in LaneNames : conns[l] = 0
      BY DEF LaInit
    <3>3. 0 <= MaxConcurrent /\ 0 <= MaxConnections
      BY DEF LaConstants
    <3>4. \A l \in LaneNames : Cardinality(Tunnels(l)) = 0
      BY <2>1, <3>1
    <3>5. Cardinality(Sessions) = 0
      BY <2>2, <3>1
    <3> QED
      BY <3>2, <3>3, <3>4, <3>5 DEF Counted
<1>5. Decided /\ Agents
  BY <1>2, <1>3 DEF Decided, Agents, Flowing, LaInit
<1> QED
  BY <1>1, <1>4, <1>5 DEF LaInv

LEMMA LaStep == ASSUME LaConstants, LaInv, [LaNext]_lavars PROVE LaInv'
<1>1. CASE UNCHANGED lavars
  <2>1. UNCHANGED <<up, conns, client, journal, active, editor>>
    BY <1>1 DEF lavars
  <2>2. LaTypes' /\ Agents'
    BY <2>1 DEF LaInv, LaTypes, Agents
  <2>3. Counted'
    <3>1. Sessions' = Sessions /\ \A l \in LaneNames : Tunnels(l)' = Tunnels(l)
      BY <2>1 DEF Sessions, Tunnels
    <3> QED
      BY <2>1, <3>1 DEF LaInv, Counted
  <2>4. Decided'
    BY <2>1 DEF LaInv, Decided, Allows, CoversLane, EndsIn, Valid
  <2> QED
    BY <2>2, <2>3, <2>4 DEF LaInv
<1>2. CASE LaNext
  BY <1>2, ConnectKeeps, ForwardKeeps, AdmitKeeps, DialKeeps, HalfCloseKeeps, FinishKeeps,
     AcceptKeeps, LeaveKeeps, BridgeKeeps, ListenersKeep DEF LaNext
<1> QED
  BY <1>1, <1>2

LEMMA LaImplies == ASSUME LaConstants, LaInv PROVE PlacesKept
<1>1. ASSUME NEW c \in Clients, client[c].pc \in Flowing
      PROVE  /\ [conn |-> c, allowed |-> TRUE] \in journal /\ client[c].port \in AllowPorts
             /\ \E r \in Rules : /\ r.lanes = {} \/ client[c].lane \in r.lanes
                                 /\ \E k \in 0 .. Len(client[c].host) - 1 :
                                       /\ SubSeq(client[c].host, k + 1, Len(client[c].host)) = r.labels
                                       /\ r.wild <=> k > 0
  <2>1. client[c] \in ClientType
    BY DEF LaInv, LaTypes
  <2>2. /\ Checked(client[c])
        /\ [conn |-> c, allowed |-> TRUE] \in journal /\ Valid(Rules)
    BY <1>1 DEF LaInv, Decided, Flowing
  <2>3. client[c].lane \in LaneNames /\ client[c].host \in Hosts
    BY <2>1, <2>2 DEF ClientType, Checked
  <2> QED
    BY <2>2, <2>3, AllowedByRule DEF Checked
<1>2. ASSUME NEW c \in Clients PROVE Cardinality({d \in journal : d.conn = c}) <= 1
  <2>1. CASE {d \in journal : d.conn = c} = {}
    BY <2>1, FS_EmptySet
  <2>2. CASE {d \in journal : d.conn = c} # {}
    <3>1. PICK d \in journal : d.conn = c
      BY <2>2
    <3>2. {g \in journal : g.conn = c} = {d}
      BY <3>1 DEF LaInv, Decided
    <3> QED
      BY <3>2, FS_Singleton
  <2> QED
    BY <2>1, <2>2
<1> QED
  BY <1>1, <1>2 DEF PlacesKept, LaInv, Counted, Agents, Sessions, Flowing

\* For any number of connections and any allowlist: the counter of a lane is the
\* number of its tunnels and that of the bridge the number of its sessions, neither
\* passes its bound, an agent has a session, and bytes flow only where a rule of
\* the lane names the host, the proxy serves the port and the one decision recorded
\* allows it (Server, Allowlist, Bridge).
THEOREM LanesKeepPlaces == ASSUME LaConstants PROVE LaSpec => []PlacesKept
<1>1. LaInit => LaInv
  BY LaStarts
<1>2. LaInv /\ [LaNext]_lavars => LaInv'
  BY LaStep
<1>3. LaInv => PlacesKept
  BY LaImplies
<1> QED
  BY <1>1, <1>2, <1>3, PTL DEF LaSpec

-----------------------------------------------------------------------------
(* Supervised tasks *)

\* What is assumed of the constants.
SuConstants == MaxContent \in Nat

Content == 0 .. MaxContent
CheckType == [ok : BOOLEAN, seen : Content]
ReviewType ==
    [task : Tasks, verdict : {"VERIFIED", "UNVERIFIED", "NOT_VERIFIED"}, upto : Nat, tree : Content]

\* The types of the variables; a call carries what its next step needs.
SuTypes ==
    /\ tree \in Content
    /\ tasks \in [Tasks -> [state : {"none", "pending", "accepted", "failed"},
                            scope : Scopes \cup {{}}]]
    /\ checks \in [Tasks -> Seq(CheckType)]
    /\ reviews \subseteq ReviewType
    /\ DOMAIN call = Calls
    /\ \A c \in Calls :
          /\ call[c].pc = "edit" => call[c].task \in Tasks /\ call[c].file \in Paths
          /\ call[c].pc = "verify" => call[c].task \in Tasks /\ call[c].seen \in Content
          /\ call[c].pc \in {"review", "state"} =>
                call[c] \in [pc : {"review", "state"}, review : ReviewType]

\* A review that says VERIFIED names a verification of its task that passed.
Backed(r) ==
    r.verdict = "VERIFIED" =>
        r.upto \in 1 .. Len(checks[r.task]) /\ checks[r.task][r.upto].ok

\* The calls under way and the journal: a review is backed from the moment it is
\* drawn up, it is in the journal before it decides, and a decided task has one
\* that says the same.
Evidence ==
    /\ \A c \in Calls : call[c].pc \in {"review", "state"} => Backed(call[c].review)
    /\ \A c \in Calls : call[c].pc = "state" => call[c].review \in reviews
    /\ \A r \in reviews : Backed(r)
    /\ \A t \in Tasks : tasks[t].state \in {"accepted", "failed"} =>
          \E r \in reviews : r.task = t /\ ((tasks[t].state = "accepted") <=> (r.verdict = "VERIFIED"))

\* An edit is judged against the scope of a task that exists, whose scope never
\* changes again.
Fits(t, to) == to \notin Guarded /\ to \in tasks[t].scope

Scoped ==
    /\ \A c \in Calls : call[c].pc = "edit" =>
          tasks[call[c].task].state # "none" /\ Fits(call[c].task, call[c].to)
    /\ \A e \in edited : /\ e.task \in Tasks /\ tasks[e.task].state # "none"
                         /\ e.moved \/ Fits(e.task, e.to)

SuInv == SuTypes /\ Evidence /\ Scoped

\* A call takes its next step, and the others stay where they are.
LEMMA CallMakes ==
    ASSUME SuTypes, NEW c \in Calls, NEW rec, To(c, rec)
    PROVE  /\ DOMAIN call' = Calls /\ call'[c] = rec
           /\ \A d \in Calls : d # c => call'[d] = call[d]
<1>1. call' = [call EXCEPT ![c] = rec]
  BY DEF To
<1> QED
  BY <1>1 DEF SuTypes

\* The journal only grows: a review stays backed.
LEMMA BackedStays ==
    ASSUME SuTypes, NEW r \in ReviewType, Backed(r),
           \A t \in Tasks : /\ Len(checks'[t]) \in Nat /\ Len(checks'[t]) >= Len(checks[t])
                            /\ \A k \in 1 .. Len(checks[t]) : checks'[t][k] = checks[t][k]
    PROVE  Backed(r)'
<1>1. r.task \in Tasks /\ Len(checks[r.task]) \in Nat
  BY DEF ReviewType, SuTypes
<1> QED
  BY <1>1 DEF Backed

\* A call that leaves the rows and the journal alone: what it will do next has to be
\* sound, and the rest is as it was.
LEMMA CallKeeps ==
    ASSUME SuInv, NEW c \in Calls, NEW rec, To(c, rec),
           UNCHANGED <<tree, tasks, checks, reviews, edited>>,
           rec.pc = "edit" => /\ rec.task \in Tasks /\ rec.file \in Paths
                              /\ tasks[rec.task].state # "none" /\ Fits(rec.task, rec.to),
           rec.pc = "verify" => rec.task \in Tasks /\ rec.seen \in Content,
           rec.pc \in {"review", "state"} =>
              rec \in [pc : {"review", "state"}, review : ReviewType] /\ Backed(rec.review),
           rec.pc = "state" => rec.review \in reviews
    PROVE  SuInv'
<1>1. /\ DOMAIN call' = Calls /\ call'[c] = rec
      /\ \A d \in Calls : d # c => call'[d] = call[d]
  BY CallMakes DEF SuInv
<1>2. \A r : Backed(r)' <=> Backed(r)
  BY DEF Backed
<1>3. \A t, f : Fits(t, f)' <=> Fits(t, f)
  BY DEF Fits
<1>4. SuTypes'
  <2>1. ASSUME NEW d \in Calls
        PROVE  /\ call'[d].pc = "edit" => call'[d].task \in Tasks /\ call'[d].file \in Paths
               /\ call'[d].pc = "verify" => call'[d].task \in Tasks /\ call'[d].seen \in Content
               /\ call'[d].pc \in {"review", "state"} =>
                     call'[d] \in [pc : {"review", "state"}, review : ReviewType]
    BY <1>1 DEF SuInv, SuTypes
  <2> QED
    BY <1>1, <2>1 DEF SuInv, SuTypes
<1>5. Evidence'
  <2>1. ASSUME NEW d \in Calls
        PROVE  /\ call'[d].pc \in {"review", "state"} => Backed(call'[d].review)
               /\ call'[d].pc = "state" => call'[d].review \in reviews
    BY <1>1 DEF SuInv, Evidence
  <2> QED
    BY <1>2, <2>1 DEF SuInv, Evidence
<1>6. Scoped'
  <2>1. ASSUME NEW d \in Calls, call'[d].pc = "edit"
        PROVE  tasks[call'[d].task].state # "none" /\ Fits(call'[d].task, call'[d].to)
    BY <1>1, <2>1 DEF SuInv, Scoped
  <2> QED
    BY <1>3, <2>1 DEF SuInv, Scoped
<1> QED
  BY <1>4, <1>5, <1>6 DEF SuInv

\* The calls that only read: opening an edit, a verification or a review, and
\* giving up.
LEMMA ReadingKeeps ==
    ASSUME SuConstants, SuInv, NEW c \in Calls,
           \/ Abandon(c)
           \/ \E t \in Tasks : VerifyBegin(c, t) \/ FinishRead(c, t)
           \/ \E t \in Tasks, f \in Paths : EditRead(c, t, f)
    PROVE  SuInv'
<1>1. CASE Abandon(c)
  BY <1>1, CallKeeps DEF Abandon, NoCall
<1>2. ASSUME NEW t \in Tasks, VerifyBegin(c, t) PROVE SuInv'
  <2>1. tree \in Content
    BY DEF SuInv, SuTypes
  <2> QED
    BY <1>2, <2>1, CallKeeps DEF VerifyBegin
<1>3. ASSUME NEW t \in Tasks, FinishRead(c, t) PROVE SuInv'
  <2> DEFINE rev == [task |-> t, verdict |-> Verdict(checks[t]), upto |-> Len(checks[t]),
                     tree |-> tree]
  <2>1. /\ checks[t] \in Seq(CheckType) /\ Len(checks[t]) \in Nat /\ tree \in Content
    BY DEF SuInv, SuTypes
  <2>2. /\ Verdict(checks[t]) \in {"VERIFIED", "UNVERIFIED", "NOT_VERIFIED"}
        /\ Verdict(checks[t]) = "VERIFIED" =>
              /\ Len(checks[t]) \in 1 .. Len(checks[t]) /\ checks[t][Len(checks[t])].ok
    BY <2>1 DEF Verdict
  <2>3. rev \in ReviewType
    BY <2>1, <2>2 DEF ReviewType
  <2>4. Backed(rev)
    BY <2>2 DEF Backed
  <2>5. To(c, [pc |-> "review", review |-> rev]) /\ UNCHANGED <<tree, tasks, checks, reviews, edited>>
    BY <1>3 DEF FinishRead
  <2> HIDE DEF rev
  <2> QED
    BY <2>3, <2>4, <2>5, CallKeeps
<1>4. ASSUME NEW t \in Tasks, NEW f \in Paths, EditRead(c, t, f) PROVE SuInv'
  <2>1. Fits(t, links[f])
    BY <1>4 DEF EditRead, MayWrite, Fits
  <2> DEFINE r == [pc |-> "edit", task |-> t, file |-> f, to |-> links[f]]
  <2>2. /\ r.pc = "edit" /\ r.task \in Tasks /\ r.file \in Paths /\ tasks[r.task].state # "none"
        /\ Fits(r.task, r.to) /\ To(c, r) /\ UNCHANGED <<tree, tasks, checks, reviews, edited>>
    BY <1>4, <2>1 DEF EditRead
  <2> HIDE DEF r
  <2> QED
    BY <2>2, CallKeeps
<1> QED
  BY <1>1, <1>2, <1>3, <1>4

\* What touches neither a row nor the journal nor a call: edits of the tree, and
\* answers.
LEMMA OutsideKeeps ==
    ASSUME SuConstants, SuInv, UNCHANGED <<tasks, checks, reviews, call, edited>>, tree' \in Content
    PROVE  SuInv'
<1>1. SuTypes'
  BY DEF SuInv, SuTypes
<1>2. Evidence'
  BY DEF SuInv, Evidence, Backed
<1>3. Scoped'
  BY DEF SuInv, Scoped, Fits
<1> QED
  BY <1>1, <1>2, <1>3 DEF SuInv

\* A task that starts has neither edits nor calls behind it.
LEMMA TaskStartKeeps ==
    ASSUME SuConstants, SuInv, NEW t \in Tasks, NEW scope \in Scopes, TaskStart(t, scope)
    PROVE  SuInv'
<1>1. /\ tasks[t].state = "none" /\ UNCHANGED <<tree, checks, reviews, call, edited>>
      /\ tasks' = [tasks EXCEPT ![t] = [state |-> "pending", scope |-> scope]]
  BY DEF TaskStart
<1>2. [state |-> "pending", scope |-> scope] \in
         [state : {"none", "pending", "accepted", "failed"}, scope : Scopes \cup {{}}]
  OBVIOUS
<1>3. SuTypes'
  BY <1>1, <1>2 DEF SuInv, SuTypes
<1>4. tasks'[t].state = "pending" /\ \A u \in Tasks : u # t => tasks'[u] = tasks[u]
  BY <1>1 DEF SuInv, SuTypes
<1>5. Evidence'
  <2>1. \A r : Backed(r)' <=> Backed(r)
    BY <1>1 DEF Backed
  <2> QED
    BY <1>1, <1>4, <2>1 DEF SuInv, Evidence
<1>6. Scoped'
  <2>1. ASSUME NEW c \in Calls, call[c].pc = "edit"
        PROVE  call[c].task \in Tasks /\ call[c].task # t /\ tasks'[call[c].task] = tasks[call[c].task]
    BY <1>1, <1>4, <2>1 DEF SuInv, SuTypes, Scoped
  <2>2. ASSUME NEW e \in edited PROVE e.task \in Tasks /\ tasks'[e.task] = tasks[e.task]
    BY <1>1, <1>4 DEF SuInv, Scoped
  <2> QED
    BY <1>1, <2>1, <2>2 DEF SuInv, Scoped, Fits
<1> QED
  BY <1>3, <1>5, <1>6 DEF SuInv

\* le_edit writes what it was judged for.
LEMMA EditWriteKeeps ==
    ASSUME SuConstants, SuInv, NEW c \in Calls, NEW v \in 0 .. MaxContent, EditWrite(c, v)
    PROVE  SuInv'
<1>1. /\ call[c].pc = "edit" /\ tree' = v /\ To(c, NoCall) /\ UNCHANGED <<tasks, checks, reviews>>
  BY DEF EditWrite
<1> DEFINE to == links[call[c].file]
           new == [task |-> call[c].task, to |-> to, moved |-> to # call[c].to]
<1>e. edited' = edited \cup {new}
  BY DEF EditWrite
<1>2. /\ DOMAIN call' = Calls /\ call'[c].pc = "idle"
      /\ \A d \in Calls : d # c => call'[d] = call[d]
  BY <1>1, CallMakes DEF SuInv, NoCall
<1>3. /\ call[c].task \in Tasks /\ tasks[call[c].task].state # "none"
      /\ new.task = call[c].task /\ (new.moved \/ Fits(new.task, new.to))
  BY <1>1 DEF SuInv, SuTypes, Scoped
<1> HIDE DEF new
<1>4. SuTypes'
  BY <1>1, <1>2 DEF SuInv, SuTypes, Content
<1>5. Evidence'
  BY <1>1, <1>2 DEF SuInv, Evidence, Backed
<1>6. Scoped'
  <2>1. ASSUME NEW e \in edited'
        PROVE  /\ e.task \in Tasks /\ tasks[e.task].state # "none"
               /\ e.moved \/ Fits(e.task, e.to)
    BY <1>e, <1>3 DEF SuInv, Scoped
  <2>2. \A t, f : Fits(t, f)' <=> Fits(t, f)
    BY <1>1 DEF Fits
  <2> QED
    BY <1>1, <1>2, <2>1, <2>2 DEF SuInv, Scoped
<1> QED
  BY <1>4, <1>5, <1>6 DEF SuInv

\* A verification is appended to its task's journal.
LEMMA VerifyRecordKeeps ==
    ASSUME SuConstants, SuInv, NEW c \in Calls, NEW ok \in BOOLEAN, VerifyRecord(c, ok)
    PROVE  SuInv'
<1> DEFINE t == call[c].task
           new == [ok |-> ok, seen |-> call[c].seen]
<1>1. /\ call[c].pc = "verify" /\ To(c, NoCall) /\ UNCHANGED <<tree, tasks, reviews, edited>>
      /\ checks' = [checks EXCEPT ![t] = Append(checks[t], new)]
  BY DEF VerifyRecord
<1>2. /\ DOMAIN call' = Calls /\ call'[c].pc = "idle"
      /\ \A d \in Calls : d # c => call'[d] = call[d]
  BY <1>1, CallMakes DEF SuInv, NoCall
<1>3. t \in Tasks /\ new \in CheckType /\ checks \in [Tasks -> Seq(CheckType)]
  BY <1>1 DEF SuInv, SuTypes, CheckType
<1> HIDE DEF new
<1>4. Append(checks[t], new) \in Seq(CheckType)
  BY <1>3
<1>5. checks' \in [Tasks -> Seq(CheckType)]
  BY <1>1, <1>3, <1>4
<1>6. ASSUME NEW u \in Tasks
      PROVE  /\ Len(checks'[u]) \in Nat /\ Len(checks'[u]) >= Len(checks[u])
             /\ \A k \in 1 .. Len(checks[u]) : checks'[u][k] = checks[u][k]
  <2>1. checks[u] \in Seq(CheckType)
    BY <1>3
  <2>2. CASE u = t
    <3>1. checks'[u] = Append(checks[u], new)
      BY <1>1, <1>3, <2>2
    <3> QED
      BY <1>3, <2>1, <3>1
  <2>3. CASE u # t
    <3>1. checks'[u] = checks[u]
      BY <1>1, <1>3, <2>3
    <3> QED
      BY <2>1, <3>1
  <2> QED
    BY <2>2, <2>3
<1>7. SuTypes'
  BY <1>1, <1>2, <1>5 DEF SuInv, SuTypes
<1>8. \A r \in ReviewType : Backed(r) => Backed(r)'
  BY <1>6, BackedStays DEF SuInv
<1>9. Evidence'
  <2>1. ASSUME NEW d \in Calls, call'[d].pc \in {"review", "state"}
        PROVE  /\ Backed(call[d].review)'
               /\ call'[d].pc = "state" => call'[d].review \in reviews
    <3>1. call'[d] = call[d]
      BY <1>2, <2>1
    <3>2. PICK q \in ReviewType : q = call[d].review /\ Backed(q)
      BY <2>1, <3>1 DEF SuInv, SuTypes, Evidence
    <3>3. Backed(q)' /\ q = call'[d].review
      BY <1>8, <3>1, <3>2
    <3>4. Backed(call[d].review)'
      BY <3>3 DEF Backed
    <3> QED
      BY <2>1, <3>1, <3>4 DEF SuInv, Evidence
  <2>2. \A r \in reviews : Backed(r)'
    BY <1>8 DEF SuInv, SuTypes, Evidence
  <2> QED
    BY <1>1, <2>1, <2>2 DEF SuInv, Evidence
<1>10. Scoped'
  BY <1>1, <1>2 DEF SuInv, Scoped, Fits
<1> QED
  BY <1>7, <1>9, <1>10 DEF SuInv

\* The review is journalled, and then it decides.
LEMMA FinishReviewKeeps ==
    ASSUME SuConstants, SuInv, NEW c \in Calls, FinishReview(c)
    PROVE  SuInv'
<1>1. /\ call[c].pc = "review" /\ To(c, [call[c] EXCEPT !.pc = "state"])
      /\ reviews' = reviews \cup {call[c].review} /\ UNCHANGED <<tree, tasks, checks, edited>>
  BY DEF FinishReview
<1>2. /\ call[c] \in [pc : {"review", "state"}, review : ReviewType] /\ Backed(call[c].review)
      /\ call[c].review \in ReviewType
  BY <1>1 DEF SuInv, SuTypes, Evidence
<1>3. /\ DOMAIN call' = Calls /\ call'[c] = [call[c] EXCEPT !.pc = "state"]
      /\ \A d \in Calls : d # c => call'[d] = call[d]
  BY <1>1, CallMakes DEF SuInv
<1>4. call'[c] = [pc |-> "state", review |-> call[c].review]
  BY <1>2, <1>3
<1>5. \A r : Backed(r)' <=> Backed(r)
  BY <1>1 DEF Backed
<1>6. SuTypes'
  <2>1. reviews' \subseteq ReviewType
    BY <1>1, <1>2 DEF SuInv, SuTypes
  <2>2. ASSUME NEW d \in Calls
        PROVE  /\ call'[d].pc = "edit" => call'[d].task \in Tasks /\ call'[d].file \in Paths
               /\ call'[d].pc = "verify" => call'[d].task \in Tasks /\ call'[d].seen \in Content
               /\ call'[d].pc \in {"review", "state"} =>
                     call'[d] \in [pc : {"review", "state"}, review : ReviewType]
    <3>1. CASE d = c
      BY <1>2, <1>4, <3>1
    <3>2. CASE d # c
      BY <1>3, <3>2 DEF SuInv, SuTypes
    <3> QED
      BY <3>1, <3>2
  <2> QED
    BY <1>1, <1>3, <2>1, <2>2 DEF SuInv, SuTypes
<1>7. Evidence'
  <2>1. ASSUME NEW d \in Calls
        PROVE  /\ call'[d].pc \in {"review", "state"} => Backed(call'[d].review)
               /\ call'[d].pc = "state" => call'[d].review \in reviews'
    <3>1. CASE d = c
      BY <1>1, <1>2, <1>4, <3>1
    <3>2. CASE d # c
      BY <1>1, <1>3, <3>2 DEF SuInv, Evidence
    <3> QED
      BY <3>1, <3>2
  <2>2. \A r \in reviews' : Backed(r)
    BY <1>1, <1>2 DEF SuInv, Evidence
  <2> QED
    BY <1>1, <1>5, <2>1, <2>2 DEF SuInv, Evidence
<1>8. Scoped'
  <2>1. call'[c].pc = "state"
    BY <1>4
  <2>2. ASSUME NEW d \in Calls, call'[d].pc = "edit"
        PROVE  tasks[call'[d].task].state # "none" /\ Fits(call'[d].task, call'[d].to)
    BY <1>3, <2>1, <2>2 DEF SuInv, Scoped
  <2>3. \A t, f : Fits(t, f)' <=> Fits(t, f)
    BY <1>1 DEF Fits
  <2> QED
    BY <1>1, <2>2, <2>3 DEF SuInv, Scoped
<1> QED
  BY <1>6, <1>7, <1>8 DEF SuInv

LEMMA FinishStateKeeps ==
    ASSUME SuConstants, SuInv, NEW c \in Calls, FinishState(c)
    PROVE  SuInv'
<1> DEFINE r == call[c].review
           x == IF r.verdict = "VERIFIED" THEN "accepted" ELSE "failed"
<1>1. /\ call[c].pc = "state" /\ To(c, NoCall) /\ UNCHANGED <<tree, checks, reviews, edited>>
      /\ tasks' = [tasks EXCEPT ![r.task].state = x]
  BY DEF FinishState
<1>2. /\ DOMAIN call' = Calls /\ call'[c].pc = "idle"
      /\ \A d \in Calls : d # c => call'[d] = call[d]
  BY <1>1, CallMakes DEF SuInv, NoCall
<1>3. /\ call[c] \in [pc : {"review", "state"}, review : ReviewType] /\ r \in reviews
  BY <1>1 DEF SuInv, SuTypes, Evidence
<1>4. r.task \in Tasks /\ x \in {"accepted", "failed"} /\ (x = "accepted" <=> r.verdict = "VERIFIED")
  BY <1>3 DEF ReviewType
<1> HIDE DEF x
<1>5. /\ tasks' \in [Tasks -> [state : {"none", "pending", "accepted", "failed"},
                             scope : Scopes \cup {{}}]]
      /\ tasks'[r.task].state = x
      /\ \A t \in Tasks : tasks'[t].scope = tasks[t].scope
      /\ \A t \in Tasks : t # r.task => tasks'[t] = tasks[t]
  BY <1>1, <1>4 DEF SuInv, SuTypes
<1>6. SuTypes'
  BY <1>1, <1>2, <1>5 DEF SuInv, SuTypes
<1>7. Evidence'
  <2>1. \A q : Backed(q)' <=> Backed(q)
    BY <1>1 DEF Backed
  <2>2. ASSUME NEW t \in Tasks, tasks'[t].state \in {"accepted", "failed"}
        PROVE  \E q \in reviews :
                  q.task = t /\ ((tasks'[t].state = "accepted") <=> (q.verdict = "VERIFIED"))
    <3>1. CASE t = r.task
      BY <1>3, <1>4, <1>5, <3>1
    <3>2. CASE t # r.task
      BY <1>5, <2>2, <3>2 DEF SuInv, Evidence
    <3> QED
      BY <3>1, <3>2
  <2> QED
    BY <1>1, <1>2, <2>1, <2>2 DEF SuInv, Evidence
<1>8. \A t \in Tasks : tasks[t].state # "none" => tasks'[t].state # "none"
  BY <1>4, <1>5
<1>9. Scoped'
  <2>1. ASSUME NEW d \in Calls, call'[d].pc = "edit"
        PROVE  tasks'[call'[d].task].state # "none" /\ Fits(call[d].task, call[d].to)'
    <3>1. call'[d] = call[d] /\ call[d].pc = "edit"
      BY <1>2, <2>1
    <3>2. /\ call[d].task \in Tasks /\ tasks[call[d].task].state # "none"
          /\ Fits(call[d].task, call[d].to)
      BY <3>1 DEF SuInv, SuTypes, Scoped
    <3> QED
      BY <1>5, <1>8, <3>1, <3>2 DEF Fits
  <2>2. ASSUME NEW e \in edited
        PROVE  /\ e.task \in Tasks /\ tasks'[e.task].state # "none"
               /\ e.moved \/ Fits(e.task, e.to)'
    <3>1. /\ e.task \in Tasks /\ tasks[e.task].state # "none"
          /\ e.moved \/ Fits(e.task, e.to)
      BY DEF SuInv, Scoped
    <3>2. tasks'[e.task].scope = tasks[e.task].scope /\ tasks'[e.task].state # "none"
      BY <1>5, <1>8, <3>1
    <3> QED
      BY <3>1, <3>2 DEF Fits
  <2> QED
    BY <1>1, <2>1, <2>2 DEF Scoped
<1> QED
  BY <1>6, <1>7, <1>9 DEF SuInv

LEMMA SuStarts == ASSUME SuConstants, SuInit PROVE SuInv
<1>1. /\ \A c \in Calls : call[c].pc = "idle"
      /\ \A t \in Tasks : tasks[t].state = "none"
      /\ reviews = {} /\ edited = {}
  BY DEF SuInit, NoCall
<1>2. SuTypes
  BY <1>1 DEF SuTypes, SuInit, SuConstants, Content
<1> QED
  BY <1>1, <1>2 DEF SuInv, Evidence, Scoped

LEMMA SuStep == ASSUME SuConstants, SuInv, [SuNext]_suvars PROVE SuInv'
<1>1. CASE UNCHANGED suvars
  <2>1. UNCHANGED <<tree, tasks, checks, reviews, call, edited>> /\ tree \in Content
    BY <1>1 DEF suvars, SuInv, SuTypes
  <2> QED
    BY <2>1, OutsideKeeps
<1>2. ASSUME NEW t \in Tasks, Answer(t) PROVE SuInv'
  <2>1. UNCHANGED <<tree, tasks, checks, reviews, call, edited>> /\ tree \in Content
    BY <1>2 DEF Answer, SuInv, SuTypes
  <2> QED
    BY <2>1, OutsideKeeps
<1>3. ASSUME NEW v \in 0 .. MaxContent, Edit(v) PROVE SuInv'
  BY <1>3, OutsideKeeps DEF Edit, Content
<1>4. ASSUME NEW l \in Links, Relink(l) PROVE SuInv'
  <2>1. UNCHANGED <<tree, tasks, checks, reviews, call, edited>> /\ tree \in Content
    BY <1>4 DEF Relink, SuInv, SuTypes
  <2> QED
    BY <2>1, OutsideKeeps
<1> QED
  BY <1>1, <1>2, <1>3, <1>4, TaskStartKeeps, ReadingKeeps, EditWriteKeeps, VerifyRecordKeeps,
     FinishReviewKeeps, FinishStateKeeps DEF SuNext

\* For any number of tasks, overlapping calls and verifications: an accepted task
\* has a review in the journal that says VERIFIED and whose newest verification had
\* passed, a failed one a review that does not, and le_edit wrote nothing outside
\* the scope of its task, by no link that led there when it was judged (FinishTask,
\* LastVerification, editFile).
THEOREM TasksDecidedOnEvidence == ASSUME SuConstants PROVE SuSpec => []AcceptedOnEvidence
<1>1. SuInit => SuInv
  BY SuStarts
<1>2. SuInv /\ [SuNext]_suvars => SuInv'
  BY SuStep
<1>3. SuInv => AcceptedOnEvidence
  <2> SUFFICES ASSUME SuInv PROVE AcceptedOnEvidence
    OBVIOUS
  <2>1. ASSUME NEW t \in Tasks, tasks[t].state \in {"accepted", "failed"}
        PROVE  \E r \in reviews :
                  /\ r.task = t
                  /\ (tasks[t].state = "accepted") <=> (r.verdict = "VERIFIED")
                  /\ r.verdict = "VERIFIED" => r.upto > 0 /\ checks[t][r.upto].ok
    <3>1. PICK r \in reviews :
             r.task = t /\ ((tasks[t].state = "accepted") <=> (r.verdict = "VERIFIED"))
      BY <2>1 DEF SuInv, Evidence
    <3>2. r.verdict = "VERIFIED" => r.upto > 0 /\ checks[t][r.upto].ok
      BY <3>1 DEF SuInv, SuTypes, Evidence, Backed
    <3> QED
      BY <3>1, <3>2
  <2> QED
    BY <2>1 DEF AcceptedOnEvidence, SuInv, Scoped, Fits
<1> QED
  BY <1>1, <1>2, <1>3, PTL DEF SuSpec

-----------------------------------------------------------------------------
(* The language servers *)

\* What is assumed of the constants: the first launch may make the most requests.
LsConstants ==
    /\ Quota \in Seq(Nat) /\ \A n \in Launches : Quota[n] <= Quota[1]
    /\ NoCaller \notin Callers

Message == [id : Ids, kind : Kinds]
LaunchType ==
    [proc : {"none", "up", "dead"}, mu : Callers \cup {NoCaller}, next : Nat, pending : SUBSET Ids, buf : [Ids -> Kinds],
     shut : SUBSET Ids, reader : {"read", "send", "gone"}, at : Ids \cup {0}, held : Kinds,
     asked : SUBSET Ids, inbox : Seq(Message)]
PoolType ==
    [lock : Callers \cup {NoCaller}, client : Launches \cup {0}, failed : BOOLEAN,
     closing : SUBSET Launches]
CallerType ==
    [pc : {"idle", "call", "write", "writing", "wait", "leave", "done"}, n : Launches \cup {0}, id : Ids \cup {0},
     what : {"query", "initialize", "shutdown"}, got : Kinds]

\* What the server has numbered itself is known by its id wherever it is, the
\* channels are closed by the end of the receive loop only, and a message is held
\* for an id.
Traced(k, own) ==
    /\ \A i \in Ids : k.buf[i] = "request" => i \in own
    /\ k.reader = "send" => k.at \in Ids /\ (k.held = "request" => k.at \in own)
    /\ \A a \in 1 .. Len(k.inbox) : k.inbox[a].kind = "request" => k.inbox[a].id \in own
    /\ k.shut # {} => k.reader = "gone"

\* An id is under way once: still to be answered, in the pipe, in the hands of the
\* receive loop or in its channel.
Single(k) ==
    /\ \A i \in k.asked :
          /\ i <= k.next /\ k.buf[i] = "none" /\ (k.reader = "send" => k.at # i)
          /\ \A a \in 1 .. Len(k.inbox) : k.inbox[a].id # i
    /\ \A a \in 1 .. Len(k.inbox) : LET i == k.inbox[a].id IN
          /\ i <= k.next /\ k.buf[i] = "none" /\ (k.reader = "send" => k.at # i)
          /\ \A b \in 1 .. Len(k.inbox) : a # b => k.inbox[b].id # i
    /\ k.reader = "send" => k.at <= k.next /\ k.buf[k.at] = "none"
    /\ \A i \in Ids : i > k.next => k.buf[i] = "none"

\* The server's own requests under ids of a client.
Own(n) == {i \in Ids : <<n, i>> \in foreign}

Sound(k, own) ==
    /\ k \in LaunchType /\ Traced(k, own)
    /\ own = {} => Single(k)

\* An id that is registered and was never sent.
Fresh(k, i) ==
    /\ i <= k.next /\ i \notin k.asked /\ k.buf[i] = "none" /\ (k.reader = "send" => k.at # i)
    /\ \A a \in 1 .. Len(k.inbox) : k.inbox[a].id # i

Unsent(c) == caller[c].pc \in {"write", "writing"}

\* A caller: where it is it has a client and an id, what it was given it was given
\* for a reason, and only the one that starts a server holds the pool.
Served(c) ==
    LET r == caller[c] IN
    /\ r \in CallerType
    /\ r.pc = "idle" => r = Idle
    /\ r.pc # "idle" => r.n \in Launches
    /\ r.pc \in {"write", "writing", "wait", "leave", "done"} => r.id \in Ids
    /\ Unsent(c) => /\ r.id <= clients[r.n].next
                    /\ Own(r.n) = {} => Fresh(clients[r.n], r.id)
    /\ r.pc \in {"leave", "done"} => /\ r.got = "none" => clients[r.n].reader = "gone"
                                     /\ r.got = "request" => r.id \in Own(r.n)
    /\ r.what = "initialize" => pool.lock = c /\ pool.client = 0

Kept(n) ==
    clients[n].proc = "up" =>
        \/ pool.client = n
        \/ \E c \in Callers : caller[c].n = n /\ caller[c].what \in {"initialize", "shutdown"}

\* Two calls of a client that are still to be sent have two ids.
Apart ==
    \A c, d \in Callers :
        c # d /\ Unsent(c) /\ Unsent(d) /\ caller[c].n = caller[d].n => caller[c].id # caller[d].id

LsInv ==
    /\ pool \in PoolType
    /\ DOMAIN clients = Launches /\ clients = [n \in Launches |-> clients[n]]
    /\ \A n \in Launches : Sound(clients[n], Own(n))
    /\ DOMAIN caller = Callers /\ caller = [c \in Callers |-> caller[c]]
    /\ \A c \in Callers : Served(c)
    /\ Apart
    /\ \A n \in Launches : Kept(n)

LEMMA LsInit_Inv == ASSUME LsConstants, LspInit PROVE LsInv
<1> USE DEF LspInit
<1>1. NewClient \in LaunchType
  <2>1. [i \in Ids |-> "none"] \in [Ids -> Kinds]
    BY DEF Kinds
  <2>2. <<>> \in Seq(Message)
    OBVIOUS
  <2> QED BY <2>1, <2>2 DEF NewClient, LaunchType, Kinds
<1>2. ASSUME NEW n \in Launches PROVE Sound(clients[n], Own(n)) /\ Kept(n)
  <2>1. clients[n] = NewClient
    OBVIOUS
  <2>2. Traced(NewClient, Own(n)) /\ Single(NewClient) /\ NewClient.proc = "none"
    BY DEF NewClient, Traced, Single
  <2> QED BY <1>1, <2>1, <2>2 DEF Sound, Kept
<1>3. ASSUME NEW c \in Callers PROVE Served(c)
  BY <1>3 DEF Served, Unsent, Idle, CallerType, Kinds
<1>4. pool \in PoolType
  BY DEF PoolType
<1>5. Apart
  BY DEF Apart, Unsent, Idle
<1> QED BY <1>2, <1>3, <1>4, <1>5 DEF LsInv

\* What a client may become without a caller of it noticing.
Quiet(k, j, own) ==
    /\ k.reader = "gone" => j.reader = "gone"
    /\ k.next \in Nat /\ j.next \in Nat /\ k.next <= j.next
    /\ own = {} => \A i \in Ids : Fresh(k, i) => Fresh(j, i)

\* A caller that takes no part in a step is served as before.
LEMMA StillServed ==
    ASSUME NEW d \in Callers, Served(d), caller'[d] = caller[d],
           caller[d].n \in Launches =>
              /\ clients[caller[d].n].reader = "gone" => clients'[caller[d].n].reader = "gone"
              /\ clients[caller[d].n].next \in Nat /\ clients'[caller[d].n].next \in Nat
              /\ clients[caller[d].n].next <= clients'[caller[d].n].next
              /\ Unsent(d) /\ Own(caller[d].n)' = {} /\ Fresh(clients[caller[d].n], caller[d].id)
                    => Fresh(clients'[caller[d].n], caller[d].id),
           foreign \subseteq foreign',
           caller[d].what = "initialize" => pool'.lock = d /\ pool'.client = 0
    PROVE  Served(d)'
<1> DEFINE r == caller[d]
<1>1. /\ r \in CallerType /\ (r.pc = "idle" => r = Idle) /\ (r.pc # "idle" => r.n \in Launches)
      /\ r.pc \in {"write", "writing", "wait", "leave", "done"} => r.id \in Ids
      /\ r.what = "initialize" => pool'.lock = d /\ pool'.client = 0
  BY DEF Served
<1>2. Own(r.n) \subseteq Own(r.n)' /\ (Unsent(d)' <=> Unsent(d))
  BY DEF Own, Unsent
<1>3. Unsent(d) => /\ r.id <= clients'[r.n].next
                   /\ Own(r.n)' = {} => Fresh(clients'[r.n], r.id)
  <2> SUFFICES ASSUME Unsent(d)
               PROVE  /\ r.id <= clients'[r.n].next
                      /\ Own(r.n)' = {} => Fresh(clients'[r.n], r.id)
    OBVIOUS
  <2>1. r.n \in Launches /\ r.id \in Ids /\ r.id <= clients[r.n].next
    BY <1>1 DEF Served, Unsent
  <2>2. r.id \in Nat
    BY <2>1 DEF Ids
  <2>3. Own(r.n)' = {} => Fresh(clients[r.n], r.id)
    BY <1>2 DEF Served
  <2> QED BY <2>1, <2>2, <2>3
<1>4. r.pc \in {"leave", "done"} =>
        /\ r.got = "none" => clients'[r.n].reader = "gone"
        /\ r.got = "request" => r.id \in Own(r.n)'
  BY <1>1, <1>2 DEF Served
<1> QED BY <1>1, <1>2, <1>3, <1>4 DEF Served

LEMMA NextIsNat == ASSUME LsInv PROVE \A n \in Launches : clients[n].next \in Nat
  BY DEF LsInv, Sound, LaunchType

\* One client makes a step, and the server's own requests stay.
LEMMA ClientMoves ==
    ASSUME LsInv, NEW n \in Launches, NEW k, clients' = [clients EXCEPT ![n] = k],
           UNCHANGED <<pool, caller, foreign>>, Sound(k, Own(n)),
           Quiet(clients[n], k, Own(n)),
           k.proc = "up" => clients[n].proc = "up"
    PROVE  LsInv'
<1>1. /\ DOMAIN clients' = Launches /\ clients'[n] = k
      /\ \A m \in Launches : m # n => clients'[m] = clients[m]
  BY DEF LsInv
<1>2. \A m \in Launches : Own(m)' = Own(m)
  BY DEF Own
<1>3. \A m \in Launches : Sound(clients'[m], Own(m)')
  BY <1>1, <1>2 DEF LsInv
<1>4. ASSUME NEW c \in Callers PROVE Served(c)'
  <2>1. Served(c) /\ caller'[c] = caller[c] /\ pool' = pool /\ foreign' = foreign
    BY DEF LsInv
  <2>2. ASSUME caller[c].n \in Launches
        PROVE  /\ clients[caller[c].n].reader = "gone" => clients'[caller[c].n].reader = "gone"
               /\ clients[caller[c].n].next \in Nat /\ clients'[caller[c].n].next \in Nat
               /\ clients[caller[c].n].next <= clients'[caller[c].n].next
               /\ Unsent(c) /\ Own(caller[c].n)' = {} /\ Fresh(clients[caller[c].n], caller[c].id)
                     => Fresh(clients'[caller[c].n], caller[c].id)
    <3>1. CASE caller[c].n = n
      BY <1>1, <1>2, <2>1, <3>1 DEF Quiet, Served, Unsent
    <3>2. CASE caller[c].n # n
      BY <1>1, <2>2, <3>2, NextIsNat
    <3> QED BY <3>1, <3>2
  <2>3. caller[c].what = "initialize" => pool'.lock = c /\ pool'.client = 0
    BY <2>1 DEF Served
  <2> QED BY <2>1, <2>2, <2>3, StillServed
<1>5. ASSUME NEW m \in Launches PROVE Kept(m)'
  BY <1>1 DEF LsInv, Kept
<1>6. clients' = [m \in Launches |-> clients'[m]]
  BY <1>1 DEF LsInv
<1>7. Apart'
  BY DEF LsInv, Apart, Unsent
<1> QED BY <1>1, <1>3, <1>4, <1>5, <1>6, <1>7 DEF LsInv

LEMMA Lookup_Inv == ASSUME LsInv, NEW n \in Launches, Lookup(n) PROVE LsInv'
<1> DEFINE k == clients[n]
           m == Head(k.inbox)
           j == IF m.id \in k.pending
                THEN [k EXCEPT !.inbox = Tail(@), !.reader = "send", !.at = m.id, !.held = m.kind]
                ELSE [k EXCEPT !.inbox = Tail(@)]
<1>1. /\ clients' = [clients EXCEPT ![n] = j] /\ UNCHANGED <<pool, caller, foreign>>
      /\ k.reader = "read" /\ k.inbox # <<>>
  BY DEF Lookup
<1>2. Sound(k, Own(n)) /\ k \in LaunchType
  BY DEF LsInv, Sound
<1>3. /\ m \in Message /\ m = k.inbox[1] /\ Tail(k.inbox) \in Seq(Message)
      /\ Len(k.inbox) \in Nat \ {0} /\ Len(Tail(k.inbox)) = Len(k.inbox) - 1
      /\ \A a \in 1 .. Len(k.inbox) - 1 : Tail(k.inbox)[a] = k.inbox[a + 1]
  <2>1. k.inbox \in Seq(Message)
    BY <1>2 DEF LaunchType
  <2> QED BY <1>1, <2>1
<1>4. m.id \in Ids /\ m.kind \in Kinds
  BY <1>3 DEF Message
<1>5. /\ j \in LaunchType /\ j.inbox = Tail(k.inbox) /\ j.buf = k.buf /\ j.asked = k.asked
      /\ j.next = k.next /\ j.shut = k.shut /\ j.proc = k.proc
      /\ \/ j.reader = "read"
         \/ j.reader = "send" /\ j.at = m.id /\ j.held = m.kind
  BY <1>1, <1>2, <1>3, <1>4 DEF LaunchType
<1> HIDE DEF j
<1>6. Traced(j, Own(n))
  BY <1>1, <1>2, <1>3, <1>4, <1>5 DEF Sound, Traced
<1>7. ASSUME Own(n) = {} PROVE Single(j)
  <2>1. Single(k)
    BY <1>2, <1>7 DEF Sound
  <2>2. \A i \in j.asked :
          /\ i <= j.next /\ j.buf[i] = "none" /\ (j.reader = "send" => j.at # i)
          /\ \A a \in 1 .. Len(j.inbox) : j.inbox[a].id # i
    BY <1>3, <1>5, <2>1 DEF Single
  <2>3. \A a \in 1 .. Len(j.inbox) : LET i == j.inbox[a].id IN
          /\ i <= j.next /\ j.buf[i] = "none" /\ (j.reader = "send" => j.at # i)
          /\ \A b \in 1 .. Len(j.inbox) : a # b => j.inbox[b].id # i
    BY <1>3, <1>5, <2>1 DEF Single
  <2>4. j.reader = "send" => j.at <= j.next /\ j.buf[j.at] = "none"
    BY <1>3, <1>5, <2>1 DEF Single
  <2>5. \A i \in Ids : i > j.next => j.buf[i] = "none"
    BY <1>5, <2>1 DEF Single
  <2> QED BY <2>2, <2>3, <2>4, <2>5 DEF Single
<1>8. Sound(j, Own(n))
  BY <1>5, <1>6, <1>7 DEF Sound
<1>9. Quiet(k, j, Own(n))
  <2>1. k.next \in Nat
    BY <1>2 DEF LaunchType
  <2>2. ASSUME NEW x \in Ids, Fresh(k, x) PROVE Fresh(j, x)
    <3>1. m.id # x /\ \A a \in 1 .. Len(Tail(k.inbox)) : Tail(k.inbox)[a].id # x
      BY <1>3, <2>2 DEF Fresh
    <3> QED BY <1>5, <2>2, <3>1 DEF Fresh
  <2> QED BY <1>1, <1>5, <2>1, <2>2 DEF Quiet
<1> QED BY <1>1, <1>5, <1>8, <1>9, ClientMoves

LEMMA Deliver_Inv == ASSUME LsInv, NEW n \in Launches, Deliver(n) PROVE LsInv'
<1> DEFINE k == clients[n]
           b == [k.buf EXCEPT ![k.at] = k.held]
           j == [k EXCEPT !.reader = "read", !.buf = b, !.at = 0, !.held = "none"]
<1>1. /\ clients' = [clients EXCEPT ![n] = j] /\ UNCHANGED <<pool, caller, foreign>>
      /\ k.reader = "send"
  <2>1. clients[n] \in LaunchType
    BY DEF LsInv, Sound
  <2> QED BY <2>1 DEF Deliver, CanSend, LsInv, LaunchType
<1>2. Sound(k, Own(n)) /\ k \in LaunchType
  BY DEF LsInv, Sound
<1>3. k.at \in Ids
  BY <1>1, <1>2 DEF Sound, Traced
<1>4. /\ b \in [Ids -> Kinds] /\ b[k.at] = k.held
      /\ \A i \in Ids : i # k.at => b[i] = k.buf[i]
  BY <1>2, <1>3 DEF LaunchType
<1> HIDE DEF b
<1>5. /\ j \in LaunchType /\ j.inbox = k.inbox /\ j.asked = k.asked /\ j.proc = k.proc
      /\ j.next = k.next /\ j.shut = k.shut /\ j.reader = "read" /\ j.buf = b
  BY <1>2, <1>4 DEF LaunchType, Kinds
<1> HIDE DEF j
<1>6. Traced(j, Own(n))
  BY <1>1, <1>2, <1>3, <1>4, <1>5 DEF Sound, Traced
<1>7. ASSUME Own(n) = {} PROVE Single(j)
  <2>1. Single(k) /\ k.inbox \in Seq(Message)
    BY <1>2, <1>7 DEF Sound, LaunchType
  <2>2. \A a \in 1 .. Len(k.inbox) : k.inbox[a].id \in Ids
    <3>1. \A a \in 1 .. Len(k.inbox) : k.inbox[a] \in Message
      BY <2>1
    <3> QED BY <3>1 DEF Message
  <2>3. j.asked \subseteq Ids /\ k.next \in Nat
    BY <1>5, <1>2 DEF LaunchType
  <2>4. \A i \in Ids : i > k.next => i # k.at
    BY <1>1, <1>3, <2>1, <2>3 DEF Single, Ids
  <2>5. \A i \in j.asked :
          i <= j.next /\ j.buf[i] = "none" /\ \A a \in 1 .. Len(j.inbox) : j.inbox[a].id # i
    BY <1>1, <1>4, <1>5, <2>1, <2>3 DEF Single
  <2>6. \A a \in 1 .. Len(j.inbox) : LET i == j.inbox[a].id IN
          /\ i <= j.next /\ j.buf[i] = "none"
          /\ \A c \in 1 .. Len(j.inbox) : a # c => j.inbox[c].id # i
    BY <1>1, <1>4, <1>5, <2>1, <2>2 DEF Single
  <2>7. \A i \in Ids : i > j.next => j.buf[i] = "none"
    BY <1>4, <1>5, <2>1, <2>4 DEF Single
  <2> QED BY <1>5, <2>5, <2>6, <2>7 DEF Single
<1>8. Sound(j, Own(n))
  BY <1>5, <1>6, <1>7 DEF Sound
<1>9. Quiet(k, j, Own(n))
  <2>1. k.next \in Nat
    BY <1>2 DEF LaunchType
  <2>2. ASSUME NEW x \in Ids, Fresh(k, x) PROVE Fresh(j, x)
    BY <1>1, <1>4, <1>5, <2>2 DEF Fresh
  <2> QED BY <1>1, <1>5, <2>1, <2>2 DEF Quiet
<1> QED BY <1>1, <1>5, <1>8, <1>9, ClientMoves

LEMMA ReadEnds_Inv == ASSUME LsInv, NEW n \in Launches, ReadEnds(n) PROVE LsInv'
<1> DEFINE k == clients[n]
           b == [i \in Ids |-> IF i \in k.pending THEN k.buf[i] ELSE "none"]
           j == [k EXCEPT !.reader = "gone", !.shut = k.pending, !.pending = {}, !.buf = b]
<1>1. /\ clients' = [clients EXCEPT ![n] = j] /\ UNCHANGED <<pool, caller, foreign>>
      /\ k.reader = "read" /\ k.inbox = <<>>
  BY DEF ReadEnds, LsInv
<1>2. Sound(k, Own(n)) /\ k \in LaunchType
  BY DEF LsInv, Sound
<1>3. /\ b \in [Ids -> Kinds] /\ \A i \in Ids : b[i] = "none" \/ b[i] = k.buf[i]
  BY <1>2 DEF LaunchType, Kinds
<1> HIDE DEF b
<1>4. /\ j \in LaunchType /\ j.inbox = k.inbox /\ j.asked = k.asked /\ j.proc = k.proc
      /\ j.next = k.next /\ j.reader = "gone" /\ j.buf = b
  BY <1>2, <1>3 DEF LaunchType
<1> HIDE DEF j
<1>5. Traced(j, Own(n))
  BY <1>1, <1>2, <1>3, <1>4 DEF Sound, Traced
<1>6. ASSUME Own(n) = {} PROVE Single(j)
  BY <1>1, <1>2, <1>3, <1>4, <1>6 DEF Sound, Single, LaunchType
<1>7. Sound(j, Own(n))
  BY <1>4, <1>5, <1>6 DEF Sound
<1>8. Quiet(k, j, Own(n))
  <2>1. k.next \in Nat
    BY <1>2 DEF LaunchType
  <2>2. ASSUME NEW x \in Ids, Fresh(k, x) PROVE Fresh(j, x)
    BY <1>3, <1>4, <2>2 DEF Fresh
  <2> QED BY <1>1, <1>4, <2>1, <2>2 DEF Quiet
<1> QED BY <1>1, <1>4, <1>7, <1>8, ClientMoves

\* A client whose process ends owes nothing any more.
LEMMA Ended ==
    ASSUME NEW k, NEW own, Sound(k, own)
    PROVE  LET j == [k EXCEPT !.proc = "dead", !.asked = {}] IN
           Sound(j, own) /\ j.proc = "dead" /\ j.reader = k.reader /\ Quiet(k, j, own)
<1> DEFINE j == [k EXCEPT !.proc = "dead", !.asked = {}]
<1>1. /\ j \in LaunchType /\ j.inbox = k.inbox /\ j.asked = {} /\ j.proc = "dead" /\ j.at = k.at
      /\ j.next = k.next /\ j.reader = k.reader /\ j.buf = k.buf /\ j.held = k.held
      /\ j.shut = k.shut
  BY DEF Sound, LaunchType
<1> HIDE DEF j
<1>2. Traced(j, own)
  BY <1>1 DEF Sound, Traced
<1>3. own = {} => Single(j)
  BY <1>1 DEF Sound, Single
<1>4. Sound(j, own) /\ j.proc = "dead" /\ j.reader = k.reader
  BY <1>1, <1>2, <1>3 DEF Sound
<1>5. Quiet(k, j, own)
  <2>1. k.next \in Nat
    BY DEF Sound, LaunchType
  <2> QED BY <1>1, <2>1 DEF Quiet, Fresh
<1> QED BY <1>4, <1>5 DEF j

LEMMA Dies_Inv == ASSUME LsInv, NEW n \in Launches, Dies(n) PROVE LsInv'
<1> DEFINE j == [clients[n] EXCEPT !.proc = "dead", !.asked = {}]
<1>1. /\ clients' = [clients EXCEPT ![n] = j] /\ UNCHANGED <<pool, caller, foreign>>
  BY DEF Dies, LsInv
<1>2. Sound(j, Own(n)) /\ j.proc = "dead" /\ Quiet(clients[n], j, Own(n))
  BY Ended DEF LsInv
<1> HIDE DEF j
<1> QED BY <1>1, <1>2, ClientMoves

\* A message in the pipe.
LEMMA Appended ==
    ASSUME NEW s \in Seq(Message), NEW m \in Message
    PROVE  /\ Append(s, m) \in Seq(Message) /\ Len(Append(s, m)) = Len(s) + 1 /\ Len(s) \in Nat
           /\ Append(s, m)[Len(s) + 1] = m
           /\ \A a \in 1 .. Len(s) : Append(s, m)[a] = s[a]
  OBVIOUS

LEMMA Replies_Inv ==
    ASSUME LsInv, NEW n \in Launches, NEW kind \in {"answer", "error"}, Replies(n, kind)
    PROVE  LsInv'
<1> DEFINE k == clients[n]
<1>1. PICK i \in k.asked :
        /\ clients' = [clients EXCEPT ![n].asked = @ \ {i},
                                      ![n].inbox = Append(@, [id |-> i, kind |-> kind])]
        /\ k.proc = "up" /\ UNCHANGED <<pool, caller, foreign>>
  BY DEF Replies
<1> DEFINE m == [id |-> i, kind |-> kind]
           j == [k EXCEPT !.asked = @ \ {i}, !.inbox = Append(k.inbox, m)]
<1>2. clients' = [clients EXCEPT ![n] = j]
  BY <1>1 DEF LsInv
<1>3. Sound(k, Own(n)) /\ k \in LaunchType /\ i \in Ids /\ k.inbox \in Seq(Message)
  BY <1>1 DEF LsInv, Sound, LaunchType
<1>4. m \in Message /\ m.id = i /\ m.kind = kind
  BY <1>3 DEF Message, Kinds
<1> HIDE DEF m
<1> DEFINE s == Append(k.inbox, m)
<1>5. /\ s \in Seq(Message) /\ Len(s) = Len(k.inbox) + 1 /\ s[Len(s)] = m /\ Len(k.inbox) \in Nat
      /\ \A a \in 1 .. Len(k.inbox) : s[a] = k.inbox[a]
  BY <1>3, <1>4, Appended
<1> HIDE DEF s
<1>6. /\ j \in LaunchType /\ j.inbox = s /\ j.asked = k.asked \ {i} /\ j.proc = k.proc
      /\ j.next = k.next /\ j.reader = k.reader /\ j.buf = k.buf /\ j.at = k.at
      /\ j.held = k.held /\ j.shut = k.shut
  BY <1>3, <1>5 DEF LaunchType, s
<1> HIDE DEF j
<1>7. Traced(j, Own(n))
  <2>1. Traced(k, Own(n))
    BY <1>3 DEF Sound
  <2>2. ASSUME NEW a \in 1 .. Len(j.inbox), j.inbox[a].kind = "request"
        PROVE  j.inbox[a].id \in Own(n)
    <3>1. a # Len(s)
      BY <1>4, <1>5, <1>6, <2>2
    <3>2. a \in 1 .. Len(k.inbox)
      BY <1>5, <1>6, <3>1
    <3>3. j.inbox[a] = k.inbox[a]
      BY <1>5, <1>6, <3>2
    <3> QED BY <2>1, <2>2, <3>2, <3>3 DEF Traced
  <2>3. /\ \A x \in Ids : j.buf[x] = "request" => x \in Own(n)
        /\ j.reader = "send" => j.at \in Ids /\ (j.held = "request" => j.at \in Own(n))
        /\ j.shut # {} => j.reader = "gone"
    BY <1>6, <2>1 DEF Traced
  <2> QED BY <2>2, <2>3 DEF Traced
<1>8. ASSUME Own(n) = {} PROVE Single(j)
  <2>1. Single(k)
    BY <1>3, <1>8 DEF Sound
  <2>2. ASSUME NEW a \in 1 .. Len(s)
        PROVE  LET x == s[a].id IN
          /\ x <= k.next /\ k.buf[x] = "none" /\ (k.reader = "send" => k.at # x)
          /\ \A b \in 1 .. Len(s) : a # b => s[b].id # x
    <3>1. a = Len(s) \/ a \in 1 .. Len(k.inbox)
      BY <1>5
    <3>2. \A b \in 1 .. Len(s) : b = Len(s) \/ b \in 1 .. Len(k.inbox)
      BY <1>5
    <3>3. CASE a = Len(s)
      BY <1>1, <1>4, <1>5, <2>1, <3>2, <3>3 DEF Single
    <3>4. CASE a \in 1 .. Len(k.inbox)
      <4>1. s[a] = k.inbox[a] /\ k.inbox[a].id # i
        BY <1>1, <1>5, <2>1, <3>4 DEF Single
      <4>2. \A b \in 1 .. Len(s) : a # b => s[b].id # s[a].id
        <5>1. s[Len(s)].id = i
          BY <1>4, <1>5
        <5>2. \A b \in 1 .. Len(k.inbox) : a # b => s[b].id # s[a].id
          BY <1>5, <2>1, <3>4, <4>1 DEF Single
        <5> QED BY <3>2, <4>1, <5>1, <5>2
      <4> QED BY <2>1, <3>4, <4>1, <4>2 DEF Single
    <3> QED BY <3>1, <3>3, <3>4
  <2>3. \A x \in j.asked : \A a \in 1 .. Len(s) : s[a].id # x
    BY <1>1, <1>4, <1>5, <1>6, <2>1 DEF Single
  <2> QED BY <1>6, <2>1, <2>2, <2>3 DEF Single
<1>9. Sound(j, Own(n))
  BY <1>6, <1>7, <1>8 DEF Sound
<1>10. Quiet(k, j, Own(n))
  <2>1. k.next \in Nat
    BY <1>3 DEF LaunchType
  <2>2. ASSUME NEW x \in Ids, Fresh(k, x) PROVE Fresh(j, x)
    <3>1. x # i
      BY <1>1, <2>2 DEF Fresh
    <3>2. \A a \in 1 .. Len(s) : a = Len(s) \/ a \in 1 .. Len(k.inbox)
      BY <1>5
    <3>3. \A a \in 1 .. Len(s) : s[a].id # x
      BY <1>4, <1>5, <2>2, <3>1, <3>2 DEF Fresh
    <3> QED BY <1>6, <2>2, <3>3 DEF Fresh
  <2> QED BY <1>6, <2>1, <2>2 DEF Quiet
<1> QED BY <1>1, <1>2, <1>6, <1>9, <1>10, ClientMoves

LEMMA Request_Inv ==
    ASSUME LsInv, NEW n \in Launches, NEW i \in Ids, Request(n, i)
    PROVE  LsInv'
<1> DEFINE k == clients[n]
           m == [id |-> i, kind |-> "request"]
           j == [k EXCEPT !.inbox = Append(k.inbox, m)]
<1>1. /\ clients' = [clients EXCEPT ![n] = j] /\ UNCHANGED <<pool, caller>>
      /\ foreign' = foreign \cup {<<n, i>>}
  BY DEF Request, LsInv
<1>2. Sound(k, Own(n)) /\ k \in LaunchType /\ k.inbox \in Seq(Message)
  BY DEF LsInv, Sound, LaunchType
<1>3. m \in Message /\ m.id = i
  BY DEF Message, Kinds
<1> HIDE DEF m
<1> DEFINE s == Append(k.inbox, m)
<1>4. /\ s \in Seq(Message) /\ Len(s) = Len(k.inbox) + 1 /\ s[Len(s)] = m /\ Len(k.inbox) \in Nat
      /\ \A a \in 1 .. Len(k.inbox) : s[a] = k.inbox[a]
  BY <1>2, <1>3, Appended
<1> HIDE DEF s
<1>5. /\ j \in LaunchType /\ j.inbox = s /\ j.asked = k.asked /\ j.proc = k.proc
      /\ j.next = k.next /\ j.reader = k.reader /\ j.buf = k.buf /\ j.at = k.at
      /\ j.held = k.held /\ j.shut = k.shut
  BY <1>2, <1>4 DEF LaunchType, s
<1> HIDE DEF j
<1>6. /\ Own(n)' = Own(n) \cup {i}
      /\ \A p \in Launches : p # n => Own(p)' = Own(p)
      /\ \A p \in Launches : Own(p) \subseteq Own(p)'
  BY <1>1 DEF Own
<1>7. Traced(j, Own(n)')
  BY <1>2, <1>3, <1>4, <1>5, <1>6 DEF Sound, Traced
<1>8. Sound(j, Own(n)')
  BY <1>5, <1>6, <1>7 DEF Sound
<1>9. /\ DOMAIN clients' = Launches /\ clients'[n] = j
      /\ \A p \in Launches : p # n => clients'[p] = clients[p]
      /\ clients' = [p \in Launches |-> clients'[p]]
  BY <1>1 DEF LsInv
<1>10. \A p \in Launches : Sound(clients'[p], Own(p)')
  BY <1>6, <1>8, <1>9 DEF LsInv
<1>11. ASSUME NEW c \in Callers PROVE Served(c)'
  <2>1. Served(c) /\ caller'[c] = caller[c] /\ pool' = pool /\ foreign \subseteq foreign'
    BY <1>1 DEF LsInv
  <2>2. ASSUME caller[c].n \in Launches
        PROVE  /\ clients'[caller[c].n].reader = clients[caller[c].n].reader
               /\ clients'[caller[c].n].next = clients[caller[c].n].next
               /\ clients[caller[c].n].next \in Nat
               /\ Own(caller[c].n)' = {} => clients'[caller[c].n] = clients[caller[c].n]
    <3>1. CASE caller[c].n = n
      BY <1>1, <1>5, <1>9, <3>1, NextIsNat DEF Own
    <3>2. CASE caller[c].n # n
      BY <1>9, <2>2, <3>2, NextIsNat
    <3> QED BY <3>1, <3>2
  <2>3. caller[c].what = "initialize" => pool'.lock = c /\ pool'.client = 0
    BY <2>1 DEF Served
  <2> QED BY <2>1, <2>2, <2>3, StillServed
<1>12. ASSUME NEW p \in Launches PROVE Kept(p)'
  BY <1>1, <1>5, <1>9 DEF LsInv, Kept
<1>13. Apart'
  BY <1>1 DEF LsInv, Apart, Unsent
<1> QED BY <1>1, <1>9, <1>10, <1>11, <1>12, <1>13 DEF LsInv

\* What a client may become in a step of its caller c without the others noticing.
Polite(c, n, k) ==
    /\ k.reader = clients[n].reader
    /\ k.next \in Nat /\ clients[n].next <= k.next
    /\ Own(n) = {} => \A d \in Callers \ {c} :
          caller[d].n = n /\ Unsent(d) /\ Fresh(clients[n], caller[d].id) => Fresh(k, caller[d].id)

\* No other call that is still to be sent has this one's id.
Singled(c, r) ==
    r.pc \in {"write", "writing"} =>
        \A d \in Callers \ {c} : Unsent(d) /\ caller[d].n = r.n => caller[d].id # r.id

\* One caller makes a step, and a client with it.
LEMMA OthersServed ==
    ASSUME LsInv, NEW c \in Callers, NEW r, caller' = [caller EXCEPT ![c] = r],
           NEW n \in Launches, NEW k, clients' = [clients EXCEPT ![n] = k], UNCHANGED foreign,
           Sound(k, Own(n)), Polite(c, n, k), Singled(c, r),
           \A d \in Callers \ {c} : caller[d].what = "initialize" =>
              pool'.lock = d /\ pool'.client = 0
    PROVE  /\ DOMAIN clients' = Launches /\ clients'[n] = k
           /\ \A m \in Launches : m # n => clients'[m] = clients[m]
           /\ clients' = [m \in Launches |-> clients'[m]]
           /\ DOMAIN caller' = Callers /\ caller'[c] = r
           /\ \A d \in Callers : d # c => caller'[d] = caller[d]
           /\ caller' = [d \in Callers |-> caller'[d]]
           /\ \A m \in Launches : Sound(clients'[m], Own(m)')
           /\ \A d \in Callers : d # c => Served(d)'
           /\ Apart'
<1>1. /\ DOMAIN clients' = Launches /\ clients'[n] = k
      /\ \A m \in Launches : m # n => clients'[m] = clients[m]
      /\ clients' = [m \in Launches |-> clients'[m]]
  BY DEF LsInv
<1>2. /\ DOMAIN caller' = Callers /\ caller'[c] = r
      /\ \A d \in Callers : d # c => caller'[d] = caller[d]
      /\ caller' = [d \in Callers |-> caller'[d]]
  BY DEF LsInv
<1>3. \A m \in Launches : Own(m)' = Own(m)
  BY DEF Own
<1>4. \A m \in Launches : Sound(clients'[m], Own(m)')
  BY <1>1, <1>3 DEF LsInv
<1>5. ASSUME NEW d \in Callers, d # c PROVE Served(d)'
  <2>1. Served(d) /\ caller'[d] = caller[d] /\ foreign' = foreign
    BY <1>2, <1>5 DEF LsInv
  <2>2. ASSUME caller[d].n \in Launches
        PROVE  /\ clients[caller[d].n].reader = "gone" => clients'[caller[d].n].reader = "gone"
               /\ clients[caller[d].n].next \in Nat /\ clients'[caller[d].n].next \in Nat
               /\ clients[caller[d].n].next <= clients'[caller[d].n].next
               /\ Unsent(d) /\ Own(caller[d].n)' = {} /\ Fresh(clients[caller[d].n], caller[d].id)
                     => Fresh(clients'[caller[d].n], caller[d].id)
    <3>1. CASE caller[d].n = n
      <4>1. Own(caller[d].n)' = Own(n)
        BY <2>1, <3>1 DEF Own
      <4> QED BY <1>1, <1>5, <3>1, <4>1, NextIsNat DEF Polite
    <3>2. CASE caller[d].n # n
      BY <1>1, <2>2, <3>2, NextIsNat
    <3> QED BY <3>1, <3>2
  <2>3. caller[d].what = "initialize" => pool'.lock = d /\ pool'.client = 0
    BY <1>5
  <2> QED BY <2>1, <2>2, <2>3, StillServed
<1>6. Apart'
  <2> SUFFICES ASSUME NEW d \in Callers, NEW e \in Callers, d # e, Unsent(d)', Unsent(e)',
                      caller'[d].n = caller'[e].n
               PROVE  caller'[d].id # caller'[e].id
    BY DEF Apart
  <2>1. CASE d = c
    BY <1>2, <2>1 DEF Singled, Unsent
  <2>2. CASE e = c
    BY <1>2, <2>2 DEF Singled, Unsent
  <2>3. CASE d # c /\ e # c
    BY <1>2, <2>3 DEF LsInv, Apart, Unsent
  <2> QED BY <2>1, <2>2, <2>3
<1> QED BY <1>1, <1>2, <1>4, <1>5, <1>6

\* One caller makes a step, and the client it has one; the pool stays.
LEMMA CallerMoves ==
    ASSUME LsInv, NEW c \in Callers, NEW r, caller' = [caller EXCEPT ![c] = r],
           NEW n \in Launches, NEW k, clients' = [clients EXCEPT ![n] = k],
           UNCHANGED <<pool, foreign>>, Sound(k, Own(n)), Served(c)',
           Polite(c, n, k), Singled(c, r), k.proc = "up" => clients[n].proc = "up",
           \/ r.n = caller[c].n /\ r.what = caller[c].what
           \/ caller[c].what = "query"
    PROVE  LsInv'
<1>0. \A d \in Callers \ {c} : caller[d].what = "initialize" => pool'.lock = d /\ pool'.client = 0
  BY DEF LsInv, Served
<1>1. /\ DOMAIN clients' = Launches /\ clients'[n] = k
      /\ \A m \in Launches : m # n => clients'[m] = clients[m]
      /\ clients' = [m \in Launches |-> clients'[m]]
      /\ DOMAIN caller' = Callers /\ caller'[c] = r
      /\ \A d \in Callers : d # c => caller'[d] = caller[d]
      /\ caller' = [d \in Callers |-> caller'[d]]
      /\ \A m \in Launches : Sound(clients'[m], Own(m)')
      /\ \A d \in Callers : d # c => Served(d)'
      /\ Apart'
  BY <1>0, OthersServed
<1>5. ASSUME NEW m \in Launches PROVE Kept(m)'
  <2> SUFFICES ASSUME clients'[m].proc = "up", pool.client # m
               PROVE  \E d \in Callers : /\ caller'[d].n = m
                                         /\ caller'[d].what \in {"initialize", "shutdown"}
    BY DEF Kept
  <2>1. clients[m].proc = "up"
    BY <1>1
  <2>2. PICK d \in Callers : caller[d].n = m /\ caller[d].what \in {"initialize", "shutdown"}
    BY <2>1 DEF LsInv, Kept
  <2> QED BY <1>1, <2>2
<1>6. \A d \in Callers : Served(d)'
  BY <1>1
<1> QED BY <1>1, <1>5, <1>6 DEF LsInv

LEMMA Call_Inv == ASSUME LsConstants, LsInv, NEW c \in Callers, Call(c) PROVE LsInv'
<1> DEFINE r == caller[c]
           n == r.n
           k == clients[n]
           i == k.next + 1
           j == [k EXCEPT !.next = i, !.pending = @ \cup {i}]
           q == [r EXCEPT !.pc = "write", !.id = i]
<1>1. /\ r.pc = "call" /\ i <= Quota[n] /\ r \in CallerType /\ n \in Launches
      /\ r.what = "initialize" => pool.lock = c /\ pool.client = 0
  BY DEF LsInv, Served, Call
<1>2. Sound(k, Own(n)) /\ k \in LaunchType
  BY <1>1 DEF LsInv, Sound
<1>3. clients' = [clients EXCEPT ![n] = j]
  BY <1>1, <1>2 DEF LsInv, Call, LaunchType
<1>4. caller' = [caller EXCEPT ![c] = q] /\ UNCHANGED <<pool, foreign>>
  BY DEF Call, Becomes
<1>5. i \in Ids /\ k.next \in Nat
  <2>1. k.next \in Nat
    BY <1>2 DEF LaunchType
  <2>2. Quota[n] \in Nat /\ Quota[1] \in Nat /\ Quota[n] <= Quota[1]
    <3>1. n \in 1 .. Len(Quota) /\ 1 \in 1 .. Len(Quota)
      BY <1>1 DEF LsConstants, Launches
    <3> QED BY <1>1, <3>1 DEF LsConstants
  <2> QED BY <1>1, <2>1, <2>2 DEF Ids
<1>6. /\ j \in LaunchType /\ j.inbox = k.inbox /\ j.proc = k.proc /\ j.buf = k.buf /\ j.at = k.at
      /\ j.next = i /\ j.shut = k.shut /\ j.reader = k.reader /\ j.held = k.held
      /\ j.asked = k.asked
  <2>1. k.pending \cup {i} \in SUBSET Ids /\ i \in Nat
    BY <1>2, <1>5 DEF LaunchType
  <2> HIDE DEF i
  <2> QED BY <1>2, <2>1 DEF LaunchType
<1> HIDE DEF j
<1>7. Traced(j, Own(n))
  BY <1>2, <1>6 DEF Sound, Traced
<1>8. ASSUME Own(n) = {} PROVE Single(j) /\ Fresh(j, i)
  <2>1. Single(k) /\ k.inbox \in Seq(Message) /\ k.asked \subseteq Ids
    BY <1>2, <1>8 DEF Sound, LaunchType
  <2>2. \A a \in 1 .. Len(k.inbox) : k.inbox[a].id \in Ids
    <3>1. \A a \in 1 .. Len(k.inbox) : k.inbox[a] \in Message
      BY <2>1
    <3> QED BY <3>1 DEF Message
  <2>3. \A x \in Ids : x \in Nat
    BY <1>5 DEF Ids
  <2>4. \A x \in Ids : x <= k.next => x <= i /\ x # i
    BY <1>5, <2>3
  <2>5. /\ \A a \in 1 .. Len(k.inbox) : k.inbox[a].id <= i /\ k.inbox[a].id # i
        /\ k.reader = "send" => k.at <= i /\ k.at # i
    <3>1. k.reader = "send" => k.at \in Ids
      BY <1>2 DEF Sound, Traced
    <3> QED BY <2>1, <2>2, <2>4, <3>1 DEF Single
  <2>6. \A x \in j.asked :
          /\ x <= j.next /\ j.buf[x] = "none" /\ (j.reader = "send" => j.at # x)
          /\ \A a \in 1 .. Len(j.inbox) : j.inbox[a].id # x
    <3>1. i > k.next /\ i <= i
      BY <1>5
    <3>2. k.buf[i] = "none"
      BY <1>5, <2>1, <3>1 DEF Single
    <3>3. \A x \in k.asked : x <= i
      BY <2>1, <2>4 DEF Single
    <3> QED BY <1>6, <2>1, <2>5, <3>1, <3>2, <3>3 DEF Single
  <2>7. \A x \in Ids : x > i => k.buf[x] = "none"
    <3>1. \A x \in Ids : x > i => x > k.next
      BY <1>5, <2>3
    <3> QED BY <2>1, <3>1 DEF Single
  <2>11. Fresh(j, i)
    <3>1. i > k.next /\ i <= i
      BY <1>5
    <3>2. k.buf[i] = "none"
      BY <1>5, <2>1, <3>1 DEF Single
    <3>3. i \notin k.asked
      BY <2>1, <2>4 DEF Single
    <3> QED BY <1>6, <2>5, <3>1, <3>2, <3>3 DEF Fresh
  <2> HIDE DEF i, q
  <2>8. \A a \in 1 .. Len(j.inbox) : LET x == j.inbox[a].id IN
          /\ x <= j.next /\ j.buf[x] = "none" /\ (j.reader = "send" => j.at # x)
          /\ \A b \in 1 .. Len(j.inbox) : a # b => j.inbox[b].id # x
    <3>1. \A a \in 1 .. Len(k.inbox) :
            /\ k.buf[k.inbox[a].id] = "none" /\ (k.reader = "send" => k.at # k.inbox[a].id)
            /\ \A b \in 1 .. Len(k.inbox) : a # b => k.inbox[b].id # k.inbox[a].id
      BY <2>1 DEF Single
    <3> QED BY <1>6, <2>5, <3>1
  <2>9. j.reader = "send" => j.at <= j.next /\ j.buf[j.at] = "none"
    BY <1>6, <2>1, <2>5 DEF Single
  <2>10. \A x \in Ids : x > j.next => j.buf[x] = "none"
    BY <1>6, <2>7
  <2> QED BY <2>6, <2>8, <2>9, <2>10, <2>11 DEF Single
<1>9. Sound(j, Own(n))
  BY <1>6, <1>7, <1>8 DEF Sound
<1>10. /\ q \in CallerType /\ q.n = n /\ q.what = r.what /\ q.id = i /\ q.pc = "write"
  BY <1>1, <1>5 DEF CallerType
<1> HIDE DEF q
<1>11. caller'[c] = q /\ pool' = pool /\ clients'[n] = j /\ foreign' = foreign
  BY <1>1, <1>3, <1>4 DEF LsInv
<1>12. Served(c)'
  <2>1. i <= i
    BY <1>5
  <2>2. Own(caller[c].n)' = Own(n)
    BY <1>10, <1>11 DEF Own
  <2> HIDE DEF i
  <2> QED BY <1>1, <1>5, <1>6, <1>8, <1>10, <1>11, <2>1, <2>2 DEF Served, Unsent
<1>13. \A d \in Callers : Unsent(d) => caller[d].id \in Ids /\ (caller[d].n = n => caller[d].id <= k.next)
  BY DEF LsInv, Served, Unsent
<1>14. Polite(c, n, j)
  <2>1. k.next <= i /\ i \in Nat
    BY <1>5
  <2>2. \A x \in Ids : x <= k.next => x <= i
    BY <1>5 DEF Ids
  <2> HIDE DEF i
  <2>3. \A x \in Ids : Fresh(k, x) => Fresh(j, x)
    BY <1>6, <2>2 DEF Fresh
  <2> QED BY <1>6, <1>13, <2>1, <2>3 DEF Polite
<1>15. Singled(c, q)
  <2>1. \A x \in Ids : x <= k.next => x # i
    BY <1>5 DEF Ids
  <2> HIDE DEF i
  <2> QED BY <1>10, <1>13, <2>1 DEF Singled
<1> HIDE DEF i
<1> QED BY <1>1, <1>3, <1>4, <1>6, <1>9, <1>10, <1>12, <1>14, <1>15, CallerMoves

\* Whoever is to send still has a fresh id when every fresh id stays one.
LEMMA Untouched ==
    ASSUME LsInv, NEW c \in Callers, NEW n \in Launches, NEW k,
           k.next = clients[n].next, k.reader = clients[n].reader,
           Own(n) = {} => \A x \in Ids : Fresh(clients[n], x) => Fresh(k, x)
    PROVE  Polite(c, n, k)
<1>1. \A d \in Callers : Unsent(d) => caller[d].id \in Ids
  BY DEF LsInv, Served, Unsent
<1>2. k.next \in Nat /\ clients[n].next <= k.next
  BY NextIsNat
<1> QED BY <1>1, <1>2 DEF Polite

\* An id that is not waited for any more, and a channel that is emptied.
LEMMA Withdrawn ==
    ASSUME NEW k, NEW own, Sound(k, own), NEW j \in LaunchType,
           j.inbox = k.inbox, j.asked = k.asked, j.at = k.at, j.next = k.next,
           j.reader = k.reader, j.held = k.held, j.shut = k.shut,
           \A x \in Ids : j.buf[x] = "none" \/ j.buf[x] = k.buf[x]
    PROVE  Sound(j, own) /\ \A x \in Ids : Fresh(k, x) => Fresh(j, x)
<1>1. k \in LaunchType
  BY DEF Sound
<1>2. Traced(j, own)
  BY DEF Sound, Traced
<1>3. ASSUME own = {} PROVE Single(j)
  <2>1. Single(k) /\ k.asked \subseteq Ids /\ k.inbox \in Seq(Message) /\ Traced(k, own)
    BY <1>1, <1>3 DEF Sound, LaunchType
  <2>2. \A a \in 1 .. Len(k.inbox) : k.inbox[a].id \in Ids
    <3>1. \A a \in 1 .. Len(k.inbox) : k.inbox[a] \in Message
      BY <2>1
    <3> QED BY <3>1 DEF Message
  <2>3. /\ \A x \in k.asked : j.buf[x] = "none"
        /\ \A a \in 1 .. Len(k.inbox) : j.buf[k.inbox[a].id] = "none"
        /\ k.reader = "send" => j.buf[k.at] = "none"
        /\ \A x \in Ids : x > k.next => j.buf[x] = "none"
    BY <2>1, <2>2 DEF Single, Traced
  <2> QED BY <2>1, <2>3 DEF Single
<1>4. \A x \in Ids : Fresh(k, x) => Fresh(j, x)
  BY DEF Fresh
<1> QED BY <1>2, <1>3, <1>4 DEF Sound

LEMMA Write_Inv == ASSUME LsInv, NEW c \in Callers, Write(c) PROVE LsInv'
<1> DEFINE r == caller[c]
           n == r.n
           k == clients[n]
           j == [k EXCEPT !.mu = c]
           q == [r EXCEPT !.pc = "writing"]
<1>1. /\ r.pc = "write" /\ r \in CallerType /\ n \in Launches /\ r.id \in Ids
      /\ r.what = "initialize" => pool.lock = c /\ pool.client = 0
      /\ Unsent(c) /\ r.id <= k.next /\ (Own(n) = {} => Fresh(k, r.id))
  BY DEF LsInv, Served, Write, Unsent
<1>2. Sound(k, Own(n)) /\ k \in LaunchType
  BY <1>1 DEF LsInv, Sound
<1>3. clients' = [clients EXCEPT ![n] = j]
  BY <1>1, <1>2 DEF LsInv, Write, LaunchType
<1>4. caller' = [caller EXCEPT ![c] = q] /\ UNCHANGED <<pool, foreign>>
  BY DEF Write, Becomes
<1>5. /\ Sound(j, Own(n)) /\ j.proc = k.proc /\ j.reader = k.reader /\ j.next = k.next
      /\ \A x \in Ids : Fresh(k, x) => Fresh(j, x)
  <2>1. /\ j \in LaunchType /\ j.inbox = k.inbox /\ j.asked = k.asked /\ j.proc = k.proc
        /\ j.at = k.at /\ j.next = k.next /\ j.reader = k.reader /\ j.buf = k.buf
        /\ j.held = k.held /\ j.shut = k.shut
    BY <1>2 DEF LaunchType
  <2> HIDE DEF j
  <2> QED BY <1>2, <2>1, Withdrawn
<1>6. /\ q \in CallerType /\ q.n = n /\ q.what = r.what /\ q.id = r.id /\ q.pc = "writing"
  BY <1>1 DEF CallerType
<1> HIDE DEF j, q
<1>7. caller'[c] = q /\ pool' = pool /\ clients'[n] = j /\ foreign' = foreign
  BY <1>1, <1>3, <1>4 DEF LsInv
<1>8. Served(c)'
  <2>1. Own(caller[c].n)' = Own(n)
    BY <1>6, <1>7 DEF Own
  <2> QED BY <1>1, <1>5, <1>6, <1>7, <2>1 DEF Served, Unsent
<1>9. Polite(c, n, j)
  BY <1>1, <1>5, Untouched
<1>10. Singled(c, q)
  BY <1>1, <1>6 DEF LsInv, Apart, Singled
<1> QED BY <1>1, <1>3, <1>4, <1>5, <1>6, <1>8, <1>9, <1>10, CallerMoves

LEMMA Written_Inv == ASSUME LsInv, NEW c \in Callers, Written(c) PROVE LsInv'
<1> DEFINE r == caller[c]
           n == r.n
           k == clients[n]
           alive == k.proc = "up"
           owed == IF alive THEN k.asked \cup {r.id} ELSE k.asked
           j == [k EXCEPT !.mu = NoCaller, !.asked = owed]
           q == IF alive THEN [r EXCEPT !.pc = "wait"] ELSE [r EXCEPT !.pc = "leave", !.got = "error"]
<1>1. /\ r.pc = "writing" /\ r \in CallerType /\ n \in Launches /\ r.id \in Ids
      /\ r.what = "initialize" => pool.lock = c /\ pool.client = 0
      /\ Unsent(c) /\ r.id <= k.next /\ (Own(n) = {} => Fresh(k, r.id))
  BY DEF LsInv, Served, Written, Unsent
<1>2. Sound(k, Own(n)) /\ k \in LaunchType
  BY <1>1 DEF LsInv, Sound
<1>3. clients' = [clients EXCEPT ![n] = j]
  BY <1>1, <1>2 DEF LsInv, Written, LaunchType
<1>4. caller' = [caller EXCEPT ![c] = q] /\ UNCHANGED <<pool, foreign>>
  BY DEF Written, Becomes
<1>5. /\ j \in LaunchType /\ j.inbox = k.inbox /\ j.asked = owed /\ j.proc = k.proc
      /\ j.at = k.at /\ j.next = k.next /\ j.reader = k.reader /\ j.buf = k.buf
      /\ j.held = k.held /\ j.shut = k.shut /\ owed \subseteq k.asked \cup {r.id}
  <2>1. owed \in SUBSET Ids /\ owed \subseteq k.asked \cup {r.id}
    BY <1>1, <1>2 DEF LaunchType
  <2> HIDE DEF owed
  <2> QED BY <1>2, <2>1 DEF LaunchType
<1> HIDE DEF j, owed
<1>6. Traced(j, Own(n))
  BY <1>2, <1>5 DEF Sound, Traced
<1>7. ASSUME Own(n) = {} PROVE Single(j)
  <2>1. Single(k) /\ Fresh(k, r.id)
    BY <1>1, <1>2, <1>7 DEF Sound
  <2>2. \A i \in j.asked :
          /\ i <= j.next /\ j.buf[i] = "none" /\ (j.reader = "send" => j.at # i)
          /\ \A a \in 1 .. Len(j.inbox) : j.inbox[a].id # i
    BY <1>5, <2>1 DEF Single, Fresh
  <2>3. \A a \in 1 .. Len(j.inbox) : LET i == j.inbox[a].id IN
          /\ i <= j.next /\ j.buf[i] = "none" /\ (j.reader = "send" => j.at # i)
          /\ \A b \in 1 .. Len(j.inbox) : a # b => j.inbox[b].id # i
    <3>1. \A a \in 1 .. Len(k.inbox) :
            /\ k.inbox[a].id <= k.next /\ k.buf[k.inbox[a].id] = "none"
            /\ (k.reader = "send" => k.at # k.inbox[a].id)
            /\ \A b \in 1 .. Len(k.inbox) : a # b => k.inbox[b].id # k.inbox[a].id
      BY <2>1 DEF Single
    <3> QED BY <1>5, <3>1
  <2>4. /\ j.reader = "send" => j.at <= j.next /\ j.buf[j.at] = "none"
        /\ \A i \in Ids : i > j.next => j.buf[i] = "none"
    BY <1>5, <2>1 DEF Single
  <2> QED BY <2>2, <2>3, <2>4 DEF Single
<1>8. Sound(j, Own(n))
  BY <1>5, <1>6, <1>7 DEF Sound
<1>9. /\ q \in CallerType /\ q.n = n /\ q.what = r.what /\ q.id = r.id
      /\ q.pc \in {"wait", "leave"} /\ (q.pc = "leave" => q.got = "error")
  BY <1>1 DEF CallerType, Kinds
<1> HIDE DEF q
<1>10. caller'[c] = q /\ pool' = pool
  BY <1>4 DEF LsInv
<1>11. Served(c)'
  BY <1>1, <1>9, <1>10 DEF Served, Unsent
<1>12. Polite(c, n, j)
  <2>1. ASSUME NEW d \in Callers \ {c}, caller[d].n = n, Unsent(d), Fresh(k, caller[d].id)
        PROVE  Fresh(j, caller[d].id)
    <3>1. caller[d].id # r.id
      BY <1>1, <2>1 DEF LsInv, Apart
    <3> QED BY <1>5, <2>1, <3>1 DEF Fresh
  <2>2. k.next \in Nat /\ k.next <= k.next
    BY <1>1, NextIsNat
  <2> QED BY <1>5, <2>1, <2>2 DEF Polite
<1>13. Singled(c, q)
  BY <1>9 DEF Singled
<1> QED BY <1>1, <1>3, <1>4, <1>5, <1>8, <1>9, <1>11, <1>12, <1>13, CallerMoves

LEMMA Receive_Inv == ASSUME LsInv, NEW c \in Callers, Receive(c) PROVE LsInv'
<1> DEFINE r == caller[c]
           n == r.n
           k == clients[n]
           b == [k.buf EXCEPT ![r.id] = "none"]
           j == [k EXCEPT !.buf = b]
           q == [r EXCEPT !.pc = "leave", !.got = k.buf[r.id]]
<1>1. /\ r.pc = "wait" /\ r \in CallerType /\ n \in Launches /\ r.id \in Ids
      /\ r.what = "initialize" => pool.lock = c /\ pool.client = 0
      /\ (k.buf[r.id] # "none" \/ r.id \in k.shut)
  BY DEF LsInv, Served, Receive
<1>2. Sound(k, Own(n)) /\ k \in LaunchType
  BY <1>1 DEF LsInv, Sound
<1>3. clients' = [clients EXCEPT ![n] = j]
  BY <1>1, <1>2 DEF LsInv, Receive, LaunchType
<1>4. caller' = [caller EXCEPT ![c] = q] /\ UNCHANGED <<pool, foreign>>
  BY DEF Receive, Becomes
<1>5. /\ Sound(j, Own(n)) /\ j.proc = k.proc /\ j.reader = k.reader /\ j.next = k.next
      /\ \A x \in Ids : Fresh(k, x) => Fresh(j, x)
  <2>1. b \in [Ids -> Kinds] /\ \A x \in Ids : b[x] = "none" \/ b[x] = k.buf[x]
    BY <1>1, <1>2 DEF LaunchType, Kinds
  <2> HIDE DEF b
  <2>2. /\ j \in LaunchType /\ j.inbox = k.inbox /\ j.asked = k.asked /\ j.proc = k.proc
        /\ j.at = k.at /\ j.next = k.next /\ j.reader = k.reader /\ j.buf = b /\ j.held = k.held
        /\ j.shut = k.shut
    BY <1>2, <2>1 DEF LaunchType
  <2> HIDE DEF j
  <2> QED BY <1>2, <2>1, <2>2, Withdrawn
<1>6. /\ q \in CallerType /\ q.n = n /\ q.what = r.what /\ q.id = r.id
      /\ q.pc = "leave" /\ q.got = k.buf[r.id]
  BY <1>1, <1>2 DEF CallerType, LaunchType
<1>7. /\ k.buf[r.id] = "none" => k.reader = "gone"
      /\ k.buf[r.id] = "request" => r.id \in Own(n)
  BY <1>1, <1>2 DEF Sound, Traced
<1> HIDE DEF j, q
<1>8. caller'[c] = q /\ pool' = pool /\ clients'[n].reader = k.reader /\ foreign' = foreign
  BY <1>1, <1>3, <1>4, <1>5 DEF LsInv
<1>9. Served(c)'
  <2>1. r.id \in Own(n) => (caller[c].id \in Own(caller[c].n))'
    BY <1>6, <1>8 DEF Own
  <2> QED BY <1>1, <1>6, <1>7, <1>8, <2>1 DEF Served, Unsent
<1>10. Polite(c, n, j) /\ Singled(c, q)
  BY <1>1, <1>5, <1>6, Untouched DEF Singled
<1> QED BY <1>1, <1>3, <1>4, <1>5, <1>6, <1>9, <1>10, CallerMoves

LEMMA Timeout_Inv == ASSUME LsInv, NEW c \in Callers, Timeout(c) PROVE LsInv'
<1> DEFINE r == caller[c]
           n == r.n
           q == [r EXCEPT !.pc = "leave", !.got = "error"]
<1>1. /\ r.pc = "wait" /\ r \in CallerType /\ n \in Launches /\ r.id \in Ids
      /\ r.what = "initialize" => pool.lock = c /\ pool.client = 0
  BY DEF LsInv, Served, Timeout
<1>2. Sound(clients[n], Own(n)) /\ clients' = [clients EXCEPT ![n] = clients[n]]
  BY <1>1 DEF LsInv, Timeout
<1>3. caller' = [caller EXCEPT ![c] = q] /\ UNCHANGED <<pool, foreign>>
  BY DEF Timeout, Becomes
<1>4. /\ q \in CallerType /\ q.n = n /\ q.what = r.what /\ q.id = r.id
      /\ q.pc = "leave" /\ q.got = "error"
  BY <1>1 DEF CallerType, Kinds
<1> HIDE DEF q
<1>5. caller'[c] = q /\ pool' = pool
  BY <1>3 DEF LsInv
<1>6. Served(c)'
  BY <1>1, <1>4, <1>5 DEF Served, Unsent
<1>7. Polite(c, n, clients[n]) /\ Singled(c, q)
  BY <1>1, <1>4, Untouched DEF Singled
<1> QED BY <1>1, <1>2, <1>3, <1>4, <1>6, <1>7, CallerMoves

LEMMA Deregister_Inv == ASSUME LsInv, NEW c \in Callers, Deregister(c) PROVE LsInv'
<1> DEFINE r == caller[c]
           n == r.n
           k == clients[n]
           j == [k EXCEPT !.pending = @ \ {r.id}]
           q == [r EXCEPT !.pc = "done"]
<1>1. /\ r.pc = "leave" /\ r \in CallerType /\ n \in Launches /\ r.id \in Ids
      /\ r.what = "initialize" => pool.lock = c /\ pool.client = 0
      /\ r.got = "none" => k.reader = "gone"
      /\ r.got = "request" => r.id \in Own(n)
  BY DEF LsInv, Served, Deregister
<1>2. Sound(k, Own(n)) /\ k \in LaunchType
  BY <1>1 DEF LsInv, Sound
<1>3. clients' = [clients EXCEPT ![n] = j]
  BY <1>1, <1>2 DEF LsInv, Deregister, LaunchType
<1>4. caller' = [caller EXCEPT ![c] = q] /\ UNCHANGED <<pool, foreign>>
  BY DEF Deregister, Becomes
<1>5. /\ Sound(j, Own(n)) /\ j.proc = k.proc /\ j.reader = k.reader /\ j.next = k.next
      /\ \A x \in Ids : Fresh(k, x) => Fresh(j, x)
  <2>1. /\ j \in LaunchType /\ j.inbox = k.inbox /\ j.asked = k.asked /\ j.proc = k.proc
        /\ j.at = k.at /\ j.next = k.next /\ j.reader = k.reader /\ j.buf = k.buf
        /\ j.held = k.held /\ j.shut = k.shut
    BY <1>2 DEF LaunchType
  <2> HIDE DEF j
  <2> QED BY <1>2, <2>1, Withdrawn
<1>6. /\ q \in CallerType /\ q.n = n /\ q.what = r.what /\ q.id = r.id /\ q.pc = "done"
      /\ q.got = r.got
  BY <1>1 DEF CallerType
<1> HIDE DEF j, q
<1>7. caller'[c] = q /\ pool' = pool /\ clients'[n].reader = k.reader /\ foreign' = foreign
  BY <1>1, <1>3, <1>4, <1>5 DEF LsInv
<1>8. Served(c)'
  <2>1. r.id \in Own(n) => (caller[c].id \in Own(caller[c].n))'
    BY <1>6, <1>7 DEF Own
  <2> QED BY <1>1, <1>6, <1>7, <2>1 DEF Served, Unsent
<1>9. Polite(c, n, j) /\ Singled(c, q)
  BY <1>1, <1>5, <1>6, Untouched DEF Singled
<1> QED BY <1>1, <1>3, <1>4, <1>5, <1>6, <1>8, <1>9, CallerMoves

\* A caller without a client holds nothing.
LEMMA IdleServed ==
    ASSUME NEW c, caller'[c] = Idle
    PROVE  Served(c)'
  BY DEF Served, Unsent, Idle, CallerType, Kinds

LEMMA Answered_Inv == ASSUME LsInv, NEW c \in Callers, Answered(c) PROVE LsInv'
<1>1. /\ caller[c].n \in Launches /\ caller[c].what = "query" /\ caller' = [caller EXCEPT ![c] = Idle]
      /\ UNCHANGED <<pool, clients, foreign>>
  BY DEF LsInv, Served, Answered, Becomes
<1> DEFINE n == caller[c].n
<1>2. clients' = [clients EXCEPT ![n] = clients[n]] /\ Sound(clients[n], Own(n))
  BY <1>1 DEF LsInv
<1>3. caller'[c] = Idle
  BY <1>1 DEF LsInv
<1>4. Polite(c, n, clients[n]) /\ Singled(c, Idle)
  BY <1>1, Untouched DEF Singled, Idle
<1> QED BY <1>1, <1>2, <1>3, <1>4, IdleServed, CallerMoves

\* One caller makes a step, with the client it has and with the pool, which nobody
\* else is starting a server for.
LEMMA PoolMoves ==
    ASSUME LsInv, NEW c \in Callers, NEW r, caller' = [caller EXCEPT ![c] = r],
           NEW n \in Launches, NEW k, clients' = [clients EXCEPT ![n] = k], UNCHANGED foreign,
           pool' \in PoolType,
           Sound(k, Own(n)), Polite(c, n, k), Singled(c, r), Served(c)',
           \A d \in Callers : d # c => caller[d].what # "initialize",
           \A m \in Launches : Kept(m)'
    PROVE  LsInv'
<1>1. \A d \in Callers \ {c} : caller[d].what = "initialize" => pool'.lock = d /\ pool'.client = 0
  OBVIOUS
<1>2. /\ DOMAIN clients' = Launches
      /\ clients' = [m \in Launches |-> clients'[m]]
      /\ DOMAIN caller' = Callers
      /\ caller' = [d \in Callers |-> caller'[d]]
      /\ \A m \in Launches : Sound(clients'[m], Own(m)')
      /\ \A d \in Callers : d # c => Served(d)'
      /\ Apart'
  BY <1>1, OthersServed
<1>3. \A d \in Callers : Served(d)'
  BY <1>2
<1> QED BY <1>2, <1>3 DEF LsInv

LEMMA LsStays_Inv == ASSUME LsInv, UNCHANGED lspvars PROVE LsInv'
<1>1. pool' = pool /\ clients' = clients /\ caller' = caller /\ foreign' = foreign
  BY DEF lspvars
<1>2. \A n \in Launches : Own(n)' = Own(n)
  BY <1>1 DEF Own
<1>3. \A n \in Launches : Sound(clients'[n], Own(n)') /\ Kept(n)'
  BY <1>1, <1>2 DEF LsInv, Kept
<1>4. ASSUME NEW c \in Callers PROVE Served(c)'
  <2>1. Served(c) /\ foreign \subseteq foreign'
    BY <1>1 DEF LsInv
  <2>2. caller[c].n \in Launches => clients[caller[c].n].next \in Nat
    BY NextIsNat
  <2>3. caller[c].what = "initialize" => pool'.lock = c /\ pool'.client = 0
    BY <1>1, <2>1 DEF Served
  <2> QED BY <1>1, <2>1, <2>2, <2>3, StillServed
<1>5. Apart'
  BY <1>1 DEF LsInv, Apart, Unsent
<1> QED BY <1>1, <1>3, <1>4, <1>5 DEF LsInv

LEMMA For_Inv == ASSUME LsConstants, LsInv, NEW c \in Callers, For(c) PROVE LsInv'
<1>1. caller[c] = Idle /\ pool.lock = NoCaller /\ NoCaller \notin Callers
  BY DEF LsInv, Served, For, LsConstants
<1>2. \A d \in Callers : caller[d].what # "initialize"
  BY <1>1 DEF LsInv, Served
<1>3. CASE UNCHANGED lspvars
  BY <1>3, LsStays_Inv
<1>4. CASE /\ ~pool.failed /\ pool.client # 0
           /\ Becomes(c, [Idle EXCEPT !.pc = "call", !.n = pool.client])
           /\ UNCHANGED <<pool, clients, foreign>>
  <2> DEFINE n == pool.client
             q == [Idle EXCEPT !.pc = "call", !.n = n]
  <2>1. n \in Launches /\ caller' = [caller EXCEPT ![c] = q] /\ caller'[c] = q
    BY <1>4 DEF LsInv, Becomes, PoolType
  <2>2. /\ clients' = [clients EXCEPT ![n] = clients[n]] /\ Sound(clients[n], Own(n))
        /\ caller[c].what = "query"
    BY <1>1, <1>4, <2>1 DEF LsInv, Idle
  <2>3. q \in CallerType /\ q.pc = "call" /\ q.n = n /\ q.what = "query"
    BY <2>1 DEF Idle, CallerType, Kinds
  <2> HIDE DEF q
  <2>4. Served(c)'
    BY <2>1, <2>3 DEF Served, Unsent
  <2>5. Polite(c, n, clients[n]) /\ Singled(c, q)
    BY <2>1, <2>3, Untouched DEF Singled
  <2> QED BY <1>4, <2>1, <2>2, <2>4, <2>5, CallerMoves
<1>5. CASE /\ ~pool.failed /\ pool.client = 0
           /\ pool' = [pool EXCEPT !.failed = TRUE]
           /\ UNCHANGED <<clients, caller, foreign>>
  <2>1. pool' \in PoolType
    BY <1>5 DEF LsInv, PoolType
  <2>2. pool'.lock = pool.lock /\ pool'.client = pool.client
    BY <1>5 DEF LsInv, PoolType
  <2>3. \A m \in Launches : Own(m)' = Own(m)
    BY <1>5 DEF Own
  <2>4. \A m \in Launches : Sound(clients'[m], Own(m)') /\ Kept(m)'
    BY <1>5, <2>2, <2>3 DEF LsInv, Kept
  <2>5. ASSUME NEW d \in Callers PROVE Served(d)'
    <3>1. Served(d) /\ caller'[d] = caller[d] /\ foreign \subseteq foreign' /\ clients' = clients
      BY <1>5 DEF LsInv
    <3>2. caller[d].n \in Launches => clients[caller[d].n].next \in Nat
      BY NextIsNat
    <3>3. caller[d].what # "initialize"
      BY <1>2
    <3> QED BY <3>1, <3>2, <3>3, StillServed
  <2>6. Apart'
    BY <1>5 DEF LsInv, Apart, Unsent
  <2> QED BY <1>5, <2>1, <2>4, <2>5, <2>6 DEF LsInv
<1>6. CASE /\ ~pool.failed /\ pool.client = 0 /\ Launched < Len(Quota)
           /\ LET n == Launched + 1 IN
              /\ clients' = [clients EXCEPT ![n].proc = "up"]
              /\ Becomes(c, [Idle EXCEPT !.pc = "call", !.n = n, !.what = "initialize"])
           /\ pool' = [pool EXCEPT !.lock = c]
           /\ UNCHANGED foreign
  <2> DEFINE n == Launched + 1
             k == clients[n]
             j == [k EXCEPT !.proc = "up"]
             q == [Idle EXCEPT !.pc = "call", !.n = n, !.what = "initialize"]
  <2>1. Launched \in Nat /\ n \in Launches
    <3>1. Len(Quota) \in Nat
      BY DEF LsConstants
    <3>2. IsFiniteSet(Launches)
      BY <3>1, FS_Interval DEF Launches
    <3>3. IsFiniteSet({m \in Launches : clients[m].proc # "none"})
      BY <3>2, FS_Subset
    <3>4. Launched \in Nat
      BY <3>3, FS_CardinalityType DEF Launched
    <3> QED BY <1>6, <3>1, <3>4 DEF Launches
  <2>2. /\ caller' = [caller EXCEPT ![c] = q] /\ caller'[c] = q
        /\ \A d \in Callers : d # c => caller'[d] = caller[d]
    BY <1>6 DEF LsInv, Becomes
  <2>3. /\ q \in CallerType /\ q.pc = "call" /\ q.n = n /\ q.what = "initialize"
    BY <2>1 DEF Idle, CallerType, Kinds
  <2>4. Sound(k, Own(n)) /\ k \in LaunchType
    BY <2>1 DEF LsInv, Sound
  <2>5. clients' = [clients EXCEPT ![n] = j]
    BY <1>6
  <2>6. /\ j \in LaunchType /\ j.inbox = k.inbox /\ j.asked = k.asked
        /\ j.at = k.at /\ j.next = k.next /\ j.reader = k.reader /\ j.buf = k.buf
        /\ j.held = k.held /\ j.shut = k.shut
    BY <2>4 DEF LaunchType
  <2> HIDE DEF n, q, j
  <2>7. Sound(j, Own(n)) /\ \A x \in Ids : Fresh(k, x) => Fresh(j, x)
    BY <2>4, <2>6, Withdrawn
  <2>8. pool' \in PoolType
    BY <1>6 DEF LsInv, PoolType
  <2>9. pool'.lock = c /\ pool'.client = 0
    BY <1>6 DEF LsInv, PoolType
  <2>10. Served(c)'
    BY <2>1, <2>2, <2>3, <2>9 DEF Served, Unsent
  <2>11. ASSUME NEW m \in Launches PROVE Kept(m)'
    <3>1. CASE m = n
      BY <2>2, <2>3, <3>1 DEF Kept
    <3>2. CASE m # n
      <4> SUFFICES ASSUME clients'[m].proc = "up"
                   PROVE  \E d \in Callers : /\ caller'[d].n = m
                                             /\ caller'[d].what \in {"initialize", "shutdown"}
        BY DEF Kept
      <4>1. clients[m].proc = "up" /\ pool.client # m
        <5>1. clients'[m] = clients[m]
          BY <2>5, <3>2 DEF LsInv
        <5>2. m # 0
          BY DEF Launches
        <5> QED BY <1>6, <5>1, <5>2
      <4>2. PICK d \in Callers : caller[d].n = m /\ caller[d].what \in {"initialize", "shutdown"}
        BY <4>1 DEF LsInv, Kept
      <4>3. d # c
        BY <1>1, <4>2 DEF Idle
      <4> QED BY <2>2, <4>2, <4>3
    <3> QED BY <3>1, <3>2
  <2>12. Polite(c, n, j) /\ Singled(c, q)
    BY <2>1, <2>3, <2>6, <2>7, Untouched DEF Singled
  <2> QED BY <1>2, <1>6, <2>1, <2>2, <2>5, <2>7, <2>8, <2>10, <2>11, <2>12, PoolMoves
<1> QED BY <1>3, <1>4, <1>5, <1>6 DEF For

LEMMA Started_Inv == ASSUME LsConstants, LsInv, NEW c \in Callers, Started(c) PROVE LsInv'
<1> DEFINE r == caller[c]
           n == r.n
           won == r.got \in {"answer", "request"} /\ clients[r.n].proc = "up"
           q == IF won THEN [r EXCEPT !.pc = "call", !.what = "query", !.got = "none"]
                ELSE [r EXCEPT !.pc = "call", !.what = "shutdown", !.got = "none"]
           p == IF won THEN [pool EXCEPT !.lock = NoCaller, !.client = n] ELSE pool
<1>1. /\ r.pc = "done" /\ r.what = "initialize" /\ pool.lock = c /\ pool.client = 0
      /\ r \in CallerType /\ n \in Launches
  BY DEF LsInv, Served, Started
<1>2. \A d \in Callers : d # c => caller[d].what # "initialize"
  BY <1>1 DEF LsInv, Served
<1>3. caller' = [caller EXCEPT ![c] = q] /\ pool' = p /\ UNCHANGED <<clients, foreign>>
  BY DEF Started, Becomes
<1>4. /\ q \in CallerType /\ q.pc = "call" /\ q.n = n /\ q.what \in {"query", "shutdown"}
      /\ ~won => q.what = "shutdown"
  BY <1>1 DEF CallerType, Kinds
<1>5. p \in PoolType /\ (won => p.client = n)
  <2>1. pool \in PoolType
    BY DEF LsInv
  <2>2. LET t == [pool EXCEPT !.lock = NoCaller, !.client = n] IN t \in PoolType /\ t.client = n
    BY <1>1, <2>1 DEF PoolType
  <2> QED BY <2>1, <2>2
<1> HIDE DEF q, p, won
<1>6. /\ clients' = [clients EXCEPT ![n] = clients[n]] /\ Sound(clients[n], Own(n))
      /\ caller'[c] = q /\ \A d \in Callers : d # c => caller'[d] = caller[d]
  BY <1>1, <1>3 DEF LsInv
<1>7. Served(c)'
  BY <1>1, <1>4, <1>6 DEF Served, Unsent
<1>8. ASSUME NEW m \in Launches PROVE Kept(m)'
  <2>1. CASE m = n
    BY <1>3, <1>4, <1>5, <1>6, <2>1 DEF Kept
  <2>2. CASE m # n
    <3> SUFFICES ASSUME clients[m].proc = "up"
                 PROVE  \E d \in Callers : /\ caller'[d].n = m
                                           /\ caller'[d].what \in {"initialize", "shutdown"}
      BY <1>3 DEF Kept
    <3>1. pool.client # m
      BY <1>1 DEF Launches
    <3>2. PICK d \in Callers : caller[d].n = m /\ caller[d].what \in {"initialize", "shutdown"}
      BY <3>1 DEF LsInv, Kept
    <3> QED BY <1>6, <2>2, <3>2
  <2> QED BY <2>1, <2>2
<1>9. Polite(c, n, clients[n]) /\ Singled(c, q)
  BY <1>1, <1>4, Untouched DEF Singled
<1> QED BY <1>1, <1>2, <1>3, <1>5, <1>6, <1>7, <1>8, <1>9, PoolMoves

LEMMA PoolClose_Inv == ASSUME LsConstants, LsInv, NEW c \in Callers, PoolClose(c) PROVE LsInv'
<1> DEFINE n == pool.client
           q == [Idle EXCEPT !.pc = "call", !.n = n, !.what = "shutdown"]
           p == [pool EXCEPT !.client = 0, !.closing = @ \cup {n}]
<1>1. /\ caller[c] = Idle /\ pool.lock = NoCaller /\ NoCaller \notin Callers /\ n \in Launches
  BY DEF LsInv, Served, PoolClose, LsConstants, PoolType
<1>2. \A d \in Callers : caller[d].what # "initialize"
  BY <1>1 DEF LsInv, Served
<1>3. caller' = [caller EXCEPT ![c] = q] /\ pool' = p /\ UNCHANGED <<clients, foreign>>
  BY DEF PoolClose, Becomes
<1>4. q \in CallerType /\ q.pc = "call" /\ q.n = n /\ q.what = "shutdown"
  BY <1>1 DEF Idle, CallerType, Kinds
<1>5. p \in PoolType
  BY <1>1 DEF LsInv, PoolType
<1> HIDE DEF q, p
<1>6. /\ clients' = [clients EXCEPT ![n] = clients[n]] /\ Sound(clients[n], Own(n))
      /\ caller'[c] = q /\ \A d \in Callers : d # c => caller'[d] = caller[d]
  BY <1>1, <1>3 DEF LsInv
<1>7. Served(c)'
  BY <1>1, <1>4, <1>6 DEF Served, Unsent
<1>8. ASSUME NEW m \in Launches PROVE Kept(m)'
  <2>1. CASE m = n
    BY <1>4, <1>6, <2>1 DEF Kept
  <2>2. CASE m # n
    <3> SUFFICES ASSUME clients[m].proc = "up"
                 PROVE  \E d \in Callers : /\ caller'[d].n = m
                                           /\ caller'[d].what \in {"initialize", "shutdown"}
      BY <1>3 DEF Kept
    <3>1. PICK d \in Callers : caller[d].n = m /\ caller[d].what \in {"initialize", "shutdown"}
      BY <2>2 DEF LsInv, Kept
    <3>2. d # c
      BY <1>1, <3>1 DEF Idle
    <3> QED BY <1>6, <3>1, <3>2
  <2> QED BY <2>1, <2>2
<1>9. Polite(c, n, clients[n]) /\ Singled(c, q)
  BY <1>1, <1>4, Untouched DEF Singled
<1> QED BY <1>1, <1>2, <1>3, <1>5, <1>6, <1>7, <1>8, <1>9, PoolMoves

LEMMA Close_Inv == ASSUME LsInv, NEW c \in Callers, Close(c) PROVE LsInv'
<1> DEFINE n == caller[c].n
           k == clients[n]
           j == [k EXCEPT !.proc = "dead", !.asked = {}]
           p == IF pool.lock = c THEN [pool EXCEPT !.lock = NoCaller, !.failed = TRUE]
                ELSE [pool EXCEPT !.closing = @ \ {n}]
<1>1. /\ caller[c].pc = "done" /\ caller[c].what = "shutdown" /\ n \in Launches
  BY DEF LsInv, Served, Close
<1>2. /\ clients' = [clients EXCEPT ![n] = j] /\ caller' = [caller EXCEPT ![c] = Idle]
      /\ pool' = p /\ UNCHANGED foreign
  BY DEF Close, Becomes
<1>3. Sound(j, Own(n)) /\ j.proc = "dead" /\ j.reader = k.reader /\ Quiet(k, j, Own(n))
  BY <1>1, Ended DEF LsInv
<1>4. /\ p \in PoolType /\ p.client = pool.client
      /\ p.lock = IF pool.lock = c THEN NoCaller ELSE pool.lock
  <2>1. pool \in PoolType
    BY DEF LsInv
  <2>2. LET t == [pool EXCEPT !.lock = NoCaller, !.failed = TRUE] IN
        t \in PoolType /\ t.client = pool.client /\ t.lock = NoCaller
    BY <2>1 DEF PoolType
  <2>3. LET t == [pool EXCEPT !.closing = @ \ {n}] IN
        t \in PoolType /\ t.client = pool.client /\ t.lock = pool.lock
    BY <2>1 DEF PoolType
  <2> QED BY <2>2, <2>3
<1> HIDE DEF j, p
<1>5. /\ DOMAIN clients' = Launches /\ clients'[n] = j
      /\ \A m \in Launches : m # n => clients'[m] = clients[m]
      /\ clients' = [m \in Launches |-> clients'[m]]
  BY <1>1, <1>2 DEF LsInv
<1>6. /\ DOMAIN caller' = Callers /\ caller'[c] = Idle
      /\ \A d \in Callers : d # c => caller'[d] = caller[d]
      /\ caller' = [d \in Callers |-> caller'[d]]
  BY <1>2 DEF LsInv
<1>7. pool'.client = pool.client /\ \A d \in Callers : d # c => (pool.lock = d => pool'.lock = d)
  BY <1>2, <1>4
<1>8. \A m \in Launches : Sound(clients'[m], Own(m)')
  <2>1. \A m \in Launches : Own(m)' = Own(m)
    BY <1>2 DEF Own
  <2> QED BY <1>3, <1>5, <2>1 DEF LsInv
<1>9. ASSUME NEW d \in Callers PROVE Served(d)'
  <2>1. CASE d = c
    BY <1>6, <2>1, IdleServed
  <2>2. CASE d # c
    <3>1. Served(d) /\ caller'[d] = caller[d] /\ foreign \subseteq foreign'
      BY <1>2, <1>6, <2>2 DEF LsInv
    <3>2. ASSUME caller[d].n \in Launches
          PROVE  /\ clients[caller[d].n].reader = "gone" => clients'[caller[d].n].reader = "gone"
                 /\ clients[caller[d].n].next \in Nat /\ clients'[caller[d].n].next \in Nat
                 /\ clients[caller[d].n].next <= clients'[caller[d].n].next
                 /\ Unsent(d) /\ Own(caller[d].n)' = {} /\ Fresh(clients[caller[d].n], caller[d].id)
                       => Fresh(clients'[caller[d].n], caller[d].id)
      <4>1. CASE caller[d].n = n
        <5>1. Own(caller[d].n)' = Own(n)
          BY <1>2, <3>1, <4>1 DEF Own
        <5>2. Unsent(d) => caller[d].id \in Ids
          BY <3>1 DEF Served, Unsent
        <5> QED BY <1>3, <1>5, <4>1, <5>1, <5>2 DEF Quiet
      <4>2. CASE caller[d].n # n
        BY <1>5, <3>2, <4>2, NextIsNat
      <4> QED BY <4>1, <4>2
    <3>3. caller[d].what = "initialize" => pool'.lock = d /\ pool'.client = 0
      BY <1>7, <2>2, <3>1 DEF Served
    <3> QED BY <3>1, <3>2, <3>3, StillServed
  <2> QED BY <2>1, <2>2
<1>10. ASSUME NEW m \in Launches PROVE Kept(m)'
  <2> SUFFICES ASSUME clients'[m].proc = "up", pool.client # m
               PROVE  \E d \in Callers : /\ caller'[d].n = m
                                         /\ caller'[d].what \in {"initialize", "shutdown"}
    BY <1>7 DEF Kept
  <2>1. m # n /\ clients[m].proc = "up"
    BY <1>3, <1>5
  <2>2. PICK d \in Callers : caller[d].n = m /\ caller[d].what \in {"initialize", "shutdown"}
    BY <2>1 DEF LsInv, Kept
  <2> QED BY <1>6, <2>1, <2>2
<1>11. Apart'
  BY <1>6 DEF LsInv, Apart, Unsent, Idle
<1> QED BY <1>2, <1>4, <1>5, <1>6, <1>8, <1>9, <1>10, <1>11 DEF LsInv

LEMMA LsNext_Inv == ASSUME LsConstants, LsInv, [LspNext]_lspvars PROVE LsInv'
<1>1. CASE UNCHANGED lspvars
  BY <1>1, LsStays_Inv
<1>2. ASSUME NEW c \in Callers,
             \/ For(c) \/ Started(c) \/ PoolClose(c) \/ Close(c)
             \/ Call(c) \/ Write(c) \/ Written(c) \/ Receive(c) \/ Timeout(c) \/ Deregister(c)
             \/ Answered(c)
      PROVE  LsInv'
  BY <1>2, For_Inv, Started_Inv, PoolClose_Inv, Close_Inv, Call_Inv, Write_Inv, Written_Inv,
     Receive_Inv, Timeout_Inv, Deregister_Inv, Answered_Inv
<1>3. ASSUME NEW n \in Launches,
             \/ Lookup(n) \/ Deliver(n) \/ ReadEnds(n) \/ Dies(n)
             \/ \E kind \in {"answer", "error"} : Replies(n, kind)
             \/ \E i \in Ids : Request(n, i)
      PROVE  LsInv'
  BY <1>3, Lookup_Inv, Deliver_Inv, ReadEnds_Inv, Dies_Inv, Replies_Inv, Request_Inv
<1> QED BY <1>1, <1>2, <1>3 DEF LspNext

\* Whatever the server and its callers do, the live layer serves (lsp/client.go and
\* lsp/pool.go): an answer that comes as its caller gives up does not wedge the
\* receive loop, because an id is under way once and its channel holds one message;
\* an empty answer means that the receive loop has ended, with a server that is gone
\* or one whose frames cannot be read; and a server that runs is held by the pool or
\* by the caller that starts or closes it.  For any callers and launches.
THEOREM ServesLive == ASSUME LsConstants PROVE LspSpec => []LiveLayerServes
<1>1. LspInit => LsInv
  BY LsInit_Inv
<1>2. LsInv /\ [LspNext]_lspvars => LsInv'
  BY LsNext_Inv
<1>3. LsInv => LiveLayerServes
  <2> SUFFICES ASSUME LsInv PROVE LiveLayerServes
    OBVIOUS
  <2>1. ASSUME NEW n \in Launches, Stuck(n) PROVE \E i \in Ids : <<n, i>> \in foreign
    <3>1. Sound(clients[n], Own(n))
      BY DEF LsInv
    <3>2. clients[n].reader = "send" /\ clients[n].buf[clients[n].at] # "none"
      BY <2>1 DEF Stuck, CanSend
    <3>3. Own(n) # {}
      BY <3>1, <3>2 DEF Sound, Single
    <3> QED BY <3>3 DEF Own
  <2>2. ASSUME NEW c \in Callers, caller[c].pc = "done"
        PROVE  /\ caller[c].got = "none" => clients[caller[c].n].reader = "gone"
               /\ caller[c].got = "request" => <<caller[c].n, caller[c].id>> \in foreign
    BY <2>2 DEF LsInv, Served, Own
  <2>3. \A n \in Launches : Kept(n)
    BY DEF LsInv
  <2> QED BY <2>1, <2>2, <2>3 DEF LiveLayerServes, Kept
<1> QED BY <1>1, <1>2, <1>3, PTL DEF LspSpec
=============================================================================
