--------------------------------- MODULE Lsp ---------------------------------
(***************************************************************************)
(* The language server pool and its clients: callers that take a client    *)
(* from the pool, which starts the server on first use, and wait for their *)
(* answers; the receive loop; the server process (external), which may     *)
(* answer late or never, send requests of its own, and die; timeouts; and  *)
(* the pool's Close.                                                       *)
(*                                                                         *)
(* One server is configured.  A client is a launch of it.  What a request  *)
(* asks is left out; a message is the id it carries and its kind.          *)
(***************************************************************************)
EXTENDS Naturals, Sequences, FiniteSets

CONSTANTS
    Callers,      \* goroutines that query
    Quota,        \* launch -> bound on its requests
    MaxForeign,   \* bound on the server's own requests
    NoCaller      \* nobody holds a lock

Launches == 1 .. Len(Quota)
Ids == 1 .. Quota[1]

\* responseError, the result of a call, and what a channel holds.
Kinds == {"answer", "error", "request", "none"}

VARIABLES
    pool,      \* the lock's holder, the client (0 for none), the failure mark
    clients,   \* launch -> Client
    caller,    \* the callers
    foreign    \* the server requests sent under an id of the client's

lspvars == <<pool, clients, caller, foreign>>

\* Client: the process, the lock, nextID, `pending` with the channel of each id
\* (capacity one), the receive loop, and the two directions of the pipe.
NewClient ==
    [proc |-> "none", mu |-> NoCaller, next |-> 0, pending |-> {},
     buf |-> [i \in Ids |-> "none"], shut |-> {}, reader |-> "read", at |-> 0, held |-> "none",
     asked |-> {}, inbox |-> <<>>]

Idle == [pc |-> "idle", n |-> 0, id |-> 0, what |-> "query", got |-> "none"]

LspInit ==
    /\ pool = [lock |-> NoCaller, client |-> 0, failed |-> FALSE, closing |-> {}]
    /\ clients = [n \in Launches |-> NewClient]
    /\ caller = [c \in Callers |-> Idle]
    /\ foreign = {}

Becomes(c, rec) == caller' = [caller EXCEPT ![c] = rec]

-----------------------------------------------------------------------------
(* Pool.For and Start *)

Launched == Cardinality({n \in Launches : clients[n].proc # "none"})

\* Pool.For under the lock: the failure mark, the client there is, or Start.
\* The binary may be missing or not start.
For(c) ==
    /\ caller[c].pc = "idle" /\ pool.lock = NoCaller
    /\ \/ /\ pool.failed
          /\ UNCHANGED lspvars
       \/ /\ ~pool.failed /\ pool.client # 0
          /\ Becomes(c, [Idle EXCEPT !.pc = "call", !.n = pool.client])
          /\ UNCHANGED <<pool, clients, foreign>>
       \/ /\ ~pool.failed /\ pool.client = 0
          /\ pool' = [pool EXCEPT !.failed = TRUE]
          /\ UNCHANGED <<clients, caller, foreign>>
       \/ /\ ~pool.failed /\ pool.client = 0 /\ Launched < Len(Quota)
          /\ LET n == Launched + 1 IN
             /\ clients' = [clients EXCEPT ![n].proc = "up"]
             /\ Becomes(c, [Idle EXCEPT !.pc = "call", !.n = n, !.what = "initialize"])
          /\ pool' = [pool EXCEPT !.lock = c]
          /\ UNCHANGED foreign

\* The handshake's end, with the "initialized" notification, which the server reads:
\* the pool keeps the client; or Start closes it and the pool remembers the failure.
Started(c) ==
    LET r == caller[c] IN
    /\ r.pc = "done" /\ r.what = "initialize" /\ clients[r.n].mu = NoCaller
    /\ IF r.got \in {"answer", "request"} /\ clients[r.n].proc = "up"
       THEN /\ pool' = [pool EXCEPT !.lock = NoCaller, !.client = r.n]
            /\ Becomes(c, [r EXCEPT !.pc = "call", !.what = "query", !.got = "none"])
       ELSE /\ pool' = pool
            /\ Becomes(c, [r EXCEPT !.pc = "call", !.what = "shutdown", !.got = "none"])
    /\ UNCHANGED <<clients, foreign>>

\* Pool.Close: the clients are taken out of the pool and closed after the unlock.
PoolClose(c) ==
    /\ caller[c].pc = "idle" /\ pool.lock = NoCaller /\ pool.client # 0
    /\ pool' = [pool EXCEPT !.client = 0, !.closing = @ \cup {pool.client}]
    /\ Becomes(c, [Idle EXCEPT !.pc = "call", !.n = pool.client, !.what = "shutdown"])
    /\ UNCHANGED <<clients, foreign>>

\* Client.Close after the shutdown request: exit, which takes the lock as every write
\* does, close(closed), the process ends or is killed.
Close(c) ==
    LET r == caller[c] IN
    /\ r.pc = "done" /\ r.what = "shutdown" /\ clients[r.n].mu = NoCaller
    /\ clients' = [clients EXCEPT ![r.n].proc = "dead", ![r.n].asked = {}]
    /\ pool' = IF pool.lock = c THEN [pool EXCEPT !.lock = NoCaller, !.failed = TRUE]
               ELSE [pool EXCEPT !.closing = @ \ {r.n}]
    /\ Becomes(c, Idle)
    /\ UNCHANGED foreign

-----------------------------------------------------------------------------
(* Client.call *)

\* The id and its channel, under the lock.
Call(c) ==
    LET r == caller[c]
        i == clients[r.n].next + 1
    IN  /\ r.pc = "call" /\ i <= Quota[r.n] /\ clients[r.n].mu = NoCaller
        /\ clients' = [clients EXCEPT ![r.n].next = i, ![r.n].pending = @ \cup {i}]
        /\ Becomes(c, [r EXCEPT !.pc = "write", !.id = i])
        /\ UNCHANGED <<pool, foreign>>

\* write takes the lock and keeps it while it writes to the pipe,
Write(c) ==
    LET r == caller[c]
    IN  /\ r.pc = "write" /\ clients[r.n].mu = NoCaller
        /\ clients' = [clients EXCEPT ![r.n].mu = c]
        /\ Becomes(c, [r EXCEPT !.pc = "writing"])
        /\ UNCHANGED <<pool, foreign>>

\* which lasts until the server reads, no timeout ends it, and fails when the
\* process is gone.
Written(c) ==
    LET r == caller[c]
        up == clients[r.n].proc = "up"
    IN  /\ r.pc = "writing"
        /\ clients' = [clients EXCEPT ![r.n].mu = NoCaller,
                                      ![r.n].asked = IF up THEN @ \cup {r.id} ELSE @]
        /\ Becomes(c, IF up THEN [r EXCEPT !.pc = "wait"]
                      ELSE [r EXCEPT !.pc = "leave", !.got = "error"])
        /\ UNCHANGED <<pool, foreign>>

\* The select: the channel, or (Timeout) the context or `closed`.  A channel the
\* receive loop closed yields the zero response, which has no error.
Receive(c) ==
    LET r == caller[c]
        k == clients[r.n]
    IN  /\ r.pc = "wait" /\ (k.buf[r.id] # "none" \/ r.id \in k.shut)
        /\ clients' = [clients EXCEPT ![r.n].buf[r.id] = "none"]
        /\ Becomes(c, [r EXCEPT !.pc = "leave", !.got = k.buf[r.id]])
        /\ UNCHANGED <<pool, foreign>>

Timeout(c) ==
    /\ caller[c].pc = "wait"
    /\ Becomes(c, [caller[c] EXCEPT !.pc = "leave", !.got = "error"])
    /\ UNCHANGED <<pool, clients, foreign>>

\* The deferred delete, under the lock.
Deregister(c) ==
    LET r == caller[c]
    IN  /\ r.pc = "leave" /\ clients[r.n].mu = NoCaller
        /\ clients' = [clients EXCEPT ![r.n].pending = @ \ {r.id}]
        /\ Becomes(c, [r EXCEPT !.pc = "done"])
        /\ UNCHANGED <<pool, foreign>>

\* Diagnostics, Definition, References and the rest hand the result back.
Answered(c) ==
    /\ caller[c].pc = "done" /\ caller[c].what = "query"
    /\ Becomes(c, Idle)
    /\ UNCHANGED <<pool, clients, foreign>>

-----------------------------------------------------------------------------
(* Client.read *)

\* One message: its channel is looked up under the lock,
Lookup(n) ==
    LET k == clients[n]
        m == Head(k.inbox)
    IN  /\ k.reader = "read" /\ k.inbox # <<>> /\ k.mu = NoCaller
        /\ clients' = [clients EXCEPT ![n] =
              IF m.id \in k.pending
              THEN [k EXCEPT !.inbox = Tail(@), !.reader = "send", !.at = m.id, !.held = m.kind]
              ELSE [k EXCEPT !.inbox = Tail(@)]]
        /\ UNCHANGED <<pool, caller, foreign>>

\* A faulty variant: a channel that holds nothing, so the send waits for its caller.
CanSendUnbuffered(n) ==
    LET k == clients[n] IN
    /\ k.reader = "send" /\ k.buf[k.at] = "none"
    /\ \E c \in Callers : caller[c].n = n /\ caller[c].id = k.at /\ caller[c].pc = "wait"

\* The send goes through when the channel, which holds one message, is empty.
CanSend(n) == clients[n].reader = "send" /\ clients[n].buf[clients[n].at] = "none"

\* and the message sent to it without the lock.
Deliver(n) ==
    LET k == clients[n] IN
    /\ CanSend(n)
    /\ clients' = [clients EXCEPT ![n].reader = "read", ![n].buf[k.at] = k.held, ![n].at = 0,
                                  ![n].held = "none"]
    /\ UNCHANGED <<pool, caller, foreign>>

\* readMessage fails, at the end of the pipe or at a frame of a running server that
\* has no length, a bad one or one over the limit: every waiting channel is closed
\* and the loop ends.
ReadEnds(n) ==
    LET k == clients[n] IN
    /\ k.reader = "read" /\ k.inbox = <<>> /\ k.proc # "none" /\ k.mu = NoCaller
    /\ clients' = [clients EXCEPT ![n].reader = "gone", ![n].shut = k.pending, ![n].pending = {},
                                  ![n].buf = [i \in Ids |-> IF i \in k.pending THEN k.buf[i] ELSE "none"]]
    /\ UNCHANGED <<pool, caller, foreign>>

-----------------------------------------------------------------------------
(* The server (external) *)

Replies(n, kind) ==
    \E i \in clients[n].asked :
        /\ clients[n].proc = "up"
        /\ clients' = [clients EXCEPT ![n].asked = @ \ {i},
                                      ![n].inbox = Append(@, [id |-> i, kind |-> kind])]
        /\ UNCHANGED <<pool, caller, foreign>>

\* A request of the server's, with an id from its own numbering.
Request(n, i) ==
    /\ clients[n].proc = "up" /\ Cardinality(foreign) < MaxForeign
    /\ foreign' = foreign \cup {<<n, i>>}
    /\ clients' = [clients EXCEPT ![n].inbox = Append(@, [id |-> i, kind |-> "request"])]
    /\ UNCHANGED <<pool, caller>>

Dies(n) ==
    /\ clients[n].proc = "up"
    /\ clients' = [clients EXCEPT ![n].proc = "dead", ![n].asked = {}]
    /\ UNCHANGED <<pool, caller, foreign>>

LspNext ==
    \/ \E c \in Callers :
          \/ For(c) \/ Started(c) \/ PoolClose(c) \/ Close(c)
          \/ Call(c) \/ Write(c) \/ Written(c) \/ Receive(c) \/ Timeout(c) \/ Deregister(c)
          \/ Answered(c)
    \/ \E n \in Launches :
          \/ Lookup(n) \/ Deliver(n) \/ ReadEnds(n) \/ Dies(n)
          \/ \E kind \in {"answer", "error"} : Replies(n, kind)
          \/ \E i \in Ids : Request(n, i)

LspSpec == LspInit /\ [][LspNext]_lspvars

-----------------------------------------------------------------------------
\* The receive loop of a client is stuck in a send nobody will take.
Stuck(n) ==
    LET k == clients[n] IN
    /\ k.reader = "send" /\ ~CanSend(n)
    /\ ~\E c \in Callers : /\ caller[c].n = n /\ caller[c].id = k.at
                           /\ caller[c].pc \in {"write", "writing", "wait"}

\* What the live layer promises its callers, whatever the server does: an answer
\* that arrives as its caller gives up never wedges the receive loop, so every
\* later caller is still served, unless the server used one of the client's ids
\* for a request of its own; an empty answer without an error means that the
\* receive loop has ended, which the server, dead or alive, has brought about, or
\* such a request; and a running server is one the pool, a Start or a Close still
\* holds, so none outlives the pool unseen.
LiveLayerServes ==
    /\ \A n \in Launches : Stuck(n) => \E i \in Ids : <<n, i>> \in foreign
    /\ \A c \in Callers :
          LET r == caller[c] IN
          r.pc = "done" => /\ r.got = "none" => clients[r.n].reader = "gone"
                           /\ r.got = "request" => <<r.n, r.id>> \in foreign
    /\ \A n \in Launches : clients[n].proc = "up" =>
          \/ pool.client = n
          \/ \E c \in Callers : caller[c].n = n /\ caller[c].what \in {"initialize", "shutdown"}
=============================================================================
