------------------------------- MODULE Daemon -------------------------------
(***************************************************************************)
(* The WebSocket daemon of `panex dev`: handshake, the table of sessions,  *)
(* one read loop and one ping loop per session, the broadcast fan-out, the *)
(* build goroutine that publishes through it, and shutdown.                *)
(*                                                                         *)
(* Source: internal/daemon/websocket_server.go, over EventStore.           *)
(*                                                                         *)
(* Grain: a step is what a goroutine does between two points where another *)
(* goroutine can be observed: one database transaction, one critical       *)
(* section of WebSocketServer.mu, one write on a socket (sessionConn.mu    *)
(* makes it atomic); what only touches its own locals, or its own socket   *)
(* before registration, is part of the next such step.  A session id is    *)
(* used once (nextSessionID), so a connection and its session are the same *)
(* element of Conns.                                                       *)
(*                                                                         *)
(* Abstracted: payload decoding (a message that does not decode takes the  *)
(* path of a command that is not allowed), the sender's role, the contents *)
(* of hello beyond kind, extension and requested capabilities, and time    *)
(* (a deadline may expire whenever nothing prevents it).                   *)
(***************************************************************************)
EXTENDS EventStore

CONSTANTS
    Conns,        \* connections, hence sessions
    Dev,          \* the goroutine of runBuildLoop
    Client,       \* what each connection says in its hello
    Commands,     \* the messages a client may send
    DevExt,       \* the extension the build loop serves
    MaxCommands,  \* bound: commands one connection sends
    MaxBuilds,    \* bound: builds of the build loop
    MaxFaults,    \* bound: database errors while the database is open
    Leavers,      \* bound: the clients that may go away
    Stops         \* bound: whether the daemon may be told to stop

Threads == Conns \cup {Dev}

HandlerCapabilities == {"query.events", "query.storage", "storage.set",
                        "storage.remove", "storage.clear", "chrome.api.call"}
BroadcastCapabilities == {"command.reload", "build.complete", "storage.diff",
                          "chrome.api.event"}
Capabilities == HandlerCapabilities \cup BroadcastCapabilities
Kinds == {"dev-agent", "chrome-sim", "inspector", "legacy"}

Hello == [kind : Kinds, ext : Exts \cup {NoExt}, requested : SUBSET Capabilities]

(***************************************************************************)
(* A command: its message name, what its handler does, the keys and value  *)
(* it mutates.  chrome.api.call stands for several things to do: "local"   *)
(* ones (tabs.query, an unsupported method) touch no shared state.         *)
(***************************************************************************)
Jobs == {"history", "snapshot", "set", "remove", "clear", "send", "local"}
Command == [name : Capabilities, do : Jobs, keys : SUBSET Keys,
            to : Values \cup {None}]

\* What handleClientMessage and the calls below it do for a message of each name.
Does(name) ==
    CASE name = "query.events"    -> {"history"}
      [] name = "query.storage"   -> {"snapshot"}
      [] name = "storage.set"     -> {"set"}
      [] name = "storage.remove"  -> {"remove"}
      [] name = "storage.clear"   -> {"clear"}
      [] name = "chrome.api.call" -> Jobs \ {"history"}
      [] OTHER                    -> Jobs

ASSUME DaemonAssumption ==
    /\ Dev \notin Conns
    /\ DevExt \in Exts
    /\ Client \in [Conns -> Hello]
    /\ Commands \subseteq Command
    /\ \A m \in Commands : /\ m.do \in Does(m.name)
                           /\ m.do = "set" => m.to # None
    /\ MaxCommands \in Nat /\ MaxBuilds \in Nat /\ MaxFaults \in Nat
    /\ Leavers \subseteq Conns
    /\ Stops \in BOOLEAN

VARIABLES
    handler,   \* where handleWebSocket is, per connection
    conn,      \* the server's end of the socket
    gone,      \* connections whose client went away (or reads too slowly)
    sessions,  \* the map s.sessions
    since,     \* length of the log when the session was registered
    loop,      \* where readLoop is
    job,       \* the command readLoop is handling, and its locals
    sent,      \* commands received so far, for MaxCommands
    ping,      \* where pingLoop is
    fan,       \* broadcastLiveMessage of each goroutine
    dev,       \* the build loop
    server,    \* Run and Close
    drain,     \* sessions closeAllConnections has still to close
    seen,      \* what each client has been sent, and the view it derives
    faults     \* database errors so far, for MaxFaults

connVars  == <<handler, conn, gone, sessions, since>>
loopVars  == <<loop, job, sent>>
stopVars  == <<server, drain>>
vars == <<storeVars, connVars, loopVars, ping, fan, dev, stopVars, seen, faults>>

-----------------------------------------------------------------------------
(* Capability negotiation and routing.                                      *)

Supported(kind) ==
    CASE kind = "dev-agent"  -> {"command.reload"}
      [] kind = "chrome-sim" -> {"chrome.api.call", "storage.diff", "chrome.api.event"}
      [] OTHER               -> Capabilities

\* negotiateCapabilities: asking for nothing means asking for everything.
Caps(c) == LET asked == Client[c].requested
           IN  IF asked = {} THEN Supported(Client[c].kind)
               ELSE asked \cap Supported(Client[c].kind)

\* normalizeExtensionID: only extension-bound kinds default to an extension.
Ext(c) == IF Client[c].ext # NoExt THEN Client[c].ext
          ELSE IF Client[c].kind \in {"dev-agent", "chrome-sim"} THEN DefaultExt
          ELSE NoExt

\* messageTargetExtensionID: only build events carry a target.
Targeted(e) == e.name \in {"build.complete", "command.reload"}

\* shouldDeliverLiveMessage
Wants(c, e) == /\ e.name \in Caps(c)
               /\ \/ ~Targeted(e)
                  \/ Client[c].kind = "inspector"
                  \/ Ext(c) = e.ext

-----------------------------------------------------------------------------
(* The state of a read loop, of a fan-out and of a client.                  *)

NoCommand == [name |-> "query.events", do |-> "local", keys |-> {}, to |-> None]
EmptyView == [k \in Keys |-> None]
NoReply   == [ids |-> {}, view |-> EmptyView, upto |-> 0, ok |-> TRUE]
Idle      == [cmd |-> NoCommand, ext |-> NoExt, todo |-> {}, from |-> 0,
              reply |-> NoReply]
NoFan     == [stage |-> "idle", id |-> 0, left |-> {}, drop |-> {}, err |-> FALSE]
Unaware   == [live |-> {}, hist |-> {}, asked |-> FALSE, view |-> EmptyView,
              synced |-> FALSE, upto |-> 0, late |-> FALSE]

HandlerPCs == {"none", "hello", "ack", "register", "done"}
LoopPCs == {"off", "read", "lookup", "check", "history", "snapshot", "mutate", "send",
            "fan", "reply", "unregister", "close", "done"}

View  == [Keys -> Values \cup {None}]
Reply == [ids : SUBSET Nat, view : View, upto : Nat, ok : BOOLEAN]
Job   == [cmd : Command, ext : Exts \cup {NoExt}, todo : SUBSET Keys, from : Nat,
          reply : Reply]
Fan   == [stage : {"idle", "snap", "out"}, id : Nat, left : SUBSET Conns,
          drop : SUBSET Conns, err : BOOLEAN]
Seen  == [live : SUBSET Nat, hist : SUBSET Nat, asked : BOOLEAN, view : View,
          synced : BOOLEAN, upto : Nat, late : BOOLEAN]
DevState == [pc : {"idle", "publish", "complete", "decide", "reload"},
             build : Nat, ok : BOOLEAN]

TypeOK ==
    /\ StoreTypeOK
    /\ handler \in [Conns -> HandlerPCs]
    /\ conn \in [Conns -> {"none", "open", "closed"}]
    /\ gone \subseteq Conns
    /\ sessions \subseteq Conns
    /\ since \in [Conns -> Nat]
    /\ loop \in [Conns -> LoopPCs]
    /\ job \in [Conns -> Job]
    /\ sent \in [Conns -> Nat]
    /\ ping \in [Conns -> {"off", "on", "unregister", "done"}]
    /\ fan \in [Threads -> Fan]
    /\ dev \in DevState
    /\ server \in {"up", "drain", "stopped", "closing", "closed"}
    /\ drain \subseteq Conns
    /\ seen \in [Conns -> Seen]
    /\ faults \in Nat

Init ==
    /\ StoreInit
    /\ handler = [c \in Conns |-> "none"]
    /\ conn = [c \in Conns |-> "none"]
    /\ gone = {}
    /\ sessions = {}
    /\ since = [c \in Conns |-> 0]
    /\ loop = [c \in Conns |-> "off"]
    /\ job = [c \in Conns |-> Idle]
    /\ sent = [c \in Conns |-> 0]
    /\ ping = [c \in Conns |-> "off"]
    /\ fan = [t \in Threads |-> NoFan]
    /\ dev = [pc |-> "idle", build |-> 0, ok |-> FALSE]
    /\ server = "up"
    /\ drain = {}
    /\ seen = [c \in Conns |-> Unaware]
    /\ faults = 0

-----------------------------------------------------------------------------
(* Database errors.  Close cancels s.ctx, which client commands run under;  *)
(* the build loop runs under the context whose end starts the shutdown.     *)

Cancelled   == server \in {"closing", "closed"}
StoreClosed == server = "closed"

StoreFault(certain) ==
    IF certain THEN UNCHANGED faults
               ELSE faults < MaxFaults /\ faults' = faults + 1

-----------------------------------------------------------------------------
(* The client's side.                                                       *)

\* http.Server accepts until Shutdown, which Run calls after the first drain.
Connect(c) ==
    /\ handler[c] = "none"
    /\ server \in {"up", "drain"}
    /\ handler' = [handler EXCEPT ![c] = "hello"]
    /\ conn' = [conn EXCEPT ![c] = "open"]
    /\ UNCHANGED <<storeVars, gone, sessions, since, loopVars, ping, fan, dev,
                   stopVars, seen, faults>>

Leave(c) ==
    /\ c \in Leavers \ gone
    /\ conn[c] = "open"
    /\ gone' = gone \cup {c}
    /\ UNCHANGED <<storeVars, handler, conn, sessions, since, loopVars, ping, fan,
                   dev, stopVars, seen, faults>>

-----------------------------------------------------------------------------
(* handleWebSocket and handshake.                                           *)

Advance(c, pc) == /\ handler' = [handler EXCEPT ![c] = pc]
                  /\ UNCHANGED <<conn, gone, sessions, since>>

\* Wrong variant: a failed handshake leaves the socket open.
RefuseOpen(c) == Advance(c, "done")

\* A failed handshake writes a close frame and closes; nothing was registered.
Refuse(c) == /\ handler' = [handler EXCEPT ![c] = "done"]
             /\ conn' = [conn EXCEPT ![c] = "closed"]
             /\ UNCHANGED <<gone, sessions, since>>

\* No hello within handshakeTimeout, or one that is malformed, of another
\* protocol version, with another token, or from a role that does not fit.
RejectHello(c) ==
    /\ handler[c] = "hello"
    /\ Refuse(c)
    /\ UNCHANGED <<storeVars, loopVars, ping, fan, dev, stopVars, seen, faults>>

\* An Append of the handshake: it runs under the request's context, which Close
\* does not cancel, so only the database can make it fail.
Persist(c, name, next) ==
    \/ /\ ~StoreClosed
       /\ AppendEvent(name, Ext(c), 0)
       /\ Advance(c, next)
       /\ UNCHANGED faults
    \/ /\ StoreFault(StoreClosed)
       /\ Refuse(c)
       /\ UNCHANGED storeVars

\* A valid hello is persisted.
AcceptHello(c) ==
    /\ handler[c] = "hello"
    /\ Persist(c, "hello", "ack")
    /\ UNCHANGED <<loopVars, ping, fan, dev, stopVars, seen>>

\* writeHelloAck, then its Append: the client knows its session, and the log
\* names it, before it is registered.
Acknowledge(c) ==
    /\ handler[c] = "ack"
    /\ \/ Persist(c, "hello.ack", "register")
       \/ c \in gone /\ Refuse(c) /\ UNCHANGED <<storeVars, faults>>
    /\ UNCHANGED <<loopVars, ping, fan, dev, stopVars, seen>>

\* register, then the two goroutines of the session start.
Register(c) ==
    /\ handler[c] = "register"
    /\ handler' = [handler EXCEPT ![c] = "done"]
    /\ sessions' = sessions \cup {c}
    /\ since' = [since EXCEPT ![c] = Len(events)]
    /\ loop' = [loop EXCEPT ![c] = "read"]
    /\ ping' = [ping EXCEPT ![c] = "on"]
    /\ UNCHANGED <<storeVars, conn, gone, job, sent, fan, dev, stopVars, seen, faults>>

Handshake(c) == RejectHello(c) \/ AcceptHello(c) \/ Acknowledge(c) \/ Register(c)

-----------------------------------------------------------------------------
(* broadcastLiveMessage, on behalf of goroutine t.                          *)

StartFan(t) == fan' = [fan EXCEPT ![t] = [NoFan EXCEPT !.stage = "snap",
                                                       !.id = Len(events) + 1]]
FanDone(t) == fan[t].stage = "out" /\ fan[t].left = {} /\ fan[t].drop = {}

\* Wrong variant: everyone is written to.
FanSnapshotAll(t) ==
    /\ fan[t].stage = "snap"
    /\ fan' = [fan EXCEPT ![t].stage = "out", ![t].left = sessions]
    /\ UNCHANGED <<storeVars, connVars, loopVars, ping, dev, stopVars, seen, faults>>

\* Copy the session table under the read lock; who does not want it is skipped.
FanSnapshot(t) ==
    /\ fan[t].stage = "snap"
    /\ fan' = [fan EXCEPT ![t].stage = "out",
                          ![t].left = {d \in sessions : Wants(d, events[fan[t].id])}]
    /\ UNCHANGED <<storeVars, connVars, loopVars, ping, dev, stopVars, seen, faults>>

\* Wrong variant: a diff that deletes is ignored.
ApplyWritesOnly(v, e) ==
    [k \in Keys |-> IF k \in e.keys /\ e.to # None THEN e.to ELSE v[k]]

\* Inspector: applyStorageDiff sets or deletes each changed key of its view.
ApplyDiff(v, e) == [k \in Keys |-> IF k \in e.keys THEN e.to ELSE v[k]]

\* What client d holds after receiving row i of the log live.  upto and late
\* are bookkeeping: the newest row its view reflects, and whether an older
\* one was ever applied on top of it.
Receives(d, i) ==
    LET s    == seen[d]
        diff == events[i].name = "storage.diff"
    IN  [s EXCEPT !.live = @ \cup {i},
                  !.view = IF diff THEN ApplyDiff(@, events[i]) ELSE @,
                  !.upto = IF diff /\ i > @ THEN i ELSE @,
                  !.late = @ \/ (diff /\ i < s.upto)]

FanWrite(t, d) ==
    /\ fan[t].stage = "out"
    /\ d \in fan[t].left
    /\ conn[d] = "open"
    /\ fan' = [fan EXCEPT ![t].left = @ \ {d}]
    /\ seen' = [seen EXCEPT ![d] = Receives(d, fan[t].id)]
    /\ UNCHANGED <<storeVars, connVars, loopVars, ping, dev, stopVars, faults>>

\* Wrong variant: the first failed write ends the broadcast.
FanGivesUp(t, d) ==
    /\ fan[t].stage = "out"
    /\ d \in fan[t].left
    /\ conn[d] = "closed" \/ d \in gone
    /\ conn' = [conn EXCEPT ![d] = "closed"]
    /\ fan' = [fan EXCEPT ![t].left = {}, ![t].drop = {d}, ![t].err = TRUE]
    /\ UNCHANGED <<storeVars, handler, gone, sessions, since, loopVars, ping, dev,
                   stopVars, seen, faults>>

\* A failed write closes that session and goes on with the others.
FanWriteFails(t, d) ==
    /\ fan[t].stage = "out"
    /\ d \in fan[t].left
    /\ conn[d] = "closed" \/ d \in gone
    /\ conn' = [conn EXCEPT ![d] = "closed"]
    /\ fan' = [fan EXCEPT ![t].left = @ \ {d}, ![t].drop = @ \cup {d},
                          ![t].err = TRUE]
    /\ UNCHANGED <<storeVars, handler, gone, sessions, since, loopVars, ping, dev,
                   stopVars, seen, faults>>

\* After the last write, the sessions that failed leave the table one by one.
FanDrop(t, d) ==
    /\ fan[t].stage = "out"
    /\ fan[t].left = {}
    /\ d \in fan[t].drop
    /\ sessions' = sessions \ {d}
    /\ fan' = [fan EXCEPT ![t].drop = @ \ {d}]
    /\ UNCHANGED <<storeVars, handler, conn, gone, since, loopVars, ping, dev,
                   stopVars, seen, faults>>

Fanning(t) == \/ FanSnapshot(t)
              \/ \E d \in Conns : FanWrite(t, d)
              \/ \E d \in Conns : FanWriteFails(t, d)
              \/ \E d \in Conns : FanDrop(t, d)

-----------------------------------------------------------------------------
(* readLoop and handleClientMessage.                                        *)

Goto(c, pc) == loop' = [loop EXCEPT ![c] = pc]

Receive(c, m) ==
    /\ loop[c] = "read"
    /\ conn[c] = "open"
    /\ sent[c] < MaxCommands
    /\ Goto(c, "lookup")
    /\ job' = [job EXCEPT ![c] = [Idle EXCEPT !.cmd = m, !.from = Len(events)]]
    /\ sent' = [sent EXCEPT ![c] = @ + 1]
    /\ UNCHANGED <<storeVars, connVars, ping, fan, dev, stopVars, seen, faults>>

\* Wrong variant: no read deadline.
ReadFailsWhenClosed(c) ==
    /\ loop[c] = "read"
    /\ conn[c] = "closed" \/ c \in gone
    /\ Goto(c, "unregister")
    /\ UNCHANGED <<storeVars, connVars, job, sent, ping, fan, dev, stopVars, seen,
                   faults>>

\* ReadMessage fails on a closed socket, when the client hung up, and when the
\* read deadline passes: pings keep it ahead until pingLoop ends with s.ctx.
ReadFails(c) ==
    /\ loop[c] = "read"
    /\ conn[c] = "closed" \/ c \in gone \/ Cancelled
    /\ Goto(c, "unregister")
    /\ UNCHANGED <<storeVars, connVars, job, sent, ping, fan, dev, stopVars, seen,
                   faults>>

\* sessionExtensionID (a missing session has no extension), and the refusal of
\* broadcast-only names.
LookupExtension(c) ==
    /\ loop[c] = "lookup"
    /\ job' = [job EXCEPT ![c].ext = IF c \in sessions THEN Ext(c) ELSE NoExt]
    /\ Goto(c, IF job[c].cmd.name \in HandlerCapabilities THEN "check"
               ELSE "unregister")
    /\ UNCHANGED <<storeVars, connVars, sent, ping, fan, dev, stopVars, seen, faults>>

\* The second lookup of the session, and the dispatch on the message.  The
\* capability is only required of a session that is still in the table.
CheckSession(c) ==
    LET m    == job[c].cmd
        todo == CASE m.do = "clear"             -> Keys
                  [] m.do \in {"set", "remove"} -> m.keys
                  [] OTHER                      -> {}
    IN  /\ loop[c] = "check"
        /\ Goto(c, IF c \in sessions /\ m.name \notin Caps(c) THEN "unregister"
                   ELSE IF m.do \in {"set", "remove", "clear"} THEN "mutate"
                   ELSE IF m.do = "local" THEN "reply"
                   ELSE m.do)
        /\ job' = [job EXCEPT ![c].todo = todo]
        /\ UNCHANGED <<storeVars, connVars, sent, ping, fan, dev, stopVars, seen, faults>>

\* Wrong variant: the error is dropped and the call reported as a success.
FailedSilently(c) ==
    IF job[c].cmd.name = "chrome.api.call"
    THEN Goto(c, "reply") /\ UNCHANGED job
    ELSE Goto(c, "unregister") /\ UNCHANGED job

\* An error of the operation: chrome.api.call reports it to the caller, every
\* other command ends the session.
Failed(c) ==
    IF job[c].cmd.name = "chrome.api.call"
    THEN /\ Goto(c, "reply")
         /\ job' = [job EXCEPT ![c].reply.ok = FALSE]
    ELSE /\ Goto(c, "unregister")
         /\ UNCHANGED job

OperationFails(c) ==
    /\ loop[c] \in {"history", "snapshot", "mutate", "send"}
    /\ loop[c] = "mutate" => job[c].todo # {}
    /\ StoreFault(Cancelled)
    /\ Failed(c)
    /\ UNCHANGED <<storeVars, connVars, sent, ping, fan, dev, stopVars, seen>>

\* Wrong variant: the newest row is taken for the exclusive bound of the page.
QueryEventsBeforeNewest(c) ==
    /\ loop[c] = "history"
    /\ ~Cancelled
    /\ job' = [job EXCEPT ![c].reply.ids =
                    Recent(MaxLimit, Len(events), job[c].ext).ids]
    /\ Goto(c, "reply")
    /\ UNCHANGED <<storeVars, connVars, sent, ping, fan, dev, stopVars, seen, faults>>

\* query.events for the newest page.
QueryEvents(c) ==
    /\ loop[c] = "history"
    /\ ~Cancelled
    /\ job' = [job EXCEPT ![c].reply.ids = Recent(MaxLimit, 0, job[c].ext).ids]
    /\ Goto(c, "reply")
    /\ UNCHANGED <<storeVars, connVars, sent, ping, fan, dev, stopVars, seen, faults>>

\* StorageSnapshots: for query.storage, storage.get and storage.getBytesInUse.
QueryStorage(c) ==
    /\ loop[c] = "snapshot"
    /\ ~Cancelled
    /\ job' = [job EXCEPT ![c].reply.view = items[NormalizeExt(job[c].ext)],
                          ![c].reply.upto = Len(events)]
    /\ Goto(c, "reply")
    /\ UNCHANGED <<storeVars, connVars, sent, ping, fan, dev, stopVars, seen, faults>>

\* One mutation of the store and, when it changed something, its live diff.
\* chrome.storage.set and remove take their keys in order, one transaction each.
Mutate(c) ==
    LET m == job[c].cmd
        x == job[c].ext
    IN  /\ loop[c] = "mutate"
        /\ ~Cancelled
        /\ \E k \in job[c].todo :
              /\ CASE m.do = "set"    -> SetStorageItem(x, k, m.to)
                   [] m.do = "remove" -> RemoveStorageItem(x, k)
                   [] OTHER           -> ClearStorageArea(x)
              /\ job' = [job EXCEPT ![c].todo = IF m.do = "clear" THEN {} ELSE @ \ {k}]
        /\ StartFan(c)
        /\ Goto(c, "fan")
        /\ UNCHANGED <<connVars, sent, ping, dev, stopVars, seen, faults>>

\* Nothing to delete: no event, no diff.
MutateNothing(c) ==
    LET m    == job[c].cmd
        held == Held(job[c].ext)
    IN  /\ loop[c] = "mutate"
        /\ ~Cancelled
        /\ \/ /\ m.do = "remove"
              /\ \E k \in job[c].todo \ held :
                    job' = [job EXCEPT ![c].todo = @ \ {k}]
           \/ /\ m.do = "clear"
              /\ job[c].todo # {} /\ held = {}
              /\ job' = [job EXCEPT ![c].todo = {}]
        /\ UNCHANGED <<storeVars, connVars, loop, sent, ping, fan, dev, stopVars, seen,
                       faults>>

\* runtime.sendMessage: Broadcast of a chrome.api.event.
SendRuntimeMessage(c) ==
    /\ loop[c] = "send"
    /\ ~Cancelled
    /\ AppendEvent("chrome.api.event", NoExt, 0)
    /\ StartFan(c)
    /\ Goto(c, "fan")
    /\ UNCHANGED <<connVars, job, sent, ping, dev, stopVars, seen, faults>>

\* Wrong variant: a broadcast that failed is waited for and never returns.
FanReturnsOnSuccess(c) ==
    /\ loop[c] = "fan"
    /\ FanDone(c) /\ ~fan[c].err
    /\ Goto(c, "mutate")
    /\ fan' = [fan EXCEPT ![c] = NoFan]
    /\ UNCHANGED <<storeVars, connVars, job, sent, ping, dev, stopVars, seen, faults>>

\* A broadcast that failed for any session is an error of the operation.
FanReturns(c) ==
    /\ loop[c] = "fan"
    /\ FanDone(c)
    /\ IF fan[c].err THEN Failed(c) ELSE Goto(c, "mutate") /\ UNCHANGED job
    /\ fan' = [fan EXCEPT ![c] = NoFan]
    /\ UNCHANGED <<storeVars, connVars, sent, ping, dev, stopVars, seen, faults>>

\* All keys done: a call is answered, a storage command just returns.
MutationsDone(c) ==
    /\ loop[c] = "mutate"
    /\ job[c].todo = {}
    /\ Goto(c, IF job[c].cmd.name = "chrome.api.call" THEN "reply" ELSE "read")
    /\ job' = IF job[c].cmd.name = "chrome.api.call" THEN job
              ELSE [job EXCEPT ![c] = Idle]
    /\ UNCHANGED <<storeVars, connVars, sent, ping, fan, dev, stopVars, seen, faults>>

\* What client c holds after the answer to its command.
Answered(c) ==
    LET m == job[c].cmd
        r == job[c].reply
        s == seen[c]
    IN  CASE m.name = "query.events" ->
               [s EXCEPT !.hist = @ \cup r.ids, !.asked = TRUE]
          [] m.name = "query.storage" ->
               [s EXCEPT !.view = r.view, !.synced = TRUE,
                         !.late = @ \/ r.upto < s.upto,
                         !.upto = IF r.upto > @ THEN r.upto ELSE @]
          [] OTHER -> s

\* writeSessionMessage: fails when the session is no longer in the table.
WriteReply(c) ==
    /\ loop[c] = "reply"
    /\ c \in sessions
    /\ conn[c] = "open"
    /\ seen' = [seen EXCEPT ![c] = Answered(c)]
    /\ job' = [job EXCEPT ![c] = Idle]
    /\ Goto(c, "read")
    /\ UNCHANGED <<storeVars, connVars, sent, ping, fan, dev, stopVars, faults>>

WriteReplyFails(c) ==
    /\ loop[c] = "reply"
    /\ c \notin sessions \/ conn[c] = "closed" \/ c \in gone
    /\ Goto(c, "unregister")
    /\ UNCHANGED <<storeVars, connVars, job, sent, ping, fan, dev, stopVars, seen,
                   faults>>

\* Wrong variant: readLoop closes its socket and leaves the session behind.
LoopForgets(c) ==
    /\ loop[c] = "unregister"
    /\ job' = [job EXCEPT ![c] = Idle]
    /\ Goto(c, "close")
    /\ UNCHANGED <<storeVars, connVars, sent, ping, fan, dev, stopVars, seen, faults>>

\* The deferred unregister and close of readLoop.
LoopUnregisters(c) ==
    /\ loop[c] = "unregister"
    /\ sessions' = sessions \ {c}
    /\ job' = [job EXCEPT ![c] = Idle]
    /\ Goto(c, "close")
    /\ UNCHANGED <<storeVars, handler, conn, gone, since, sent, ping, fan, dev,
                   stopVars, seen, faults>>

LoopCloses(c) ==
    /\ loop[c] = "close"
    /\ conn' = [conn EXCEPT ![c] = "closed"]
    /\ Goto(c, "done")
    /\ UNCHANGED <<storeVars, handler, gone, sessions, since, job, sent, ping, fan, dev,
                   stopVars, seen, faults>>

Looping(c) == \/ ReadFails(c) \/ LookupExtension(c) \/ CheckSession(c)
              \/ OperationFails(c) \/ QueryEvents(c) \/ QueryStorage(c)
              \/ Mutate(c) \/ MutateNothing(c) \/ SendRuntimeMessage(c)
              \/ FanReturns(c) \/ MutationsDone(c)
              \/ WriteReply(c) \/ WriteReplyFails(c)
              \/ LoopUnregisters(c) \/ LoopCloses(c)

-----------------------------------------------------------------------------
(* pingLoop.  A ping that is answered changes nothing here.                 *)

PingFails(c) ==
    /\ ping[c] = "on"
    /\ conn[c] = "closed" \/ c \in gone
    /\ conn' = [conn EXCEPT ![c] = "closed"]
    /\ ping' = [ping EXCEPT ![c] = "unregister"]
    /\ UNCHANGED <<storeVars, handler, gone, sessions, since, loopVars, fan, dev,
                   stopVars, seen, faults>>

PingUnregisters(c) ==
    /\ ping[c] = "unregister"
    /\ sessions' = sessions \ {c}
    /\ ping' = [ping EXCEPT ![c] = "done"]
    /\ UNCHANGED <<storeVars, handler, conn, gone, since, loopVars, fan, dev, stopVars,
                   seen, faults>>

PingStops(c) ==
    /\ ping[c] = "on"
    /\ Cancelled \/ conn[c] = "closed"
    /\ ping' = [ping EXCEPT ![c] = "done"]
    /\ UNCHANGED <<storeVars, connVars, loopVars, fan, dev, stopVars, seen, faults>>

Pinging(c) == PingFails(c) \/ PingUnregisters(c) \/ PingStops(c)

-----------------------------------------------------------------------------
(* runBuildLoop: build, publish build.complete, and for a good build whose  *)
(* output has a manifest publish command.reload.  Errors of Broadcast are   *)
(* logged and ignored.                                                      *)

DevGoto(pc) == dev' = [dev EXCEPT !.pc = pc]

Build ==
    /\ dev.pc = "idle"
    /\ dev.build < MaxBuilds
    /\ server = "up"
    /\ \E ok \in BOOLEAN :
          dev' = [pc |-> "publish", build |-> dev.build + 1, ok |-> ok]
    /\ UNCHANGED <<storeVars, connVars, loopVars, ping, fan, stopVars, seen, faults>>

Publish(pc, name, next, skip) ==
    /\ dev.pc = pc
    /\ \/ /\ server = "up"
          /\ AppendEvent(name, DevExt, dev.build)
          /\ StartFan(Dev)
          /\ DevGoto(next)
          /\ UNCHANGED faults
       \/ /\ StoreFault(server # "up")
          /\ DevGoto(skip)
          /\ UNCHANGED <<storeVars, fan>>
    /\ UNCHANGED <<connVars, loopVars, ping, stopVars, seen>>

PublishBuildComplete == Publish("publish", "build.complete", "complete", "decide")
PublishReload == dev.ok /\ Publish("decide", "command.reload", "reload", "idle")

NoReload ==
    /\ dev.pc = "decide"
    /\ ~dev.ok
    /\ DevGoto("idle")
    /\ UNCHANGED <<storeVars, connVars, loopVars, ping, fan, stopVars, seen, faults>>

\* Wrong variant: the build loop cuts its broadcast short.
PublishedEarly ==
    /\ dev.pc \in {"complete", "reload"}
    /\ DevGoto(IF dev.pc = "complete" THEN "decide" ELSE "idle")
    /\ fan' = [fan EXCEPT ![Dev] = NoFan]
    /\ UNCHANGED <<storeVars, connVars, loopVars, ping, stopVars, seen, faults>>

Published ==
    /\ dev.pc \in {"complete", "reload"}
    /\ FanDone(Dev)
    /\ DevGoto(IF dev.pc = "complete" THEN "decide" ELSE "idle")
    /\ fan' = [fan EXCEPT ![Dev] = NoFan]
    /\ UNCHANGED <<storeVars, connVars, loopVars, ping, stopVars, seen, faults>>

Building == PublishBuildComplete \/ PublishReload \/ NoReload \/ Published

-----------------------------------------------------------------------------
(* Run and Close: drain, stop accepting, cancel, drain again, close the     *)
(* database.  closeAllConnections works on a copy of the table.             *)

ContextDone ==
    /\ Stops
    /\ server = "up"
    /\ server' = "drain"
    /\ drain' = sessions
    /\ UNCHANGED <<storeVars, connVars, loopVars, ping, fan, dev, seen, faults>>

CloseOne(c) ==
    /\ c \in drain
    /\ conn' = [conn EXCEPT ![c] = "closed"]
    /\ drain' = drain \ {c}
    /\ UNCHANGED <<storeVars, handler, gone, sessions, since, loopVars, ping, fan, dev,
                   server, seen, faults>>

StopListening ==
    /\ server = "drain"
    /\ drain = {}
    /\ server' = "stopped"
    /\ UNCHANGED <<storeVars, connVars, loopVars, ping, fan, dev, drain, seen, faults>>

CancelAndDrain ==
    /\ server = "stopped"
    /\ server' = "closing"
    /\ drain' = sessions
    /\ UNCHANGED <<storeVars, connVars, loopVars, ping, fan, dev, seen, faults>>

CloseStore ==
    /\ server = "closing"
    /\ drain = {}
    /\ server' = "closed"
    /\ UNCHANGED <<storeVars, connVars, loopVars, ping, fan, dev, drain, seen, faults>>

ShuttingDown == \/ \E c \in Conns : CloseOne(c)
                \/ StopListening \/ CancelAndDrain \/ CloseStore

-----------------------------------------------------------------------------
Next == \/ \E c \in Conns : \/ Connect(c) \/ Leave(c)
                            \/ Handshake(c)
                            \/ \E m \in Commands : Receive(c, m)
                            \/ Looping(c) \/ Pinging(c)
        \/ \E t \in Threads : Fanning(t)
        \/ Build \/ Building
        \/ ContextDone \/ ShuttingDown

Spec == Init /\ [][Next]_vars

\* Every goroutine that can go on does: the scheduler is fair, socket reads and
\* writes have deadlines, and the database answers or fails.  Clients and the
\* build loop's triggers are not fair.
Fairness == /\ \A c \in Conns : /\ WF_vars(Handshake(c))
                                /\ WF_vars(Looping(c))
                                /\ WF_vars(Pinging(c))
            /\ \A t \in Threads : WF_vars(Fanning(t))
            /\ WF_vars(Building)
            /\ WF_vars(ShuttingDown)

FairSpec == Spec /\ Fairness
=============================================================================
