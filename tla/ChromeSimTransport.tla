------------------------- MODULE ChromeSimTransport -------------------------
(* The transport of the Chrome simulator, shared/chrome-sim/src/transport.ts: *)
(* one logical connection to the daemon over a series of sockets, and calls   *)
(* that wait for it, are sent, answered, timed out or rejected.               *)
(*                                                                            *)
(* JavaScript runs a callback, with the continuations of the promises it      *)
(* settles, to its end: a step is one event handler, one timer or one call.   *)
(* A socket's readyState changes before its close event fires; in between,    *)
(* "closing", the browser delivers no more messages from it.                  *)
EXTENDS Naturals

CONSTANTS Calls,        \* the calls of the page
          MaxSockets,   \* bound on the connections opened
          MaxFaults,    \* bound on what goes wrong on the way
          Closes        \* whether the page closes the transport

ASSUME TransportConstants == /\ MaxSockets \in Nat /\ MaxFaults \in Nat
                             /\ Closes \in BOOLEAN

Sockets == 1..MaxSockets
NoSocket == 0

VARIABLES
    state,       \* the status the page sees
    closed,      \* close() has been called
    socket,      \* the current socket, or NoSocket
    promise,     \* connectPromise: the socket whose handshake is in flight
    timer,       \* a reconnect is scheduled
    caps,        \* capabilitiesSupported has chrome.api.call
    ready,       \* readyState of every socket
    settled,     \* the socket's connect promise is settled
    guard,       \* the socket's handshake timer is armed
    negotiated,  \* what the socket's hello.ack granted (observation)
    overlapped,  \* a socket was opened before the last had closed (observation)
    call,        \* life of every call
    via,         \* the socket a call waits for, or was sent over
    runs,        \* how often the daemon carried the call out
    wire,        \* of every call: the command or the answer that is under way
    mute,        \* the daemon has gone for good
    faults

link == <<state, closed, socket, promise, timer, caps>>
sockets == <<ready, settled, guard, negotiated, overlapped>>
calls == <<call, via>>
daemon == <<runs, wire, mute>>
tvars == <<link, sockets, calls, daemon, faults>>

Live(s) == s # NoSocket /\ ready[s] = "open"

\* What ensureConnected takes for a connection it can use.
Usable == Live(socket) /\ state = "open"

Fault == faults < MaxFaults /\ faults' = faults + 1

TransportInit ==
    /\ state = "closed" /\ closed = FALSE /\ socket = NoSocket /\ promise = NoSocket
    /\ timer = FALSE /\ caps = FALSE
    /\ ready = [s \in Sockets |-> "new"]
    /\ settled = [s \in Sockets |-> FALSE]
    /\ guard = [s \in Sockets |-> FALSE]
    /\ negotiated = [s \in Sockets |-> FALSE]
    /\ overlapped = FALSE
    /\ call = [c \in Calls |-> "idle"]
    /\ via = [c \in Calls |-> NoSocket]
    /\ runs = [c \in Calls |-> 0]
    /\ wire = [c \in Calls |-> "none"]
    /\ mute = FALSE
    /\ faults = 0

-----------------------------------------------------------------------------
(* Parts of handlers. *)

\* Variant: the handshake is not guarded by a timer.
ConnectUnguarded(s) ==
    /\ ready[s] = "new" /\ \A r \in Sockets : r < s => ready[r] # "new"
    /\ ready' = [ready EXCEPT ![s] = "connecting"]
    /\ socket' = s /\ promise' = s
    /\ state' = IF state = "reconnecting" THEN "reconnecting" ELSE "connecting"
    /\ overlapped' = (overlapped \/ \E r \in Sockets : ready[r] = "closing")
    /\ UNCHANGED <<settled, guard, negotiated, closed, caps>>

\* connect(): a new socket becomes the current one, and its handshake starts.
Connect(s) ==
    /\ ready[s] = "new" /\ \A r \in Sockets : r < s => ready[r] # "new"
    /\ ready' = [ready EXCEPT ![s] = "connecting"]
    /\ guard' = [guard EXCEPT ![s] = TRUE]
    /\ socket' = s /\ promise' = s
    /\ state' = IF state = "reconnecting" THEN "reconnecting" ELSE "connecting"
    /\ overlapped' = (overlapped \/ \E r \in Sockets : ready[r] = "closing")
    /\ UNCHANGED <<settled, negotiated, closed, caps>>

\* The calls in cs come to their end with result r.
Settle(cs, r) ==
    /\ call' = [c \in Calls |-> IF c \in cs THEN r ELSE call[c]]
    /\ UNCHANGED via

WaitingFor(s) == {c \in Calls : call[c] = "waiting" /\ via[c] = s}
Pending == {c \in Calls : call[c] = "sent"}

\* What a call does once ensureConnected has returned: it looks at the socket
\* and the capability again, and is sent over the socket of that moment.
Dispatch(cs, s, granted) ==
    LET fate == IF granted THEN "sent" ELSE "failed" IN
    /\ call' = [c \in Calls |-> IF c \in cs THEN fate ELSE call[c]]
    /\ via' = [c \in Calls |-> IF c \in cs THEN s ELSE via[c]]
    /\ wire' = [c \in Calls |-> IF c \in cs /\ granted THEN "command" ELSE wire[c]]

-----------------------------------------------------------------------------
(* The page. *)

\* Variant: a call does not join the handshake that is under way.
CallEager(c) ==
    /\ call[c] = "idle" /\ ~closed
    /\ \/ /\ Usable
          /\ Dispatch({c}, socket, caps)
          /\ UNCHANGED <<link, sockets>>
       \/ /\ ~Usable
          /\ \E s \in Sockets :
                /\ Connect(s)
                /\ call' = [call EXCEPT ![c] = "waiting"]
                /\ via' = [via EXCEPT ![c] = s]
          /\ UNCHANGED <<timer, wire>>
    /\ UNCHANGED <<runs, mute, faults>>

\* call(): over the open connection, or after the handshake that is under way,
\* or after one that this call starts.
Call(c) ==
    /\ call[c] = "idle"
    /\ \/ /\ closed
          /\ Settle({c}, "failed")
          /\ UNCHANGED <<link, sockets, wire>>
       \/ /\ ~closed /\ Usable
          /\ Dispatch({c}, socket, caps)
          /\ UNCHANGED <<link, sockets>>
       \/ /\ ~closed /\ ~Usable /\ promise # NoSocket
          /\ call' = [call EXCEPT ![c] = "waiting"]
          /\ via' = [via EXCEPT ![c] = promise]
          /\ UNCHANGED <<link, sockets, wire>>
       \/ /\ ~closed /\ ~Usable /\ promise = NoSocket
          /\ \E s \in Sockets :
                /\ Connect(s)
                /\ call' = [call EXCEPT ![c] = "waiting"]
                /\ via' = [via EXCEPT ![c] = s]
          /\ UNCHANGED <<timer, wire>>
    /\ UNCHANGED <<runs, mute, faults>>

\* close(): calls that were sent fail at once, calls that wait for a handshake
\* when its socket closes.
Close ==
    /\ Closes /\ ~closed
    /\ closed' = TRUE /\ state' = "closed" /\ timer' = FALSE /\ socket' = NoSocket
    /\ Settle(Pending, "failed")
    /\ ready' = [s \in Sockets |-> IF s = socket /\ ready[s] # "closed"
                                   THEN "closing" ELSE ready[s]]
    /\ UNCHANGED <<promise, caps, settled, guard, negotiated, overlapped,
                   daemon, faults>>

\* The call's own timer.
CallTimeout(c) ==
    /\ call[c] = "sent"
    /\ Settle({c}, "failed")
    /\ UNCHANGED <<link, sockets, daemon, faults>>

-----------------------------------------------------------------------------
(* The sockets. *)

\* The "open" event: hello is sent.
SocketOpens(s) ==
    /\ ready[s] = "connecting"
    /\ ready' = [ready EXCEPT ![s] = "open"]
    /\ UNCHANGED <<link, settled, guard, negotiated, overlapped, calls, daemon, faults>>

\* hello.ack of a daemon that accepts, with or without the capability: the calls
\* that waited go on in the same turn of the event loop.
Accepted(s, granted) ==
    /\ ~mute /\ ready[s] = "open" /\ ~settled[s]
    /\ guard' = [guard EXCEPT ![s] = FALSE]
    /\ settled' = [settled EXCEPT ![s] = TRUE]
    /\ negotiated' = [negotiated EXCEPT ![s] = granted]
    /\ caps' = granted /\ state' = "open"
    /\ promise' = IF promise = s THEN NoSocket ELSE promise
    /\ Dispatch(WaitingFor(s), s, granted)
    /\ UNCHANGED <<closed, socket, timer, ready, overlapped, runs, mute, faults>>

\* rejectOnce and, where its handler does so, nextSocket.close().
GiveUp(s) ==
    /\ settled' = [settled EXCEPT ![s] = TRUE]
    /\ promise' = IF promise = s THEN NoSocket ELSE promise
    /\ Settle(WaitingFor(s), "failed")
    /\ ready' = [ready EXCEPT ![s] = IF @ = "closed" THEN @ ELSE "closing"]
    /\ guard' = [guard EXCEPT ![s] = FALSE]

\* hello.ack with another protocol version or without auth_ok.
Refused(s) ==
    /\ ~mute /\ ready[s] = "open" /\ ~settled[s]
    /\ Fault
    /\ GiveUp(s)
    /\ UNCHANGED <<state, closed, socket, timer, caps, negotiated, overlapped, daemon>>

\* The handshake timer: the daemon is gone, or slow, or the socket hangs.
HandshakeTimeout(s) ==
    /\ guard[s]
    /\ Fault \/ (mute /\ UNCHANGED faults)
    /\ GiveUp(s)
    /\ UNCHANGED <<state, closed, socket, timer, caps, negotiated, overlapped, daemon>>

\* The connection breaks, or a message is too large: the socket starts to close.
SocketBreaks(s) ==
    /\ ready[s] \in {"connecting", "open"}
    /\ Fault
    /\ ready' = [ready EXCEPT ![s] = "closing"]
    /\ UNCHANGED <<link, settled, guard, negotiated, overlapped, calls, daemon>>

\* Variant: a closed connection is not opened again.
ScheduleNothing == UNCHANGED <<timer, state>>

\* scheduleReconnect, in a handler that has seen that close() was not called.
ScheduleReconnect ==
    IF timer THEN UNCHANGED <<timer, state>>
    ELSE timer' = TRUE /\ state' = "reconnecting"

\* The "close" event, of whichever socket.
SocketCloses(s) ==
    /\ ready[s] = "closing"
    /\ ready' = [ready EXCEPT ![s] = "closed"]
    /\ guard' = [guard EXCEPT ![s] = FALSE]
    /\ settled' = [settled EXCEPT ![s] = TRUE]
    /\ socket' = IF socket = s THEN NoSocket ELSE socket
    /\ promise' = IF promise = s THEN NoSocket ELSE promise
    /\ caps' = FALSE
    /\ IF closed
       THEN /\ Settle(WaitingFor(s), "failed")
            /\ UNCHANGED <<timer, state>>
       ELSE /\ Settle(WaitingFor(s) \cup Pending, "failed")
            /\ ScheduleReconnect
    /\ wire' = [c \in Calls |-> IF via[c] = s THEN "none" ELSE wire[c]]
    /\ UNCHANGED <<closed, negotiated, overlapped, runs, mute, faults>>

\* The reconnect timer: ensureConnected, whose error nobody hears.
Reconnect ==
    /\ timer /\ timer' = FALSE
    /\ IF Usable \/ promise # NoSocket
       THEN UNCHANGED <<state, closed, socket, promise, caps, sockets>>
       ELSE \E s \in Sockets : Connect(s)
    /\ UNCHANGED <<calls, daemon, faults>>

-----------------------------------------------------------------------------
(* The daemon. *)

\* A command that was sent reaches the daemon, which carries it out. The page
\* may have given up on it by then.
CarriedOut(c) ==
    /\ ~mute /\ wire[c] = "command"
    /\ runs' = [runs EXCEPT ![c] = @ + 1]
    /\ wire' = [wire EXCEPT ![c] = "ok"]
    /\ UNCHANGED <<link, sockets, calls, mute, faults>>

\* The daemon answers a command with an error, without carrying it out.
TurnedDown(c) ==
    /\ ~mute /\ wire[c] = "command"
    /\ wire' = [wire EXCEPT ![c] = "failed"]
    /\ UNCHANGED <<link, sockets, calls, runs, mute, faults>>

\* The daemon exits and does not come back.
DaemonDies ==
    /\ ~mute /\ Fault
    /\ mute' = TRUE
    /\ UNCHANGED <<link, sockets, calls, runs, wire>>

\* Variant: an answer is not looked up among the pending calls.
AnswerUnchecked(c) ==
    /\ wire[c] \in {"ok", "failed"} /\ Live(via[c])
    /\ wire' = [wire EXCEPT ![c] = "none"]
    /\ Settle({c}, wire[c])
    /\ UNCHANGED <<link, sockets, runs, mute, faults>>

\* chrome.api.result: the call it names is settled if it is still pending.
AnswerArrives(c) ==
    /\ wire[c] \in {"ok", "failed"} /\ Live(via[c])
    /\ wire' = [wire EXCEPT ![c] = "none"]
    /\ IF c \in Pending THEN Settle({c}, wire[c]) ELSE UNCHANGED calls
    /\ UNCHANGED <<link, sockets, runs, mute, faults>>
-----------------------------------------------------------------------------
TransportNext ==
    \/ Close \/ Reconnect \/ DaemonDies
    \/ \E c \in Calls : \/ Call(c) \/ CallTimeout(c)
                        \/ CarriedOut(c) \/ TurnedDown(c) \/ AnswerArrives(c)
    \/ \E s \in Sockets : \/ SocketOpens(s) \/ SocketBreaks(s) \/ SocketCloses(s)
                          \/ Refused(s) \/ HandshakeTimeout(s)
                          \/ \E granted \in BOOLEAN : Accepted(s, granted)

\* Timers fire, a socket opens and closes in time unless it breaks first, and a
\* daemon that is there answers a hello.
TransportFairness ==
    /\ WF_tvars(Reconnect)
    /\ \A c \in Calls : WF_tvars(CallTimeout(c))
    /\ \A s \in Sockets : /\ WF_tvars(SocketOpens(s)) /\ WF_tvars(SocketCloses(s))
                           /\ WF_tvars(Accepted(s, TRUE))
                           /\ WF_tvars(mute /\ HandshakeTimeout(s))

TransportSpec == TransportInit /\ [][TransportNext]_tvars
TransportFairSpec == TransportSpec /\ TransportFairness

-----------------------------------------------------------------------------
(* What the page relies on. *)

Outcome == [c \in Calls |-> IF call[c] \in {"ok", "failed"} THEN call[c] ELSE "none"]
Promised == INSTANCE RemoteCall WITH outcome <- Outcome

\* Type of every variable.
TransportTypeOK ==
    /\ state \in {"closed", "connecting", "open", "reconnecting"}
    /\ closed \in BOOLEAN /\ timer \in BOOLEAN /\ caps \in BOOLEAN
    /\ socket \in Sockets \cup {NoSocket} /\ promise \in Sockets \cup {NoSocket}
    /\ ready \in [Sockets -> {"new", "connecting", "open", "closing", "closed"}]
    /\ settled \in [Sockets -> BOOLEAN] /\ guard \in [Sockets -> BOOLEAN]
    /\ negotiated \in [Sockets -> BOOLEAN] /\ overlapped \in BOOLEAN
    /\ call \in [Calls -> {"idle", "waiting", "sent", "ok", "failed"}]
    /\ via \in [Calls -> Sockets \cup {NoSocket}]
    /\ runs \in [Calls -> Nat]
    /\ wire \in [Calls -> {"none", "command", "ok", "failed"}]
    /\ mute \in BOOLEAN /\ faults \in 0..MaxFaults

\* What is under way for a call fits what it has gone through: a command has not
\* been carried out yet, a success reports one that was, and nothing is under
\* way for a call that never was sent.
WireFitsCalls ==
    \A c \in Calls :
        /\ call[c] \in {"idle", "waiting"} => wire[c] = "none" /\ runs[c] = 0
        /\ wire[c] = "command" => runs[c] = 0
        /\ wire[c] = "ok" => runs[c] = 1
        /\ runs[c] \in 0..1

TransportInv == TransportTypeOK /\ WireFitsCalls

\* Every call is carried out at most once, succeeds only if it was carried out,
\* and is settled once: nothing is sent again after a reconnect, and a late
\* answer does not overturn a timeout.
CallsAreAtMostOnce == Promised!CallSpec

\* Every call comes to an end, also when the daemon never answers anything.
EveryCallSettles == \A c \in Calls : (call[c] \in {"waiting", "sent"}) ~> (call[c] \in {"ok", "failed"})

\* Once the page has used the transport it ends up with a connection that
\* ensureConnected accepts, and keeps it, unless the page has closed the
\* transport or the daemon is gone.
ReachesDaemon == (state # "closed") ~> [](Usable \/ closed \/ mute)

\* An open connection has the capability its handshake negotiated: what
\* docs/build-log/2026-05-08-phase2-dev-bridge-capability-aware-chrome-sim.md:13
\* says of reconnects. The late close event of an earlier socket clears it.
OpenIsNegotiated == Usable => caps = negotiated[socket]

\* As long as no socket was opened while another was still closing: there is one
\* connection at most, it is the current one, it has what it negotiated, and the
\* calls that were sent are under way on it.
OneConnection ==
    ~overlapped =>
        /\ OpenIsNegotiated
        /\ \A s \in Sockets : ready[s] \in {"connecting", "open", "closing"}
                                => socket = s \/ closed
        /\ \A c \in Pending : via[c] = socket
=============================================================================
