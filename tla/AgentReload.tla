----------------------------- MODULE AgentReload -----------------------------
(* The development agent, a service worker inside the extension that is being *)
(* built: agent/src/background.ts, handshake.ts, reload.ts.  It keeps one     *)
(* connection to the daemon and restarts the extension on command.reload.     *)
(* The browser may end the worker at any time, with its socket and its timers *)
(* (the manifest gives it no alarm, and it listens to no event of the         *)
(* browser's): what then starts it again is outside of this code.             *)
(*                                                                            *)
(* The daemon's side is what Daemon says of it: a session is registered after *)
(* its hello.ack was written, a broadcast goes to the sessions registered at  *)
(* that moment and is not repeated later, and one socket delivers in order.   *)
EXTENDS Naturals, Sequences

CONSTANTS MaxBuilds,    \* bound on the builds published
          MaxBreaks     \* bound on what goes wrong with connections and the worker

ASSUME AgentConstants == MaxBuilds \in Nat /\ MaxBreaks \in Nat

\* Whose build a command.reload is about: this extension's, another's, unsaid.
Targets == {"own", "other", "unnamed"}

VARIABLES
    agent,       \* config, connecting, open (hello sent), complete, closing,
                 \* waiting, silent (no socket and no timer), ended (no worker)
    session,     \* the daemon's side: none, acknowledged, registered
    inbox,       \* what the socket has yet to deliver
    built,       \* builds so far that concern this extension
    others,      \* builds of another extension
    publishing,  \* the build loop's command.reload that is not broadcast yet
    running,     \* the build the extension's code comes from
    missed,      \* a reload for this extension did not reach it (observation)
    breaks

avars == <<agent, session, inbox, built, others, publishing, running, missed, breaks>>

AgentFrom(place) ==
    /\ agent = place /\ session = "none" /\ inbox = <<>>
    /\ built = 0 /\ others = 0 /\ publishing = "none" /\ running = 0
    /\ missed = FALSE /\ breaks = 0

AgentInit == AgentFrom("config")

-----------------------------------------------------------------------------
(* The build loop and the daemon. *)

\* A build has succeeded and its output is on disk.
BuildSucceeds(x) ==
    /\ publishing = "none" /\ built + others < MaxBuilds
    /\ publishing' = x
    /\ IF x = "other" THEN others' = others + 1 /\ UNCHANGED built
                      ELSE built' = built + 1 /\ UNCHANGED others
    /\ UNCHANGED <<agent, session, inbox, running, missed, breaks>>

\* command.reload is broadcast.
PublishesReload ==
    /\ publishing # "none" /\ publishing' = "none"
    /\ IF session = "registered"
       THEN inbox' = Append(inbox, [kind |-> "reload", target |-> publishing]) /\ UNCHANGED missed
       ELSE missed' = (missed \/ publishing # "other") /\ UNCHANGED inbox
    /\ UNCHANGED <<agent, session, built, others, running, breaks>>

\* hello.ack: accepted with command.reload, or not.
DaemonAcknowledges(good) ==
    /\ agent = "open" /\ session = "none"
    /\ session' = "acknowledged"
    /\ inbox' = Append(inbox, [kind |-> "ack", good |-> good])
    /\ IF good THEN UNCHANGED breaks ELSE breaks < MaxBreaks /\ breaks' = breaks + 1
    /\ UNCHANGED <<agent, built, others, publishing, running, missed>>

DaemonRegisters ==
    /\ session = "acknowledged" /\ session' = "registered"
    /\ UNCHANGED <<agent, inbox, built, others, publishing, running, missed, breaks>>

-----------------------------------------------------------------------------
(* The agent. *)

\* connect(): the configuration is read before the socket is made.
Connects ==
    /\ agent = "config" /\ agent' = "connecting"
    /\ UNCHANGED <<session, inbox, built, others, publishing, running, missed, breaks>>

SendsHello ==
    /\ agent = "connecting" /\ agent' = "open"
    /\ UNCHANGED <<session, inbox, built, others, publishing, running, missed, breaks>>

\* handleDaemonEnvelope before the handshake is complete.
Handshakes ==
    /\ agent = "open" /\ inbox # <<>> /\ inbox' = Tail(inbox)
    /\ agent' = IF Head(inbox).kind = "ack" /\ Head(inbox).good THEN "complete" ELSE "closing"
    /\ UNCHANGED <<session, built, others, publishing, running, missed, breaks>>

\* runtime.reload: the service worker ends with its socket, whatever that had yet
\* to deliver, and starts again from what is on disk.
Obeys ==
    /\ agent = "complete" /\ inbox # <<>> /\ Head(inbox).target # "other"
    /\ agent' = "config" /\ session' = "none" /\ inbox' = <<>>
    /\ running' = built
    /\ missed' = FALSE
    /\ UNCHANGED <<built, others, publishing, breaks>>

\* Variant: a reload that names no extension is taken to be another's.
IgnoresUnnamed ==
    /\ agent = "complete" /\ inbox # <<>> /\ Head(inbox).target # "own"
    /\ inbox' = Tail(inbox)
    /\ UNCHANGED <<agent, session, built, others, publishing, running, missed, breaks>>

\* A reload of another extension, or any other message.
Ignores ==
    /\ agent = "complete" /\ inbox # <<>> /\ Head(inbox).target = "other"
    /\ inbox' = Tail(inbox)
    /\ UNCHANGED <<agent, session, built, others, publishing, running, missed, breaks>>

\* A socket is lost with what it had yet to deliver.
Loses ==
    /\ breaks < MaxBreaks /\ breaks' = breaks + 1
    /\ missed' = (missed \/ \E i \in DOMAIN inbox : /\ inbox[i].kind = "reload"
                                                  /\ inbox[i].target # "other")
    /\ inbox' = <<>> /\ session' = "none"
    /\ UNCHANGED <<built, others, publishing, running>>

\* The connection breaks, or a message is too large.
Breaks ==
    /\ agent \in {"connecting", "open", "complete"} /\ agent' = "closing"
    /\ Loses

\* The browser ends the worker.
WorkerEnds ==
    /\ agent \in {"config", "connecting", "open", "complete", "closing", "waiting"}
    /\ agent' = "ended"
    /\ Loses

\* The configuration cannot be read or the socket cannot be made: nobody waits
\* for connect(), and no reconnect is scheduled.
ConnectThrows ==
    /\ agent = "config" /\ agent' = "silent"
    /\ Loses

\* The browser starts the worker, with the code it has or, when it loads the
\* extension again, with what is on disk.
WorkerStarts ==
    /\ agent \in {"ended", "silent"} /\ agent' = "config"
    /\ \/ running' = built /\ missed' = FALSE
       \/ UNCHANGED <<running, missed>>
    /\ UNCHANGED <<session, inbox, built, others, publishing, breaks>>

\* Variant: only a connection whose handshake was complete is opened again.
CloseForGood ==
    /\ agent = "closing" /\ session \in {"none", "registered"}
    /\ agent' = IF session = "registered" THEN "waiting" ELSE "gone"
    /\ missed' = (missed \/ inbox # <<>>)
    /\ inbox' = <<>> /\ session' = "none"
    /\ UNCHANGED <<built, others, publishing, running, breaks>>

\* "close": the handshake state is reset and a reconnect scheduled.
CloseEvent ==
    /\ agent = "closing" /\ agent' = "waiting"
    /\ missed' = (missed \/ inbox # <<>>)
    /\ inbox' = <<>> /\ session' = "none"
    /\ UNCHANGED <<built, others, publishing, running, breaks>>

ReconnectTimer ==
    /\ agent = "waiting" /\ agent' = "config"
    /\ UNCHANGED <<session, inbox, built, others, publishing, running, missed, breaks>>

AgentNext ==
    \/ \E x \in Targets : BuildSucceeds(x)
    \/ \E good \in BOOLEAN : DaemonAcknowledges(good)
    \/ PublishesReload \/ DaemonRegisters \/ Connects \/ SendsHello \/ Handshakes
    \/ Obeys \/ Ignores \/ Breaks \/ CloseEvent \/ ReconnectTimer
    \/ WorkerEnds \/ ConnectThrows \/ WorkerStarts

\* The browser owes no start of a worker.
AgentFairness ==
    /\ WF_avars(Connects) /\ WF_avars(SendsHello) /\ WF_avars(Handshakes)
    /\ WF_avars(Obeys) /\ WF_avars(Ignores) /\ WF_avars(CloseEvent) /\ WF_avars(ReconnectTimer)
    /\ WF_avars(DaemonAcknowledges(TRUE)) /\ WF_avars(DaemonRegisters)
    /\ WF_avars(PublishesReload)

AgentSpec == AgentInit /\ [][AgentNext]_avars
AgentFairSpec == AgentSpec /\ AgentFairness

-----------------------------------------------------------------------------
\* Once everything is delivered, the extension runs the last build, unless the
\* reload of a build was missed: it went out while the agent had no session, or
\* it was lost with the socket.
RunsLastBuild ==
    (agent = "complete" /\ session = "registered" /\ inbox = <<>> /\ publishing = "none"
        /\ ~missed) => running = built

\* While its worker is left alone, the agent is connected and registered again,
\* whatever ended the connection and after every restart.  It is not if the
\* browser ends the worker, or connect() throws: nothing in this code starts it
\* again, and it stays away until the browser does.
AgentComesBack ==
    (agent = "config") ~> \/ agent = "complete" /\ session = "registered"
                          \/ agent \in {"ended", "silent"}
=============================================================================
