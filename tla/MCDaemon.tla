------------------------------ MODULE MCDaemon ------------------------------
(* Instances of the daemon: who connects, and what they may send.           *)
EXTENDS DaemonProperties, SequencesExt

CONSTANTS c1, c2, k1, k2, v1, v2, default, other

\* Connections whose handshake is over when the exploration starts: the state
\* their steps lead to from Init when each of them takes a step in turn.
CONSTANT Established

Logged(name) == LET order == SetToSeq(Established)
                IN  [i \in DOMAIN order |-> PlainEvent(name, Ext(order[i]), 0)]

MCInit ==
    /\ events = Logged("hello") \o Logged("hello.ack")
    /\ items = [x \in Exts |-> [k \in Keys |-> None]]
    /\ handler = [c \in Conns |-> IF c \in Established THEN "done" ELSE "none"]
    /\ conn = [c \in Conns |-> IF c \in Established THEN "open" ELSE "none"]
    /\ gone = {}
    /\ sessions = Established
    /\ since = [c \in Conns |-> IF c \in Established THEN Len(events) ELSE 0]
    /\ loop = [c \in Conns |-> IF c \in Established THEN "read" ELSE "off"]
    /\ job = [c \in Conns |-> Idle]
    /\ sent = [c \in Conns |-> 0]
    /\ ping = [c \in Conns |-> IF c \in Established THEN "on" ELSE "off"]
    /\ fan = [t \in Threads |-> NoFan]
    /\ dev = [pc |-> "idle", build |-> 0, ok |-> FALSE]
    /\ server = "up"
    /\ drain = {}
    /\ seen = [c \in Conns |-> Unaware]
    /\ faults = 0

MCSpec == MCInit /\ [][Next]_vars
MCFairSpec == MCSpec /\ Fairness

\* One run for two instances, as an action constraint. Either the server stops,
\* while c1 is still shaking hands and sends nothing, or it stays up, while c1
\* sends a command that is broadcast and one of the clients may go away.
\* Receiving a command, leaving and stopping are all this takes away, and none
\* of them is fair, so no fair step is ever cut off.
OneEnding == \/ server' = "up" /\ gone' # Conns
             \/ gone' = {} /\ sent'[c1] = 0

Asks(kind, x) == [kind |-> kind, ext |-> x, requested |-> {}]

Cmd(name, do, ks, v) == [name |-> name, do |-> do, keys |-> ks, to |-> v]

History  == Cmd("query.events", "history", {}, None)
Snapshot == Cmd("query.storage", "snapshot", {}, None)
SetK1    == Cmd("storage.set", "set", {k1}, v1)
RemoveK1 == Cmd("storage.remove", "remove", {k1}, None)
Clear    == Cmd("storage.clear", "clear", {}, None)
CallSet  == Cmd("chrome.api.call", "set", {k1, k2}, v2)
CallRemove == Cmd("chrome.api.call", "remove", {k1, k2}, None)
CallClear  == Cmd("chrome.api.call", "clear", {}, None)
CallSend == Cmd("chrome.api.call", "send", {}, None)
CallTabs == Cmd("chrome.api.call", "local", {}, None)
Reload   == Cmd("command.reload", "local", {}, None)

\* An inspector, and an agent of the extension that is being built.
InspectorAndAgent == c1 :> Asks("inspector", NoExt) @@ c2 :> Asks("dev-agent", default)
\* An inspector, and the simulator of an extension.
InspectorAndSim == c1 :> Asks("inspector", NoExt) @@ c2 :> Asks("chrome-sim", default)
\* An inspector that negotiated the storage commands only, and a simulator.
StorageAndSim == c1 :> [kind |-> "inspector", ext |-> NoExt,
                        requested |-> {"query.storage", "storage.remove",
                                       "storage.clear", "storage.diff"}]
                 @@ c2 :> Asks("chrome-sim", default)
\* A legacy client without an extension, and one that asks for diffs only.
Narrow == c1 :> Asks("legacy", NoExt)
          @@ c2 :> [kind |-> "inspector", ext |-> NoExt,
                    requested |-> {"storage.diff", "query.storage"}]

HistoryOnly == {History}
SetOnly     == {SetK1}
TabsOnly    == {CallTabs}
SetAndTabs  == {SetK1, CallTabs}
TimelineCommands == {History, SetK1}
StorageCommands  == {Snapshot, RemoveK1, Clear, CallSet, CallRemove, CallClear, CallSend, CallTabs,
                     Reload}
=============================================================================
