-------------------------- MODULE DaemonProperties --------------------------
(* What the daemon owes its clients, and its clients' views.                *)
EXTENDS Daemon

\* Rows that are also sent live; hello and hello.ack are only persisted.
Live(i) == events[i].name \in BroadcastCapabilities

\* A session that can still be written to.
Reachable(d) == d \in sessions /\ conn[d] = "open"

\* Row i is on its way to d: some goroutine has yet to copy the session table,
\* or has d in its copy.
OnItsWay(d, i) ==
    \E t \in Threads : /\ fan[t].id = i
                       /\ \/ fan[t].stage = "snap"
                          \/ fan[t].stage = "out" /\ d \in fan[t].left

-----------------------------------------------------------------------------
(* Safety                                                                   *)

\* No broadcast is lost: a row persisted after d was registered, which d
\* negotiated and is a target of, has been written to d or is on its way, as
\* long as d is registered and its socket is open.  One dead session in the
\* table, or several goroutines fanning out at once, change nothing to that.
NoLostBroadcast ==
    \A d \in Conns : Reachable(d) =>
        \A i \in DOMAIN events :
            (i > since[d] /\ Live(i) /\ Wants(d, events[i])) =>
                i \in seen[d].live \/ OnItsWay(d, i)

\* The inspector's timeline has no hole (ADR 010: bootstrap with history, go on
\* with live updates).  Once query.events has been answered, every row of the
\* client's extension that it negotiated, from the oldest one in the answer
\* on, is in the answer, was sent live, or is on its way.  It rests on
\* registration happening before the first command is read.
TimelineHasNoGap ==
    \A d \in Conns : (Reachable(d) /\ seen[d].asked) =>
        \A i \in DOMAIN events :
            (/\ Live(i) /\ Wants(d, events[i])
             /\ Ext(d) \in {NoExt, events[i].ext}
             /\ \E h \in seen[d].hist : h <= i) =>
                i \in seen[d].hist \cup seen[d].live \/ OnItsWay(d, i)

\* A client that gets command.reload has got the build events that were
\* published before it: a client that missed one was closed instead (ADR 008:
\* the timeline is causally ordered).
BuildEventsInOrder ==
    \A d \in Conns : \A i, j \in DOMAIN events :
        (/\ i < j /\ events[i].build > 0 /\ events[j].build > 0
         /\ i > since[d]
         /\ Wants(d, events[i])
         /\ j \in seen[d].live) => i \in seen[d].live

\* An inspector's storage view is the store: when its snapshot has been
\* answered, nothing is on its way, and no older row was applied on top of a
\* newer one, each key shows what a query would answer.  Keys that another
\* extension's diffs touched are excluded: diffs carry no extension id.
ViewFollowsStore ==
    \A d \in Conns :
        (/\ Reachable(d) /\ seen[d].synced /\ ~seen[d].late
         /\ "storage.diff" \in Caps(d)
         /\ \A i \in DOMAIN events :
               events[i].name = "storage.diff" => ~OnItsWay(d, i)) =>
        \A k \in Keys :
            \/ \E i \in DOMAIN events : /\ k \in events[i].keys
                                        /\ events[i].ext # NormalizeExt(Ext(d))
            \/ seen[d].view[k] = items[NormalizeExt(Ext(d))][k]

\* Key k of the extension of c's command got a committed diff with the value asked
\* for since the command was read.
KeyIsSet(c, k) ==
    \E i \in DOMAIN events : /\ i > job[c].from
                             /\ events[i].ext = NormalizeExt(job[c].ext)
                             /\ k \in events[i].keys
                             /\ events[i].to = job[c].cmd.to

\* After the first n rows of the log, key k of extension x holds nothing.
AbsentAfter(n, x, k) ==
    \A i \in DiffsOf(x, k) :
        i <= n /\ (\A j \in DiffsOf(x, k) : j <= n => j <= i) => events[i].to = None

\* The moments since c's command was read, as lengths of the log.
Moments(c) == job[c].from..Len(events)
KeyWasAbsent(c, k) ==
    \E n \in Moments(c) : AbsentAfter(n, NormalizeExt(job[c].ext), k)
AreaWasEmpty(c) ==
    \E n \in Moments(c) : \A k \in Keys : AbsentAfter(n, NormalizeExt(job[c].ext), k)
MessageIsLogged(c) ==
    \E i \in DOMAIN events : i > job[c].from /\ events[i].name = "chrome.api.event"

\* A call that is answered as a success was carried out in full, whatever failed
\* or was written in between: since it was read, chrome.storage.set committed a
\* diff for each of its keys, each key of remove was absent at some moment, all
\* keys were absent at one moment for clear, and the message of
\* runtime.sendMessage is in the log.
SuccessMeansCommitted ==
    \A c \in Conns :
        loop[c] = "reply" /\ job[c].reply.ok =>
            LET m == job[c].cmd
            IN  /\ m.do = "set"    => \A k \in m.keys : KeyIsSet(c, k)
                /\ m.do = "remove" => \A k \in m.keys : KeyWasAbsent(c, k)
                /\ m.do = "clear"  => AreaWasEmpty(c)
                /\ m.do = "send"   => MessageIsLogged(c)

\* Only what a client negotiated is sent to it, and a build event only to its
\* own extension or to inspectors.
OnlyNegotiatedFrames ==
    \A d \in Conns : \A i \in seen[d].live :
        /\ i \in DOMAIN events
        /\ Wants(d, events[i])

-----------------------------------------------------------------------------
(* Liveness, under FairSpec.                                                *)

\* A command is answered, carried out or ends its session: readLoop always gets
\* back to reading or finishes, whatever the other sessions' sockets do.
EveryCommandEnds ==
    \A c \in Conns : loop[c] \notin {"off", "read", "done"}
                        ~> loop[c] \in {"read", "done"}

\* A closed connection leaves the session table, whoever closed it: a failed
\* broadcast, the ping loop, the read loop or closeAllConnections.
ClosedIsForgotten ==
    \A c \in Conns : conn[c] = "closed" ~> c \notin sessions

\* A client that went away is noticed and its socket closed.
GoneIsClosed ==
    \A c \in Conns : c \in gone ~> conn[c] = "closed"

\* Close ends every connection, those included whose handshake was under way
\* while the table was drained: without pings their read deadline passes.
ShutdownEndsEverything ==
    (server = "closed") ~> \A c \in Conns : conn[c] # "open"

-----------------------------------------------------------------------------
(* Statements of the repository's documents that the code does not keep.    *)

\* "The daemon already enforced negotiated capabilities for client-originated
\* handler commands" (docs/build-log/2026-05-08-phase2-dev-bridge-broadcast-
\* capability-delivery.md:8).  The check is skipped for a session that was
\* unregistered after its command had been read.
CommandsAreNegotiated ==
    \A c \in Conns :
        loop[c] \in {"history", "snapshot", "mutate", "send", "reply"} =>
            job[c].cmd.name \in Caps(c)

\* "Emit reload only after publishing build.complete for the same build id"
\* (docs/adr/008-reload-command-emission.md:13).  When persisting
\* build.complete fails the error is ignored and the reload still goes out.
ReloadFollowsBuildComplete ==
    \A j \in DOMAIN events : events[j].name = "command.reload" =>
        \E i \in 1..(j - 1) : /\ events[i].name = "build.complete"
                              /\ events[i].build = events[j].build
=============================================================================
