---------------------------- MODULE InspectorSync ----------------------------
(* The inspector's connection and timeline: inspector/src/connection.ts and   *)
(* timeline.ts.  On every connection it asks for the newest page of history,  *)
(* then goes on with live messages; the user loads older pages, or jumps back *)
(* to the newest one once newer entries were trimmed.                         *)
(*                                                                            *)
(* A row is its id in protocol_events.  Live messages carry no id, so an      *)
(* entry is a row and whether the inspector knows its id.  A socket delivers  *)
(* in order; the daemon reads a page in one step and writes it in another,    *)
(* and broadcasts of other goroutines get in between.  A query that fails     *)
(* ends the session.  There is one socket at a time: the next is opened by a  *)
(* timer that the close of the last has set.                                  *)
EXTENDS Naturals, Sequences

CONSTANTS Page,         \* defaultTimelineLimit
          WorkingSet,   \* defaultTimelineWorkingSetLimit
          Backlog,      \* rows persisted before the inspector starts
          MaxRows,      \* bound on the rows of the log
          MaxDrops,     \* bound on what goes wrong with connections
          Leaves        \* whether the user closes the inspector

ASSUME InspectorConstants ==
    /\ Page \in Nat \ {0} /\ WorkingSet \in Nat /\ WorkingSet >= Page
    /\ Backlog \in Nat /\ MaxRows \in Nat /\ MaxDrops \in Nat /\ Leaves \in BOOLEAN

VARIABLES
    log,           \* protocol_events: of every row whether it is also broadcast
    unsent,        \* rows the daemon has yet to broadcast to this session
    query,         \* the daemon's side of the query under way
    pipe,          \* what the socket has yet to deliver
    status,        \* connecting, open (hello sent), ready (acknowledged), lost, stopped
    bridge,        \* the session negotiated query.events
    timeline,
    canLoadOlder,
    pending,       \* "older" and "latest": loadingOlder-, loadingLatestTimeline
    buffered,      \* bufferedLatestTimelineLiveEntries
    trimmedOlder,  \* trimmedOlderTimelineCount > 0
    trimmedNewer,  \* trimmedNewerTimelineCount > 0
    loaded,        \* the first page of this connection has come (observation)
    overrun,       \* entries were cut off while an older page was loading (observation)
    drops

server == <<log, unsent, query>>
screen == <<timeline, canLoadOlder, pending, buffered, trimmedOlder, trimmedNewer, loaded,
            overrun>>
ivars == <<server, pipe, status, bridge, screen, drops>>

Entry(r, known) == [row |-> r, known |-> known]
NoQuery == [stage |-> "none"]

InspectorFrom(place) ==
    /\ log = [i \in 1..Backlog |-> FALSE] /\ unsent = {} /\ query = NoQuery /\ pipe = <<>>
    /\ status = place /\ bridge = FALSE
    /\ timeline = <<>> /\ canLoadOlder = FALSE /\ pending = "none" /\ buffered = <<>>
    /\ trimmedOlder = FALSE /\ trimmedNewer = FALSE /\ loaded = FALSE /\ overrun = FALSE
    /\ drops = 0

InspectorInit == InspectorFrom("connecting")

-----------------------------------------------------------------------------
(* timeline.ts *)

KnownIn(entries) == {entries[i].row : i \in {j \in DOMAIN entries : entries[j].known}}

\* The incoming entries, without those whose id is held.
NotHeld(incoming, held) ==
    LET new[n \in 0..Len(incoming)] ==
            IF n = 0 THEN <<>>
            ELSE IF incoming[n].known /\ incoming[n].row \in held THEN new[n - 1]
            ELSE Append(new[n - 1], incoming[n])
    IN  new[Len(incoming)]

\* mergeEntriesWithOverflow: what is known by its id is not listed twice, and the
\* side opposite to the incoming entries is cut off.
Merge(existing, incoming, at) ==
    LET fresh == NotHeld(incoming, KnownIn(existing))
        all   == IF at = "prepend" THEN fresh \o existing ELSE existing \o fresh
        over  == IF Len(all) > WorkingSet THEN Len(all) - WorkingSet ELSE 0
    IN  [entries |-> IF at = "prepend" THEN SubSeq(all, 1, Len(all) - over)
                                       ELSE SubSeq(all, over + 1, Len(all)),
         cut     |-> over > 0]

\* oldestPersistedTimelineID: the first entry that has an id.
Oldest(entries) ==
    LET known == {i \in DOMAIN entries : entries[i].known}
    IN  IF known = {} THEN 0
        ELSE entries[CHOOSE i \in known : \A j \in known : i <= j].row

-----------------------------------------------------------------------------
(* The daemon, as Daemon has it. *)

\* A row is persisted.  It is broadcast to the session if that is registered.
Record(live) ==
    /\ Len(log) < MaxRows
    /\ log' = Append(log, live)
    /\ unsent' = IF live /\ status = "ready" THEN unsent \cup {Len(log')} ELSE unsent
    /\ UNCHANGED <<query, pipe, status, bridge, screen, drops>>

BroadcastRow(r) ==
    /\ r \in unsent
    /\ unsent' = unsent \ {r}
    /\ pipe' = Append(pipe, [kind |-> "live", row |-> r])
    /\ UNCHANGED <<log, query, status, bridge, screen, drops>>

\* Variant: a full page is taken to mean that there is more.
ReadFullPage ==
    /\ query.stage = "asked"
    /\ LET last  == IF query.before = 0 THEN Len(log) ELSE query.before - 1
           first == IF last > Page THEN last - Page + 1 ELSE 1
       IN  query' = [stage |-> "read", more |-> last - first + 1 = Page,
                     rows |-> [i \in 1..(last - first + 1) |-> Entry(first + i - 1, TRUE)]]
    /\ UNCHANGED <<log, unsent, pipe, status, bridge, screen, drops>>

\* The page before a row, or the newest one: Recent of EventStore.
ReadPage ==
    /\ query.stage = "asked"
    /\ LET last  == IF query.before = 0 THEN Len(log) ELSE query.before - 1
           first == IF last > Page THEN last - Page + 1 ELSE 1
       IN  query' = [stage |-> "read", more |-> first > 1,
                     rows |-> [i \in 1..(last - first + 1) |-> Entry(first + i - 1, TRUE)]]
    /\ UNCHANGED <<log, unsent, pipe, status, bridge, screen, drops>>

Answer ==
    /\ query.stage = "read"
    /\ pipe' = Append(pipe, [kind |-> "page", rows |-> query.rows, more |-> query.more])
    /\ query' = NoQuery
    /\ UNCHANGED <<log, unsent, status, bridge, screen, drops>>

-----------------------------------------------------------------------------
(* The socket's handlers. *)

\* "open": everything of the last connection is forgotten, and hello is sent.
Opened ==
    /\ status = "connecting"
    /\ status' = "open" /\ bridge' = FALSE
    /\ timeline' = <<>> /\ canLoadOlder' = FALSE /\ pending' = "none" /\ buffered' = <<>>
    /\ trimmedOlder' = FALSE /\ trimmedNewer' = FALSE /\ loaded' = FALSE /\ overrun' = FALSE
    /\ UNCHANGED <<server, pipe, drops>>

\* hello.ack, and the query of buildPostHelloAckMessages.  The daemon registers
\* the session right after it has written hello.ack.
Acknowledged(granted) ==
    /\ status = "open"
    /\ status' = "ready" /\ bridge' = granted
    /\ query' = IF granted THEN [stage |-> "asked", before |-> 0] ELSE NoQuery
    /\ UNCHANGED <<log, unsent, pipe, screen, drops>>

\* Variant: what comes while the newest page is loaded is listed at once, and
\* replaced by the page.
LiveListed ==
    /\ pipe # <<>> /\ Head(pipe).kind = "live" /\ pipe' = Tail(pipe)
    /\ LET m == Merge(timeline, <<Entry(Head(pipe).row, FALSE)>>, "append")
       IN  timeline' = m.entries /\ trimmedOlder' = (trimmedOlder \/ m.cut)
    /\ UNCHANGED <<server, status, bridge, canLoadOlder, pending, buffered, trimmedNewer,
                   loaded, overrun, drops>>

\* A live message is listed, or kept until the newest page has come.
LiveArrives ==
    /\ pipe # <<>> /\ Head(pipe).kind = "live" /\ pipe' = Tail(pipe)
    /\ LET entry == <<Entry(Head(pipe).row, FALSE)>> IN
       IF pending = "latest"
       THEN /\ buffered' = Merge(buffered, entry, "append").entries
            /\ UNCHANGED <<timeline, trimmedOlder, overrun>>
       ELSE LET m == Merge(timeline, entry, "append") IN
            /\ timeline' = m.entries /\ trimmedOlder' = (trimmedOlder \/ m.cut)
            /\ overrun' = (overrun \/ (m.cut /\ pending = "older"))
            /\ UNCHANGED buffered
    /\ UNCHANGED <<server, status, bridge, canLoadOlder, pending, trimmedNewer, loaded, drops>>

\* applyLatestQueryResult puts the newest page in place of the list, followed by
\* what was kept; applyQueryResult adds a page on the side it was asked for.
ShowPage(rows) ==
    LET at == IF pending = "older" THEN "prepend" ELSE "append"
        m  == IF pending = "latest" THEN Merge(rows, buffered, "append")
                                    ELSE Merge(timeline, rows, at)
    IN  /\ timeline' = m.entries
        /\ trimmedOlder' = IF pending = "latest" THEN m.cut
                           ELSE trimmedOlder \/ (m.cut /\ at = "append")
        /\ trimmedNewer' = (pending # "latest" /\ (trimmedNewer \/ (m.cut /\ at = "prepend")))

\* Variant: an older page goes to the end of the list, like the first page.
PageAppended ==
    /\ pipe # <<>> /\ Head(pipe).kind = "page" /\ pipe' = Tail(pipe)
    /\ pending' = "none" /\ buffered' = <<>> /\ loaded' = TRUE
    /\ canLoadOlder' = Head(pipe).more
    /\ LET m == Merge(timeline, Head(pipe).rows, "append")
       IN  timeline' = m.entries /\ trimmedOlder' = (trimmedOlder \/ m.cut)
    /\ UNCHANGED <<server, status, bridge, trimmedNewer, overrun, drops>>

\* Variant: the newest page leaves loadingLatestTimeline set.
PageKeepsLoading ==
    /\ pipe # <<>> /\ Head(pipe).kind = "page" /\ pipe' = Tail(pipe)
    /\ pending' = IF pending = "older" THEN "none" ELSE pending
    /\ loaded' = TRUE /\ canLoadOlder' = Head(pipe).more
    /\ LET m == Merge(timeline, Head(pipe).rows, "prepend")
       IN  timeline' = m.entries /\ trimmedNewer' = (trimmedNewer \/ m.cut)
    /\ UNCHANGED <<server, status, bridge, buffered, trimmedOlder, overrun, drops>>

\* query.events.result, as the pending request has it.
PageArrives ==
    /\ pipe # <<>> /\ Head(pipe).kind = "page" /\ pipe' = Tail(pipe)
    /\ pending' = "none" /\ buffered' = <<>> /\ loaded' = TRUE
    /\ canLoadOlder' = Head(pipe).more
    /\ ShowPage(Head(pipe).rows)
    /\ overrun' = (overrun /\ pending # "latest")
    /\ UNCHANGED <<server, status, bridge, drops>>

\* "close", also of a socket that hello.ack was refused on, that got a message
\* too large or that the daemon closed: a timer will connect again.
Disconnected ==
    /\ status \in {"connecting", "open", "ready"} /\ drops < MaxDrops
    /\ drops' = drops + 1 /\ status' = "lost" /\ bridge' = FALSE
    /\ canLoadOlder' = FALSE /\ pending' = "none" /\ buffered' = <<>>
    /\ unsent' = {} /\ query' = NoQuery /\ pipe' = <<>>
    /\ UNCHANGED <<log, timeline, trimmedOlder, trimmedNewer, loaded, overrun>>

\* The reconnect timer.
ConnectAgain ==
    /\ status = "lost" /\ status' = "connecting"
    /\ UNCHANGED <<server, pipe, bridge, screen, drops>>

-----------------------------------------------------------------------------
(* The user. *)

LoadOlder ==
    /\ status = "ready" /\ bridge /\ pending = "none"
    /\ canLoadOlder /\ Oldest(timeline) # 0
    /\ pending' = "older"
    /\ query' = [stage |-> "asked", before |-> Oldest(timeline)]
    /\ UNCHANGED <<log, unsent, pipe, status, bridge, timeline, canLoadOlder, buffered,
                   trimmedOlder, trimmedNewer, loaded, overrun, drops>>

JumpToLatest ==
    /\ status = "ready" /\ bridge /\ pending = "none" /\ trimmedNewer
    /\ pending' = "latest" /\ buffered' = <<>>
    /\ query' = [stage |-> "asked", before |-> 0]
    /\ UNCHANGED <<log, unsent, pipe, status, bridge, timeline, canLoadOlder,
                   trimmedOlder, trimmedNewer, loaded, overrun, drops>>

\* onCleanup: the timer is cleared and the socket closed.
Leave ==
    /\ Leaves /\ status # "stopped" /\ status' = "stopped"
    /\ unsent' = {} /\ query' = NoQuery /\ pipe' = <<>>
    /\ UNCHANGED <<log, bridge, screen, drops>>

InspectorNext ==
    \/ \E live \in BOOLEAN : Record(live) \/ Acknowledged(live)
    \/ \E r \in 1..MaxRows : BroadcastRow(r)
    \/ ReadPage \/ Answer \/ Opened \/ LiveArrives \/ PageArrives
    \/ Disconnected \/ ConnectAgain \/ LoadOlder \/ JumpToLatest \/ Leave

\* The daemon is there and answers, sockets deliver, and the timer fires.
InspectorFairness ==
    /\ WF_ivars(Opened) /\ WF_ivars(Acknowledged(TRUE)) /\ WF_ivars(ReadPage)
    /\ WF_ivars(Answer) /\ WF_ivars(LiveArrives) /\ WF_ivars(PageArrives)
    /\ WF_ivars(ConnectAgain)

InspectorSpec == InspectorInit /\ [][InspectorNext]_ivars
InspectorFairSpec == InspectorSpec /\ InspectorFairness

-----------------------------------------------------------------------------
Listed == {timeline[i].row : i \in DOMAIN timeline}

\* Nothing that the inspector asked for is still to come.
AtRest == status = "ready" /\ loaded /\ pending = "none"

OnTheWay(r) == r \in unsent \/ \E i \in DOMAIN pipe : /\ pipe[i].kind = "live"
                                                     /\ pipe[i].row = r

\* The rows listed by their id are consecutive and in order: paging back skips
\* no row and lists none twice.  Not so when live messages cut the oldest rows
\* off while the page before them was on its way.
PagesStayInOrder ==
    \A i, j \in DOMAIN timeline :
        (/\ i < j /\ timeline[i].known /\ timeline[j].known
         /\ \A k \in (i + 1)..(j - 1) : ~timeline[k].known)
        => timeline[j].row = timeline[i].row + 1

\* That is the only way it happens.
PagesInOrderUnlessOverrun == ~overrun => PagesStayInOrder

\* Every live row is listed, is on its way or is older than the list, unless the
\* header says that entries were trimmed: also one that came while the newest
\* page was being loaded (build-log pr-088:36-39).
TimelineIsComplete ==
    AtRest /\ ~trimmedOlder /\ ~trimmedNewer =>
        \A r \in DOMAIN log :
            log[r] => r \in Listed \/ OnTheWay(r) \/ r < Oldest(timeline)

\* "Load older" is offered exactly when there are older rows, as long as no
\* entry was trimmed on that side.
OlderIsOffered ==
    AtRest /\ ~trimmedOlder => (canLoadOlder <=> Oldest(timeline) > 1)

\* No request stays pending: it is answered, or given up with the connection.
RequestsEnd == (pending # "none") ~> (pending = "none" \/ status = "stopped")
=============================================================================
