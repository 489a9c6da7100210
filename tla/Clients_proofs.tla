--------------------------- MODULE Clients_proofs ----------------------------
(* Proofs about the daemon's clients: the agent that reloads an extension, the *)
(* inspector's timeline, and the connection that carries chrome-sim's calls. *)
EXTENDS ChromeSimTransport, InspectorSync, AgentReload, EventStore_proofs, TLAPS

-----------------------------------------------------------------------------
(* The agent (reload.ts, handshake.ts).                                      *)

\* What the daemon sends the agent.
AgentMessage == [kind : {"ack"}, good : BOOLEAN] \cup [kind : {"reload"}, target : Targets]

AgentTypeOK ==
    /\ agent \in {"config", "connecting", "open", "complete", "closing", "waiting", "silent",
                 "ended"}
    /\ session \in {"none", "acknowledged", "registered"}
    /\ inbox \in Seq(AgentMessage)
    /\ built \in Nat /\ others \in Nat /\ running \in Nat /\ breaks \in Nat
    /\ publishing \in Targets \cup {"none"}
    /\ missed \in BOOLEAN

\* A reload the agent would obey.
Obliges(m) == m.kind = "reload" /\ m.target # "other"

\* A connection begins with nothing under way, and the daemon has no session of an
\* agent that has no open socket.
NothingBefore ==
    agent \in {"config", "connecting", "waiting", "silent", "ended"} => session = "none" /\ inbox = <<>>

\* The acknowledgment is the first message of a connection, and the only one of
\* its kind: no broadcast reaches a session before it is registered.
AckComesFirst ==
    agent = "open" =>
        IF session = "none" THEN inbox = <<>>
        ELSE inbox # <<>> /\ \A i \in DOMAIN inbox : inbox[i].kind = "ack" <=> i = 1

\* After the handshake there are only reloads.
ReloadsFollow ==
    /\ agent = "complete" => session # "none"
    /\ agent \in {"complete", "closing"} => \A i \in DOMAIN inbox : inbox[i].kind = "reload"

\* Code that is not the last build's is about to be replaced, or its reload was missed.
StaleIsToldOrMissed ==
    running = built \/ missed \/ publishing \in {"own", "unnamed"}
        \/ \E i \in DOMAIN inbox : Obliges(inbox[i])

AgentInv == AgentTypeOK /\ NothingBefore /\ AckComesFirst /\ ReloadsFollow /\ StaleIsToldOrMissed

USE AgentConstants

\* An empty queue is a queue.
LEMMA NothingQueued ==
    ASSUME NEW q, q = <<>>
    PROVE  q \in Seq(AgentMessage) /\ DOMAIN q = {}
  OBVIOUS

\* The agent starts with the build it was loaded from.
LEMMA AgentInitInv == AgentInit => AgentInv
<1> SUFFICES ASSUME AgentInit PROVE AgentInv
  OBVIOUS
<1>1. inbox \in Seq(AgentMessage) /\ DOMAIN inbox = {}
  BY NothingQueued DEF AgentInit, AgentFrom
<1> QED BY <1>1 DEF AgentInit, AgentFrom, AgentInv, AgentTypeOK, NothingBefore, AckComesFirst,
       ReloadsFollow, StaleIsToldOrMissed

\* What is left of the queue after its first message.
LEMMA TakingOff ==
    ASSUME NEW q \in Seq(AgentMessage), q # <<>>
    PROVE  /\ Head(q) = q[1] /\ Head(q) \in AgentMessage
           /\ Tail(q) \in Seq(AgentMessage)
           /\ DOMAIN Tail(q) = 1..(Len(q) - 1)
           /\ \A i \in DOMAIN Tail(q) : i + 1 \in DOMAIN q /\ Tail(q)[i] = q[i + 1]
           /\ \A j \in DOMAIN q : j # 1 => j - 1 \in DOMAIN Tail(q) /\ q[j] = Tail(q)[j - 1]
  OBVIOUS

\* What a queue holds after another message.
LEMMA Adding ==
    ASSUME NEW q \in Seq(AgentMessage), NEW m \in AgentMessage
    PROVE  /\ Append(q, m) \in Seq(AgentMessage) /\ Append(q, m) # <<>>
           /\ DOMAIN Append(q, m) = DOMAIN q \cup {Len(q) + 1}
           /\ Append(q, m)[Len(q) + 1] = m
           /\ \A i \in DOMAIN q : Append(q, m)[i] = q[i]
  OBVIOUS

\* Every step keeps the invariant.
LEMMA AgentStepInv == AgentInv /\ [AgentNext]_avars => AgentInv'
<1> SUFFICES ASSUME AgentInv, [AgentNext]_avars PROVE AgentInv'
  OBVIOUS
<1> USE DEF AgentInv, AgentTypeOK, NothingBefore, AckComesFirst, ReloadsFollow,
            StaleIsToldOrMissed
<1>1. ASSUME NEW x \in Targets, BuildSucceeds(x) PROVE AgentInv'
  BY <1>1 DEF BuildSucceeds, Targets
<1>2. CASE PublishesReload
  <2> DEFINE m == [kind |-> "reload", target |-> publishing]
  <2>1. m \in AgentMessage
    BY <1>2 DEF PublishesReload, AgentMessage
  <2>2. CASE session = "registered"
    <3>1. inbox' = Append(inbox, m) /\ UNCHANGED <<missed, agent, session, built, others, running, breaks>>
          /\ publishing' = "none" /\ publishing \in Targets
      BY <1>2, <2>2 DEF PublishesReload
    <3>2. Obliges(m) <=> publishing \in {"own", "unnamed"}
      BY <3>1 DEF Obliges, Targets
    <3>3. (\E i \in DOMAIN inbox : Obliges(inbox[i])) \/ Obliges(m)
             => \E i \in DOMAIN inbox' : Obliges(inbox'[i])
      BY <2>1, <3>1, Adding
    <3>4. AckComesFirst'
      BY <2>1, <2>2, <3>1, Adding
    <3>5. ReloadsFollow'
      BY <2>1, <2>2, <3>1, Adding
    <3>6. AgentTypeOK'
      BY <2>1, <3>1, Adding
    <3>7. NothingBefore'
      BY <2>2, <3>1
    <3>8. StaleIsToldOrMissed'
      BY <3>1, <3>2, <3>3
    <3> QED BY <3>4, <3>5, <3>6, <3>7, <3>8
  <2>3. CASE session # "registered"
    BY <1>2, <2>3 DEF PublishesReload, Targets
  <2> QED BY <2>2, <2>3
<1>3. ASSUME NEW good \in BOOLEAN, DaemonAcknowledges(good) PROVE AgentInv'
  <2> DEFINE m == [kind |-> "ack", good |-> good]
  <2>1. m \in AgentMessage
    BY DEF AgentMessage
  <2>2. /\ inbox = <<>> /\ inbox' = Append(inbox, m) /\ session' = "acknowledged"
        /\ UNCHANGED <<agent, built, others, publishing, running, missed>>
        /\ agent = "open" /\ breaks' \in Nat
    BY <1>3 DEF DaemonAcknowledges
  <2>3. DOMAIN inbox = {}
    BY <2>2
  <2>4. AckComesFirst'
    BY <2>1, <2>2, Adding
  <2>5. AgentTypeOK'
    BY <2>1, <2>2, Adding
  <2> QED BY <2>2, <2>3, <2>4, <2>5
<1>4. CASE DaemonRegisters
  BY <1>4 DEF DaemonRegisters
<1>5. CASE Connects
  BY <1>5 DEF Connects
<1>6. CASE SendsHello
  BY <1>6 DEF SendsHello
<1>7. CASE Handshakes
  <2>1. /\ inbox # <<>> /\ agent = "open" /\ inbox' = Tail(inbox)
        /\ agent' \in {"complete", "closing"}
        /\ UNCHANGED <<session, built, others, publishing, running, missed, breaks>>
    BY <1>7 DEF Handshakes
  <2>2. session # "none" /\ inbox[1].kind = "ack"
    BY <2>1
  <2>3. \A i \in DOMAIN inbox' : inbox'[i].kind = "reload"
    <3> SUFFICES ASSUME NEW i \in DOMAIN inbox' PROVE inbox'[i].kind = "reload"
      OBVIOUS
    <3>1. i + 1 \in DOMAIN inbox /\ inbox'[i] = inbox[i + 1] /\ i \in Nat \ {0}
      BY <2>1, TakingOff
    <3>2. inbox[i + 1] \in AgentMessage /\ inbox[i + 1].kind # "ack"
      BY <2>1, <2>2, <3>1
    <3> QED BY <3>1, <3>2 DEF AgentMessage
  <2>4. (\E i \in DOMAIN inbox : Obliges(inbox[i])) => \E i \in DOMAIN inbox' : Obliges(inbox'[i])
    <3> SUFFICES ASSUME NEW i \in DOMAIN inbox, Obliges(inbox[i])
                 PROVE  \E j \in DOMAIN inbox' : Obliges(inbox'[j])
      OBVIOUS
    <3>1. i # 1
      BY <2>2 DEF Obliges
    <3> QED BY <2>1, <3>1, TakingOff
  <2>5. AgentTypeOK'
    BY <2>1, TakingOff
  <2>6. StaleIsToldOrMissed'
    BY <2>1, <2>4
  <2> QED BY <2>1, <2>2, <2>3, <2>5, <2>6
<1>8. CASE Obeys
  BY <1>8, NothingQueued DEF Obeys
<1>9. CASE Ignores
  <2>1. /\ inbox # <<>> /\ agent = "complete" /\ inbox' = Tail(inbox) /\ Head(inbox).target = "other"
        /\ UNCHANGED <<agent, session, built, others, publishing, running, missed, breaks>>
    BY <1>9 DEF Ignores
  <2>2. ~Obliges(inbox[1])
    BY <2>1, TakingOff DEF Obliges
  <2>3. \A i \in DOMAIN inbox' : inbox'[i].kind = "reload"
    BY <2>1, TakingOff
  <2>4. (\E i \in DOMAIN inbox : Obliges(inbox[i])) => \E i \in DOMAIN inbox' : Obliges(inbox'[i])
    BY <2>1, <2>2, TakingOff
  <2>5. AgentTypeOK'
    BY <2>1, TakingOff
  <2>6. StaleIsToldOrMissed'
    BY <2>1, <2>4
  <2> QED BY <2>1, <2>3, <2>5, <2>6
<1>10. CASE Breaks \/ WorkerEnds \/ ConnectThrows
  <2>1. Loses /\ agent' \in {"closing", "ended", "silent"}
    BY <1>10 DEF Breaks, WorkerEnds, ConnectThrows
  <2>2. /\ session' = "none" /\ inbox' = <<>> /\ breaks' \in Nat /\ missed' \in BOOLEAN
        /\ UNCHANGED <<built, others, publishing, running>>
    BY <2>1 DEF Loses
  <2>3. inbox' \in Seq(AgentMessage) /\ DOMAIN inbox' = {}
    BY <2>2, NothingQueued
  <2>4. StaleIsToldOrMissed'
    <3>1. (\E i \in DOMAIN inbox : Obliges(inbox[i])) => missed'
      BY <2>1 DEF Loses, Obliges
    <3>2. missed => missed'
      BY <2>1 DEF Loses
    <3> QED BY <2>2, <3>1, <3>2, Zenon
  <2>5. AgentTypeOK'
    <3>1. /\ agent' \in {"closing", "ended", "silent"} /\ session' = "none"
          /\ breaks' \in Nat /\ missed' \in BOOLEAN
          /\ UNCHANGED <<built, others, publishing, running>>
      BY <2>1, <2>2
    <3> QED BY <2>3, <3>1
  <2>6. AckComesFirst' /\ ReloadsFollow' /\ NothingBefore'
    BY <2>1, <2>2, <2>3
  <2> QED BY <2>4, <2>5, <2>6
<1>14. CASE WorkerStarts
  <2>1. /\ agent' = "config" /\ UNCHANGED <<session, inbox, built, others, publishing, breaks>>
        /\ session = "none" /\ inbox = <<>>
        /\ running' = built \/ UNCHANGED <<running, missed>>
        /\ running' \in Nat /\ missed' \in BOOLEAN
    BY <1>14 DEF WorkerStarts
  <2>2. StaleIsToldOrMissed'
    BY <2>1
  <2>3. AgentTypeOK'
    BY <2>1
  <2> QED BY <2>1, <2>2, <2>3
<1>11. CASE CloseEvent
  <2>1. /\ agent' = "waiting" /\ session' = "none" /\ inbox' = <<>>
        /\ missed' \in BOOLEAN
        /\ UNCHANGED <<built, others, publishing, running, breaks>>
    BY <1>11 DEF CloseEvent
  <2>5. /\ (\E i \in DOMAIN inbox : Obliges(inbox[i])) => missed'
        /\ missed => missed'
    BY <1>11, NothingQueued DEF CloseEvent
  <2>2. inbox' \in Seq(AgentMessage) /\ DOMAIN inbox' = {}
    BY <2>1, NothingQueued
  <2>3. StaleIsToldOrMissed'
    BY <2>1, <2>5, Zenon
  <2>4. AgentTypeOK'
    <3>1. /\ agent' = "waiting" /\ session' = "none" /\ missed' \in BOOLEAN
          /\ UNCHANGED <<built, others, publishing, running, breaks>>
      BY <2>1
    <3> QED BY <2>2, <3>1
  <2> QED BY <2>1, <2>2, <2>3, <2>4
<1>12. CASE ReconnectTimer
  BY <1>12 DEF ReconnectTimer
<1>13. CASE UNCHANGED avars
  BY <1>13 DEF avars
<1> QED BY <1>1, <1>2, <1>3, <1>4, <1>5, <1>6, <1>7, <1>8, <1>9, <1>10, <1>11, <1>12, <1>13,
          <1>14 DEF AgentNext

\* However builds, broadcasts, lost connections and restarts interleave, an agent that
\* is connected with nothing on its way to it runs the last build of its extension,
\* or has missed a reload since it was loaded: one went out while it had no session, or
\* was lost with its socket (reload.ts, handshake.ts).
THEOREM LastBuildRuns == AgentSpec => []RunsLastBuild
<1>1. AgentInv => RunsLastBuild
  BY DEF AgentInv, AgentTypeOK, StaleIsToldOrMissed, RunsLastBuild, Targets
<1> QED BY AgentInitInv, AgentStepInv, <1>1, PTL DEF AgentSpec

HIDE AgentConstants

-----------------------------------------------------------------------------
(* The inspector (connection.ts, timeline.ts).                               *)

Entries == [row : Nat, known : BOOLEAN]
RowsIn(entries) == {entries[i].row : i \in DOMAIN entries}

\* The page that ends with a row, as ReadPage has it.
First(last) == IF last > Page THEN last - Page + 1 ELSE 1
Rows(last) == [i \in 1..(last - First(last) + 1) |-> Entry(First(last) + i - 1, TRUE)]
IsPage(rows, more, last) == rows = Rows(last) /\ (more <=> First(last) > 1)

Messages == [kind : {"live"}, row : Nat] \cup [kind : {"page"}, rows : Seq(Entries), more : BOOLEAN]
Queries == [stage : {"none"}] \cup [stage : {"asked"}, before : Nat]
             \cup [stage : {"read"}, rows : Seq(Entries), more : BOOLEAN]

InspectorTypeOK ==
    /\ log \in Seq(BOOLEAN)
    /\ unsent \subseteq 1..Len(log)
    /\ query \in Queries
    /\ pipe \in Seq(Messages)
    /\ status \in {"connecting", "open", "ready", "lost", "stopped"}
    /\ pending \in {"none", "older", "latest"}
    /\ timeline \in Seq(Entries) /\ Len(timeline) <= WorkingSet
    /\ buffered \in Seq(Entries)
    /\ bridge \in BOOLEAN /\ canLoadOlder \in BOOLEAN /\ trimmedOlder \in BOOLEAN
    /\ trimmedNewer \in BOOLEAN /\ loaded \in BOOLEAN /\ overrun \in BOOLEAN

\* A list of entries: those known by their id are in order.
Ordered(entries) ==
    \A i, j \in DOMAIN entries :
        i < j /\ entries[i].known /\ entries[j].known => entries[i].row < entries[j].row

\* Between two of them no row is missing.
Gapless(entries) ==
    \A i, j \in DOMAIN entries : entries[i].known /\ entries[j].known =>
        \A r \in entries[i].row..entries[j].row :
            \E k \in DOMAIN entries : entries[k].known /\ entries[k].row = r

Unknown(entries) == \A i \in DOMAIN entries : ~entries[i].known

\* A query can only be under way on a connection that waits for its answer.
Loading == status = "ready" /\ bridge /\ (~loaded \/ pending # "none")

OneRequest ==
    /\ query.stage # "none" => Loading /\ \A i \in DOMAIN pipe : pipe[i].kind = "live"
    /\ \A i \in DOMAIN pipe : pipe[i].kind = "page" => Loading
    /\ \A i, j \in DOMAIN pipe : pipe[i].kind = "page" /\ pipe[j].kind = "page" => i = j

\* The page before row b continues the list, unless that was overrun.
Continues(b) ==
    /\ \A i \in DOMAIN timeline : timeline[i].known => timeline[i].row >= b
    /\ ~overrun => Oldest(timeline) = b

\* A live row that is newer than the page is not lost: it is on its way, or kept
\* for the page, or there was no room for it and that will be seen.
Kept(r) == \/ OnTheWay(r)
           \/ IF pending = "latest" THEN r \in RowsIn(buffered) \/ Len(buffered) >= WorkingSet
              ELSE r \in RowsIn(timeline) \/ trimmedOlder

\* The pages that were read and have not arrived.
Replies == {pipe[i] : i \in {j \in DOMAIN pipe : pipe[j].kind = "page"}}
             \cup {q \in {query} : q.stage = "read"}

Answers(m) ==
    \E last \in 0..Len(log) :
        /\ IsPage(m.rows, m.more, last)
        /\ IF pending = "older" THEN Continues(last + 1)
           ELSE /\ pending = "latest" => last > 0
                /\ \A r \in (last + 1)..Len(log) : log[r] => Kept(r)

Request ==
    /\ query.stage = "asked" =>
          IF pending = "older" THEN query.before \in 1..Len(log) /\ Continues(query.before)
          ELSE query.before = 0 /\ (pending = "latest" => Len(log) > 0)
    /\ \A m \in Replies : Answers(m)

\* Each connection begins with nothing.
Beginning ==
    /\ status # "ready" => unsent = {} /\ query = NoQuery /\ pipe = <<>>
    /\ status = "open" => ~loaded
    /\ status \in {"open", "ready"} /\ ~loaded =>
          /\ ~canLoadOlder /\ ~trimmedNewer /\ pending = "none" /\ Unknown(timeline)

\* What the header says of the list.
Header ==
    /\ overrun => trimmedOlder
    /\ \A i \in DOMAIN timeline : timeline[i].row \in 1..Len(log)
    /\ Unknown(buffered) /\ \A i \in DOMAIN buffered : buffered[i].row \in 1..Len(log)
    /\ trimmedNewer => Len(log) > 0
    /\ \A i \in DOMAIN pipe : pipe[i].kind = "live" => pipe[i].row \in 1..Len(log)

InOrder == Ordered(timeline) /\ (~overrun => Gapless(timeline))

Steady == status = "ready" /\ loaded /\ pending # "latest" /\ ~trimmedOlder

Complete ==
    Steady /\ ~trimmedNewer =>
        \A r \in DOMAIN log :
            log[r] => r \in Listed \/ OnTheWay(r) \/ r < Oldest(timeline)

Offered == Steady => (canLoadOlder <=> Oldest(timeline) > 1)

InspectorInv ==
    /\ InspectorTypeOK /\ OneRequest /\ Request /\ Beginning /\ Header
    /\ InOrder /\ Complete /\ Offered

-----------------------------------------------------------------------------
(* Lists of entries.                                                         *)

USE InspectorConstants

\* One step of NotHeld's recursion.
NewStep(s, held, F) ==
    [n \in 0..Len(s) |-> IF n = 0 THEN <<>>
                         ELSE IF s[n].known /\ s[n].row \in held THEN F[n - 1]
                         ELSE Append(F[n - 1], s[n])]

\* If nothing is held, nothing is left out.  The recursion is followed down from
\* the first position where it would differ.
LEMMA NothingHeld ==
  ASSUME NEW s \in Seq(Entries), NEW held,
         \A i \in DOMAIN s : ~(s[i].known /\ s[i].row \in held)
  PROVE  NotHeld(s, held) = s
<1> DEFINE F == CHOOSE G : G = NewStep(s, held, G)
           P == [n \in 0..Len(s) |-> SubSeq(s, 1, n)]
<1>0. Len(s) \in Nat /\ DOMAIN s = 1..Len(s)
  OBVIOUS
<1>1. NotHeld(s, held) = F[Len(s)]
  BY DEF NotHeld, NewStep
<1>2. P = NewStep(s, held, P)
  <2>1. ASSUME NEW n \in 0..Len(s) PROVE P[n] = NewStep(s, held, P)[n]
    <3>1. CASE n = 0
      <4>1. SubSeq(s, 1, 0) = <<>>
        OBVIOUS
      <4> QED BY <3>1, <4>1 DEF NewStep
    <3>2. CASE n # 0
      <4>1. n - 1 \in 0..Len(s) /\ n \in DOMAIN s
        BY <3>2
      <4>2. SubSeq(s, 1, n) = Append(SubSeq(s, 1, n - 1), s[n])
        BY <4>1
      <4> QED BY <3>2, <4>1, <4>2 DEF NewStep
    <3> QED BY <3>1, <3>2
  <2>2. NewStep(s, held, P) = [n \in 0..Len(s) |-> NewStep(s, held, P)[n]]
    BY DEF NewStep
  <2> QED BY <2>1, <2>2
<1>3. F = NewStep(s, held, F)
  BY <1>2
<1> HIDE DEF F
<1>4. ASSUME NEW n \in 0..Len(s), n # 0, F[n - 1] = P[n - 1] PROVE F[n] = P[n]
  <2>1. F[n] = NewStep(s, held, F)[n] /\ P[n] = NewStep(s, held, P)[n]
    BY <1>2, <1>3
  <2> HIDE DEF P
  <2>2. NewStep(s, held, F)[n] = Append(F[n - 1], s[n])
    BY <1>0, <1>4 DEF NewStep
  <2>3. NewStep(s, held, P)[n] = Append(P[n - 1], s[n])
    BY <1>0, <1>4 DEF NewStep
  <2> QED BY <1>4, <2>1, <2>2, <2>3
<1>5. F[0] = P[0]
  <2>1. SubSeq(s, 1, 0) = <<>> /\ 0 \in 0..Len(s)
    OBVIOUS
  <2>2. F[0] = NewStep(s, held, F)[0]
    BY <1>3
  <2> QED BY <2>1, <2>2 DEF NewStep
<1>6. F[Len(s)] = P[Len(s)]
  <2> DEFINE D == {n \in 0..Len(s) : F[n] # P[n]}
  <2>0. Len(s) \in 0..Len(s)
    BY <1>0
  <2> SUFFICES ASSUME F[Len(s)] # P[Len(s)] PROVE FALSE
    OBVIOUS
  <2>a. D # {}
    <3>1. Len(s) \in D
      BY <2>0
    <3> QED BY <3>1
  <2>1. PICK n \in D : \A j \in D : n <= j
    <3> D \in SUBSET Nat
      OBVIOUS
    <3> QED BY <2>a, HasOldest
  <2>2. n \in 0..Len(s) /\ F[n] # P[n]
    OBVIOUS
  <2> HIDE DEF P
  <2>3. n # 0 /\ n - 1 \in 0..Len(s)
    BY <1>5, <2>2, <1>0
  <2>b. n - 1 \notin D
    <3>1. ~(n <= n - 1)
      BY <2>2, <1>0
    <3> HIDE DEF D
    <3> QED BY <2>1, <3>1
  <2> HIDE DEF P
  <2>4. F[n - 1] = P[n - 1]
    BY <2>3, <2>b
  <2> QED BY <1>4, <2>2, <2>3, <2>4
<1> QED BY <1>0, <1>1, <1>6

LEMMA Piece ==
  ASSUME NEW s \in Seq(Entries), NEW a \in Nat, NEW n \in Nat, a + n <= Len(s)
  PROVE  /\ SubSeq(s, a + 1, a + n) \in Seq(Entries)
         /\ Len(SubSeq(s, a + 1, a + n)) = n
         /\ \A i \in 1..n : SubSeq(s, a + 1, a + n)[i] = s[a + i]
<1>1. Len(s) \in Nat /\ \A i \in 1..Len(s) : s[i] \in Entries
  OBVIOUS
<1>2. SubSeq(s, a + 1, a + n) \in Seq(Entries)
  BY <1>1
<1>3. Len(SubSeq(s, a + 1, a + n)) = n
  BY <1>1
<1>4. ASSUME NEW i \in 1..n PROVE SubSeq(s, a + 1, a + n)[i] = s[a + i]
  <2>1. i + a \in 1..Len(s)
    BY <1>1
  <2> QED BY <1>1, <2>1
<1> QED BY <1>2, <1>3, <1>4

\* How much a list is too long.
Over(n) == IF n > WorkingSet THEN n - WorkingSet ELSE 0

LEMMA OverIs == ASSUME NEW n \in Nat PROVE Over(n) \in 0..n /\ n - Over(n) <= WorkingSet
  BY DEF Over

\* Two lists, one after the other.
LEMMA Joined ==
  ASSUME NEW s \in Seq(Entries), NEW t \in Seq(Entries)
  PROVE  /\ s \o t \in Seq(Entries) /\ Len(s \o t) = Len(s) + Len(t)
         /\ \A i \in 1..Len(s) : (s \o t)[i] = s[i]
         /\ \A i \in 1..Len(t) : (s \o t)[Len(s) + i] = t[i]
         /\ \A i \in 1..Len(s \o t) : i \in 1..Len(s) \/ i - Len(s) \in 1..Len(t)
<1>1. s \o t \in Seq(Entries) /\ Len(s \o t) = Len(s) + Len(t) /\ Len(s) \in Nat /\ Len(t) \in Nat
  OBVIOUS
<1>2. \A i \in 1..Len(s) : (s \o t)[i] = s[i]
  OBVIOUS
<1>3. ASSUME NEW i \in 1..Len(t) PROVE (s \o t)[Len(s) + i] = t[i]
  <2>1. Len(s) + i \in 1..(Len(s) + Len(t)) /\ ~(Len(s) + i <= Len(s)) /\ Len(s) + i - Len(s) = i
    BY <1>1
  <2> QED BY <1>1, <2>1
<1>4. \A i \in 1..Len(s \o t) : i \in 1..Len(s) \/ i - Len(s) \in 1..Len(t)
  BY <1>1
<1> QED BY <1>1, <1>2, <1>3, <1>4

\* e is the end of list a, or its beginning: d entries are missing.
EndOf(e, a, d) == /\ e \in Seq(Entries) /\ d \in 0..Len(a) /\ Len(e) = Len(a) - d
                  /\ \A i \in 1..Len(e) : e[i] = a[i + d]
StartOf(e, a, d) == /\ e \in Seq(Entries) /\ d \in 0..Len(a) /\ Len(e) = Len(a) - d
                    /\ \A i \in 1..Len(e) : e[i] = a[i]

\* Merge, on each side, when the list holds nothing of what comes.
LEMMA Appended ==
  ASSUME NEW s \in Seq(Entries), NEW t \in Seq(Entries),
         \A i \in DOMAIN t : ~(t[i].known /\ t[i].row \in KnownIn(s)),
         NEW m, m = Merge(s, t, "append"), NEW d, d = Over(Len(s) + Len(t))
  PROVE  EndOf(m.entries, s \o t, d) /\ m.cut = (d > 0)
<1> DEFINE all == s \o t
           cut == SubSeq(all, d + 1, Len(all))
<1>1. NotHeld(t, KnownIn(s)) = t
  BY NothingHeld
<1>2. all \in Seq(Entries) /\ Len(all) = Len(s) + Len(t) /\ Len(s) + Len(t) \in Nat
  OBVIOUS
<1>3. m = [entries |-> cut, cut |-> d > 0]
  BY <1>1, <1>2 DEF Merge, Over
<1> HIDE DEF all
<1>4. d \in 0..Len(all)
  BY <1>2, OverIs
<1>5. /\ cut \in Seq(Entries) /\ Len(cut) = Len(all) - d
      /\ \A i \in 1..Len(cut) : cut[i] = all[d + i]
  <2> DEFINE n == Len(all) - d
  <2>1. n \in Nat /\ d \in Nat /\ d + n = Len(all) /\ d + n <= Len(all)
    BY <1>2, <1>4
  <2>a. d \in Nat
    BY <1>4
  <2>b. all \in Seq(Entries)
    BY <1>2
  <2> HIDE DEF n
  <2>2. /\ SubSeq(all, d + 1, d + n) \in Seq(Entries)
        /\ Len(SubSeq(all, d + 1, d + n)) = n
        /\ \A i \in 1..n : SubSeq(all, d + 1, d + n)[i] = all[d + i]
    BY <2>a, <2>b, <2>1, Piece, ZenonT(30)
  <2>3. SubSeq(all, d + 1, d + n) = cut
    BY <2>1
  <2> QED BY <2>2, <2>3 DEF n
<1>6. ASSUME NEW i \in 1..Len(cut) PROVE cut[i] = all[i + d]
  <2>1. i + d = d + i
    BY <1>2, <1>4, <1>5
  <2> QED BY <1>5, <2>1
<1> HIDE DEF cut
<1>7. EndOf(cut, all, d)
  BY <1>4, <1>5, <1>6 DEF EndOf
<1>8. m.entries = cut /\ m.cut = (d > 0)
  BY <1>3
<1> QED BY <1>7, <1>8, Zenon DEF all

LEMMA Prepended ==
  ASSUME NEW s \in Seq(Entries), NEW t \in Seq(Entries),
         \A i \in DOMAIN t : ~(t[i].known /\ t[i].row \in KnownIn(s)),
         NEW m, m = Merge(s, t, "prepend"), NEW d, d = Over(Len(s) + Len(t))
  PROVE  StartOf(m.entries, t \o s, d) /\ m.cut = (d > 0)
<1> DEFINE all == t \o s
           cut == SubSeq(all, 1, Len(all) - d)
<1>1. NotHeld(t, KnownIn(s)) = t
  BY NothingHeld
<1>2. /\ all \in Seq(Entries) /\ Len(all) = Len(s) + Len(t)
      /\ Len(t) + Len(s) = Len(s) + Len(t) /\ Len(s) + Len(t) \in Nat
  OBVIOUS
<1>3. m = [entries |-> cut, cut |-> d > 0]
  BY <1>1, <1>2 DEF Merge, Over
<1> HIDE DEF all
<1>4. d \in 0..Len(all)
  BY <1>2, OverIs
<1>5. /\ cut \in Seq(Entries) /\ Len(cut) = Len(all) - d
      /\ \A i \in 1..Len(cut) : cut[i] = all[i]
  <2>1. Len(all) - d \in Nat /\ 0 + 1 = 1 /\ 0 + (Len(all) - d) = Len(all) - d
    BY <1>2, <1>4
  <2>2. \A i \in 1..(Len(all) - d) : 0 + i = i
    BY <2>1
  <2> QED BY <1>2, <1>4, <2>1, <2>2, Piece
<1> HIDE DEF cut
<1>7. StartOf(cut, all, d)
  BY <1>4, <1>5 DEF StartOf
<1>8. m.entries = cut /\ m.cut = (d > 0)
  BY <1>3
<1> QED BY <1>7, <1>8, Zenon DEF all

\* The oldest row that is known by its id.
LEMMA OldestIs ==
  ASSUME NEW s \in Seq(Entries), NEW k \in DOMAIN s, s[k].known,
         \A j \in DOMAIN s : s[j].known => k <= j
  PROVE  Oldest(s) = s[k].row
<1> DEFINE K == {i \in DOMAIN s : s[i].known}
           c == CHOOSE i \in K : \A j \in K : i <= j
<1>1. k \in K /\ \A j \in K : k <= j
  OBVIOUS
<1>2. c \in K /\ \A j \in K : c <= j
  BY <1>1
<1>3. c = k
  <2>1. c \in Nat /\ k \in Nat /\ c <= k /\ k <= c
    BY <1>1, <1>2
  <2> QED BY <2>1
<1> HIDE DEF c
<1>4. Oldest(s) = s[c].row
  BY <1>1 DEF Oldest, c
<1> QED BY <1>3, <1>4

LEMMA OldestOrNone ==
  ASSUME NEW s \in Seq(Entries)
  PROVE  \/ Unknown(s) /\ Oldest(s) = 0
         \/ \E k \in DOMAIN s : /\ s[k].known /\ Oldest(s) = s[k].row
                                /\ \A j \in DOMAIN s : s[j].known => k <= j
<1> DEFINE K == {i \in DOMAIN s : s[i].known}
<1>1. CASE K = {}
  BY <1>1 DEF Unknown, Oldest
<1>2. CASE K # {}
  <2>1. K \in SUBSET Nat
    OBVIOUS
  <2>2. PICK k \in K : \A j \in K : k <= j
    BY <1>2, <2>1, HasOldest
  <2>3. Oldest(s) = s[k].row
    BY <2>2, OldestIs
  <2> QED BY <2>2, <2>3
<1> QED BY <1>1, <1>2

\* In a list in order, it is the least.
LEMMA OldestIsLeast ==
  ASSUME NEW s \in Seq(Entries), Ordered(s), NEW i \in DOMAIN s, s[i].known
  PROVE  Oldest(s) <= s[i].row
<1>1. PICK k \in DOMAIN s : s[k].known /\ Oldest(s) = s[k].row /\ k <= i
  BY OldestOrNone DEF Unknown
<1>2. s[k].row \in Nat /\ s[i].row \in Nat
  <2>1. s[k] \in Entries /\ s[i] \in Entries
    OBVIOUS
  <2> QED BY <2>1 DEF Entries
<1>3. CASE k = i
  BY <1>1, <1>2, <1>3
<1>4. CASE k < i
  BY <1>1, <1>2, <1>4 DEF Ordered
<1>5. k = i \/ k < i
  BY <1>1
<1> QED BY <1>3, <1>4, <1>5

\* The page that ends with a row.
LEMMA PageShape ==
  ASSUME NEW last \in Nat
  PROVE  /\ First(last) \in Nat \ {0}
         /\ Rows(last) \in Seq(Entries)
         /\ Len(Rows(last)) = last - First(last) + 1
         /\ Len(Rows(last)) \in 0..Page
         /\ \A i \in 1..Len(Rows(last)) : /\ Rows(last)[i].known
                                          /\ Rows(last)[i].row = First(last) + i - 1
                                          /\ Rows(last)[i].row \in First(last)..last
         /\ last > 0 => First(last) <= last
         /\ last = 0 => First(last) = 1
<1>1. First(last) \in Nat \ {0} /\ last - First(last) + 1 \in 0..Page
  BY DEF First
<1>2. (last > 0 => First(last) <= last) /\ (last = 0 => First(last) = 1)
  BY DEF First
<1> DEFINE n == last - First(last) + 1
           f(i) == Entry(First(last) + i - 1, TRUE)
<1>3. ASSUME NEW i \in 1..n PROVE f(i) \in Entries
  BY <1>1 DEF Entry, Entries
<1>4. Rows(last) \in [1..n -> Entries]
  BY <1>3 DEF Rows
<1>5. Rows(last) \in Seq(Entries) /\ Len(Rows(last)) = n
  BY <1>1, <1>4
<1>6. ASSUME NEW i \in 1..n
      PROVE  /\ Rows(last)[i].known /\ Rows(last)[i].row = First(last) + i - 1
             /\ First(last) + i - 1 \in First(last)..last
  BY <1>1 DEF Rows, Entry
<1> QED BY <1>1, <1>2, <1>5, <1>6

LEMMA PageIsInOrder ==
  ASSUME NEW last \in Nat PROVE Ordered(Rows(last)) /\ Gapless(Rows(last))
<1> DEFINE s == Rows(last)
<1>1. /\ s \in Seq(Entries) /\ Len(s) = last - First(last) + 1 /\ First(last) \in Nat
      /\ \A i \in 1..Len(s) : s[i].known /\ s[i].row = First(last) + i - 1
  BY PageShape
<1> HIDE DEF s
<1>2. Ordered(s)
  BY <1>1 DEF Ordered
<1>3. ASSUME NEW i \in DOMAIN s, NEW j \in DOMAIN s, NEW r \in s[i].row..s[j].row
      PROVE  \E k \in DOMAIN s : s[k].known /\ s[k].row = r
  <2> DEFINE k == r - First(last) + 1
  <2>0. /\ First(last) \in Nat /\ Len(s) \in Nat /\ Len(s) = last - First(last) + 1
        /\ i \in 1..Len(s) /\ j \in 1..Len(s)
    BY <1>1
  <2>a. s[i].row = First(last) + i - 1 /\ s[j].row = First(last) + j - 1
    BY <1>1, <2>0
  <2>b. r \in Int /\ First(last) + i - 1 <= r /\ r <= First(last) + j - 1
    BY <2>0, <2>a
  <2>1. k \in 1..Len(s) /\ First(last) + k - 1 = r
    <3> DEFINE f == First(last)
               n == Len(s)
    <3>1. i >= 1 /\ j <= n /\ i \in Int /\ j \in Int /\ f \in Int /\ n \in Int
      BY <2>0
    <3>2. r \in Int /\ f + i - 1 <= r /\ r <= f + j - 1
      BY <2>b
    <3>3. k = r - f + 1
      OBVIOUS
    <3> HIDE DEF f, n, k
    <3>4. k \in Int /\ 1 <= k /\ k <= n /\ f + k - 1 = r
      BY ONLY <3>1, <3>2, <3>3
    <3> QED BY <3>4 DEF f, n
  <2>2. k \in DOMAIN s
    BY <1>1, <2>1
  <2> HIDE DEF k
  <2>3. s[k].known /\ s[k].row = r
    BY <1>1, <2>1
  <2> QED BY <2>2, <2>3
<1>4. Gapless(s)
  BY <1>3 DEF Gapless
<1> QED BY <1>2, <1>4 DEF s

\* What both ends of a list keep of it.
LEMMA EndInOrder ==
  ASSUME NEW a \in Seq(Entries), NEW e, NEW d, EndOf(e, a, d), Ordered(a)
  PROVE  Ordered(e) /\ (Gapless(a) => Gapless(e))
<1>1. /\ Len(a) \in Nat /\ d \in 0..Len(a) /\ e \in Seq(Entries) /\ Len(e) = Len(a) - d
      /\ \A i \in DOMAIN e : i + d \in DOMAIN a /\ e[i] = a[i + d]
  BY DEF EndOf
<1>2. ASSUME NEW i \in DOMAIN e, NEW j \in DOMAIN e, i < j, e[i].known, e[j].known
      PROVE  e[i].row < e[j].row
  <2>1. i + d \in DOMAIN a /\ j + d \in DOMAIN a /\ i + d < j + d
    BY <1>1, <1>2
  <2> QED BY <1>1, <1>2, <2>1 DEF Ordered
<1>3. ASSUME Gapless(a), NEW i \in DOMAIN e, NEW j \in DOMAIN e, e[i].known, e[j].known,
             NEW r \in e[i].row..e[j].row
      PROVE  \E k \in DOMAIN e : e[k].known /\ e[k].row = r
  <2>1. i + d \in DOMAIN a /\ j + d \in DOMAIN a /\ e[i] = a[i + d] /\ e[j] = a[j + d]
    BY <1>1
  <2>2. PICK k \in DOMAIN a : a[k].known /\ a[k].row = r
    BY <1>3, <2>1 DEF Gapless
  <2>3. k > d
    <3>1. CASE k <= d
      <4>1. k < i + d
        BY <1>1, <3>1
      <4>2. r < a[i + d].row
        BY <1>3, <2>1, <2>2, <4>1 DEF Ordered
      <4>3. a[i + d] \in Entries
        BY <2>1
      <4>4. a[i + d].row \in Nat /\ a[i + d].row <= r /\ r \in Int
        <5>1. e[i].row \in Nat /\ e[j].row \in Nat
          <6>1. e[i] \in Entries /\ e[j] \in Entries
            BY <1>1
          <6> QED BY <6>1 DEF Entries
        <5> QED BY <1>3, <2>1, <5>1
      <4> QED BY <4>2, <4>4
    <3> QED BY <1>1, <3>1
  <2>4. k - d \in DOMAIN e /\ (k - d) + d = k
    BY <1>1, <2>2, <2>3
  <2>5. e[k - d] = a[k]
    BY <1>1, <2>4
  <2> QED BY <2>2, <2>4, <2>5
<1>4. Ordered(e)
  BY <1>2 DEF Ordered
<1>5. Gapless(a) => Gapless(e)
  BY <1>3 DEF Gapless
<1> QED BY <1>4, <1>5

LEMMA StartInOrder ==
  ASSUME NEW a \in Seq(Entries), NEW e, NEW d, StartOf(e, a, d), Ordered(a)
  PROVE  Ordered(e) /\ (Gapless(a) => Gapless(e))
<1>1. /\ Len(a) \in Nat /\ d \in 0..Len(a) /\ e \in Seq(Entries) /\ Len(e) = Len(a) - d
      /\ \A i \in DOMAIN e : i \in DOMAIN a /\ e[i] = a[i]
  BY DEF StartOf
<1>2. ASSUME NEW i \in DOMAIN e, NEW j \in DOMAIN e, i < j, e[i].known, e[j].known
      PROVE  e[i].row < e[j].row
  BY <1>1, <1>2 DEF Ordered
<1>3. ASSUME Gapless(a), NEW i \in DOMAIN e, NEW j \in DOMAIN e, e[i].known, e[j].known,
             NEW r \in e[i].row..e[j].row
      PROVE  \E k \in DOMAIN e : e[k].known /\ e[k].row = r
  <2>1. i \in DOMAIN a /\ j \in DOMAIN a /\ e[i] = a[i] /\ e[j] = a[j]
    BY <1>1
  <2>2. PICK k \in DOMAIN a : a[k].known /\ a[k].row = r
    BY <1>3, <2>1 DEF Gapless
  <2>3. k <= Len(e)
    <3>1. CASE k > Len(e)
      <4>1. j < k
        BY <1>1, <3>1
      <4>2. a[j].row < r
        BY <1>3, <2>1, <2>2, <4>1 DEF Ordered
      <4>3. a[i].row \in Nat /\ a[j].row \in Nat
        <5>1. a[i] \in Entries /\ a[j] \in Entries
          BY <2>1
        <5> QED BY <5>1 DEF Entries
      <4> QED BY <1>3, <2>1, <4>2, <4>3
    <3> QED BY <1>1, <2>2, <3>1
  <2>4. k \in DOMAIN e
    BY <1>1, <2>2, <2>3
  <2> QED BY <1>1, <2>2, <2>4
<1>4. Ordered(e)
  BY <1>2 DEF Ordered
<1>5. Gapless(a) => Gapless(e)
  BY <1>3 DEF Gapless
<1> QED BY <1>4, <1>5

\* Where an entry of two lists, one after the other, comes from.
LEMMA JoinedFrom ==
  ASSUME NEW s \in Seq(Entries), NEW t \in Seq(Entries), NEW i \in DOMAIN (s \o t)
  PROVE  \/ i \in DOMAIN s /\ (s \o t)[i] = s[i]
         \/ \E k \in DOMAIN t : i = Len(s) + k /\ (s \o t)[i] = t[k]
<1>1. i \in 1..Len(s \o t) /\ Len(s) \in Nat /\ i \in Nat
  BY Joined
<1>2. CASE i \in 1..Len(s)
  BY <1>2, Joined
<1>3. CASE i - Len(s) \in 1..Len(t)
  <2> DEFINE k == i - Len(s)
  <2>1. i = Len(s) + k
    BY <1>1
  <2>2. (s \o t)[Len(s) + k] = t[k]
    BY <1>3, Joined
  <2> QED BY <1>3, <2>1, <2>2
<1> QED BY <1>1, <1>2, <1>3, Joined

\* If one of them has no entry known by its id, nothing changes in the other.
LEMMA UnknownBehind ==
  ASSUME NEW s \in Seq(Entries), NEW t \in Seq(Entries), Unknown(t)
  PROVE  /\ Ordered(s) => Ordered(s \o t)
         /\ Gapless(s) => Gapless(s \o t)
         /\ Oldest(s \o t) = Oldest(s)
<1> DEFINE a == s \o t
<1>1. a \in Seq(Entries) /\ \A i \in DOMAIN s : i \in DOMAIN a /\ a[i] = s[i]
  BY Joined
<1>2. ASSUME NEW i \in DOMAIN a, a[i].known PROVE i \in DOMAIN s /\ a[i] = s[i]
  BY <1>2, JoinedFrom DEF Unknown
<1> HIDE DEF a
<1>3. Ordered(s) => Ordered(a)
  BY <1>2 DEF Ordered
<1>4. Gapless(s) => Gapless(a)
  BY <1>1, <1>2 DEF Gapless
<1>5. Oldest(a) = Oldest(s)
  <2>1. CASE Unknown(s) /\ Oldest(s) = 0
    <3>1. Unknown(a)
      BY <1>2, <2>1 DEF Unknown
    <3> QED BY <1>1, <2>1, <3>1, OldestOrNone DEF Unknown
  <2>2. ASSUME NEW k \in DOMAIN s, s[k].known, Oldest(s) = s[k].row,
               \A j \in DOMAIN s : s[j].known => k <= j
        PROVE  Oldest(a) = Oldest(s)
    <3>1. k \in DOMAIN a /\ a[k].known /\ a[k] = s[k]
      BY <1>1, <2>2
    <3>2. \A j \in DOMAIN a : a[j].known => k <= j
      BY <1>2, <2>2
    <3> QED BY <1>1, <2>2, <3>1, <3>2, OldestIs
  <2> QED BY <2>1, <2>2, OldestOrNone
<1> QED BY <1>3, <1>4, <1>5 DEF a

LEMMA UnknownBefore ==
  ASSUME NEW s \in Seq(Entries), NEW t \in Seq(Entries), Unknown(s)
  PROVE  /\ Ordered(t) => Ordered(s \o t)
         /\ Gapless(t) => Gapless(s \o t)
         /\ Oldest(s \o t) = Oldest(t)
<1> DEFINE a == s \o t
           n == Len(s)
<1>1. /\ a \in Seq(Entries) /\ n \in Nat
      /\ \A i \in DOMAIN t : n + i \in DOMAIN a /\ a[n + i] = t[i]
  <2>1. Len(a) = Len(s) + Len(t) /\ Len(s) \in Nat /\ a \in Seq(Entries)
    BY Joined
  <2>2. \A i \in DOMAIN t : i \in 1..Len(t)
    OBVIOUS
  <2>3. \A i \in DOMAIN t : n + i \in 1..Len(a)
    BY <2>1, <2>2
  <2> QED BY <2>1, <2>2, <2>3, Joined
<1>2. ASSUME NEW i \in DOMAIN a, a[i].known
      PROVE  \E k \in DOMAIN t : i = n + k /\ a[i] = t[k]
  BY <1>2, JoinedFrom DEF Unknown
<1> HIDE DEF a, n
<1>t. \A k \in DOMAIN t : k \in Nat
  OBVIOUS
<1>3. Ordered(t) => Ordered(a)
  <2> SUFFICES ASSUME Ordered(t), NEW i \in DOMAIN a, NEW j \in DOMAIN a,
                      i < j, a[i].known, a[j].known
               PROVE  a[i].row < a[j].row
    BY DEF Ordered
  <2>1. PICK k \in DOMAIN t : i = n + k /\ a[i] = t[k]
    BY <1>2
  <2>2. PICK l \in DOMAIN t : j = n + l /\ a[j] = t[l]
    BY <1>2
  <2>3. k < l
    BY <1>1, <1>t, <2>1, <2>2
  <2> QED BY <2>1, <2>2, <2>3 DEF Ordered
<1>4. Gapless(t) => Gapless(a)
  <2> SUFFICES ASSUME Gapless(t), NEW i \in DOMAIN a, NEW j \in DOMAIN a,
                      a[i].known, a[j].known, NEW r \in a[i].row..a[j].row
               PROVE  \E k \in DOMAIN a : a[k].known /\ a[k].row = r
    BY DEF Gapless
  <2>1. PICK k \in DOMAIN t : a[i] = t[k]
    BY <1>2
  <2>2. PICK l \in DOMAIN t : a[j] = t[l]
    BY <1>2
  <2>3. PICK x \in DOMAIN t : t[x].known /\ t[x].row = r
    BY <2>1, <2>2 DEF Gapless
  <2>4. n + x \in DOMAIN a /\ a[n + x] = t[x]
    BY <1>1
  <2> QED BY <2>3, <2>4
<1>5. Oldest(a) = Oldest(t)
  <2>1. CASE Unknown(t) /\ Oldest(t) = 0
    <3>1. Unknown(a)
      BY <1>2, <2>1 DEF Unknown
    <3> QED BY <1>1, <2>1, <3>1, OldestOrNone DEF Unknown
  <2>2. ASSUME NEW k \in DOMAIN t, t[k].known, Oldest(t) = t[k].row,
               \A j \in DOMAIN t : t[j].known => k <= j
        PROVE  Oldest(a) = Oldest(t)
    <3>1. n + k \in DOMAIN a /\ a[n + k] = t[k]
      BY <1>1
    <3>2. ASSUME NEW j \in DOMAIN a, a[j].known PROVE n + k <= j
      <4>1. PICK l \in DOMAIN t : j = n + l /\ a[j] = t[l]
        BY <1>2, <3>2
      <4>2. k <= l
        BY <2>2, <3>2, <4>1
      <4> QED BY <1>1, <1>t, <4>1, <4>2
    <3> QED BY <1>1, <2>2, <3>1, <3>2, OldestIs
  <2> QED BY <2>1, <2>2, OldestOrNone
<1> QED BY <1>3, <1>4, <1>5 DEF a

\* The page before the list.
LEMMA PageBefore ==
  ASSUME NEW s \in Seq(Entries), NEW last \in Nat, Ordered(s),
         \A i \in DOMAIN s : s[i].known => s[i].row >= last + 1
  PROVE  /\ Ordered(Rows(last) \o s)
         /\ Gapless(s) /\ Oldest(s) = last + 1 => Gapless(Rows(last) \o s)
<1> DEFINE t == Rows(last)
           a == t \o s
           n == Len(t)
<1>p. /\ t \in Seq(Entries) /\ Ordered(t) /\ Gapless(t) /\ n \in Nat
      /\ \A i \in DOMAIN t : t[i].known /\ t[i].row \in Nat /\ t[i].row <= last
      /\ \A r \in Nat : First(last) <= r /\ r <= last => \E k \in DOMAIN t : t[k].row = r
  <2>1. /\ t \in Seq(Entries) /\ Len(t) = last - First(last) + 1 /\ First(last) \in Nat \ {0}
        /\ \A i \in 1..Len(t) : t[i].known /\ t[i].row = First(last) + i - 1
                                /\ t[i].row \in First(last)..last
    BY PageShape
  <2>2. Ordered(t) /\ Gapless(t)
    BY PageIsInOrder
  <2> HIDE DEF t
  <2>3. ASSUME NEW r \in Nat, First(last) <= r, r <= last
        PROVE  \E k \in DOMAIN t : t[k].row = r
    <3> DEFINE k == r - First(last) + 1
    <3>0. First(last) \in Nat /\ Len(t) = last - First(last) + 1
      BY <2>1
    <3>1. k \in 1..Len(t) /\ First(last) + k - 1 = r
      BY <2>3, <3>0
    <3>2. k \in DOMAIN t
      BY <2>1, <3>1
    <3> HIDE DEF k
    <3> QED BY <2>1, <3>1, <3>2
  <2>4. DOMAIN t = 1..Len(t) /\ Len(t) \in Nat
    BY <2>1
  <2>5. ASSUME NEW i \in DOMAIN t PROVE t[i].known /\ t[i].row \in Nat /\ t[i].row <= last
    <3>1. t[i].known /\ t[i].row \in First(last)..last
      BY <2>1, <2>4
    <3> QED BY <2>1, <3>1
  <2> QED BY <2>1, <2>2, <2>3, <2>4, <2>5
<1> HIDE DEF t
<1>1. /\ a \in Seq(Entries)
      /\ \A i \in DOMAIN t : i \in DOMAIN a /\ a[i] = t[i]
      /\ \A i \in DOMAIN s : n + i \in DOMAIN a /\ a[n + i] = s[i]
  <2>1. Len(a) = Len(t) + Len(s) /\ Len(t) \in Nat /\ Len(s) \in Nat /\ a \in Seq(Entries)
    BY <1>p, Joined
  <2>2. DOMAIN t = 1..Len(t) /\ DOMAIN s = 1..Len(s) /\ DOMAIN a = 1..Len(a)
    BY <1>p, <2>1
  <2>3. /\ \A i \in DOMAIN s : n + i \in 1..Len(a)
        /\ \A i \in DOMAIN t : i \in 1..Len(a)
    BY <2>1, <2>2
  <2> QED BY <1>p, <2>1, <2>2, <2>3, Joined
<1>2. \A i \in DOMAIN a : \/ i \in DOMAIN t /\ a[i] = t[i]
                          \/ \E k \in DOMAIN s : i = n + k /\ a[i] = s[k]
  BY <1>p, JoinedFrom
<1> HIDE DEF a, n
<1>s. /\ \A k \in DOMAIN s : k \in Nat \ {0} /\ s[k].row \in Nat
      /\ \A k \in DOMAIN t : k \in 1..n /\ t[k].row \in Nat
  <2>1. \A k \in DOMAIN s : k \in Nat \ {0} /\ s[k] \in Entries
    OBVIOUS
  <2>2. \A k \in DOMAIN t : k \in 1..n
    BY <1>p DEF n
  <2> QED BY <1>p, <2>1, <2>2 DEF Entries
<1>3. Ordered(a)
  <2> SUFFICES ASSUME NEW i \in DOMAIN a, NEW j \in DOMAIN a, i < j, a[i].known, a[j].known
               PROVE  a[i].row < a[j].row
    BY DEF Ordered
  <2>1. CASE i \in DOMAIN t /\ a[i] = t[i] /\ j \in DOMAIN t /\ a[j] = t[j]
    BY <1>p, <2>1 DEF Ordered
  <2>2. ASSUME NEW k \in DOMAIN s, i = n + k, a[i] = s[k], j \in DOMAIN t PROVE FALSE
    BY <1>p, <1>s, <2>2
  <2>3. ASSUME NEW l \in DOMAIN s, j = n + l, a[j] = s[l], i \in DOMAIN t, a[i] = t[i]
        PROVE  a[i].row < a[j].row
    <3>1. s[l].row >= last + 1 /\ s[l].row \in Nat /\ t[i].row \in Nat /\ t[i].row <= last
      BY <1>p, <1>s, <2>3
    <3> QED BY <2>3, <3>1
  <2>4. ASSUME NEW k \in DOMAIN s, i = n + k, a[i] = s[k],
               NEW l \in DOMAIN s, j = n + l, a[j] = s[l]
        PROVE  a[i].row < a[j].row
    <3>1. k < l
      BY <1>p, <1>s, <2>4
    <3> QED BY <2>4, <3>1 DEF Ordered
  <2> QED BY <1>2, <2>1, <2>2, <2>3, <2>4
<1>4. ASSUME Gapless(s), Oldest(s) = last + 1 PROVE Gapless(a)
  <2> SUFFICES ASSUME NEW i \in DOMAIN a, NEW j \in DOMAIN a, a[i].known, a[j].known,
                      NEW r \in a[i].row..a[j].row
               PROVE  \E k \in DOMAIN a : a[k].known /\ a[k].row = r
    BY DEF Gapless
  <2>0. a[i].row \in Nat /\ a[j].row \in Nat /\ r \in Nat /\ a[i].row <= r /\ r <= a[j].row
    <3>1. a[i] \in Entries /\ a[j] \in Entries
      BY <1>1
    <3> QED BY <3>1 DEF Entries
  <2>1. ASSUME NEW k \in DOMAIN t, t[k].row = r PROVE \E x \in DOMAIN a : a[x].known /\ a[x].row = r
    BY <1>1, <1>p, <2>1
  <2>2. ASSUME NEW k \in DOMAIN s, s[k].known, s[k].row = r
        PROVE  \E x \in DOMAIN a : a[x].known /\ a[x].row = r
    <3>1. n + k \in DOMAIN a /\ a[n + k] = s[k]
      BY <1>1
    <3> QED BY <2>2, <3>1
  <2>3. PICK o \in DOMAIN s : s[o].known /\ s[o].row = last + 1
    BY <1>4, OldestOrNone
  <2>4. CASE i \in DOMAIN t /\ a[i] = t[i] /\ r <= last
    <3>1. First(last) <= r
      <4>1. First(last) <= t[i].row
        <5>1. t[i].row \in First(last)..last
          <6>1. i \in 1..Len(t)
            BY <1>p, <2>4
          <6> QED BY <6>1, PageShape DEF t
        <5>2. First(last) \in Nat
          BY PageShape
        <5> QED BY <5>1, <5>2
      <4>2. First(last) \in Nat
        BY PageShape
      <4> QED BY <2>0, <2>4, <4>1, <4>2
    <3>2. PICK k \in DOMAIN t : t[k].row = r
      BY <1>p, <2>0, <2>4, <3>1
    <3> QED BY <2>1, <3>2
  <2>5. ASSUME r >= last + 1, NEW l \in DOMAIN s, a[j] = s[l]
        PROVE  \E x \in DOMAIN a : a[x].known /\ a[x].row = r
    <3>1. r \in s[o].row..s[l].row /\ s[l].known
      BY <2>0, <2>3, <2>5
    <3>2. PICK k \in DOMAIN s : s[k].known /\ s[k].row = r
      BY <1>4, <2>3, <3>1 DEF Gapless
    <3> QED BY <2>2, <3>2
  <2>6. ASSUME r >= last + 1, j \in DOMAIN t, a[j] = t[j] PROVE FALSE
    BY <1>p, <2>0, <2>6
  <2>7. ASSUME NEW k \in DOMAIN s, a[i] = s[k] PROVE r >= last + 1
    <3>1. s[k].row >= last + 1 /\ s[k].row \in Nat
      BY <1>s, <2>7
    <3> QED BY <2>0, <2>7, <3>1
  <2>8. r <= last \/ r >= last + 1
    BY <2>0
  <2> QED BY <1>2, <2>4, <2>5, <2>6, <2>7, <2>8
<1> QED BY <1>3, <1>4 DEF a, t

\* Nothing was cut off.
LEMMA WholeList ==
  ASSUME NEW a \in Seq(Entries), NEW e \in Seq(Entries), Len(e) = Len(a),
         \A i \in 1..Len(e) : e[i] = a[i]
  PROVE  e = a
OBVIOUS

LEMMA RowsOfBoth ==
  ASSUME NEW s \in Seq(Entries), NEW t \in Seq(Entries)
  PROVE  RowsIn(s \o t) = RowsIn(s) \cup RowsIn(t)
<1> DEFINE a == s \o t
<1>1. \A i \in DOMAIN s : i \in DOMAIN a /\ a[i] = s[i]
  BY Joined
<1>2. \A i \in DOMAIN t : \E k \in DOMAIN a : a[k] = t[i]
  <2>1. a \in Seq(Entries) /\ Len(a) = Len(s) + Len(t) /\ Len(s) \in Nat /\ Len(t) \in Nat
    BY Joined
  <2>2. \A i \in DOMAIN t : Len(s) + i \in DOMAIN a
    BY <2>1
  <2> QED BY <2>2, Joined
<1>3. \A i \in DOMAIN a : \/ \E k \in DOMAIN s : a[i] = s[k]
                          \/ \E k \in DOMAIN t : a[i] = t[k]
  BY JoinedFrom
<1> HIDE DEF a
<1>4. RowsIn(a) = RowsIn(s) \cup RowsIn(t)
  BY <1>1, <1>2, <1>3 DEF RowsIn
<1> QED BY <1>4 DEF a

\* What a merge makes of two lists that are in order together.
Merged(m, all, first, second) ==
    /\ m.entries \in Seq(Entries) /\ Len(m.entries) <= WorkingSet /\ m.cut \in BOOLEAN
    /\ Ordered(m.entries) /\ (Gapless(all) => Gapless(m.entries))
    /\ RowsIn(m.entries) \subseteq RowsIn(first) \cup RowsIn(second)
    /\ \A i \in DOMAIN m.entries : \/ \E k \in DOMAIN first : m.entries[i] = first[k]
                                   \/ \E k \in DOMAIN second : m.entries[i] = second[k]
    /\ m.cut <=> Len(first) + Len(second) > WorkingSet
    /\ m.cut => Len(m.entries) = WorkingSet
    /\ ~m.cut => m.entries = all /\ RowsIn(m.entries) = RowsIn(first) \cup RowsIn(second)

LEMMA AppendMerges ==
  ASSUME NEW s \in Seq(Entries), NEW t \in Seq(Entries),
         \A i \in DOMAIN t : ~(t[i].known /\ t[i].row \in KnownIn(s)),
         Ordered(s \o t), NEW m, m = Merge(s, t, "append")
  PROVE  Merged(m, s \o t, s, t)
<1> DEFINE all == s \o t
           d   == Over(Len(s) + Len(t))
<1>1. EndOf(m.entries, all, d) /\ m.cut = (d > 0)
  BY Appended
<1>2. /\ all \in Seq(Entries) /\ Len(all) = Len(s) + Len(t) /\ Len(s) \in Nat /\ Len(t) \in Nat
      /\ RowsIn(all) = RowsIn(s) \cup RowsIn(t)
  BY Joined, RowsOfBoth
<1>3. /\ d \in 0..Len(all) /\ Len(all) - d <= WorkingSet /\ (d > 0 <=> Len(all) > WorkingSet)
      /\ d > 0 => Len(all) - d = WorkingSet
  BY <1>2 DEF Over
<1>4. \A i \in DOMAIN all : \/ \E k \in DOMAIN s : all[i] = s[k]
                            \/ \E k \in DOMAIN t : all[i] = t[k]
  <2>1. \A i \in DOMAIN all : \/ i \in DOMAIN s /\ all[i] = s[i]
                              \/ \E k \in DOMAIN t : i = Len(s) + k /\ all[i] = t[k]
    BY JoinedFrom
  <2> HIDE DEF all
  <2> QED BY <2>1
<1>5. Ordered(all)
  OBVIOUS
<1> HIDE DEF all, d
<1>a. /\ d \in Nat /\ Len(all) \in Nat /\ Len(all) - d \in Nat
      /\ (m.cut <=> d > 0) /\ m.cut \in BOOLEAN
  <2>0. m.cut = (d > 0) /\ (d > 0) \in BOOLEAN
    BY <1>1
  <2>1. (m.cut <=> d > 0) /\ m.cut \in BOOLEAN
    BY <2>0
  <2>2. Len(all) \in Nat
    BY <1>2
  <2> QED BY <1>3, <2>1, <2>2
<1>6. /\ m.entries \in Seq(Entries) /\ Len(m.entries) = Len(all) - d
      /\ \A i \in DOMAIN m.entries : i + d \in DOMAIN all /\ m.entries[i] = all[i + d]
  <2>1. /\ m.entries \in Seq(Entries) /\ Len(m.entries) = Len(all) - d
        /\ \A i \in 1..Len(m.entries) : m.entries[i] = all[i + d]
    BY <1>1 DEF EndOf
  <2>2. DOMAIN all = 1..Len(all) /\ DOMAIN m.entries = 1..Len(m.entries)
    BY <1>2, <2>1
  <2>3. \A i \in 1..Len(m.entries) : i + d \in 1..Len(all)
    BY <1>a, <2>1
  <2> QED BY <2>1, <2>2, <2>3
<1>7. Ordered(m.entries) /\ (Gapless(all) => Gapless(m.entries))
  BY <1>1, <1>2, <1>5, EndInOrder
<1>8. RowsIn(m.entries) \subseteq RowsIn(all)
  BY <1>6 DEF RowsIn
<1>9. ASSUME NEW i \in DOMAIN m.entries
      PROVE  \/ \E k \in DOMAIN s : m.entries[i] = s[k]
             \/ \E k \in DOMAIN t : m.entries[i] = t[k]
  BY <1>4, <1>6
<1>10. ASSUME ~m.cut PROVE m.entries = all
  <2>1. d = 0
    BY <1>a, <1>10
  <2>2. Len(m.entries) = Len(all)
    BY <1>a, <1>6, <2>1
  <2>3. ASSUME NEW i \in 1..Len(m.entries) PROVE m.entries[i] = all[i]
    <3>1. i \in DOMAIN m.entries /\ i + d = i
      BY <1>6, <2>1
    <3> QED BY <1>6, <3>1
  <2> QED BY <1>2, <1>6, <2>2, <2>3, WholeList
<1>11. /\ Len(m.entries) <= WorkingSet /\ m.cut \in BOOLEAN
       /\ m.cut <=> Len(s) + Len(t) > WorkingSet
       /\ m.cut => Len(m.entries) = WorkingSet
  <2>1. Len(m.entries) <= WorkingSet /\ (m.cut => Len(m.entries) = WorkingSet)
    BY <1>3, <1>a, <1>6
  <2>2. m.cut <=> Len(all) > WorkingSet
    BY <1>3, <1>a
  <2> QED BY <1>2, <1>a, <2>1, <2>2
<1>12. RowsIn(m.entries) \subseteq RowsIn(s) \cup RowsIn(t)
  BY <1>2, <1>8
<1>13. ~m.cut => m.entries = all /\ RowsIn(m.entries) = RowsIn(s) \cup RowsIn(t)
  BY <1>2, <1>10
<1>14. Merged(m, all, s, t)
  BY <1>6, <1>7, <1>9, <1>11, <1>12, <1>13 DEF Merged
<1> QED BY <1>14 DEF all

LEMMA PrependMerges ==
  ASSUME NEW s \in Seq(Entries), NEW t \in Seq(Entries),
         \A i \in DOMAIN t : ~(t[i].known /\ t[i].row \in KnownIn(s)),
         Ordered(t \o s), NEW m, m = Merge(s, t, "prepend")
  PROVE  /\ Merged(m, t \o s, t, s)
         /\ \A i \in DOMAIN m.entries : i \in DOMAIN t => m.entries[i] = t[i]
<1> DEFINE all == t \o s
           d   == Over(Len(s) + Len(t))
<1>1. StartOf(m.entries, all, d) /\ m.cut = (d > 0)
  BY Prepended
<1>2. /\ all \in Seq(Entries) /\ Len(all) = Len(t) + Len(s) /\ Len(s) \in Nat /\ Len(t) \in Nat
      /\ RowsIn(all) = RowsIn(t) \cup RowsIn(s)
      /\ \A i \in DOMAIN t : all[i] = t[i]
  BY Joined, RowsOfBoth
<1>3. /\ d \in 0..Len(all) /\ Len(all) - d <= WorkingSet /\ (d > 0 <=> Len(all) > WorkingSet)
      /\ d > 0 => Len(all) - d = WorkingSet
  BY <1>2 DEF Over
<1>4. \A i \in DOMAIN all : \/ \E k \in DOMAIN t : all[i] = t[k]
                            \/ \E k \in DOMAIN s : all[i] = s[k]
  BY JoinedFrom
<1>5. Ordered(all)
  OBVIOUS
<1> HIDE DEF all, d
<1>a. /\ d \in Nat /\ Len(all) \in Nat /\ Len(all) - d \in Nat
      /\ (m.cut <=> d > 0) /\ m.cut \in BOOLEAN
  <2>0. m.cut = (d > 0) /\ (d > 0) \in BOOLEAN
    BY <1>1
  <2>1. (m.cut <=> d > 0) /\ m.cut \in BOOLEAN
    BY <2>0
  <2>2. Len(all) \in Nat
    BY <1>2
  <2> QED BY <1>3, <2>1, <2>2
<1>6. /\ m.entries \in Seq(Entries) /\ Len(m.entries) = Len(all) - d
      /\ \A i \in DOMAIN m.entries : i \in DOMAIN all /\ m.entries[i] = all[i]
  BY <1>1, <1>2 DEF StartOf
<1>7. Ordered(m.entries) /\ (Gapless(all) => Gapless(m.entries))
  BY <1>1, <1>2, <1>5, StartInOrder
<1>8. RowsIn(m.entries) \subseteq RowsIn(all)
  BY <1>6 DEF RowsIn
<1>9. ASSUME NEW i \in DOMAIN m.entries
      PROVE  \/ \E k \in DOMAIN t : m.entries[i] = t[k]
             \/ \E k \in DOMAIN s : m.entries[i] = s[k]
  BY <1>4, <1>6
<1>10. ASSUME ~m.cut PROVE m.entries = all
  <2>1. d = 0
    BY <1>a, <1>10
  <2>2. Len(m.entries) = Len(all)
    BY <1>a, <1>6, <2>1
  <2>3. ASSUME NEW i \in 1..Len(m.entries) PROVE m.entries[i] = all[i]
    BY <1>6
  <2> QED BY <1>2, <1>6, <2>2, <2>3, WholeList
<1>11. /\ Len(m.entries) <= WorkingSet /\ m.cut \in BOOLEAN
       /\ m.cut <=> Len(t) + Len(s) > WorkingSet
       /\ m.cut => Len(m.entries) = WorkingSet
  <2>1. Len(m.entries) <= WorkingSet /\ (m.cut => Len(m.entries) = WorkingSet)
    BY <1>3, <1>a, <1>6
  <2>2. m.cut <=> Len(all) > WorkingSet
    BY <1>3, <1>a
  <2> QED BY <1>2, <1>a, <2>1, <2>2
<1>12. RowsIn(m.entries) \subseteq RowsIn(t) \cup RowsIn(s)
  BY <1>2, <1>8
<1>13. ~m.cut => m.entries = all /\ RowsIn(m.entries) = RowsIn(t) \cup RowsIn(s)
  BY <1>2, <1>10
<1>14. Merged(m, all, t, s)
  BY <1>6, <1>7, <1>9, <1>11, <1>12, <1>13 DEF Merged
<1>15. \A i \in DOMAIN m.entries : i \in DOMAIN t => m.entries[i] = t[i]
  BY <1>2, <1>6
<1> QED BY <1>14, <1>15 DEF all

-----------------------------------------------------------------------------
(* The socket's queue.                                                       *)

LEMMA PipeAdds ==
  ASSUME NEW p \in Seq(Messages), NEW m \in Messages, NEW q, q = Append(p, m)
  PROVE  /\ q \in Seq(Messages) /\ Len(q) = Len(p) + 1 /\ Len(p) \in Nat
         /\ q[Len(p) + 1] = m /\ Len(p) + 1 \in DOMAIN q
         /\ \A i \in DOMAIN p : i \in DOMAIN q /\ q[i] = p[i]
         /\ \A i \in DOMAIN q : i \in DOMAIN p \/ i = Len(p) + 1
<1>1. q \in Seq(Messages) /\ Len(q) = Len(p) + 1 /\ Len(p) \in Nat /\ q[Len(p) + 1] = m
  OBVIOUS
<1>2. DOMAIN p = 1..Len(p) /\ DOMAIN q = 1..(Len(p) + 1)
  BY <1>1
<1>3. \A i \in DOMAIN p : q[i] = p[i]
  OBVIOUS
<1> QED BY <1>1, <1>2, <1>3

LEMMA PipeTakes ==
  ASSUME NEW p \in Seq(Messages), p # <<>>, NEW q, q = Tail(p)
  PROVE  /\ q \in Seq(Messages) /\ Head(p) = p[1] /\ 1 \in DOMAIN p
         /\ \A i \in DOMAIN q : i + 1 \in DOMAIN p /\ q[i] = p[i + 1] /\ i + 1 # 1
         /\ \A i \in DOMAIN p : i = 1 \/ (i - 1 \in DOMAIN q /\ q[i - 1] = p[i])
<1>1. /\ q \in Seq(Messages) /\ Len(q) = Len(p) - 1 /\ Len(p) \in Nat \ {0} /\ Head(p) = p[1]
      /\ \A i \in 1..Len(q) : q[i] = p[i + 1]
  OBVIOUS
<1>2. DOMAIN p = 1..Len(p) /\ DOMAIN q = 1..Len(q)
  BY <1>1
<1>3. \A i \in DOMAIN p : i = 1 \/ i - 1 \in DOMAIN q
  BY <1>1, <1>2
<1>4. ASSUME NEW i \in DOMAIN p, i # 1 PROVE q[i - 1] = p[i]
  <2>1. i - 1 \in 1..Len(q) /\ (i - 1) + 1 = i
    BY <1>1, <1>2, <1>3, <1>4
  <2> QED BY <1>1, <2>1
<1>5. \A i \in DOMAIN q : i + 1 \in DOMAIN p /\ i + 1 # 1
  BY <1>1, <1>2
<1> QED BY <1>1, <1>2, <1>3, <1>4, <1>5

LEMMA KindsDiffer ==
  ASSUME NEW m \in Messages
  PROVE  \/ m.kind = "live" /\ m.row \in Nat
         \/ m.kind = "page" /\ m.rows \in Seq(Entries) /\ m.more \in BOOLEAN
  BY DEF Messages

LEMMA QueryStages ==
  ASSUME NEW q \in Queries
  PROVE  \/ q = NoQuery /\ q.stage = "none"
         \/ q.stage = "asked" /\ q.before \in Nat
         \/ q.stage = "read" /\ q.rows \in Seq(Entries) /\ q.more \in BOOLEAN
  BY DEF Queries, NoQuery

-----------------------------------------------------------------------------
(* The steps.                                                                *)

LEMMA InspectorInitInv == InspectorInit => InspectorInv
<1> SUFFICES ASSUME InspectorInit PROVE InspectorInv
  OBVIOUS
<1>0. /\ log = [i \in 1..Backlog |-> FALSE] /\ unsent = {} /\ query = NoQuery /\ pipe = <<>>
      /\ status = "connecting" /\ bridge = FALSE
      /\ timeline = <<>> /\ canLoadOlder = FALSE /\ pending = "none" /\ buffered = <<>>
      /\ trimmedOlder = FALSE /\ trimmedNewer = FALSE /\ loaded = FALSE /\ overrun = FALSE
  BY DEF InspectorInit, InspectorFrom
<1>1. log \in Seq(BOOLEAN) /\ DOMAIN timeline = {} /\ Len(timeline) = 0 /\ timeline \in Seq(Entries)
      /\ buffered \in Seq(Entries) /\ DOMAIN buffered = {} /\ pipe \in Seq(Messages)
      /\ DOMAIN pipe = {}
  BY <1>0
<1>2. NoQuery \in Queries /\ NoQuery.stage = "none"
  BY DEF NoQuery, Queries
<1>3. InspectorTypeOK
  <2>1. unsent \subseteq 1..Len(log) /\ query \in Queries
    BY <1>0, <1>2
  <2>2. Len(timeline) <= WorkingSet
    BY <1>1
  <2>3. /\ status \in {"connecting", "open", "ready", "lost", "stopped"}
        /\ pending \in {"none", "older", "latest"}
    BY <1>0
  <2>4. /\ bridge \in BOOLEAN /\ canLoadOlder \in BOOLEAN /\ trimmedOlder \in BOOLEAN
        /\ trimmedNewer \in BOOLEAN /\ loaded \in BOOLEAN /\ overrun \in BOOLEAN
    BY <1>0
  <2>5. log \in Seq(BOOLEAN)
    BY <1>0, <1>1
  <2> QED BY <1>1, <2>1, <2>2, <2>3, <2>4, <2>5 DEF InspectorTypeOK
<1>4. OneRequest /\ Request /\ Beginning
  BY <1>0, <1>1, <1>2 DEF OneRequest, Request, Replies, Beginning, Unknown
<1>5. Header /\ InOrder
  BY <1>0, <1>1 DEF Header, InOrder, Unknown, Ordered, Gapless
<1>6. Complete /\ Offered
  BY <1>0 DEF Complete, Offered, Steady
<1> QED BY <1>3, <1>4, <1>5, <1>6 DEF InspectorInv

LEMMA OpenedInv == ASSUME InspectorInv, Opened PROVE InspectorInv'
<1>0. /\ status = "connecting" /\ status' = "open" /\ bridge' = FALSE
      /\ timeline' = <<>> /\ canLoadOlder' = FALSE /\ pending' = "none" /\ buffered' = <<>>
      /\ trimmedOlder' = FALSE /\ trimmedNewer' = FALSE /\ loaded' = FALSE /\ overrun' = FALSE
      /\ log' = log /\ unsent' = unsent /\ query' = query /\ pipe' = pipe
      /\ unsent = {} /\ query = NoQuery /\ pipe = <<>> /\ log \in Seq(BOOLEAN)
  BY DEF Opened, server, InspectorInv, InspectorTypeOK, Beginning
<1>1. /\ DOMAIN timeline' = {} /\ Len(timeline') = 0 /\ timeline' \in Seq(Entries)
      /\ buffered' \in Seq(Entries) /\ DOMAIN buffered' = {} /\ pipe' \in Seq(Messages)
      /\ DOMAIN pipe' = {}
  BY <1>0
<1>2. NoQuery \in Queries /\ NoQuery.stage = "none"
  BY DEF NoQuery, Queries
<1>3. InspectorTypeOK'
  <2>1. unsent' \subseteq 1..Len(log') /\ query' \in Queries
    BY <1>0, <1>2
  <2>2. Len(timeline') <= WorkingSet
    BY <1>1
  <2>3. /\ status' \in {"connecting", "open", "ready", "lost", "stopped"}
        /\ pending' \in {"none", "older", "latest"}
    BY <1>0
  <2>4. /\ bridge' \in BOOLEAN /\ canLoadOlder' \in BOOLEAN /\ trimmedOlder' \in BOOLEAN
        /\ trimmedNewer' \in BOOLEAN /\ loaded' \in BOOLEAN /\ overrun' \in BOOLEAN
    BY <1>0
  <2>5. log' \in Seq(BOOLEAN)
    BY <1>0, <1>1
  <2> QED BY <1>1, <2>1, <2>2, <2>3, <2>4, <2>5 DEF InspectorTypeOK
<1>4. OneRequest' /\ Request' /\ Beginning'
  BY <1>0, <1>1, <1>2 DEF OneRequest, Request, Replies, Beginning, Unknown
<1>5. Header' /\ InOrder'
  BY <1>0, <1>1 DEF Header, InOrder, Unknown, Ordered, Gapless
<1>6. Complete' /\ Offered'
  BY <1>0 DEF Complete, Offered, Steady
<1> QED BY <1>3, <1>4, <1>5, <1>6 DEF InspectorInv

\* Whatever ends a connection, and what follows it.
LEMMA ConnectionGoneInv ==
  ASSUME InspectorInv,
         status' \in {"lost", "stopped", "connecting"},
         unsent' = {}, query' = NoQuery, pipe' = <<>>,
         bridge' \in BOOLEAN, canLoadOlder' \in BOOLEAN, pending' \in {"none", "older", "latest"},
         buffered' \in {<<>>, buffered},
         UNCHANGED <<log, timeline, trimmedOlder, trimmedNewer, loaded, overrun>>
  PROVE  InspectorInv'
<1>1. pipe' \in Seq(Messages) /\ DOMAIN pipe' = {}
  OBVIOUS
<1>2. NoQuery \in Queries /\ NoQuery.stage = "none"
  BY DEF NoQuery, Queries
<1>3. buffered' \in Seq(Entries) /\ Unknown(buffered)'
      /\ \A i \in DOMAIN buffered' : buffered'[i].row \in 1..Len(log)
  <2>1. /\ buffered \in Seq(Entries) /\ Unknown(buffered)
        /\ \A i \in DOMAIN buffered : buffered[i].row \in 1..Len(log)
    BY DEF InspectorInv, InspectorTypeOK, Header
  <2>2. CASE buffered' = <<>>
    <3>1. DOMAIN <<>> = {} /\ <<>> \in Seq(Entries)
      OBVIOUS
    <3> QED BY <2>2, <3>1 DEF Unknown
  <2>3. CASE buffered' = buffered
    BY <2>1, <2>3 DEF Unknown
  <2> QED BY <2>2, <2>3
<1>4. InspectorTypeOK'
  BY <1>1, <1>2, <1>3 DEF InspectorInv, InspectorTypeOK
<1>5. OneRequest' /\ Request' /\ Beginning'
  BY <1>1, <1>2 DEF OneRequest, Request, Replies, Beginning
<1>6. Header' /\ InOrder'
  <2>1. Header'
    BY <1>1, <1>3 DEF InspectorInv, Header
  <2>2. InOrder'
    BY DEF InspectorInv, InOrder, Ordered, Gapless
  <2> QED BY <2>1, <2>2
<1>7. Complete' /\ Offered'
  BY DEF Complete, Offered, Steady
<1> QED BY <1>4, <1>5, <1>6, <1>7 DEF InspectorInv

LEMMA DisconnectedInv == ASSUME InspectorInv, Disconnected PROVE InspectorInv'
  BY ConnectionGoneInv DEF Disconnected, InspectorInv

LEMMA ConnectAgainInv == ASSUME InspectorInv, ConnectAgain PROVE InspectorInv'
  BY ConnectionGoneInv DEF ConnectAgain, InspectorInv, InspectorTypeOK, Beginning, server, screen

LEMMA LeaveInv == ASSUME InspectorInv, Leave PROVE InspectorInv'
  BY ConnectionGoneInv DEF Leave, InspectorInv, InspectorTypeOK, screen

LEMMA AcknowledgedInv == ASSUME InspectorInv, NEW granted \in BOOLEAN, Acknowledged(granted)
                         PROVE  InspectorInv'
<1>0. /\ status = "open" /\ status' = "ready" /\ bridge' = granted
      /\ query' = IF granted THEN [stage |-> "asked", before |-> 0] ELSE NoQuery
      /\ UNCHANGED <<log, unsent, pipe, timeline, canLoadOlder, pending, buffered, trimmedOlder,
                     trimmedNewer, loaded, overrun>>
      /\ pipe = <<>> /\ unsent = {} /\ ~loaded /\ pending = "none"
  BY DEF Acknowledged, screen, InspectorInv, Beginning
<1>1. DOMAIN pipe = {}
  BY <1>0
<1>2. query' \in Queries
  BY <1>0 DEF NoQuery, Queries
<1>3. InspectorTypeOK'
  BY <1>0, <1>2 DEF InspectorInv, InspectorTypeOK
<1>4. OneRequest'
  BY <1>0, <1>1 DEF OneRequest, Loading, NoQuery
<1>5. Request'
  BY <1>0, <1>1 DEF Request, Replies, NoQuery
<1>6. Beginning'
  BY <1>0 DEF InspectorInv, Beginning, Unknown
<1>7. Header'
  BY <1>0 DEF InspectorInv, Header, Unknown
<1>8. InOrder'
  BY <1>0 DEF InspectorInv, InOrder, Ordered, Gapless
<1>9. Complete' /\ Offered'
  BY <1>0 DEF Complete, Offered, Steady
<1> QED BY <1>3, <1>4, <1>5, <1>6, <1>7, <1>8, <1>9 DEF InspectorInv

\* Where the answers that are under way are found.
LEMMA ReplyIs ==
  ASSUME NEW m
  PROVE  m \in Replies <=> \/ \E i \in DOMAIN pipe : pipe[i].kind = "page" /\ m = pipe[i]
                           \/ query.stage = "read" /\ m = query
BY DEF Replies

LEMMA RepliesNeedLoading == ASSUME OneRequest, NEW m \in Replies PROVE Loading
BY ReplyIs, Zenon DEF OneRequest

LEMMA AnswersStay ==
  ASSUME NEW m, Answers(m), pending' = pending,
         Len(log) \in Nat, Len(log') \in Nat, Len(log) <= Len(log'),
         pending = "older" => \A b \in Nat : Continues(b) => Continues(b)',
         pending # "older" => \A r \in 1..Len(log) : log[r] /\ Kept(r) => Kept(r)',
         \A r \in 1..Len(log') : log'[r] => (r \in 1..Len(log) /\ log[r]) \/ Kept(r)'
  PROVE  Answers(m)'
<1>1. PICK last \in 0..Len(log) :
          /\ IsPage(m.rows, m.more, last)
          /\ IF pending = "older" THEN Continues(last + 1)
             ELSE /\ pending = "latest" => last > 0
                  /\ \A r \in (last + 1)..Len(log) : log[r] => Kept(r)
  BY DEF Answers
<1>2. last \in 0..Len(log') /\ last + 1 \in Nat
  OBVIOUS
<1>3. CASE pending = "older"
  <2>1. Continues(last + 1)'
    BY <1>1, <1>2, <1>3
  <2> QED BY <1>1, <1>2, <1>3, <2>1 DEF Answers
<1>4. CASE pending # "older"
  <2>1. ASSUME NEW r \in (last + 1)..Len(log'), log'[r] PROVE Kept(r)'
    <3>1. r \in 1..Len(log')
      BY <1>2
    <3>2. r \in 1..Len(log) => r \in (last + 1)..Len(log)
      BY <1>2
    <3> QED BY <1>1, <1>4, <2>1, <3>1, <3>2
  <2>2. pending = "latest" => last > 0
    BY <1>1, <1>4
  <2> QED BY <1>1, <1>2, <1>4, <2>1, <2>2 DEF Answers
<1> QED BY <1>3, <1>4

\* The daemon's steps, which leave the screen alone.
LEMMA ServerStepInv ==
  ASSUME InspectorInv, UNCHANGED <<status, bridge, screen>>,
         InspectorTypeOK', OneRequest',
         Len(log) \in Nat, Len(log') \in Nat, Len(log) <= Len(log'),
         \A r \in 1..Len(log) : log'[r] = log[r],
         status # "ready" => unsent' = {} /\ query' = NoQuery /\ pipe' = <<>>,
         \A r \in 1..Len(log) : OnTheWay(r) => OnTheWay(r)',
         \A r \in 1..Len(log') : log'[r] /\ status = "ready" => r \in 1..Len(log) \/ OnTheWay(r)',
         \A i \in DOMAIN pipe' : pipe'[i].kind = "live" => pipe'[i].row \in 1..Len(log'),
         query'.stage = "asked" => query' = query,
         \A m \in Replies' : m \in Replies \/ Answers(m)'
  PROVE  InspectorInv'
<1>0. UNCHANGED <<status, bridge, timeline, canLoadOlder, pending, buffered, trimmedOlder,
                  trimmedNewer, loaded, overrun>>
  BY DEF screen
<1>1. \A b \in Nat : Continues(b) => Continues(b)'
  BY <1>0 DEF Continues
<1>2. \A r \in 1..Len(log) : Kept(r) => Kept(r)'
  BY <1>0 DEF Kept, RowsIn
<1>3. Request'
  <2>1. Request
    BY DEF InspectorInv
  <2>2. ASSUME NEW m \in Replies' PROVE Answers(m)'
    <3>1. CASE m \in Replies
      <4>1. Answers(m) /\ status = "ready"
        BY <2>1, <3>1, RepliesNeedLoading DEF Request, InspectorInv, Loading
      <4>2. ASSUME NEW r \in 1..Len(log'), log'[r] PROVE (r \in 1..Len(log) /\ log[r]) \/ Kept(r)'
        BY <4>1, <4>2 DEF Kept
      <4> QED BY <1>0, <1>1, <1>2, <4>1, <4>2, AnswersStay
    <3> QED BY <3>1
  <2>3. ASSUME query'.stage = "asked"
        PROVE  IF pending' = "older" THEN query'.before \in 1..Len(log') /\ Continues(query.before)'
               ELSE query'.before = 0 /\ (pending' = "latest" => Len(log') > 0)
    <3>1. query' = query /\ query.stage = "asked"
      BY <2>3
    <3>2. CASE pending = "older"
      <4>1. query.before \in 1..Len(log) /\ Continues(query.before)
        BY <2>1, <3>1, <3>2 DEF Request
      <4> QED BY <1>0, <3>1, <3>2, <4>1 DEF Continues
    <3>3. CASE pending # "older"
      BY <1>0, <2>1, <3>1, <3>3 DEF Request
    <3> QED BY <1>0, <3>2, <3>3
  <2> QED BY <2>2, <2>3 DEF Request
<1>4. Beginning'
  <2>1. status' # "ready" => unsent' = {} /\ query' = NoQuery /\ pipe' = <<>>
    BY <1>0
  <2> QED BY <1>0, <2>1 DEF InspectorInv, Beginning, Unknown
<1>5. Header'
  <2>1. Header
    BY DEF InspectorInv
  <2>2. \A i \in DOMAIN timeline' : timeline'[i].row \in 1..Len(log')
    BY <1>0, <2>1 DEF Header
  <2>3. trimmedNewer' => Len(log') > 0
    BY <1>0, <2>1 DEF Header
  <2>4. \A i \in DOMAIN buffered' : buffered'[i].row \in 1..Len(log')
    BY <1>0, <2>1 DEF Header
  <2> QED BY <1>0, <2>1, <2>2, <2>3, <2>4 DEF Header, Unknown
<1>6. InOrder'
  BY <1>0 DEF InspectorInv, InOrder, Ordered, Gapless
<1>7. Complete'
  <2> SUFFICES ASSUME Steady, ~trimmedNewer, NEW r \in DOMAIN log', log'[r]
               PROVE  r \in Listed \/ OnTheWay(r)' \/ r < Oldest(timeline)
    BY <1>0 DEF Complete, Steady, Listed
  <2>1. Complete /\ status = "ready"
    BY DEF InspectorInv, Steady
  <2>2. DOMAIN log = 1..Len(log) /\ DOMAIN log' = 1..Len(log')
    BY DEF InspectorInv, InspectorTypeOK
  <2> QED BY <2>1, <2>2 DEF Complete
<1>8. Offered'
  BY <1>0 DEF InspectorInv, Offered, Steady
<1> QED BY <1>3, <1>4, <1>5, <1>6, <1>7, <1>8 DEF InspectorInv

LEMMA RecordInv == ASSUME InspectorInv, NEW live \in BOOLEAN, Record(live) PROVE InspectorInv'
<1>0. /\ log' = Append(log, live)
      /\ unsent' = (IF live /\ status = "ready" THEN unsent \cup {Len(log')} ELSE unsent)
      /\ UNCHANGED <<query, pipe, status, bridge, screen>>
  BY DEF Record
<1>1. /\ log \in Seq(BOOLEAN) /\ log' \in Seq(BOOLEAN) /\ Len(log) \in Nat /\ Len(log') = Len(log) + 1
      /\ \A r \in 1..Len(log) : log'[r] = log[r]
      /\ log'[Len(log')] = live
  <2>1. log \in Seq(BOOLEAN)
    BY DEF InspectorInv, InspectorTypeOK
  <2>2. log' \in Seq(BOOLEAN) /\ Len(log) \in Nat /\ Len(log') = Len(log) + 1
    BY <1>0, <2>1
  <2>3. \A r \in 1..Len(log) : log'[r] = log[r]
    BY <1>0, <2>1
  <2>4. log'[Len(log) + 1] = live
    BY <1>0, <2>1
  <2> QED BY <2>1, <2>2, <2>3, <2>4
<1>2. InspectorTypeOK'
  <2>1. unsent' \subseteq 1..Len(log')
    <3>1. \A r \in unsent : r \in 1..Len(log)
      BY DEF InspectorInv, InspectorTypeOK
    <3>2. \A r \in unsent' : r \in unsent \/ r = Len(log')
      BY <1>0
    <3>3. \A r \in 1..Len(log) : r \in 1..Len(log')
      BY <1>1
    <3>4. Len(log') \in 1..Len(log')
      BY <1>1
    <3> QED BY <3>1, <3>2, <3>3, <3>4
  <2> QED BY <1>0, <1>1, <2>1 DEF InspectorInv, InspectorTypeOK, screen
<1>3. OneRequest'
  BY <1>0 DEF InspectorInv, OneRequest, Loading, screen
<1>4. status # "ready" => unsent' = {} /\ query' = NoQuery /\ pipe' = <<>>
  BY <1>0 DEF InspectorInv, Beginning
<1>5. \A r \in 1..Len(log) : OnTheWay(r) => OnTheWay(r)'
  BY <1>0 DEF OnTheWay
<1>6. \A r \in 1..Len(log') : log'[r] /\ status = "ready" => r \in 1..Len(log) \/ OnTheWay(r)'
  <2> SUFFICES ASSUME NEW r \in 1..Len(log'), log'[r], status = "ready", r \notin 1..Len(log)
               PROVE  r \in unsent'
    BY DEF OnTheWay
  <2>1. r = Len(log')
    BY <1>1
  <2>2. live
    BY <1>1, <2>1
  <2> QED BY <1>0, <2>1, <2>2
<1>7. \A i \in DOMAIN pipe' : pipe'[i].kind = "live" => pipe'[i].row \in 1..Len(log')
  BY <1>0, <1>1 DEF InspectorInv, Header
<1>8. Replies' = Replies
  BY <1>0 DEF Replies
<1>9. Len(log') \in Nat /\ Len(log) <= Len(log') /\ query' = query
  BY <1>0, <1>1
<1> QED BY <1>0, <1>1, <1>2, <1>3, <1>4, <1>5, <1>6, <1>7, <1>8, <1>9, ServerStepInv

\* The steps that leave the log alone.
LEMMA QuietStepInv ==
  ASSUME InspectorInv, UNCHANGED <<log, status, bridge, screen>>,
         InspectorTypeOK', OneRequest', status = "ready",
         \A r \in Nat : OnTheWay(r) => OnTheWay(r)',
         \A i \in DOMAIN pipe' : pipe'[i].kind = "live" => pipe'[i].row \in 1..Len(log),
         query'.stage = "asked" => query' = query,
         \A m \in Replies' : m \in Replies \/ Answers(m)'
  PROVE  InspectorInv'
<1>1. Len(log) \in Nat /\ Len(log') = Len(log)
  BY DEF InspectorInv, InspectorTypeOK
<1> QED BY <1>1, ServerStepInv

LEMMA BroadcastRowInv == ASSUME InspectorInv, NEW row \in 1..MaxRows, BroadcastRow(row)
                         PROVE  InspectorInv'
<1> DEFINE message == [kind |-> "live", row |-> row]
<1>0. /\ row \in unsent /\ unsent' = unsent \ {row} /\ pipe' = Append(pipe, message)
      /\ UNCHANGED <<log, query, status, bridge, screen>>
  BY DEF BroadcastRow
<1>1. /\ status = "ready" /\ row \in 1..Len(log) /\ row \in Nat /\ pipe \in Seq(Messages)
  BY <1>0 DEF InspectorInv, InspectorTypeOK, Beginning
<1>2. message \in Messages /\ message.kind = "live" /\ message.row = row
  BY <1>1 DEF Messages
<1> HIDE DEF message
<1>3. /\ pipe' \in Seq(Messages) /\ \A i \in DOMAIN pipe : i \in DOMAIN pipe' /\ pipe'[i] = pipe[i]
      /\ \E i \in DOMAIN pipe' : pipe'[i] = message
      /\ \A i \in DOMAIN pipe' : i \in DOMAIN pipe \/ pipe'[i] = message
  BY <1>0, <1>1, <1>2, PipeAdds
<1>4. InspectorTypeOK'
  BY <1>0, <1>3 DEF InspectorInv, InspectorTypeOK, screen
<1>5. OneRequest'
  BY <1>0, <1>2, <1>3 DEF InspectorInv, OneRequest, Loading, screen
<1>6. \A r \in Nat : OnTheWay(r) => OnTheWay(r)'
  BY <1>0, <1>2, <1>3 DEF OnTheWay
<1>7. \A i \in DOMAIN pipe' : pipe'[i].kind = "live" => pipe'[i].row \in 1..Len(log)
  BY <1>1, <1>2, <1>3 DEF InspectorInv, Header
<1>8. ASSUME NEW m \in Replies' PROVE m \in Replies
  BY <1>0, <1>2, <1>3 DEF Replies
<1> QED BY <1>0, <1>1, <1>4, <1>5, <1>6, <1>7, <1>8, QuietStepInv

\* The daemon's page is the one that ends before the row asked for.
LEMMA ReadPageInv == ASSUME InspectorInv, ReadPage PROVE InspectorInv'
<1> DEFINE end == IF query.before = 0 THEN Len(log) ELSE query.before - 1
<1>0. query.stage = "asked" /\ UNCHANGED <<log, unsent, pipe, status, bridge, screen>>
  BY DEF ReadPage
<1>1. query' = [stage |-> "read", more |-> First(end) > 1, rows |-> Rows(end)]
  BY DEF ReadPage, First, Rows
<1>2. Request /\ Loading /\ status = "ready" /\ Len(log) \in Nat
  BY <1>0 DEF InspectorInv, InspectorTypeOK, OneRequest, Loading
<1>3. PICK last \in 0..Len(log) :
         /\ last = end
         /\ IF pending = "older" THEN Continues(last + 1) ELSE last = Len(log)
         /\ pending = "latest" => last > 0
  <2>1. CASE pending = "older"
    <3>1. query.before \in 1..Len(log) /\ Continues(query.before)
      BY <1>0, <1>2, <2>1 DEF Request
    <3>2. end \in 0..Len(log) /\ end + 1 = query.before
      BY <1>2, <3>1
    <3> QED BY <2>1, <3>1, <3>2
  <2>2. CASE pending # "older"
    BY <1>0, <1>2, <2>2 DEF Request
  <2> QED BY <2>1, <2>2
<1> DEFINE answer == [stage |-> "read", more |-> First(last) > 1, rows |-> Rows(last)]
<1>r. query' = answer
  BY <1>1, <1>3
<1> HIDE DEF end
<1>4. /\ answer.stage = "read" /\ answer.rows = Rows(last) /\ answer.more = (First(last) > 1)
      /\ IsPage(answer.rows, answer.more, last)
  BY DEF IsPage
<1>5. answer \in Queries
  <2>1. Rows(last) \in Seq(Entries) /\ (First(last) > 1) \in BOOLEAN
    BY <1>2, <1>3, PageShape
  <2> QED BY <2>1 DEF Queries
<1> HIDE DEF answer
<1>6. InspectorTypeOK'
  BY <1>0, <1>r, <1>5 DEF InspectorInv, InspectorTypeOK, screen
<1>7. OneRequest'
  BY <1>0, <1>r, <1>4 DEF InspectorInv, OneRequest, Loading, screen
<1>8. ASSUME NEW m \in Replies' PROVE m \in Replies \/ Answers(m)'
  <2>1. CASE m = query'
    <3>1. pending' = pending /\ log' = log
      BY <1>0 DEF screen
    <3>2. m.rows = Rows(last) /\ IsPage(m.rows, m.more, last)
      BY <1>r, <1>4, <2>1
    <3>3. pending = "older" => Continues(last + 1)'
      BY <1>0, <1>3 DEF Continues, screen
    <3>4. pending # "older" => (last + 1)..Len(log) = {}
      BY <1>2, <1>3
    <3> QED BY <1>3, <3>1, <3>2, <3>3, <3>4 DEF Answers
  <2>2. CASE m # query'
    BY <1>0, <2>2 DEF Replies
  <2> QED BY <2>1, <2>2
<1>9. \A r \in Nat : OnTheWay(r) => OnTheWay(r)'
  BY <1>0 DEF OnTheWay
<1>10. \A i \in DOMAIN pipe' : pipe'[i].kind = "live" => pipe'[i].row \in 1..Len(log)
  BY <1>0 DEF InspectorInv, Header
<1>11. query'.stage # "asked"
  BY <1>r, <1>4
<1> QED BY <1>0, <1>2, <1>6, <1>7, <1>8, <1>9, <1>10, <1>11, QuietStepInv

LEMMA AnswerInv == ASSUME InspectorInv, Answer PROVE InspectorInv'
<1> DEFINE message == [kind |-> "page", rows |-> query.rows, more |-> query.more]
<1>0. /\ query.stage = "read" /\ pipe' = Append(pipe, message) /\ query' = NoQuery
      /\ UNCHANGED <<log, unsent, status, bridge, screen>>
  BY DEF Answer
<1>1. /\ Loading /\ status = "ready" /\ pipe \in Seq(Messages) /\ query \in Queries
      /\ \A i \in DOMAIN pipe : pipe[i].kind = "live"
  BY <1>0 DEF InspectorInv, InspectorTypeOK, OneRequest, Loading
<1>2. /\ message \in Messages /\ message.kind = "page"
      /\ message.rows = query.rows /\ message.more = query.more
  <2>1. query.rows \in Seq(Entries) /\ query.more \in BOOLEAN
    BY <1>0, <1>1, QueryStages DEF NoQuery
  <2> QED BY <2>1 DEF Messages
<1> HIDE DEF message
<1>3. /\ pipe' \in Seq(Messages) /\ \A i \in DOMAIN pipe : i \in DOMAIN pipe' /\ pipe'[i] = pipe[i]
      /\ \A i \in DOMAIN pipe' : i \in DOMAIN pipe \/ (i = Len(pipe) + 1 /\ pipe'[i] = message)
  BY <1>0, <1>1, <1>2, PipeAdds
<1>4. NoQuery \in Queries /\ NoQuery.stage = "none"
  BY DEF NoQuery, Queries
<1>5. InspectorTypeOK'
  BY <1>0, <1>3, <1>4 DEF InspectorInv, InspectorTypeOK, screen
<1>6. OneRequest'
  <2>1. Loading'
    BY <1>0, <1>1 DEF Loading, screen
  <2> QED BY <1>0, <1>1, <1>3, <1>4, <2>1 DEF OneRequest
<1>7. \A r \in Nat : OnTheWay(r) => OnTheWay(r)'
  BY <1>0, <1>3 DEF OnTheWay
<1>8. \A i \in DOMAIN pipe' : pipe'[i].kind = "live" => pipe'[i].row \in 1..Len(log)
  BY <1>2, <1>3 DEF InspectorInv, Header
<1>9. ASSUME NEW m \in Replies' PROVE Answers(m)'
  <2>1. m = message
    BY <1>0, <1>1, <1>3, <1>4 DEF Replies
  <2>2. Answers(query)
    BY <1>0, ReplyIs DEF InspectorInv, Request
  <2>3. PICK last \in 0..Len(log) :
          /\ IsPage(query.rows, query.more, last)
          /\ IF pending = "older" THEN Continues(last + 1)
             ELSE /\ pending = "latest" => last > 0
                  /\ \A r \in (last + 1)..Len(log) : log[r] => Kept(r)
    BY <2>2 DEF Answers
  <2>4. pending' = pending /\ log' = log /\ timeline' = timeline /\ overrun' = overrun
        /\ buffered' = buffered /\ trimmedOlder' = trimmedOlder
    BY <1>0 DEF screen
  <2>5. IsPage(m.rows, m.more, last)
    BY <1>2, <2>1, <2>3
  <2>6. pending = "older" => Continues(last + 1)'
    BY <2>3, <2>4 DEF Continues
  <2>7. pending # "older" => \A r \in (last + 1)..Len(log) : log[r] => Kept(r)'
    <3>1. \A r \in (last + 1)..Len(log) : r \in Nat
      OBVIOUS
    <3>2. \A r \in Nat : Kept(r) => Kept(r)'
      BY <1>7, <2>4 DEF Kept, RowsIn
    <3> QED BY <2>3, <3>1, <3>2
  <2> QED BY <2>3, <2>4, <2>5, <2>6, <2>7 DEF Answers
<1>10. query'.stage # "asked"
  BY <1>0, <1>4
<1> QED BY <1>0, <1>1, <1>5, <1>6, <1>7, <1>8, <1>9, <1>10, QuietStepInv

\* Once the first page has come and nothing is pending, nothing was asked for.
LEMMA NothingAsked ==
  ASSUME InspectorInv, loaded, pending = "none"
  PROVE  /\ query = NoQuery /\ Replies = {} /\ \A i \in DOMAIN pipe : pipe[i].kind = "live"
<1>1. ~Loading
  BY DEF Loading
<1>2. query.stage = "none" /\ \A i \in DOMAIN pipe : pipe[i].kind # "page"
  BY <1>1 DEF InspectorInv, OneRequest
<1>3. query = NoQuery
  BY <1>2, QueryStages DEF InspectorInv, InspectorTypeOK
<1>4. \A i \in DOMAIN pipe : pipe[i] \in Messages
  BY DEF InspectorInv, InspectorTypeOK
<1>5. \A i \in DOMAIN pipe : pipe[i].kind = "live"
  BY <1>2, <1>4, KindsDiffer
<1>6. Replies = {}
  BY <1>2 DEF Replies
<1> QED BY <1>3, <1>5, <1>6

\* The user's requests.
LEMMA RequestInv ==
  ASSUME InspectorInv, status = "ready", bridge, loaded, pending = "none",
         pending' \in {"older", "latest"},
         NEW before, query' = [stage |-> "asked", before |-> before], before \in Nat,
         IF pending' = "older" THEN before \in 1..Len(log) /\ Continues(before)
                               ELSE before = 0 /\ Len(log) > 0,
         buffered' \in {<<>>, buffered},
         UNCHANGED <<log, unsent, pipe, status, bridge, timeline, canLoadOlder,
                     trimmedOlder, trimmedNewer, loaded, overrun>>
  PROVE  InspectorInv'
<1>1. query' \in Queries /\ query'.stage = "asked" /\ query'.before = before
  BY DEF Queries
<1>2. buffered' \in Seq(Entries) /\ Unknown(buffered)'
      /\ \A i \in DOMAIN buffered' : buffered'[i].row \in 1..Len(log)
  <2>1. /\ buffered \in Seq(Entries) /\ Unknown(buffered)
        /\ \A i \in DOMAIN buffered : buffered[i].row \in 1..Len(log)
    BY DEF InspectorInv, InspectorTypeOK, Header
  <2>2. CASE buffered' = <<>>
    <3>1. DOMAIN <<>> = {} /\ <<>> \in Seq(Entries)
      OBVIOUS
    <3> QED BY <2>2, <3>1 DEF Unknown
  <2>3. CASE buffered' = buffered
    BY <2>1, <2>3 DEF Unknown
  <2> QED BY <2>2, <2>3
<1>3. InspectorTypeOK'
  BY <1>1, <1>2 DEF InspectorInv, InspectorTypeOK
<1>4. /\ \A i \in DOMAIN pipe : pipe[i].kind = "live"
  BY NothingAsked
<1>5. OneRequest'
  <2>1. Loading'
    BY DEF Loading
  <2> QED BY <1>4, <2>1 DEF OneRequest
<1>6. Request'
  <2>1. Replies' = {}
    BY <1>1, <1>4 DEF Replies
  <2>2. IF pending' = "older" THEN query'.before \in 1..Len(log') /\ Continues(query.before)'
        ELSE query'.before = 0 /\ Len(log') > 0
    BY <1>1 DEF Continues
  <2> QED BY <2>1, <2>2 DEF Request
<1>7. Beginning'
  BY DEF InspectorInv, Beginning
<1>8. Header'
  BY <1>2 DEF InspectorInv, Header
<1>9. InOrder'
  BY DEF InspectorInv, InOrder, Ordered, Gapless
<1>10. Complete'
  BY DEF InspectorInv, Complete, Steady, Listed, OnTheWay
<1>11. Offered'
  BY DEF InspectorInv, Offered, Steady
<1> QED BY <1>3, <1>5, <1>6, <1>7, <1>8, <1>9, <1>10, <1>11 DEF InspectorInv

\* The row an older page is asked for by is the oldest of the list.
LEMMA LoadOlderInv == ASSUME InspectorInv, LoadOlder PROVE InspectorInv'
<1>0. /\ status = "ready" /\ bridge /\ pending = "none" /\ canLoadOlder /\ Oldest(timeline) # 0
      /\ pending' = "older" /\ query' = [stage |-> "asked", before |-> Oldest(timeline)]
      /\ UNCHANGED <<log, unsent, pipe, status, bridge, timeline, canLoadOlder, buffered,
                     trimmedOlder, trimmedNewer, loaded, overrun>>
  BY DEF LoadOlder
<1>1. loaded /\ timeline \in Seq(Entries) /\ Ordered(timeline)
      /\ \A i \in DOMAIN timeline : timeline[i].row \in 1..Len(log)
  BY <1>0 DEF InspectorInv, InspectorTypeOK, Beginning, InOrder, Header
<1>2. Oldest(timeline) \in 1..Len(log)
  BY <1>0, <1>1, OldestOrNone
<1>3. Oldest(timeline) \in Nat
  BY <1>2
<1>4. Continues(Oldest(timeline))
  <2>1. ASSUME NEW i \in DOMAIN timeline, timeline[i].known PROVE timeline[i].row >= Oldest(timeline)
    <3>1. Oldest(timeline) <= timeline[i].row
      BY <1>1, <2>1, OldestIsLeast
    <3>2. timeline[i].row \in Nat
      BY <1>1
    <3> QED BY <1>3, <3>1, <3>2
  <2> QED BY <2>1 DEF Continues
<1> QED BY <1>0, <1>1, <1>2, <1>3, <1>4, RequestInv

LEMMA JumpToLatestInv == ASSUME InspectorInv, JumpToLatest PROVE InspectorInv'
<1>0. /\ status = "ready" /\ bridge /\ pending = "none" /\ trimmedNewer
      /\ pending' = "latest" /\ buffered' = <<>>
      /\ query' = [stage |-> "asked", before |-> 0]
      /\ UNCHANGED <<log, unsent, pipe, status, bridge, timeline, canLoadOlder,
                     trimmedOlder, trimmedNewer, loaded, overrun>>
  BY DEF JumpToLatest
<1>1. loaded /\ Len(log) > 0
  BY <1>0 DEF InspectorInv, Beginning, Header
<1> QED BY <1>0, <1>1, RequestInv

\* What the first message of the queue is, and what stays behind it.
LEMMA Taken ==
  ASSUME InspectorInv, pipe # <<>>, pipe' = Tail(pipe), UNCHANGED <<log, unsent, query>>
  PROVE  /\ pipe' \in Seq(Messages) /\ status = "ready" /\ Head(pipe) \in Messages
         /\ \A r \in Nat : OnTheWay(r) => \/ OnTheWay(r)'
                                          \/ Head(pipe).kind = "live" /\ r = Head(pipe).row
         /\ \A m \in Replies' : m \in Replies
         /\ \A i \in DOMAIN pipe' : pipe'[i].kind = "live" => pipe'[i].row \in 1..Len(log)
         /\ \A i \in DOMAIN pipe' : \E k \in DOMAIN pipe : pipe'[i] = pipe[k]
         /\ \A i, j \in DOMAIN pipe' : pipe'[i].kind = "page" /\ pipe'[j].kind = "page" => i = j
         /\ Head(pipe).kind = "live" => Head(pipe).row \in 1..Len(log)
         /\ Head(pipe).kind = "page" =>
              /\ Head(pipe) \in Replies /\ Loading /\ query = NoQuery /\ Replies' = {}
              /\ \A i \in DOMAIN pipe' : pipe'[i].kind = "live"
<1>1. pipe \in Seq(Messages) /\ query \in Queries
  BY DEF InspectorInv, InspectorTypeOK
<1>2. /\ pipe' \in Seq(Messages) /\ Head(pipe) = pipe[1] /\ 1 \in DOMAIN pipe
      /\ \A i \in DOMAIN pipe' : i + 1 \in DOMAIN pipe /\ pipe'[i] = pipe[i + 1] /\ i + 1 # 1
      /\ \A i \in DOMAIN pipe : i = 1 \/ (i - 1 \in DOMAIN pipe' /\ pipe'[i - 1] = pipe[i])
  BY <1>1, PipeTakes
<1>3. status = "ready" /\ OneRequest
  BY DEF InspectorInv, Beginning
<1>4. \A r \in Nat : OnTheWay(r) => OnTheWay(r)' \/ (Head(pipe).kind = "live" /\ r = Head(pipe).row)
  <2> SUFFICES ASSUME NEW r \in Nat, OnTheWay(r), ~OnTheWay(r)'
               PROVE  Head(pipe).kind = "live" /\ r = Head(pipe).row
    OBVIOUS
  <2>1. PICK i \in DOMAIN pipe : pipe[i].kind = "live" /\ pipe[i].row = r
    BY DEF OnTheWay
  <2>2. i = 1
    BY <1>2, <2>1 DEF OnTheWay
  <2> QED BY <1>2, <2>1, <2>2
<1>5. \A m \in Replies' : m \in Replies
  BY <1>2 DEF Replies
<1>6. /\ \A i \in DOMAIN pipe' : pipe'[i].kind = "live" => pipe'[i].row \in 1..Len(log)
      /\ Head(pipe).kind = "live" => Head(pipe).row \in 1..Len(log)
  BY <1>2 DEF InspectorInv, Header
<1>7. \A i, j \in DOMAIN pipe' : pipe'[i].kind = "page" /\ pipe'[j].kind = "page" => i = j
  <2> SUFFICES ASSUME NEW i \in DOMAIN pipe', NEW j \in DOMAIN pipe',
                      pipe'[i].kind = "page", pipe'[j].kind = "page"
               PROVE  i = j
    OBVIOUS
  <2>1. i + 1 = j + 1
    BY <1>2, <1>3 DEF OneRequest
  <2>2. i \in Nat /\ j \in Nat
    BY <1>2
  <2> QED BY <2>1, <2>2
<1>8. ASSUME Head(pipe).kind = "page"
      PROVE  /\ Head(pipe) \in Replies /\ Loading /\ query = NoQuery /\ Replies' = {}
             /\ \A i \in DOMAIN pipe' : pipe'[i].kind = "live"
  <2>1. Head(pipe) \in Replies /\ Loading
    BY <1>2, <1>3, <1>8, ReplyIs DEF OneRequest
  <2>2. query.stage = "none"
    BY <1>2, <1>3, <1>8 DEF OneRequest
  <2>3. query = NoQuery
    BY <1>1, <2>2, QueryStages
  <2>4. \A i \in DOMAIN pipe' : pipe'[i].kind # "page" /\ pipe'[i] \in Messages
    BY <1>1, <1>2, <1>3, <1>8 DEF OneRequest
  <2>5. \A i \in DOMAIN pipe' : pipe'[i].kind = "live"
    BY <2>4, KindsDiffer
  <2>6. Replies' = {}
    BY <2>2, <2>4 DEF Replies
  <2> QED BY <2>1, <2>3, <2>5, <2>6
<1>9. Head(pipe) \in Messages
  BY <1>1, <1>2
<1> QED BY <1>2, <1>3, <1>4, <1>5, <1>6, <1>7, <1>8, <1>9

\* A live message, listed or kept for later.
LEMMA LiveInv ==
  ASSUME InspectorInv, pipe # <<>>, Head(pipe).kind = "live", pipe' = Tail(pipe),
         UNCHANGED <<log, unsent, query, status, bridge, canLoadOlder, pending, trimmedNewer, loaded>>,
         NEW row \in 1..Len(log), row = Head(pipe).row,
         timeline' \in Seq(Entries), Len(timeline') <= WorkingSet,
         buffered' \in Seq(Entries), Unknown(buffered'), RowsIn(buffered') \subseteq 1..Len(log),
         trimmedOlder' \in BOOLEAN, overrun' \in BOOLEAN,
         overrun => overrun', trimmedOlder => trimmedOlder', overrun' => trimmedOlder',
         RowsIn(timeline') \subseteq 1..Len(log),
         \A i \in DOMAIN timeline' : timeline'[i].known =>
            \E k \in DOMAIN timeline : timeline'[i] = timeline[k],
         Ordered(timeline'), Gapless(timeline) => Gapless(timeline'),
         ~trimmedOlder' => /\ Oldest(timeline') = Oldest(timeline)
                           /\ RowsIn(timeline) \subseteq RowsIn(timeline')
                           /\ pending # "latest" => row \in RowsIn(timeline'),
         pending = "older" /\ ~overrun' => Oldest(timeline') = Oldest(timeline),
         pending = "latest" =>
            \/ Len(buffered') >= WorkingSet
            \/ /\ RowsIn(buffered) \cup {row} \subseteq RowsIn(buffered')
               /\ ~(Len(buffered) >= WorkingSet)
  PROVE  InspectorInv'
<1>1. /\ pipe' \in Seq(Messages) /\ status = "ready"
      /\ \A r \in Nat : OnTheWay(r) => OnTheWay(r)' \/ r = row
      /\ \A m \in Replies' : m \in Replies
      /\ \A i \in DOMAIN pipe' : pipe'[i].kind = "live" => pipe'[i].row \in 1..Len(log)
      /\ \A i \in DOMAIN pipe' : \E k \in DOMAIN pipe : pipe'[i] = pipe[k]
      /\ \A i, j \in DOMAIN pipe' : pipe'[i].kind = "page" /\ pipe'[j].kind = "page" => i = j
  BY Taken
<1>2. InspectorTypeOK'
  BY <1>1 DEF InspectorInv, InspectorTypeOK
<1>3. OneRequest'
  <2>1. Loading' = Loading
    BY DEF Loading
  <2> QED BY <1>1, <2>1 DEF InspectorInv, OneRequest
<1>4. \A b \in Nat : pending = "older" /\ Continues(b) => Continues(b)'
  BY DEF Continues
<1>5. ASSUME NEW r \in 1..Len(log), Kept(r) PROVE Kept(r)'
  <2>0. OnTheWay(r) => OnTheWay(r)' \/ r = row
    BY <1>1
  <2>1. CASE pending = "latest"
    BY <1>5, <2>0, <2>1 DEF Kept
  <2>2. CASE pending # "latest"
    BY <1>5, <2>0, <2>2 DEF Kept
  <2> QED BY <2>1, <2>2
<1>6. Request'
  <2>1. Request /\ Len(log) \in Nat
    BY DEF InspectorInv, InspectorTypeOK
  <2>2. ASSUME NEW m \in Replies' PROVE Answers(m)'
    <3>1. Answers(m)
      BY <1>1, <2>1 DEF Request
    <3> QED BY <1>4, <1>5, <2>1, <3>1, AnswersStay
  <2>3. ASSUME query.stage = "asked", pending = "older"
        PROVE  query.before \in 1..Len(log) /\ Continues(query.before)'
    <3>1. query.before \in 1..Len(log) /\ Continues(query.before)
      BY <2>1, <2>3 DEF Request
    <3> QED BY <2>3, <3>1 DEF Continues
  <2>4. query.stage = "asked" /\ pending # "older" =>
           query.before = 0 /\ (pending = "latest" => Len(log) > 0)
    BY <2>1 DEF Request
  <2> QED BY <2>2, <2>3, <2>4 DEF Request
<1>7. Beginning'
  <2>1. ~loaded => Unknown(timeline')
    BY <1>1 DEF InspectorInv, Beginning, Unknown
  <2> QED BY <1>1, <2>1 DEF InspectorInv, Beginning
<1>8. Header'
  <2>1. \A i \in DOMAIN timeline' : timeline'[i].row \in 1..Len(log)
    BY DEF RowsIn
  <2>2. \A i \in DOMAIN buffered' : buffered'[i].row \in 1..Len(log)
    BY DEF RowsIn
  <2> QED BY <1>1, <2>1, <2>2 DEF InspectorInv, Header
<1>9. InOrder'
  BY DEF InspectorInv, InOrder
<1>10. Complete'
  <2> SUFFICES ASSUME Steady', ~trimmedNewer, NEW r \in DOMAIN log, log[r]
               PROVE  r \in Listed' \/ OnTheWay(r)' \/ r < Oldest(timeline')
    BY DEF Complete
  <2>1. Steady /\ ~trimmedOlder' /\ pending # "latest"
    BY DEF Steady
  <2>2. r \in Listed \/ OnTheWay(r) \/ r < Oldest(timeline)
    BY <2>1 DEF InspectorInv, Complete
  <2>3. Listed = RowsIn(timeline) /\ Listed' = RowsIn(timeline')
    BY DEF Listed, RowsIn
  <2>4. r \in Nat
    BY DEF InspectorInv, InspectorTypeOK
  <2> QED BY <1>1, <2>1, <2>2, <2>3, <2>4
<1>11. Offered'
  BY DEF InspectorInv, Offered, Steady
<1> QED BY <1>2, <1>3, <1>6, <1>7, <1>8, <1>9, <1>10, <1>11 DEF InspectorInv

LEMMA OneUnknown ==
  ASSUME NEW row \in Nat, NEW one, one = <<Entry(row, FALSE)>>
  PROVE  /\ one \in Seq(Entries) /\ Unknown(one) /\ RowsIn(one) = {row} /\ Len(one) = 1
         /\ Ordered(one)
<1>1. Entry(row, FALSE) \in Entries /\ Entry(row, FALSE).row = row /\ Entry(row, FALSE).known = FALSE
  BY DEF Entry, Entries
<1> DEFINE e == Entry(row, FALSE)
<1> HIDE DEF e
<1>2. one = <<e>> /\ e \in Entries /\ e.row = row /\ ~e.known
  BY <1>1 DEF e
<1>3. one \in Seq(Entries) /\ Len(one) = 1 /\ DOMAIN one = {1} /\ one[1] = e
  <2>1. <<e>> \in Seq(Entries)
    BY <1>2
  <2>2. Len(<<e>>) = 1 /\ <<e>>[1] = e
    OBVIOUS
  <2>3. DOMAIN one = 1..Len(one)
    BY <1>2, <2>1
  <2>4. 1..1 = {1}
    OBVIOUS
  <2> QED BY <1>2, <2>1, <2>2, <2>3, <2>4
<1>4. Unknown(one) /\ RowsIn(one) = {row}
  BY <1>2, <1>3 DEF Unknown, RowsIn
<1>5. Ordered(one)
  BY <1>2, <1>3 DEF Ordered
<1> QED BY <1>3, <1>4, <1>5

LEMMA UnknownIsOrdered == ASSUME NEW s, Unknown(s) PROVE Ordered(s) /\ Gapless(s)
BY DEF Unknown, Ordered, Gapless

LEMMA LiveArrivesInv == ASSUME InspectorInv, LiveArrives PROVE InspectorInv'
<1>0. /\ pipe # <<>> /\ Head(pipe).kind = "live" /\ pipe' = Tail(pipe)
      /\ UNCHANGED <<log, unsent, query, status, bridge, canLoadOlder, pending, trimmedNewer, loaded>>
  BY DEF LiveArrives, server
<1>t. /\ timeline \in Seq(Entries) /\ Len(timeline) <= WorkingSet /\ buffered \in Seq(Entries)
      /\ trimmedOlder \in BOOLEAN /\ overrun \in BOOLEAN
      /\ Unknown(buffered) /\ Ordered(timeline) /\ (overrun => trimmedOlder)
      /\ RowsIn(timeline) \subseteq 1..Len(log) /\ RowsIn(buffered) \subseteq 1..Len(log)
  BY DEF InspectorInv, InspectorTypeOK, Header, InOrder, RowsIn
<1>1. PICK row \in 1..Len(log) : row = Head(pipe).row
  BY <1>0, Taken
<1>2. PICK one : one = <<Entry(row, FALSE)>>
  OBVIOUS
<1>3. /\ one \in Seq(Entries) /\ Unknown(one) /\ RowsIn(one) = {row} /\ Len(one) = 1
      /\ \A i \in DOMAIN one : ~one[i].known
  <2>1. Len(log) \in Nat
    BY DEF InspectorInv, InspectorTypeOK
  <2>2. row \in Nat
    BY <2>1
  <2> QED BY <1>2, <2>2, OneUnknown DEF Unknown
<1>4. CASE pending = "latest"
  <2> DEFINE m == Merge(buffered, one, "append")
  <2>1. buffered' = m.entries /\ UNCHANGED <<timeline, trimmedOlder, overrun>>
    BY <1>1, <1>2, <1>4 DEF LiveArrives
  <2>2. Unknown(buffered \o one)
    BY <1>3, <1>t, JoinedFrom DEF Unknown
  <2>3. Merged(m, buffered \o one, buffered, one)
    BY <1>3, <1>t, <2>2, UnknownIsOrdered, AppendMerges
  <2> HIDE DEF m
  <2>4. buffered' \in Seq(Entries) /\ Unknown(buffered')
    BY <1>3, <1>t, <2>1, <2>3 DEF Merged, Unknown
  <2>6. RowsIn(buffered') \subseteq 1..Len(log)
    BY <1>3, <1>t, <2>1, <2>3 DEF Merged
  <2>5. \/ Len(buffered') >= WorkingSet
        \/ /\ RowsIn(buffered) \cup {row} \subseteq RowsIn(buffered')
           /\ ~(Len(buffered) >= WorkingSet)
    <3>1. CASE m.cut
      <4>1. Len(buffered') = WorkingSet
        BY <2>1, <2>3, <3>1 DEF Merged
      <4> QED BY <4>1
    <3>2. CASE ~m.cut
      <4>1. RowsIn(buffered') = RowsIn(buffered) \cup {row} /\ ~(Len(buffered) + 1 > WorkingSet)
        BY <1>3, <2>1, <2>3, <3>2 DEF Merged
      <4>2. Len(buffered) \in Nat
        BY <1>t
      <4> QED BY <4>1, <4>2
    <3> QED BY <3>1, <3>2
  <2> QED BY <1>0, <1>1, <1>4, <1>t, <2>1, <2>4, <2>5, <2>6, LiveInv
<1>5. CASE pending # "latest"
  <2> DEFINE m == Merge(timeline, one, "append")
  <2>1. /\ timeline' = m.entries /\ trimmedOlder' = (trimmedOlder \/ m.cut)
        /\ overrun' = (overrun \/ (m.cut /\ pending = "older")) /\ buffered' = buffered
    BY <1>1, <1>2, <1>5 DEF LiveArrives
  <2>2. /\ Ordered(timeline \o one) /\ (Gapless(timeline) => Gapless(timeline \o one))
        /\ Oldest(timeline \o one) = Oldest(timeline)
    BY <1>3, <1>t, UnknownBehind
  <2>3. Merged(m, timeline \o one, timeline, one)
    BY <1>3, <1>t, <2>2, AppendMerges
  <2> HIDE DEF m
  <2>4. /\ timeline' \in Seq(Entries) /\ Len(timeline') <= WorkingSet /\ m.cut \in BOOLEAN
        /\ Ordered(timeline') /\ (Gapless(timeline) => Gapless(timeline'))
        /\ RowsIn(timeline') \subseteq 1..Len(log)
        /\ \A i \in DOMAIN timeline' : timeline'[i].known =>
            \E k \in DOMAIN timeline : timeline'[i] = timeline[k]
        /\ ~m.cut => /\ Oldest(timeline') = Oldest(timeline)
                     /\ RowsIn(timeline') = RowsIn(timeline) \cup {row}
    BY <1>3, <1>t, <2>1, <2>2, <2>3 DEF Merged
  <2>5. /\ trimmedOlder' \in BOOLEAN /\ overrun' \in BOOLEAN
        /\ (trimmedOlder' <=> trimmedOlder \/ m.cut)
        /\ (overrun' <=> overrun \/ (m.cut /\ pending = "older"))
    <3>1. m.cut \in BOOLEAN /\ (pending = "older") \in BOOLEAN
      BY <2>4
    <3> QED BY <1>t, <2>1, <3>1
  <2>6. /\ Unknown(buffered') /\ buffered' \in Seq(Entries)
        /\ RowsIn(buffered') \subseteq 1..Len(log)
    BY <1>t, <2>1
  <2>7. ~trimmedOlder' => /\ Oldest(timeline') = Oldest(timeline)
                          /\ RowsIn(timeline) \subseteq RowsIn(timeline')
                          /\ pending # "latest" => row \in RowsIn(timeline')
    BY <2>4, <2>5
  <2>8. pending = "older" /\ ~overrun' => Oldest(timeline') = Oldest(timeline)
    BY <2>4, <2>5
  <2>9. (overrun => overrun') /\ (trimmedOlder => trimmedOlder') /\ (overrun' => trimmedOlder')
    BY <1>t, <2>5
  <2> QED BY <1>0, <1>1, <1>5, <2>4, <2>5, <2>6, <2>7, <2>8, <2>9, LiveInv
<1> QED BY <1>4, <1>5

\* The rows of a page, and the oldest of them.
LEMMA PageRows ==
  ASSUME NEW last \in Nat
  PROVE  /\ RowsIn(Rows(last)) = First(last)..last
         /\ last > 0 => Oldest(Rows(last)) = First(last)
         /\ last = 0 => Rows(last) = <<>>
<1> DEFINE s == Rows(last)
<1>1. /\ s \in Seq(Entries) /\ Len(s) = last - First(last) + 1 /\ First(last) \in Nat \ {0}
      /\ \A i \in 1..Len(s) : /\ s[i].known /\ s[i].row = First(last) + i - 1
                              /\ s[i].row \in First(last)..last
      /\ last > 0 => First(last) <= last
      /\ last = 0 => First(last) = 1
  BY PageShape
<1> HIDE DEF s
<1>2. DOMAIN s = 1..Len(s)
  BY <1>1
<1>3. RowsIn(s) = First(last)..last
  <2>1. RowsIn(s) \subseteq First(last)..last
    BY <1>1, <1>2 DEF RowsIn
  <2>2. ASSUME NEW r \in First(last)..last PROVE r \in RowsIn(s)
    <3> DEFINE k == r - First(last) + 1
    <3>0. First(last) \in Nat /\ Len(s) = last - First(last) + 1
      BY <1>1
    <3>1. k \in 1..Len(s) /\ First(last) + k - 1 = r
      BY <3>0
    <3> HIDE DEF k
    <3>2. k \in DOMAIN s /\ s[k].row = r
      BY <1>1, <1>2, <3>1
    <3> QED BY <3>2 DEF RowsIn
  <2> QED BY <2>1, <2>2
<1>4. ASSUME last > 0 PROVE Oldest(s) = First(last)
  <2>0. First(last) \in Nat /\ Len(s) = last - First(last) + 1 /\ First(last) <= last
    BY <1>1, <1>4
  <2>1. 1 \in 1..Len(s) /\ First(last) + 1 - 1 = First(last)
    BY <2>0
  <2>2. 1 \in DOMAIN s /\ s[1].known /\ s[1].row = First(last) /\ \A j \in DOMAIN s : 1 <= j
    BY <1>1, <1>2, <2>1
  <2> QED BY <1>1, <2>2, OldestIs
<1>5. ASSUME last = 0 PROVE s = <<>>
  <2>1. Len(s) = 0
    BY <1>1, <1>5
  <2> QED BY <1>1, <2>1
<1> QED BY <1>3, <1>4, <1>5 DEF s

\* A page of history, in whatever way it is shown.
LEMMA PageInv ==
  ASSUME InspectorInv, pipe # <<>>, Head(pipe).kind = "page", pipe' = Tail(pipe),
         UNCHANGED <<log, unsent, query, status, bridge>>,
         pending' = "none", buffered' = <<>>, loaded' = TRUE,
         canLoadOlder' \in BOOLEAN, overrun' \in BOOLEAN,
         timeline' \in Seq(Entries), Len(timeline') <= WorkingSet,
         trimmedOlder' \in BOOLEAN, trimmedNewer' \in BOOLEAN,
         RowsIn(timeline') \subseteq 1..Len(log),
         Ordered(timeline'), ~overrun' => Gapless(timeline'), overrun' => trimmedOlder',
         trimmedNewer' => Len(log) > 0,
         ~trimmedOlder' => (canLoadOlder' <=> Oldest(timeline') > 1),
         ~trimmedOlder' /\ ~trimmedNewer' =>
            \A r \in 1..Len(log) : log[r] => \/ r \in RowsIn(timeline')
                                             \/ OnTheWay(r)'
                                             \/ r < Oldest(timeline')
  PROVE  InspectorInv'
<1>1. /\ pipe' \in Seq(Messages) /\ status = "ready" /\ query = NoQuery /\ Replies' = {}
      /\ \A i \in DOMAIN pipe' : pipe'[i].kind = "live"
      /\ \A i \in DOMAIN pipe' : pipe'[i].kind = "live" => pipe'[i].row \in 1..Len(log)
  BY Taken
<1>2. buffered' \in Seq(Entries) /\ DOMAIN buffered' = {}
  OBVIOUS
<1>3. InspectorTypeOK'
  BY <1>1, <1>2 DEF InspectorInv, InspectorTypeOK
<1>4. OneRequest' /\ Request'
  BY <1>1 DEF OneRequest, Request, NoQuery
<1>5. Beginning'
  BY <1>1 DEF Beginning
<1>6. Header'
  <2>1. \A i \in DOMAIN timeline' : timeline'[i].row \in 1..Len(log)
    BY DEF RowsIn
  <2> QED BY <1>1, <1>2, <2>1 DEF Header, Unknown
<1>7. InOrder'
  BY DEF InOrder
<1>8. Complete'
  <2>1. Listed' = RowsIn(timeline')
    BY DEF Listed, RowsIn
  <2>2. DOMAIN log = 1..Len(log)
    BY DEF InspectorInv, InspectorTypeOK
  <2> QED BY <2>1, <2>2 DEF Complete, Steady
<1>9. Offered'
  BY DEF Offered, Steady
<1> QED BY <1>3, <1>4, <1>5, <1>6, <1>7, <1>8, <1>9 DEF InspectorInv

LEMMA PageArrivesInv == ASSUME InspectorInv, PageArrives PROVE InspectorInv'
<1>0. /\ pipe # <<>> /\ Head(pipe).kind = "page" /\ pipe' = Tail(pipe)
      /\ UNCHANGED <<log, unsent, query, status, bridge>>
      /\ pending' = "none" /\ buffered' = <<>> /\ loaded' = TRUE
      /\ canLoadOlder' = Head(pipe).more /\ overrun' = (overrun /\ pending # "latest")
      /\ ShowPage(Head(pipe).rows)
  BY DEF PageArrives, server
<1>t. /\ timeline \in Seq(Entries) /\ Len(timeline) <= WorkingSet /\ buffered \in Seq(Entries)
      /\ trimmedOlder \in BOOLEAN /\ overrun \in BOOLEAN /\ trimmedNewer \in BOOLEAN
      /\ pending \in {"none", "older", "latest"}
      /\ Unknown(buffered) /\ Ordered(timeline) /\ (overrun => trimmedOlder)
      /\ (~overrun => Gapless(timeline)) /\ (trimmedNewer => Len(log) > 0)
      /\ RowsIn(timeline) \subseteq 1..Len(log) /\ Len(log) \in Nat
      /\ RowsIn(buffered) \subseteq 1..Len(log)
      /\ Len(timeline) \in Nat /\ Len(buffered) \in Nat
  BY DEF InspectorInv, InspectorTypeOK, Header, InOrder, RowsIn
<1>1. /\ Head(pipe) \in Messages /\ Head(pipe) \in Replies /\ Loading /\ status = "ready"
      /\ \A r \in Nat : OnTheWay(r) => OnTheWay(r)'
  BY <1>0, Taken
<1>2. PICK last \in 0..Len(log) :
         /\ IsPage(Head(pipe).rows, Head(pipe).more, last)
         /\ IF pending = "older" THEN Continues(last + 1)
            ELSE /\ pending = "latest" => last > 0
                 /\ \A r \in (last + 1)..Len(log) : log[r] => Kept(r)
  BY <1>1 DEF InspectorInv, Request, Answers
<1>3. PICK t : t = Rows(last)
  OBVIOUS
<1>4. /\ t \in Seq(Entries) /\ Ordered(t) /\ Gapless(t) /\ Len(t) \in Nat /\ Len(t) <= Page
      /\ First(last) \in Nat \ {0} /\ RowsIn(t) = First(last)..last
      /\ \A i \in DOMAIN t : t[i].known /\ t[i].row \in Nat /\ t[i].row <= last
      /\ (last > 0 => First(last) <= last /\ Oldest(t) = First(last) /\ Len(t) > 0)
      /\ (last = 0 => First(last) = 1 /\ t = <<>>)
  <2>1. last \in Nat
    BY <1>t
  <2>2. /\ t \in Seq(Entries) /\ Len(t) \in 0..Page /\ First(last) \in Nat \ {0}
        /\ Len(t) = last - First(last) + 1
        /\ \A i \in 1..Len(t) : t[i].known /\ t[i].row \in First(last)..last
        /\ (last > 0 => First(last) <= last) /\ (last = 0 => First(last) = 1)
    BY <1>3, <2>1, PageShape
  <2>3. Ordered(t) /\ Gapless(t)
    BY <1>3, <2>1, PageIsInOrder
  <2>4. /\ RowsIn(t) = First(last)..last
        /\ last > 0 => Oldest(t) = First(last)
        /\ last = 0 => t = <<>>
    BY <1>3, <2>1, PageRows
  <2>5. \A i \in DOMAIN t : t[i].known /\ t[i].row \in Nat /\ t[i].row <= last
    BY <2>1, <2>2
  <2>6. Len(t) \in Nat /\ Len(t) <= Page /\ (last > 0 => Len(t) > 0)
    BY <2>1, <2>2
  <2> QED BY <2>2, <2>3, <2>4, <2>5, <2>6
<1>5. Head(pipe).rows = t /\ canLoadOlder' \in BOOLEAN /\ (canLoadOlder' <=> First(last) > 1)
  <2>1. Head(pipe).rows = t /\ (Head(pipe).more <=> First(last) > 1)
    BY <1>2, <1>3 DEF IsPage
  <2>2. Head(pipe).more \in BOOLEAN
    BY <1>0, <1>1, KindsDiffer
  <2> QED BY <1>0, <2>1, <2>2
<1>6. overrun' \in BOOLEAN /\ (overrun' <=> overrun /\ pending # "latest")
  BY <1>0, <1>t
<1>7. RowsIn(t) \subseteq 1..Len(log) /\ last \in Nat
  BY <1>4, <1>t
<1>8. ASSUME NEW r \in 1..Len(log)
      PROVE  r \in RowsIn(t) \/ r > last \/ (last > 0 /\ r < First(last))
  BY <1>4, <1>7, <1>t
<1>9. CASE pending = "none"
  <2> DEFINE m == Merge(timeline, t, "append")
  <2>1. /\ timeline' = m.entries /\ trimmedOlder' = (trimmedOlder \/ m.cut)
        /\ trimmedNewer' = (trimmedNewer \/ FALSE) /\ ~loaded
    BY <1>0, <1>1, <1>5, <1>9 DEF ShowPage, Loading
  <2>2. Unknown(timeline) /\ ~trimmedNewer
    BY <1>1, <2>1 DEF InspectorInv, Beginning
  <2>3. KnownIn(timeline) = {}
    BY <2>2 DEF KnownIn, Unknown
  <2>4. Ordered(timeline \o t) /\ Gapless(timeline \o t) /\ Oldest(timeline \o t) = Oldest(t)
    BY <1>4, <1>t, <2>2, UnknownBefore
  <2>5. Merged(m, timeline \o t, timeline, t)
    BY <1>4, <1>t, <2>3, <2>4, AppendMerges
  <2> HIDE DEF m
  <2>6. /\ timeline' \in Seq(Entries) /\ Len(timeline') <= WorkingSet /\ m.cut \in BOOLEAN
        /\ Ordered(timeline') /\ Gapless(timeline')
        /\ RowsIn(timeline') \subseteq 1..Len(log)
        /\ ~m.cut => /\ Oldest(timeline') = Oldest(t)
                     /\ RowsIn(timeline') = RowsIn(timeline) \cup RowsIn(t)
    BY <1>7, <1>t, <2>1, <2>4, <2>5 DEF Merged
  <2>7. /\ trimmedOlder' \in BOOLEAN /\ trimmedNewer' \in BOOLEAN /\ ~trimmedNewer'
        /\ (trimmedOlder' <=> trimmedOlder \/ m.cut)
    BY <1>t, <2>1, <2>2, <2>6
  <2>8. ~trimmedOlder' => (canLoadOlder' <=> Oldest(timeline') > 1)
    <3>1. CASE last = 0
      <4>1. Oldest(t) = 0
        <5>1. Unknown(t)
          BY <1>4, <3>1 DEF Unknown
        <5> QED BY <1>4, <5>1, OldestOrNone DEF Unknown
      <4> QED BY <1>4, <1>5, <2>6, <2>7, <3>1, <4>1
    <3>2. CASE last > 0
      BY <1>4, <1>5, <2>6, <2>7, <3>2
    <3> QED BY <1>7, <3>1, <3>2
  <2>9. ASSUME ~trimmedOlder', NEW r \in 1..Len(log), log[r]
        PROVE  r \in RowsIn(timeline') \/ OnTheWay(r)' \/ r < Oldest(timeline')
    <3>1. CASE r \in RowsIn(t)
      BY <2>6, <2>7, <2>9, <3>1
    <3>2. CASE r > last
      <4>1. r \in (last + 1)..Len(log) /\ r \in Nat
        BY <1>7, <1>t, <3>2
      <4>2. Kept(r)
        BY <1>2, <1>9, <2>9, <4>1
      <4>3. OnTheWay(r) \/ r \in RowsIn(timeline)
        BY <1>9, <2>7, <2>9, <4>2 DEF Kept
      <4> QED BY <1>1, <2>6, <2>7, <2>9, <4>1, <4>3
    <3>3. CASE last > 0 /\ r < First(last)
      BY <1>4, <2>6, <2>7, <2>9, <3>3
    <3> QED BY <1>8, <3>1, <3>2, <3>3
  <2>10. overrun' => trimmedOlder'
    BY <1>6, <1>t, <2>7
  <2> QED BY <1>0, <1>5, <1>6, <2>6, <2>7, <2>8, <2>9, <2>10, PageInv
<1>10. CASE pending = "older"
  <2> DEFINE m == Merge(timeline, t, "prepend")
  <2>1. /\ timeline' = m.entries
        /\ trimmedOlder' = (trimmedOlder \/ FALSE) /\ trimmedNewer' = (trimmedNewer \/ m.cut)
    BY <1>0, <1>5, <1>10 DEF ShowPage
  <2>2. /\ \A i \in DOMAIN timeline : timeline[i].known => timeline[i].row >= last + 1
        /\ ~overrun => Oldest(timeline) = last + 1
    BY <1>2, <1>10 DEF Continues
  <2>3. \A i \in DOMAIN t : ~(t[i].known /\ t[i].row \in KnownIn(timeline))
    <3>1. \A i \in DOMAIN timeline : timeline[i].row \in 1..Len(log)
      BY <1>t DEF RowsIn
    <3>2. \A r \in KnownIn(timeline) : r \in Nat /\ r >= last + 1
      BY <1>t, <2>2, <3>1 DEF KnownIn
    <3> QED BY <1>4, <1>7, <3>2
  <2>4. Ordered(t \o timeline) /\ (~overrun => Gapless(t \o timeline))
    BY <1>3, <1>7, <1>t, <2>2, PageBefore
  <2>5. /\ Merged(m, t \o timeline, t, timeline)
        /\ \A i \in DOMAIN m.entries : i \in DOMAIN t => m.entries[i] = t[i]
    BY <1>4, <1>t, <2>3, <2>4, PrependMerges
  <2> HIDE DEF m
  <2>6. /\ timeline' \in Seq(Entries) /\ Len(timeline') <= WorkingSet /\ m.cut \in BOOLEAN
        /\ Ordered(timeline') /\ (~overrun => Gapless(timeline'))
        /\ RowsIn(timeline') \subseteq 1..Len(log)
        /\ ~m.cut => /\ timeline' = t \o timeline
                     /\ RowsIn(timeline') = RowsIn(timeline) \cup RowsIn(t)
        /\ m.cut => Len(timeline') = WorkingSet
        /\ m.cut <=> Len(t) + Len(timeline) > WorkingSet
    BY <1>7, <1>t, <2>1, <2>4, <2>5 DEF Merged
  <2>7. /\ trimmedOlder' \in BOOLEAN /\ trimmedNewer' \in BOOLEAN
        /\ (trimmedOlder' <=> trimmedOlder) /\ (trimmedNewer' <=> trimmedNewer \/ m.cut)
    BY <1>t, <2>1, <2>6
  <2>8. trimmedNewer' => Len(log) > 0
    <3>1. ASSUME m.cut PROVE Len(log) > 0
      <4>1. Len(timeline') > 0
        BY <2>6, <3>1
      <4>2. 1 \in DOMAIN timeline'
        BY <2>6, <4>1
      <4>3. timeline'[1].row \in 1..Len(log)
        BY <2>6, <4>2 DEF RowsIn
      <4> QED BY <1>t, <4>3
    <3> QED BY <1>t, <2>7, <3>1
  <2>9. last > 0 => Oldest(timeline') = First(last)
    <3> SUFFICES ASSUME last > 0 PROVE Oldest(timeline') = First(last)
      OBVIOUS
    <3>1. Len(timeline') > 0
      <4>1. CASE m.cut
        BY <2>6, <4>1
      <4>2. CASE ~m.cut
        <5>1. Len(timeline') = Len(t) + Len(timeline)
          BY <1>4, <1>t, <2>6, <4>2, Joined
        <5> QED BY <1>4, <1>t, <5>1
      <4> QED BY <4>1, <4>2
    <3>2. 1 \in DOMAIN timeline' /\ 1 \in DOMAIN t
      BY <1>4, <2>6, <3>1
    <3>3. timeline'[1] = t[1] /\ t[1].known
      BY <1>4, <2>1, <2>5, <3>2
    <3>4. Oldest(timeline') = t[1].row
      <4>1. \A j \in DOMAIN timeline' : 1 <= j
        BY <2>6
      <4> QED BY <2>6, <3>2, <3>3, <4>1, OldestIs
    <3>5. Oldest(t) = t[1].row
      <4>1. \A j \in DOMAIN t : 1 <= j
        BY <1>4
      <4> QED BY <1>4, <3>2, <3>3, <4>1, OldestIs
    <3> QED BY <1>4, <3>4, <3>5
  <2>10. last = 0 /\ ~overrun => Oldest(timeline') = 1
    <3> SUFFICES ASSUME last = 0, ~overrun PROVE Oldest(timeline') = 1
      OBVIOUS
    <3>1. Len(t) = 0 /\ Unknown(t)
      BY <1>4 DEF Unknown
    <3>2. ~m.cut
      BY <1>t, <2>6, <3>1
    <3>3. Oldest(t \o timeline) = Oldest(timeline)
      BY <1>4, <1>t, <3>1, UnknownBefore
    <3>4. Oldest(timeline) = 1
      BY <2>2
    <3> QED BY <2>6, <3>2, <3>3, <3>4
  <2>11. ~trimmedOlder' => (canLoadOlder' <=> Oldest(timeline') > 1)
    <3> SUFFICES ASSUME ~trimmedOlder' PROVE canLoadOlder' <=> Oldest(timeline') > 1
      OBVIOUS
    <3>1. ~overrun
      BY <1>t, <2>7
    <3>2. CASE last = 0
      BY <1>4, <1>5, <2>10, <3>1, <3>2
    <3>3. CASE last > 0
      BY <1>4, <1>5, <2>9, <3>3
    <3> QED BY <1>7, <3>2, <3>3
  <2>12. ASSUME ~trimmedOlder', ~trimmedNewer', NEW r \in 1..Len(log), log[r]
         PROVE  r \in RowsIn(timeline') \/ OnTheWay(r)' \/ r < Oldest(timeline')
    <3>1. ~trimmedOlder /\ ~trimmedNewer /\ ~overrun /\ ~m.cut /\ r \in Nat
      BY <1>t, <2>7, <2>12
    <3>2. loaded
      BY <1>1, <1>10 DEF InspectorInv, Beginning
    <3>3. Steady
      BY <1>1, <1>10, <3>1, <3>2 DEF Steady
    <3>4. r \in Listed \/ OnTheWay(r) \/ r < Oldest(timeline)
      <4>1. r \in DOMAIN log
        BY DEF InspectorInv, InspectorTypeOK
      <4> QED BY <2>12, <3>1, <3>3, <4>1 DEF InspectorInv, Complete
    <3>5. Listed = RowsIn(timeline)
      BY DEF Listed, RowsIn
    <3>6. CASE r < Oldest(timeline)
      <4>1. r <= last
        BY <1>7, <2>2, <3>1, <3>6
      <4>2. r \in RowsIn(t) \/ (last > 0 /\ r < First(last))
        BY <1>7, <1>8, <3>1, <4>1
      <4> QED BY <2>6, <2>9, <3>1, <4>2
    <3> QED BY <1>1, <2>6, <3>1, <3>4, <3>5, <3>6
  <2>13. overrun' => trimmedOlder'
    BY <1>6, <1>t, <2>7
  <2>14. ~overrun' => Gapless(timeline')
    BY <1>6, <1>10, <2>6
  <2> QED BY <1>0, <1>5, <1>6, <2>6, <2>7, <2>8, <2>11, <2>12, <2>13, <2>14, PageInv
<1>11. CASE pending = "latest"
  <2> DEFINE m == Merge(t, buffered, "append")
  <2>1. timeline' = m.entries /\ trimmedOlder' = m.cut /\ trimmedNewer' = FALSE
    BY <1>0, <1>5, <1>11 DEF ShowPage
  <2>2. last > 0
    BY <1>2, <1>11
  <2>3. /\ Ordered(t \o buffered) /\ Gapless(t \o buffered) /\ Oldest(t \o buffered) = Oldest(t)
        /\ \A i \in DOMAIN buffered : ~(buffered[i].known /\ buffered[i].row \in KnownIn(t))
    BY <1>4, <1>t, UnknownBehind DEF Unknown
  <2>5. Merged(m, t \o buffered, t, buffered)
    BY <1>4, <1>t, <2>3, AppendMerges
  <2> HIDE DEF m
  <2>6. /\ timeline' \in Seq(Entries) /\ Len(timeline') <= WorkingSet /\ m.cut \in BOOLEAN
        /\ Ordered(timeline') /\ Gapless(timeline')
        /\ ~m.cut => /\ Oldest(timeline') = Oldest(t)
                     /\ RowsIn(timeline') = RowsIn(t) \cup RowsIn(buffered)
        /\ m.cut <=> Len(t) + Len(buffered) > WorkingSet
    BY <1>7, <1>t, <2>1, <2>3, <2>5 DEF Merged
  <2>7. RowsIn(timeline') \subseteq 1..Len(log)
    BY <1>7, <1>t, <2>1, <2>5 DEF Merged
  <2>8. trimmedOlder' \in BOOLEAN /\ trimmedNewer' = FALSE /\ (trimmedOlder' <=> m.cut)
    BY <2>1, <2>6
  <2>9. ~trimmedOlder' => (canLoadOlder' <=> Oldest(timeline') > 1)
    BY <1>4, <1>5, <2>2, <2>6, <2>8
  <2>10. ASSUME ~trimmedOlder', NEW r \in 1..Len(log), log[r]
         PROVE  r \in RowsIn(timeline') \/ OnTheWay(r)' \/ r < Oldest(timeline')
    <3>1. CASE r \in RowsIn(t)
      BY <2>6, <2>8, <2>10, <3>1
    <3>2. CASE r > last
      <4>1. r \in (last + 1)..Len(log) /\ r \in Nat
        BY <1>7, <1>t, <3>2
      <4>2. Kept(r)
        BY <1>2, <1>11, <2>10, <4>1
      <4>3. ~(Len(buffered) >= WorkingSet)
        BY <1>4, <1>t, <2>2, <2>6, <2>8, <2>10
      <4>4. OnTheWay(r) \/ r \in RowsIn(buffered)
        BY <1>11, <4>2, <4>3 DEF Kept
      <4> QED BY <1>1, <2>6, <2>8, <2>10, <4>1, <4>4
    <3>3. CASE last > 0 /\ r < First(last)
      BY <1>4, <2>6, <2>8, <2>10, <3>3
    <3> QED BY <1>8, <3>1, <3>2, <3>3
  <2>11. ~overrun' /\ trimmedNewer' \in BOOLEAN /\ ~trimmedNewer'
    BY <1>6, <1>11, <2>8
  <2> QED BY <1>0, <1>5, <1>6, <2>6, <2>7, <2>8, <2>9, <2>10, <2>11, PageInv
<1> QED BY <1>t, <1>9, <1>10, <1>11


LEMMA InspectorStepInv == InspectorInv /\ [InspectorNext]_ivars => InspectorInv'
<1> SUFFICES ASSUME InspectorInv, [InspectorNext]_ivars PROVE InspectorInv'
  OBVIOUS
<1>1. ASSUME NEW live \in BOOLEAN, Record(live) PROVE InspectorInv'
  BY <1>1, RecordInv
<1>2. ASSUME NEW granted \in BOOLEAN, Acknowledged(granted) PROVE InspectorInv'
  BY <1>2, AcknowledgedInv
<1>3. ASSUME NEW r \in 1..MaxRows, BroadcastRow(r) PROVE InspectorInv'
  BY <1>3, BroadcastRowInv
<1>4. CASE ReadPage
  BY <1>4, ReadPageInv
<1>5. CASE Answer
  BY <1>5, AnswerInv
<1>6. CASE Opened
  BY <1>6, OpenedInv
<1>7. CASE LiveArrives
  BY <1>7, LiveArrivesInv
<1>8. CASE PageArrives
  BY <1>8, PageArrivesInv
<1>9. CASE Disconnected
  BY <1>9, DisconnectedInv
<1>10. CASE ConnectAgain
  BY <1>10, ConnectAgainInv
<1>11. CASE LoadOlder
  BY <1>11, LoadOlderInv
<1>12. CASE JumpToLatest
  BY <1>12, JumpToLatestInv
<1>13. CASE Leave
  BY <1>13, LeaveInv
<1>14. CASE UNCHANGED ivars
  <2>1. UNCHANGED <<log, unsent, query, pipe, status, bridge, timeline, canLoadOlder, pending,
                    buffered, trimmedOlder, trimmedNewer, loaded, overrun>>
    BY <1>14 DEF ivars, server, screen
  <2>2. /\ InspectorTypeOK' = InspectorTypeOK /\ OneRequest' = OneRequest
        /\ Beginning' = Beginning /\ Header' = Header /\ InOrder' = InOrder
    BY <2>1 DEF InspectorTypeOK, OneRequest, Loading, Beginning, Header, InOrder
  <2>3. Complete' = Complete /\ Offered' = Offered
    BY <2>1 DEF Complete, Offered, Steady, Listed, OnTheWay
  <2>4. \A m : Answers(m)' = Answers(m)
    BY <2>1 DEF Answers, Continues, Kept, OnTheWay
  <2>5. Request' = Request
    <3>1. Replies' = Replies
      BY <2>1 DEF Replies
    <3>2. \A b : Continues(b)' = Continues(b)
      BY <2>1 DEF Continues
    <3> QED BY <2>1, <2>4, <3>1, <3>2 DEF Request
  <2> QED BY <2>2, <2>3, <2>5 DEF InspectorInv
<1> QED BY <1>1, <1>2, <1>3, <1>4, <1>5, <1>6, <1>7, <1>8, <1>9, <1>10, <1>11, <1>12,
           <1>13, <1>14 DEF InspectorNext

LEMMA InspectorIsInductive == InspectorSpec => []InspectorInv
  BY InspectorInitInv, InspectorStepInv, PTL DEF InspectorSpec

\* Paging back skips no row and lists none twice, unless live messages cut the
\* list off where an older page was to go: each page begins where the list ends,
\* and nothing moves that end while the page is on its way.
THEOREM PagesAreInOrder == InspectorSpec => []PagesInOrderUnlessOverrun
<1>1. InspectorInv => PagesInOrderUnlessOverrun
  <2> SUFFICES ASSUME InspectorInv, ~overrun, NEW i \in DOMAIN timeline, NEW j \in DOMAIN timeline,
                      i < j, timeline[i].known, timeline[j].known,
                      \A k \in (i + 1)..(j - 1) : ~timeline[k].known
               PROVE  timeline[j].row = timeline[i].row + 1
    BY DEF PagesInOrderUnlessOverrun, PagesStayInOrder
  <2>1. Ordered(timeline) /\ Gapless(timeline) /\ timeline \in Seq(Entries)
    BY DEF InspectorInv, InOrder, InspectorTypeOK
  <2>2. /\ timeline[i].row \in Nat /\ timeline[j].row \in Nat
        /\ \A k \in DOMAIN timeline : k \in Nat
    <3>1. DOMAIN timeline = 1..Len(timeline) /\ Len(timeline) \in Nat
      BY <2>1
    <3>2. timeline[i] \in Entries /\ timeline[j] \in Entries
      BY <2>1
    <3> QED BY <3>1, <3>2 DEF Entries
  <2>3. timeline[i].row < timeline[j].row
    BY <2>1 DEF Ordered
  <2>4. PICK k \in DOMAIN timeline : timeline[k].known /\ timeline[k].row = timeline[i].row + 1
    <3>1. timeline[i].row + 1 \in timeline[i].row..timeline[j].row
      BY <2>2, <2>3
    <3> QED BY <2>1, <3>1 DEF Gapless
  <2>5. ~(k <= i)
    <3>1. k < i => timeline[k].row < timeline[i].row
      BY <2>1, <2>4 DEF Ordered
    <3> QED BY <2>2, <2>4, <3>1
  <2>6. ~(j < k)
    <3>1. j < k => timeline[j].row < timeline[k].row
      BY <2>1, <2>4 DEF Ordered
    <3> QED BY <2>2, <2>3, <2>4, <3>1
  <2>7. k = j
    <3>1. ~(k \in (i + 1)..(j - 1))
      BY <2>4
    <3> QED BY <2>2, <2>5, <2>6, <3>1
  <2> QED BY <2>4, <2>7
<1> QED BY <1>1, InspectorIsInductive, PTL

\* No live row is missing from the list unless the header says that entries were
\* trimmed: also one that was broadcast before, while or after the newest page
\* was read, on this connection or after the last was lost.
THEOREM TimelinesAreComplete == InspectorSpec => []TimelineIsComplete
<1>1. InspectorInv => TimelineIsComplete
  BY DEF InspectorInv, Complete, Steady, AtRest, TimelineIsComplete
<1> QED BY <1>1, InspectorIsInductive, PTL

\* "Load older" is offered exactly when there are older rows: what the last page
\* said of them is still so, whichever of the list's entries has been cut since.
THEOREM OlderPagesAreOffered == InspectorSpec => []OlderIsOffered
<1>1. InspectorInv => OlderIsOffered
  BY DEF InspectorInv, Offered, Steady, AtRest, OlderIsOffered
<1> QED BY <1>1, InspectorIsInductive, PTL

\* The newest rows of an interval.
LEMMA NewestOfInterval ==
  ASSUME NEW last \in Nat, NEW n \in Nat
  PROVE  Newest(1..last, n) = (IF last > n THEN last - n + 1 ELSE 1)..last
<1>1. ASSUME NEW i \in 1..last PROVE Cardinality({j \in 1..last : j > i}) = last - i
  <2>1. {j \in 1..last : j > i} = (i + 1)..last
    OBVIOUS
  <2>2. Cardinality((i + 1)..last) = last - i
    <3>1. Cardinality((i + 1)..last) = IF i + 1 > last THEN 0 ELSE last - (i + 1) + 1
      BY FS_Interval
    <3> QED BY <3>1
  <2> QED BY <2>1, <2>2
<1>2. \A i \in 1..last : i \in Newest(1..last, n) <=> last - i < n
  BY <1>1 DEF Newest
<1>3. \A i \in Newest(1..last, n) : i \in 1..last
  BY DEF Newest
<1>4. \A i \in 1..last :
         last - i < n <=> i \in (IF last > n THEN last - n + 1 ELSE 1)..last
  OBVIOUS
<1>5. \A i \in (IF last > n THEN last - n + 1 ELSE 1)..last : i \in 1..last
  OBVIOUS
<1> QED BY <1>2, <1>3, <1>4, <1>5

\* The page that the inspector is sent is the one Recent of the store returns for
\* a log of as many rows, and has_more is what it says: what is proved here of
\* ReadPage's pages holds of the pages of the SQL query.
THEOREM PagesComeFromTheStore ==
  ASSUME InspectorInv, StoreTypeOK, Len(log) = Len(events),
         NEW l \in Nat, BoundLimit(l) = Page, ReadPage
  PROVE  LET page == Recent(l, query.before, NoExt)
         IN  /\ RowsIn(query'.rows) = page.ids
             /\ query'.more <=> page.more
<1> DEFINE b == query.before
           last == IF b = 0 THEN Len(log) ELSE b - 1
<1>0. b \in 0..Len(log)
  <2>1. Request /\ query.stage = "asked" /\ Len(log) \in Nat
    BY DEF InspectorInv, InspectorTypeOK, ReadPage
  <2> QED BY <2>1 DEF Request
<1>1. Len(events) \in Nat /\ DOMAIN events = 1..Len(events) /\ b \in Nat /\ last \in Nat
  BY <1>0 DEF StoreTypeOK
<1>2. Matching(b, NoExt) = 1..last
  BY <1>0, <1>1 DEF Matching
<1>3. query'.rows = Rows(last) /\ (query'.more <=> First(last) > 1)
  <2>1. query' = [stage |-> "read", more |-> First(last) > 1, rows |-> Rows(last)]
    BY DEF ReadPage, First, Rows
  <2> QED BY <2>1
<1> HIDE DEF b, last
<1>4. First(last) \in Nat \ {0}
  BY <1>1 DEF First
<1>5. RowsIn(Rows(last)) = First(last)..last
  <2>1. DOMAIN Rows(last) = 1..(last - First(last) + 1)
    BY DEF Rows
  <2>2. \A i \in DOMAIN Rows(last) : Rows(last)[i].row = First(last) + i - 1
    BY <2>1 DEF Rows, Entry
  <2>3. \A i \in DOMAIN Rows(last) : Rows(last)[i].row \in First(last)..last
    BY <1>1, <1>4, <2>1, <2>2
  <2>4. ASSUME NEW r \in First(last)..last PROVE r \in RowsIn(Rows(last))
    <3>1. /\ r - First(last) + 1 \in DOMAIN Rows(last)
          /\ First(last) + (r - First(last) + 1) - 1 = r
      BY <1>1, <1>4, <2>1
    <3>2. Rows(last)[r - First(last) + 1].row = r
      BY <2>2, <3>1
    <3> QED BY <3>1, <3>2 DEF RowsIn
  <2> QED BY <2>3, <2>4 DEF RowsIn
<1>6. /\ Recent(l, b, NoExt).ids = Newest(1..last, Page)
      /\ Recent(l, b, NoExt).more <=> Cardinality(Newest(1..last, Page + 1)) > Page
  <2>1. /\ Recent(l, b, NoExt).ids = Newest(Matching(b, NoExt), BoundLimit(l))
        /\ Recent(l, b, NoExt).more <=>
              Cardinality(Newest(Matching(b, NoExt), BoundLimit(l) + 1)) > BoundLimit(l)
    BY <1>1, PageIsNewest
  <2> QED BY <1>2, <2>1
<1>7. Newest(1..last, Page) = First(last)..last
  BY <1>1, NewestOfInterval DEF First
<1>8. Cardinality(Newest(1..last, Page + 1)) > Page <=> First(last) > 1
  <2>1. Newest(1..last, Page + 1) = (IF last > Page + 1 THEN last - (Page + 1) + 1 ELSE 1)..last
    BY <1>1, NewestOfInterval
  <2>2. CASE last > Page + 1
    <3>1. Cardinality((last - Page)..last) = last - (last - Page) + 1
      BY <1>1, <2>2, FS_Interval
    <3>2. Newest(1..last, Page + 1) = (last - Page)..last
      BY <1>1, <2>1, <2>2
    <3> QED BY <1>1, <2>2, <3>1, <3>2 DEF First
  <2>3. CASE ~(last > Page + 1)
    <3>1. Cardinality(1..last) = last
      BY <1>1, FS_Interval
    <3>2. Newest(1..last, Page + 1) = 1..last
      BY <1>1, <2>1, <2>3
    <3> QED BY <1>1, <2>3, <3>1, <3>2 DEF First
  <2> QED BY <2>2, <2>3
<1> QED BY <1>3, <1>5, <1>6, <1>7, <1>8 DEF b

HIDE InspectorConstants

-----------------------------------------------------------------------------
(* The transport of chrome-sim (transport.ts).                               *)
(* What is under way for a call, and what RemoteCall promises of it.         *)

USE TransportConstants DEF Sockets, NoSocket, Live, Usable, Fault

\* connect() keeps the types of the link and of the sockets.
LEMMA ConnectTypes ==
    ASSUME TransportTypeOK, NEW s \in Sockets, Connect(s)
    PROVE  /\ state' \in {"connecting", "reconnecting"}
           /\ socket' \in Sockets /\ promise' \in Sockets
           /\ ready' \in [Sockets -> {"new", "connecting", "open", "closing", "closed"}]
           /\ guard' \in [Sockets -> BOOLEAN]
           /\ overlapped' \in BOOLEAN
           /\ UNCHANGED <<settled, negotiated, closed, caps>>
BY DEF TransportTypeOK, Connect

\* Every step has the type, and leaves what is under way fitting the calls.
LEMMA TransportInvStep == TransportInv /\ [TransportNext]_tvars => TransportInv'
<1> SUFFICES ASSUME TransportInv, [TransportNext]_tvars PROVE TransportInv'
  OBVIOUS
<1> USE DEF TransportInv, TransportTypeOK, WireFitsCalls, link, sockets, calls, daemon
<1>1. CASE Close
  BY <1>1 DEF Close, Settle, Pending
<1>2. CASE Reconnect
  <2>1. CASE Usable \/ promise # NoSocket
    BY <1>2, <2>1, ZenonT(60) DEF Reconnect
  <2>2. CASE ~(Usable \/ promise # NoSocket)
    <3> PICK s \in Sockets : Connect(s)
      BY <1>2, <2>2 DEF Reconnect
    <3> QED BY <1>2, <2>2, ConnectTypes DEF Reconnect
  <2> QED BY <2>1, <2>2
<1>3. CASE DaemonDies
  BY <1>3 DEF DaemonDies
<1>4. ASSUME NEW c \in Calls, Call(c) PROVE TransportInv'
  <2>1. CASE closed
    BY <1>4, <2>1 DEF Call, Settle
  <2>2. CASE ~closed /\ Usable
    BY <1>4, <2>2 DEF Call, Dispatch
  <2>3. CASE ~closed /\ ~Usable /\ promise # NoSocket
    <3>1. /\ call' = [call EXCEPT ![c] = "waiting"] /\ via' = [via EXCEPT ![c] = promise]
          /\ UNCHANGED <<link, sockets, wire, runs, mute, faults>>
      BY <1>4, <2>3 DEF Call
    <3>2. call[c] = "idle"
      BY <1>4 DEF Call
    <3>3. TransportTypeOK'
      BY <3>1, <2>3
    <3> QED BY <3>1, <3>2, <3>3
  <2>4. CASE ~closed /\ ~Usable /\ promise = NoSocket
    <3> PICK s \in Sockets : /\ Connect(s)
                             /\ call' = [call EXCEPT ![c] = "waiting"]
                             /\ via' = [via EXCEPT ![c] = s]
      BY <1>4, <2>4 DEF Call
    <3>2. call[c] = "idle" /\ UNCHANGED <<timer, wire, runs, mute, faults>>
      BY <1>4, <2>4 DEF Call
    <3>3. TransportTypeOK'
      BY <3>2, ConnectTypes
    <3> QED BY <3>2, <3>3
  <2> QED BY <2>1, <2>2, <2>3, <2>4
<1>5. ASSUME NEW c \in Calls, CallTimeout(c) PROVE TransportInv'
  BY <1>5 DEF CallTimeout, Settle
<1>6. ASSUME NEW c \in Calls, CarriedOut(c) PROVE TransportInv'
  BY <1>6 DEF CarriedOut
<1>7. ASSUME NEW c \in Calls, TurnedDown(c) PROVE TransportInv'
  BY <1>7 DEF TurnedDown
<1>8. ASSUME NEW c \in Calls, AnswerArrives(c) PROVE TransportInv'
  BY <1>8 DEF AnswerArrives, Settle, Pending
<1>9. ASSUME NEW s \in Sockets, SocketOpens(s) PROVE TransportInv'
  BY <1>9 DEF SocketOpens
<1>10. ASSUME NEW s \in Sockets, SocketBreaks(s) PROVE TransportInv'
  BY <1>10 DEF SocketBreaks
<1>11. ASSUME NEW s \in Sockets, SocketCloses(s) PROVE TransportInv'
  <2>3. /\ call' \in [Calls -> {"idle", "waiting", "sent", "ok", "failed"}]
        /\ via' = via
    BY <1>11 DEF SocketCloses, Settle
  <2>4. /\ ready' = [ready EXCEPT ![s] = "closed"]
        /\ guard' = [guard EXCEPT ![s] = FALSE] /\ settled' = [settled EXCEPT ![s] = TRUE]
        /\ caps' = FALSE /\ socket' \in {socket, NoSocket} /\ promise' \in {promise, NoSocket}
        /\ wire' = [c \in Calls |-> IF via[c] = s THEN "none" ELSE wire[c]]
        /\ UNCHANGED <<closed, negotiated, overlapped, runs, mute, faults>>
    BY <1>11 DEF SocketCloses
  <2>5. UNCHANGED <<timer, state>> \/ (timer' = TRUE /\ state' = "reconnecting")
    BY <1>11 DEF SocketCloses, ScheduleReconnect
  <2>a. \A d \in Calls : wire'[d] = wire[d] \/ wire'[d] = "none"
    BY <2>4
  <2>b. wire' = [d \in Calls |-> wire'[d]]
    BY <2>4
  <2>c. /\ ready' \in [Sockets -> {"new", "connecting", "open", "closing", "closed"}]
        /\ guard' \in [Sockets -> BOOLEAN] /\ settled' \in [Sockets -> BOOLEAN]
    BY <2>4
  <2>d. wire' \in [Calls -> {"none", "command", "ok", "failed"}]
    BY <2>a, <2>b
  <2>e. socket' \in Sockets \cup {NoSocket} /\ promise' \in Sockets \cup {NoSocket}
    BY <2>4
  <2>1. TransportTypeOK'
    <3>1. caps' = FALSE /\ UNCHANGED <<closed, negotiated, overlapped, runs, mute, faults>>
      BY <2>4
    <3> QED BY <2>3, <2>5, <2>c, <2>d, <2>e, <3>1
  <2>2. \A d \in Calls : /\ call'[d] = call[d] \/ call'[d] = "failed"
                         /\ wire'[d] = wire[d] \/ wire'[d] = "none"
                         /\ runs'[d] = runs[d]
    BY <1>11 DEF SocketCloses, Settle
  <2> QED BY <2>1, <2>2
<1>12. ASSUME NEW s \in Sockets, Refused(s) PROVE TransportInv'
  BY <1>12 DEF Refused, GiveUp, Settle, WaitingFor
<1>13. ASSUME NEW s \in Sockets, HandshakeTimeout(s) PROVE TransportInv'
  BY <1>13 DEF HandshakeTimeout, GiveUp, Settle, WaitingFor
<1>14. ASSUME NEW s \in Sockets, NEW granted \in BOOLEAN, Accepted(s, granted)
       PROVE  TransportInv'
  BY <1>14 DEF Accepted, Dispatch, WaitingFor
<1>15. CASE UNCHANGED tvars
  BY <1>15 DEF tvars
<1> QED BY <1>1, <1>2, <1>3, <1>4, <1>5, <1>6, <1>7, <1>8, <1>9, <1>10, <1>11,
           <1>12, <1>13, <1>14, <1>15 DEF TransportNext

LEMMA TransportInvInit == TransportInit => TransportInv
<1> SUFFICES ASSUME TransportInit PROVE TransportInv
  OBVIOUS
<1>1. /\ settled \in [Sockets -> BOOLEAN] /\ guard \in [Sockets -> BOOLEAN]
      /\ negotiated \in [Sockets -> BOOLEAN] /\ closed \in BOOLEAN /\ timer \in BOOLEAN
      /\ caps \in BOOLEAN /\ overlapped \in BOOLEAN /\ mute \in BOOLEAN
  BY Zenon DEF TransportInit
<1>2. /\ state = "closed" /\ socket = NoSocket /\ promise = NoSocket
      /\ ready = [s \in Sockets |-> "new"] /\ call = [c \in Calls |-> "idle"]
      /\ via = [c \in Calls |-> NoSocket] /\ runs = [c \in Calls |-> 0]
      /\ wire = [c \in Calls |-> "none"] /\ faults = 0
  BY Zenon DEF TransportInit
<1>4. TransportTypeOK
  BY <1>1, <1>2 DEF TransportTypeOK
<1>5. \A c \in Calls : call[c] = "idle" /\ wire[c] = "none" /\ runs[c] = 0
  BY Zenon DEF TransportInit
<1>3. WireFitsCalls
  <2> SUFFICES ASSUME NEW c \in Calls
               PROVE  /\ call[c] \in {"idle", "waiting"} => wire[c] = "none" /\ runs[c] = 0
                      /\ wire[c] = "command" => runs[c] = 0
                      /\ wire[c] = "ok" => runs[c] = 1
                      /\ runs[c] \in 0..1
    BY DEF WireFitsCalls
  <2>1. call[c] = "idle" /\ wire[c] = "none" /\ runs[c] = 0
    BY <1>5
  <2> QED BY <2>1
<1> QED BY <1>3, <1>4 DEF TransportInv

\* Type correctness, and what is under way for a call fits what it went through.
THEOREM TransportIsSound == TransportSpec => []TransportInv
BY TransportInvInit, TransportInvStep, PTL DEF TransportSpec

-----------------------------------------------------------------------------
(* The refinement. *)

\* A step that settles the calls in cs as failed, none of them settled before.
LEMMA SettlingFails ==
    ASSUME NEW cs \in SUBSET Calls, \A c \in cs : call[c] \notin {"ok", "failed"},
           \A c \in Calls : call'[c] = IF c \in cs THEN "failed" ELSE call[c],
           UNCHANGED runs
    PROVE  Promised!Fail(cs)
BY DEF Promised!Fail, Outcome

\* A step that settles no call and carries none out.
LEMMA SettlesNothing ==
    ASSUME \A c \in Calls : \/ call'[c] = call[c]
                            \/ {call[c], call'[c]} \cap {"ok", "failed"} = {},
           UNCHANGED runs
    PROVE  UNCHANGED <<Outcome, runs>>
BY DEF Outcome

\* Every step of the transport is a step of RemoteCall, or changes nothing there.
LEMMA TransportRefines ==
    TransportInv /\ [TransportNext]_tvars => [Promised!CallNext]_<<Outcome, runs>>
<1> SUFFICES ASSUME TransportInv, [TransportNext]_tvars
             PROVE  Promised!CallNext \/ UNCHANGED <<Outcome, runs>>
  OBVIOUS
<1> USE DEF TransportInv, TransportTypeOK, WireFitsCalls, link, sockets, calls, daemon
<1>1. CASE Close
  <2>1. Promised!Fail(Pending)
    BY <1>1, SettlingFails DEF Close, Settle, Pending
  <2> QED BY <2>1 DEF Promised!CallNext, Pending
<1>2. CASE Reconnect \/ DaemonDies \/ UNCHANGED tvars
  BY <1>2, SettlesNothing DEF Reconnect, DaemonDies, tvars
<1>4. ASSUME NEW c \in Calls, Call(c) PROVE Promised!CallNext \/ UNCHANGED <<Outcome, runs>>
  <2>1. CASE call' = [call EXCEPT ![c] = "failed"]
    <3>1. Promised!Fail({c})
      BY <1>4, <2>1, SettlingFails DEF Call
    <3> QED BY <3>1 DEF Promised!CallNext
  <2>2. CASE call' = [call EXCEPT ![c] = "waiting"] \/ call' = [call EXCEPT ![c] = "sent"]
    BY <1>4, <2>2, SettlesNothing DEF Call
  <2> QED BY <1>4, <2>1, <2>2 DEF Call, Settle, Dispatch
<1>5. ASSUME NEW c \in Calls, CallTimeout(c) PROVE Promised!CallNext
  <2>1. Promised!Fail({c})
    BY <1>5, SettlingFails DEF CallTimeout, Settle
  <2> QED BY <2>1 DEF Promised!CallNext
<1>6. ASSUME NEW c \in Calls, CarriedOut(c) PROVE Promised!CallNext
  <2>1. UNCHANGED Outcome
    BY <1>6 DEF CarriedOut, Outcome
  <2>4. wire[c] = "command" /\ runs' = [runs EXCEPT ![c] = runs[c] + 1]
    BY <1>6 DEF CarriedOut
  <2>5. runs[c] = 0
    BY <2>4
  <2>2. runs[c] = 0 /\ runs' = [runs EXCEPT ![c] = 1]
    BY <2>4, <2>5
  <2>3. Promised!CarryOut(c)
    BY <2>1, <2>2 DEF Promised!CarryOut
  <2> QED BY <2>3 DEF Promised!CallNext
<1>7. ASSUME NEW c \in Calls, TurnedDown(c) PROVE UNCHANGED <<Outcome, runs>>
  BY <1>7 DEF TurnedDown, Outcome
<1>8. ASSUME NEW c \in Calls, AnswerArrives(c)
      PROVE  Promised!CallNext \/ UNCHANGED <<Outcome, runs>>
  <2>1. CASE c \notin Pending
    BY <1>8, <2>1, SettlesNothing DEF AnswerArrives
  <2>2. CASE c \in Pending /\ wire[c] = "failed"
    <3>1. Promised!Fail({c})
      BY <1>8, <2>2, SettlingFails, ZenonT(60) DEF AnswerArrives, Settle, Pending
    <3> QED BY <3>1 DEF Promised!CallNext
  <2>3. CASE c \in Pending /\ wire[c] = "ok"
    <3>1. Outcome[c] = "none" /\ runs[c] = 1
      BY <2>3 DEF Outcome, Pending
    <3>2. \A d \in Calls : call'[d] = IF d = c THEN "ok" ELSE call[d]
      BY <1>8, <2>3 DEF AnswerArrives, Settle
    <3>4. Outcome' = [Outcome EXCEPT ![c] = "ok"]
      BY <3>2, ZenonT(60) DEF Outcome
    <3>3. Promised!Succeed(c)
      BY <1>8, <3>1, <3>4 DEF AnswerArrives, Promised!Succeed
    <3> QED BY <3>3 DEF Promised!CallNext
  <2> QED BY <1>8, <2>1, <2>2, <2>3 DEF AnswerArrives
<1>9. ASSUME NEW s \in Sockets, SocketOpens(s) \/ SocketBreaks(s)
      PROVE  UNCHANGED <<Outcome, runs>>
  BY <1>9, SettlesNothing DEF SocketOpens, SocketBreaks
<1>11. ASSUME NEW s \in Sockets, SocketCloses(s) PROVE Promised!CallNext
  <2>1. CASE closed
    <3>1. Promised!Fail(WaitingFor(s))
      BY <1>11, <2>1, SettlingFails, ZenonT(60) DEF SocketCloses, Settle, WaitingFor
    <3> QED BY <3>1 DEF Promised!CallNext, WaitingFor
  <2>2. CASE ~closed
    <3>1. Promised!Fail(WaitingFor(s) \cup Pending)
      BY <1>11, <2>2, SettlingFails, ZenonT(60) DEF SocketCloses, Settle, WaitingFor, Pending
    <3> QED BY <3>1 DEF Promised!CallNext, WaitingFor, Pending
  <2> QED BY <2>1, <2>2
<1>12. ASSUME NEW s \in Sockets, Refused(s) \/ HandshakeTimeout(s) PROVE Promised!CallNext
  <2>1. Settle(WaitingFor(s), "failed") /\ UNCHANGED runs
    BY <1>12 DEF Refused, HandshakeTimeout, GiveUp
  <2>2. Promised!Fail(WaitingFor(s))
    BY <2>1, SettlingFails DEF Settle, WaitingFor
  <2> QED BY <2>2 DEF Promised!CallNext, WaitingFor
<1>14. ASSUME NEW s \in Sockets, NEW granted \in BOOLEAN, Accepted(s, granted)
       PROVE  Promised!CallNext \/ UNCHANGED <<Outcome, runs>>
  <2>1. CASE granted
    BY <1>14, <2>1, SettlesNothing DEF Accepted, Dispatch, WaitingFor
  <2>2. CASE ~granted
    <3>1. Promised!Fail(WaitingFor(s))
      BY <1>14, <2>2, SettlingFails DEF Accepted, Dispatch, WaitingFor
    <3> QED BY <3>1 DEF Promised!CallNext, WaitingFor
  <2> QED BY <2>1, <2>2
<1> QED BY <1>1, <1>2, <1>4, <1>5, <1>6, <1>7, <1>8, <1>9, <1>11, <1>12, <1>14
        DEF TransportNext

LEMMA TransportStartsRight == TransportInit => Promised!CallInit
BY DEF TransportInit, Promised!CallInit, Outcome

\* The transport implements RemoteCall: a call is carried out at most once,
\* succeeds only if it was, and is settled once.
THEOREM TransportKeepsPromise == TransportSpec => CallsAreAtMostOnce
<1>1. TransportSpec => []TransportInv
  BY TransportIsSound
<1> QED BY <1>1, TransportStartsRight, TransportRefines, PTL
        DEF TransportSpec, CallsAreAtMostOnce, Promised!CallSpec

-----------------------------------------------------------------------------
(* One connection at a time.                                                 *)

\* No socket is the absence of one.
LEMMA SocketsAreSomething == \A s \in Sockets : s # NoSocket
BY DEF Sockets, NoSocket

Opening(s) == ready[s] \in {"connecting", "open"}

\* What holds of the sockets whether or not two were ever open together.
SocketsInOrder ==
    /\ \A s \in Sockets : ready[s] = "new" => ~settled[s] /\ ~guard[s]
    /\ \A s \in Sockets : ready[s] = "connecting" => ~settled[s]
    /\ socket # NoSocket => ready[socket] \in {"connecting", "open", "closing"}
    /\ closed => ~timer /\ socket = NoSocket

\* And what as long as none was opened while another was still closing: whichever
\* is alive is the current one; before its handshake it is what connect waits for,
\* behind it the page sees the state and the capabilities it got; and what was
\* sent was sent over it.
OneAtATime ==
    /\ \A s \in Sockets : Opening(s) => socket = s
    /\ \A s \in Sockets : ready[s] = "closing" => socket = s \/ closed
    /\ \A s \in Sockets : Opening(s) /\ ~settled[s] => promise = s /\ state # "open"
    /\ \A s \in Sockets : Opening(s) /\ settled[s] => state = "open" /\ caps = negotiated[s]
    /\ \A c \in Calls : call[c] = "sent" => via[c] = socket /\ socket # NoSocket

LinkInv == TransportInv /\ SocketsInOrder /\ (~overlapped => OneAtATime)

\* Nothing is open at first.
LEMMA LinkInitInv == TransportInit => LinkInv
<1> SUFFICES ASSUME TransportInit PROVE LinkInv
  OBVIOUS
<1>1. TransportInv
  BY TransportInvInit
<1>2. \A s \in Sockets : ready[s] = "new" /\ ~settled[s] /\ ~guard[s]
  BY Zenon DEF TransportInit
<1>3. socket = NoSocket /\ ~timer /\ ~closed /\ \A c \in Calls : call[c] = "idle"
  BY Zenon DEF TransportInit
<1> QED BY <1>1, <1>2, <1>3 DEF LinkInv, SocketsInOrder, OneAtATime, Opening

\* A connection is opened when there is none that could be used or is on its way.
LEMMA ConnectLinks ==
    ASSUME LinkInv, NEW s \in Sockets, Connect(s), ~closed, ~Usable, promise = NoSocket,
           timer' \in BOOLEAN,
           \A c \in Calls : call'[c] = "sent" => call[c] = "sent" /\ via'[c] = via[c]
    PROVE  SocketsInOrder' /\ (~overlapped' => OneAtATime')
<1> USE DEF LinkInv, TransportInv, TransportTypeOK
<1>1. /\ ready[s] = "new" /\ ready' = [ready EXCEPT ![s] = "connecting"]
      /\ guard' = [guard EXCEPT ![s] = TRUE] /\ socket' = s /\ promise' = s
      /\ state' \in {"connecting", "reconnecting"}
      /\ UNCHANGED <<settled, negotiated, closed, caps>>
  BY DEF Connect
<1>2. SocketsInOrder'
  BY <1>1 DEF SocketsInOrder
<1>3. ASSUME ~overlapped' PROVE OneAtATime'
  <2>1. ~overlapped /\ \A r \in Sockets : ready[r] # "closing"
    BY <1>3 DEF Connect
  <2>2. OneAtATime
    BY <2>1
  <2>3. \A r \in Sockets : ~Opening(r)
    <3> SUFFICES ASSUME NEW r \in Sockets, Opening(r) PROVE FALSE
      OBVIOUS
    <3>1. socket = r
      BY <2>2 DEF OneAtATime
    <3>2. r # promise
      BY SocketsAreSomething
    <3>3. settled[r]
      BY <2>2, <3>2, Zenon DEF OneAtATime
    <3>4. state = "open"
      BY <2>2, <3>3, Zenon DEF OneAtATime
    <3>5. ready[r] = "open"
      BY <3>3, Zenon DEF SocketsInOrder, Opening
    <3> QED BY <3>1, <3>4, <3>5, SocketsAreSomething, Zenon DEF Usable, Live
  <2>4. socket = NoSocket
    BY <2>1, <2>3 DEF SocketsInOrder, Opening
  <2>5. \A c \in Calls : call'[c] # "sent"
    BY <2>2, <2>4 DEF OneAtATime
  <2>6. ~settled'[s]
    BY <1>1 DEF SocketsInOrder
  <2>7. \A r \in Sockets : Opening(r)' => r = s
    BY <1>1, <2>3 DEF Opening
  <2>8. \A r \in Sockets : ready'[r] # "closing"
    BY <1>1, <2>1
  <2> QED BY <1>1, <2>5, <2>6, <2>7, <2>8 DEF OneAtATime
<1> QED BY <1>2, <1>3

\* Giving up on a socket leaves nothing open on it.
LEMMA GiveUpLinks ==
    ASSUME LinkInv, NEW s \in Sockets, GiveUp(s), ready[s] # "new",
           UNCHANGED <<state, closed, socket, timer, caps, negotiated, overlapped>>
    PROVE  SocketsInOrder' /\ (~overlapped' => OneAtATime')
<1> USE DEF LinkInv, TransportInv, TransportTypeOK
<1>1. /\ settled' = [settled EXCEPT ![s] = TRUE]
      /\ promise' \in {promise, NoSocket} /\ (promise' # promise => promise = s)
      /\ guard' = [guard EXCEPT ![s] = FALSE]
      /\ \A r \in Sockets \ {s} : ready'[r] = ready[r]
      /\ ready'[s] = IF ready[s] = "closed" THEN "closed" ELSE "closing"
      /\ \A c \in Calls : via'[c] = via[c] /\ (call'[c] = "sent" => call[c] = "sent")
  BY DEF GiveUp, Settle
<1>2. SocketsInOrder'
  BY <1>1 DEF SocketsInOrder
<1>3. ASSUME ~overlapped' PROVE OneAtATime'
  <2>1. OneAtATime
    BY <1>3
  <2>2. \A r \in Sockets : Opening(r)' => r # s /\ Opening(r) /\ (settled'[r] <=> settled[r])
    BY <1>1 DEF Opening
  <2>3. \A r \in Sockets : ready'[r] = "closing" => ready[r] = "closing" \/ (r = s /\ ready[r] # "closed")
    BY <1>1
  <2>4. ready[s] # "closed" => socket = s \/ closed
    BY <2>1 DEF OneAtATime, Opening
  <2> QED BY <1>1, <2>1, <2>2, <2>3, <2>4 DEF OneAtATime
<1> QED BY <1>2, <1>3

\* Every step keeps the invariant.
LEMMA LinkStepInv == LinkInv /\ [TransportNext]_tvars => LinkInv'
<1> SUFFICES ASSUME LinkInv, [TransportNext]_tvars PROVE LinkInv'
  OBVIOUS
<1>0. TransportInv /\ TransportInv'
  BY TransportInvStep DEF LinkInv
<1> DEFINE Goal == SocketsInOrder' /\ (~overlapped' => OneAtATime')
<1> SUFFICES Goal
  BY <1>0 DEF LinkInv
<1> USE DEF LinkInv, TransportInv, TransportTypeOK, link, sockets, calls, daemon
<1>1. CASE Close
  <2>1. /\ closed' /\ ~timer' /\ socket' = NoSocket
        /\ \A c \in Calls : call'[c] # "sent"
        /\ \A s \in Sockets : ready'[s] = IF s = socket /\ ready[s] # "closed" THEN "closing" ELSE ready[s]
        /\ UNCHANGED <<promise, caps, settled, guard, negotiated, overlapped>>
    BY <1>0, <1>1 DEF Close, Settle, Pending
  <2>2. SocketsInOrder'
    BY <2>1 DEF SocketsInOrder
  <2>3. ~overlapped => \A s \in Sockets : ~Opening(s)'
    BY <2>1 DEF OneAtATime, Opening
  <2> QED BY <2>1, <2>2, <2>3 DEF OneAtATime
<1>2. CASE Reconnect
  <2>1. timer /\ ~timer' /\ ~closed /\ UNCHANGED <<calls, closed>>
    BY <1>2 DEF Reconnect, Connect, SocketsInOrder
  <2>2. CASE Usable \/ promise # NoSocket
    BY <1>2, <2>1, <2>2 DEF Reconnect, SocketsInOrder, OneAtATime, Opening
  <2>3. CASE ~(Usable \/ promise # NoSocket)
    <3> PICK s \in Sockets : Connect(s)
      BY <1>2, <2>3 DEF Reconnect
    <3> QED BY <2>1, <2>3, <1>0, ConnectLinks
  <2> QED BY <2>2, <2>3
<1>3. CASE DaemonDies
  BY <1>3 DEF DaemonDies, SocketsInOrder, OneAtATime, Opening
<1>4. ASSUME NEW c \in Calls, Call(c) PROVE Goal
  <2>1. CASE closed
    BY <1>4, <2>1 DEF Call, Settle, SocketsInOrder, OneAtATime, Opening
  <2>2. CASE ~closed /\ Usable
    <3>1. /\ \A d \in Calls : call'[d] = "sent" => \/ call[d] = "sent" /\ via'[d] = via[d]
                                                   \/ via'[d] = socket
          /\ UNCHANGED <<link, sockets>>
      BY <1>4, <2>2 DEF Call, Dispatch
    <3>2. socket # NoSocket
      BY <2>2, Zenon DEF Usable, Live
    <3> QED BY <3>1, <3>2 DEF SocketsInOrder, OneAtATime, Opening
  <2>3. CASE ~closed /\ ~Usable /\ promise # NoSocket
    <3>1. /\ \A d \in Calls : call'[d] = "sent" => call[d] = "sent" /\ via'[d] = via[d]
          /\ UNCHANGED <<link, sockets>>
      BY <1>4, <2>3 DEF Call
    <3> QED BY <3>1 DEF SocketsInOrder, OneAtATime, Opening
  <2>4. CASE ~closed /\ ~Usable /\ promise = NoSocket
    <3> PICK s \in Sockets : /\ Connect(s)
                             /\ call' = [call EXCEPT ![c] = "waiting"]
                             /\ via' = [via EXCEPT ![c] = s]
      BY <1>4, <2>4 DEF Call
    <3>1. call[c] = "idle"
      BY <1>4 DEF Call
    <3>2. \A d \in Calls : call'[d] = "sent" => call[d] = "sent" /\ via'[d] = via[d]
      BY <3>1
    <3> QED BY <1>0, <2>4, <3>2, ConnectLinks
  <2> QED BY <2>1, <2>2, <2>3, <2>4
<1>5. ASSUME NEW c \in Calls, CallTimeout(c) PROVE Goal
  BY <1>5 DEF CallTimeout, Settle, SocketsInOrder, OneAtATime, Opening
<1>6. ASSUME NEW c \in Calls, CarriedOut(c) \/ TurnedDown(c) PROVE Goal
  BY <1>6 DEF CarriedOut, TurnedDown, SocketsInOrder, OneAtATime, Opening
<1>7. ASSUME NEW c \in Calls, AnswerArrives(c) PROVE Goal
  BY <1>7 DEF AnswerArrives, Settle, Pending, SocketsInOrder, OneAtATime, Opening
<1>8. ASSUME NEW s \in Sockets, SocketOpens(s) PROVE Goal
  BY <1>8 DEF SocketOpens, SocketsInOrder, OneAtATime, Opening
<1>9. ASSUME NEW s \in Sockets, SocketBreaks(s) PROVE Goal
  BY <1>9 DEF SocketBreaks, SocketsInOrder, OneAtATime, Opening
<1>10. ASSUME NEW s \in Sockets, SocketCloses(s) PROVE Goal
  <2>1. /\ ready[s] = "closing" /\ ready' = [ready EXCEPT ![s] = "closed"]
        /\ guard' = [guard EXCEPT ![s] = FALSE] /\ settled' = [settled EXCEPT ![s] = TRUE]
        /\ socket' = IF socket = s THEN NoSocket ELSE socket
        /\ UNCHANGED <<closed, negotiated, overlapped>>
        /\ closed => UNCHANGED timer
        /\ timer' \in BOOLEAN
    BY <1>0, <1>10 DEF SocketCloses
  <2>2. SocketsInOrder'
    BY <2>1 DEF SocketsInOrder
  <2>3. ASSUME ~overlapped' PROVE OneAtATime'
    <3>1. OneAtATime /\ (socket = s \/ closed)
      BY <2>1, <2>3 DEF OneAtATime
    <3>2. closed => socket = NoSocket
      BY DEF SocketsInOrder
    <3>3. \A r \in Sockets : ~Opening(r)'
      <4> SUFFICES ASSUME NEW r \in Sockets, Opening(r)' PROVE FALSE
        OBVIOUS
      <4>1. r # s /\ Opening(r)
        BY <2>1 DEF Opening
      <4>2. socket = r
        BY <3>1, <4>1 DEF OneAtATime
      <4> QED BY <3>1, <3>2, <4>1, <4>2, SocketsAreSomething
    <3>4. \A c \in Calls : call'[c] # "sent"
      <4>1. CASE closed
        BY <1>10, <3>1, <3>2, <4>1 DEF SocketCloses, Settle, OneAtATime
      <4>2. CASE ~closed
        BY <1>10, <4>2 DEF SocketCloses, Settle, Pending
      <4> QED BY <4>1, <4>2
    <3>5. \A r \in Sockets : ready'[r] = "closing" => closed'
      BY <2>1, <3>1 DEF OneAtATime
    <3> QED BY <3>3, <3>4, <3>5 DEF OneAtATime
  <2> QED BY <2>2, <2>3
<1>11. ASSUME NEW s \in Sockets, Refused(s) \/ HandshakeTimeout(s) PROVE Goal
  <2>1. GiveUp(s) /\ UNCHANGED <<state, closed, socket, timer, caps, negotiated, overlapped>>
    BY <1>11 DEF Refused, HandshakeTimeout
  <2>2. ready[s] # "new"
    BY <1>11 DEF Refused, HandshakeTimeout, SocketsInOrder
  <2> QED BY <2>1, <2>2, GiveUpLinks
<1>12. ASSUME NEW s \in Sockets, NEW granted \in BOOLEAN, Accepted(s, granted) PROVE Goal
  <2>1. /\ ready[s] = "open" /\ ~settled[s] /\ guard' = [guard EXCEPT ![s] = FALSE]
        /\ settled' = [settled EXCEPT ![s] = TRUE]
        /\ negotiated' = [negotiated EXCEPT ![s] = granted]
        /\ caps' = granted /\ state' = "open"
        /\ UNCHANGED <<closed, socket, timer, ready, overlapped>>
    BY <1>12 DEF Accepted
  <2>2. SocketsInOrder'
    BY <2>1 DEF SocketsInOrder
  <2>3. ASSUME ~overlapped' PROVE OneAtATime'
    <3>1. OneAtATime /\ socket = s
      BY <2>1, <2>3 DEF OneAtATime, Opening
    <3>2. \A r \in Sockets : Opening(r)' => r = s
      BY <2>1, <3>1 DEF OneAtATime, Opening
    <3>3. \A c \in Calls : call'[c] = "sent" => via'[c] = s
      BY <1>12, <3>1 DEF Accepted, Dispatch, OneAtATime
    <3>4. \A r \in Sockets : ready'[r] = "closing" => socket' = r \/ closed'
      BY <2>1, <3>1 DEF OneAtATime
    <3>5. settled'[s] /\ (caps' <=> negotiated'[s])
      BY <2>1
    <3>6. caps' = negotiated'[s]
      BY <2>1
    <3>7. \A r \in Sockets : Opening(r)' => socket' = r /\ settled'[r] /\ caps' = negotiated'[r]
      BY <2>1, <3>1, <3>2, <3>5, <3>6, Zenon
    <3>8. \A c \in Calls : call'[c] = "sent" => via'[c] = socket' /\ socket' # NoSocket
      BY <2>1, <3>1, <3>3, SocketsAreSomething
    <3> QED BY <2>1, <3>4, <3>7, <3>8, Zenon DEF OneAtATime
  <2> QED BY <2>2, <2>3
<1>13. CASE UNCHANGED tvars
  BY <1>13 DEF tvars, SocketsInOrder, OneAtATime, Opening
<1> QED BY <1>1, <1>2, <1>3, <1>4, <1>5, <1>6, <1>7, <1>8, <1>9, <1>10, <1>11, <1>12, <1>13
        DEF TransportNext

\* Unless a socket was opened while another was closing, the transport has one
\* connection at most, with what it negotiated, and calls are under way on it.
THEOREM ConnectionIsOne == TransportSpec => []OneConnection
<1>1. LinkInv => OneConnection
  <2> SUFFICES ASSUME LinkInv, ~overlapped PROVE OneConnection
    BY DEF OneConnection
  <2>1. OneAtATime /\ SocketsInOrder
    BY DEF LinkInv
  <2>2. OpenIsNegotiated
    <3> SUFFICES ASSUME Usable PROVE caps = negotiated[socket]
      BY DEF OpenIsNegotiated
    <3>1. socket \in Sockets /\ ready[socket] = "open" /\ state = "open"
      BY Zenon DEF LinkInv, TransportInv, TransportTypeOK, Usable, Live
    <3>2. Opening(socket)
      BY <3>1 DEF Opening
    <3> QED BY <2>1, <3>1, <3>2, Zenon DEF OneAtATime
  <2> QED BY <2>1, <2>2 DEF OneConnection, OneAtATime, Opening, Pending
<1> QED BY LinkInitInv, LinkStepInv, <1>1, PTL DEF TransportSpec
=============================================================================
